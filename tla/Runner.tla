------------------------------- MODULE Runner -------------------------------
(***************************************************************************)
(* run/runner.py: one run, its operator threads, its play-loop coroutines  *)
(* and the row MatchStore keeps for it.                                    *)
(*                                                                         *)
(* Operator commands arrive on worker threads (operator/api.py's handlers  *)
(* are plain functions, which the HTTP server runs on a thread pool); the  *)
(* play loop and every recovery run as coroutines on the runner's one      *)
(* event loop.  `self._lock` guards the in-memory state, and each action   *)
(* below is one stretch of code during which that lock is held, or one     *)
(* store write between two awaits.                                         *)
(*                                                                         *)
(* The in-memory Run (mem) and the stored row (row) are two variables on   *)
(* purpose: RecoveryEngine moves the row only, and the runner learns of it *)
(* when the turn returns.                                                  *)
(***************************************************************************)
EXTENDS Naturals, FiniteSets

CONSTANTS
  Operators,             \* threads that may issue commands
  Loops,                 \* slots for scheduled _play_run coroutines (bound)
  MaxTurn,               \* bound: highest turn the model plays
  MaxFaults,             \* bound: faults the environment injects
  FaultKinds,            \* which of AllFaultKinds the environment injects
  RecoveryAttemptLimit,  \* RunConfiguration.recovery_attempt_limit
  StopTurn,              \* turn_reached(n), or 0 for another stop condition
  FirstTurns             \* branch points `start` may begin from; 1 = fresh

AllFaultKinds ==
  {"preparation",   \* preparation finds a mismatch
   "turn",          \* a HarnessError before the turn's record is durable
   "after_persist", \* a HarnessError after it (the backstop's end-turn)
   "unexpected",    \* an exception that is not a HarnessError
   "recover",       \* a client fault or failed observation during a turn
   "still_faulty",  \* the client is still faulty after a recovery
   "load",          \* SaveLoader.load raises
   "missing",       \* SaveLoader.load finds no file
   "branch",        \* another run records one of these turns as its parent
   "outcome",       \* the game reports victory or defeat
   "sweep"}         \* another start drops this run's context: client gone

ASSUME ConstantsOK ==
  /\ Operators \cap Loops = {}
  /\ MaxTurn \in Nat \ {0}
  /\ MaxFaults \in Nat
  /\ FaultKinds \subseteq AllFaultKinds
  /\ RecoveryAttemptLimit \in Nat \ {0}
  /\ StopTurn \in Nat
  /\ FirstTurns \subseteq 1 .. MaxTurn

VARIABLES
  mem,            \* _RunState.run.lifecycle_state, "unknown" before _begin
  row,            \* the stored Run: lifecycle and stop_resolution
  turn,           \* _RunState.current_turn, 0 for None
  pauseReq,       \* _RunState.pause_requested
  stopReq,        \* _RunState.stop_requested
  lastError,      \* _RunState.last_error, by the handler that set it
  held,           \* run_contexts still holds the run's client and claim
  proc,           \* control state of each coroutine and operator thread
  saves,          \* turns with a recorded turn-start save
  absent,         \* turns whose save is recorded missing
  authoritative,  \* turns with an authoritative attempt on record
  lineage,        \* turns recorded as some branch's lineage point
  failedInARow,   \* history: recoveries failed since one last succeeded
  faults          \* faults injected so far (bound)

requests == <<pauseReq, stopReq>>
records == <<saves, absent, authoritative, lineage>>
vars == <<mem, row, turn, pauseReq, stopReq, lastError, held, proc, saves,
          absent, authoritative, lineage, failedInARow, faults>>

RL == INSTANCE RunLifecycle
        WITH lifecycle <- row.lifecycle, resolution <- row.resolution

Turns == 1 .. MaxTurn
Actors == Operators \cup Loops

(* Where a coroutine or an operator thread is.  The recovery positions     *)
(* (interrupting .. loading) are shared: RecoveryEngine.recover is driven  *)
(* by a play loop for a mid-turn fault and by resume_from for a rewind.    *)
ProcPC ==
  {"idle", "top", "boundary", "cycle", "decide", "failing",
   "accepted", "interrupting", "resuming", "loading", "superseding",
   "noting"}

(* The locals that outlive a lock release: the Run snapshot, the turn, the *)
(* turn resume_from read as abandoned_from_turn, the consecutive failures  *)
(* counted by the RecoveryEngine in use, and whether the exception in      *)
(* flight is one the engine raises after failing the run itself.           *)
At(pc, t, from, external) ==
  [pc |-> pc, run |-> "playing", turn |-> t, from |-> from, fails |-> 0,
   external |-> external]

Idle == At("idle", 0, 0, FALSE)
AtTop == At("top", 0, 0, FALSE)

Frames == [pc : ProcPC, run : RL!LifecycleState \cup {"unknown"},
           turn : 0 .. MaxTurn, from : 0 .. MaxTurn, fails : Nat,
           external : BOOLEAN]

-----------------------------------------------------------------------------
(* update_run: the fields are merged into the stored row and revalidated.  *)
(* A resolution of "none" leaves the stored one in place.                  *)
Merged_Forgets(res) == row.resolution
Merged(res) == IF res = "none" THEN row.resolution ELSE res

StoreAccepts_Anything(to, res) == TRUE
StoreAccepts(to, res) == RL!ValidRun(to, Merged(res))

StoreRow_ButPaused(to, res) ==
  row' = IF to = "paused" THEN row ELSE [lifecycle |-> to, resolution |-> Merged(res)]
StoreRow(to, res) ==
  row' = [lifecycle |-> to, resolution |-> Merged(res)]

Goto(a, pc) == proc' = [proc EXCEPT ![a].pc = pc]

Return(a) == proc' = [proc EXCEPT ![a] = Idle]

(* A slot for the coroutine _schedule(_play_run) creates. *)
FreeSlots == {l \in Loops : proc[l].pc = "idle"}

Injected(kind) ==
  /\ kind \in FaultKinds
  /\ faults < MaxFaults
  /\ faults' = faults + 1

(* _record_unexpected_failure, what an exception nobody expected leads to. *)
LastResort_Silent == UNCHANGED lastError
LastResort == lastError' = "unexpected"

(* The environment may inject the fault, or carry on. *)
NoFault == UNCHANGED faults

MaxOf(S) == CHOOSE x \in S : \A y \in S : y <= x
MinOf(S) == CHOOSE x \in S : \A y \in S : x <= y

-----------------------------------------------------------------------------
(* evaluate_stop: the primary resolution under the documented precedence.  *)
(* The facts evaluate_stop_facts supplies carry no operator stop and no    *)
(* unrecoverable failure, so only the game's outcome and the configured    *)
(* turn remain.                                                            *)
EvaluateStop_OutcomeOnly(t, outcome) == outcome
EvaluateStop(t, outcome) ==
  CASE outcome # "none" -> outcome
    [] outcome = "none" /\ StopTurn # 0 /\ t >= StopTurn -> "turn_reached"
    [] OTHER -> "none"

-----------------------------------------------------------------------------
Init ==
  /\ mem = "unknown"
  /\ row = [lifecycle |-> "preparing", resolution |-> "none"]
  /\ turn = 0
  /\ pauseReq = FALSE
  /\ stopReq = FALSE
  /\ lastError = "none"
  /\ held = TRUE
  /\ proc = [a \in Actors |-> Idle]
  /\ saves = {}
  /\ absent = {}
  /\ authoritative = {}
  /\ lineage = {}
  /\ failedInARow = 0
  /\ faults = 0

(* start / start_branch, the preparation verified: the row is advanced to  *)
(* playing, _begin registers the run and schedules its loop.  A branch     *)
(* replays its branch point, so current_turn is one less.                  *)
Begin(first, l) ==
  /\ mem = "unknown"
  /\ row.lifecycle = "preparing"
  /\ mem' = "playing"
  /\ StoreRow("playing", "none")
  /\ turn' = first - 1
  /\ proc' = [proc EXCEPT ![l] = AtTop]
  /\ UNCHANGED <<requests, lastError, held, records, failedInARow, faults>>

(* _fail_preparation: the row becomes failed, with no stop_resolution; the *)
(* claim and the client are released; _begin schedules nothing.            *)
FailPreparation ==
  /\ mem = "unknown"
  /\ row.lifecycle = "preparing"
  /\ Injected("preparation")
  /\ mem' = "failed"
  /\ StoreRow("failed", "none")
  /\ held' = FALSE
  /\ UNCHANGED <<turn, requests, lastError, proc, records, failedInARow>>

-----------------------------------------------------------------------------
(* Operator commands.  A refused command raises to its caller and changes  *)
(* nothing, so only the accepting paths are actions.                       *)

RequestPause(p) ==
  /\ proc[p].pc = "idle"
  /\ mem = "playing"
  /\ pauseReq' = TRUE
  /\ UNCHANGED <<mem, row, turn, stopReq, lastError, held, proc, records,
                 failedInARow, faults>>

(* request_resume of a paused run: advance, clear the request, schedule.   *)
Resume(p, l) ==
  /\ proc[p].pc = "idle"
  /\ mem = "paused"
  /\ StoreAccepts("playing", "none")
  /\ mem' = "playing"
  /\ StoreRow("playing", "none")
  /\ pauseReq' = FALSE
  /\ proc' = [proc EXCEPT ![l] = AtTop]
  /\ UNCHANGED <<turn, stopReq, lastError, held, records, failedInARow,
                 faults>>

(* request_resume before the pause has landed withdraws the request. *)
WithdrawPause(p) ==
  /\ proc[p].pc = "idle"
  /\ mem = "playing"
  /\ pauseReq
  /\ pauseReq' = FALSE
  /\ UNCHANGED <<mem, row, turn, stopReq, lastError, held, proc, records,
                 failedInARow, faults>>

RequestStop(p) ==
  /\ proc[p].pc = "idle"
  /\ mem # "unknown"
  /\ mem \notin RL!TERMINAL_STATES
  /\ stopReq' = TRUE
  /\ UNCHANGED <<mem, row, turn, pauseReq, lastError, held, proc, records,
                 failedInARow, faults>>

(* _require_resumable *)
Rewindable_WhilePlaying == mem \in {"playing", "paused", "interrupted", "resuming"}
Rewindable == mem \in {"paused", "interrupted", "resuming"}

(* resume_from up to its first lock release: the state is judged, the save *)
(* resolved from the store and the engine obtained (which needs the run's  *)
(* context); every check can refuse.                                       *)
ResumeFrom(p, t) ==
  /\ proc[p].pc = "idle"
  /\ Rewindable
  /\ t \in saves \ absent
  /\ held
  /\ proc' = [proc EXCEPT ![p] = At("accepted", t, turn, FALSE)]
  /\ UNCHANGED <<mem, row, turn, requests, lastError, held, records,
                 failedInARow, faults>>

(* Its second lock block: a paused run is advanced to playing, and the     *)
(* snapshot the engine will work from is taken.                            *)
TakeSnapshot(p) ==
  /\ proc[p].pc = "accepted"
  /\ IF mem = "paused"
       THEN IF StoreAccepts("playing", "none")
              THEN /\ mem' = "playing"
                   /\ StoreRow("playing", "none")
                   /\ proc' = [proc EXCEPT ![p].pc = "interrupting",
                                           ![p].run = "playing"]
              ELSE Return(p) /\ UNCHANGED <<mem, row>>
       ELSE /\ proc' = [proc EXCEPT ![p].pc = "interrupting",
                                    ![p].run = mem]
            /\ UNCHANGED <<mem, row>>
  /\ UNCHANGED <<turn, requests, lastError, held, records, failedInARow,
                 faults>>

-----------------------------------------------------------------------------
(* _play_run's turn boundary, under the lock. *)

Raise(a) == proc' = [proc EXCEPT ![a] = At("failing", 0, 0, FALSE)]

(* _finish: transition() raises unless mem may become finished. *)
Finish(l, res) ==
  IF RL!IsLegalTransition(mem, "finished")
    THEN /\ mem' = "finished"
         /\ StoreRow("finished", res)
         /\ Return(l)
    ELSE Raise(l) /\ UNCHANGED <<mem, row>>

StopAtBoundary(l) ==
  /\ proc[l].pc = "top"
  /\ stopReq
  /\ Finish(l, "operator_stop")
  /\ UNCHANGED <<turn, requests, lastError, held, records, failedInARow,
                 faults>>

PauseAtBoundary(l) ==
  /\ proc[l].pc = "top"
  /\ ~stopReq
  /\ pauseReq
  /\ IF RL!IsLegalTransition(mem, "paused") /\ StoreAccepts("paused", "none")
       THEN /\ mem' = "paused"
            /\ StoreRow("paused", "none")
            /\ Return(l)
       ELSE Raise(l) /\ UNCHANGED <<mem, row>>
  /\ UNCHANGED <<turn, requests, lastError, held, records, failedInARow,
                 faults>>

(* The turn is claimed and its collaborators built, a fresh RecoveryEngine *)
(* among them; a context dropped meanwhile is a KeyError, which no handler *)
(* but the last-resort one expects.                                        *)
BeginTurn_DespiteStop(l) ==
  /\ proc[l].pc = "top"
  /\ ~pauseReq
  /\ turn < MaxTurn
  /\ turn' = turn + 1
  /\ IF held
       THEN /\ proc' = [proc EXCEPT ![l] = At("boundary", turn + 1, 0, FALSE)]
            /\ UNCHANGED lastError
       ELSE Return(l) /\ LastResort
  /\ UNCHANGED <<mem, row, requests, held, records, failedInARow, faults>>

BeginTurn(l) ==
  /\ proc[l].pc = "top"
  /\ ~stopReq
  /\ ~pauseReq
  /\ turn < MaxTurn
  /\ turn' = turn + 1
  /\ IF held
       THEN /\ proc' = [proc EXCEPT ![l] = At("boundary", turn + 1, 0, FALSE)]
            /\ UNCHANGED lastError
       ELSE Return(l) /\ LastResort
  /\ UNCHANGED <<mem, row, requests, held, records, failedInARow, faults>>

-----------------------------------------------------------------------------
(* run_turn_cycle *)

(* state.run is read only once the lock is released, as the coroutine is   *)
(* entered; then the liveness check and the verified quicksave.            *)
TakeQuicksave(l) ==
  /\ proc[l].pc = "boundary"
  /\ \/ /\ NoFault
        /\ saves' = saves \cup {proc[l].turn}
        /\ proc' = [proc EXCEPT ![l].pc = "cycle", ![l].run = mem]
     \/ /\ Injected("turn")
        /\ Raise(l)
        /\ UNCHANGED saves
  /\ UNCHANGED <<mem, row, turn, requests, lastError, held, absent,
                 authoritative, lineage, failedInARow>>

(* The decision loop raises what it does not resolve: ProviderChainExhausted, *)
(* UnknownScreenEncountered, ParityViolation, a failed store write.        *)
TurnRaises(l) ==
  /\ proc[l].pc = "cycle"
  /\ Injected("turn")
  /\ Raise(l)
  /\ UNCHANGED <<mem, row, turn, requests, lastError, held, records,
                 failedInARow>>

(* An exception _play_run has no route for ends the coroutine. *)
TurnRaisesUnexpected(l) ==
  /\ proc[l].pc \in {"boundary", "cycle"}
  /\ Injected("unexpected")
  /\ Return(l)
  /\ LastResort
  /\ UNCHANGED <<mem, row, turn, requests, held, records, failedInARow>>

(* ClientFaultDetected or MidTurnObservationFailure: recover, then replay. *)
AbandonAttempt(l) ==
  /\ proc[l].pc = "cycle"
  /\ Injected("recover")
  /\ Goto(l, "interrupting")
  /\ UNCHANGED <<mem, row, turn, requests, lastError, held, records,
                 failedInARow>>

(* write_turn_cycle makes the attempt durable and authoritative, refusing  *)
(* a second authoritative attempt at the turn; only then may the backstop  *)
(* end the turn, and raise.                                                *)
PersistTurn(l) ==
  /\ proc[l].pc = "cycle"
  /\ IF proc[l].turn \in authoritative
       THEN Raise(l) /\ NoFault /\ UNCHANGED authoritative
       ELSE /\ authoritative' = authoritative \cup {proc[l].turn}
            /\ \/ NoFault /\ Goto(l, "decide")
               \/ Injected("after_persist") /\ Raise(l)
  /\ UNCHANGED <<mem, row, turn, requests, lastError, held, saves, absent,
                 lineage, failedInARow>>

(* The turn returned: mem becomes the Run the turn worked on, and the stop *)
(* condition is evaluated.  evaluate_stop_facts has already dropped the    *)
(* context, the claim and the client when it resolves.                     *)
EvaluateOutcome(l) ==
  /\ proc[l].pc = "decide"
  /\ \E outcome \in {"none", "victory", "defeat"} :
       /\ IF outcome = "none" THEN NoFault ELSE Injected("outcome")
       /\ LET res == EvaluateStop(proc[l].turn, IF held THEN outcome ELSE "none")
              run == proc[l].run
          IN IF res = "none"
               THEN /\ mem' = run
                    /\ proc' = [proc EXCEPT ![l] = AtTop]
                    /\ UNCHANGED <<row, held>>
               ELSE /\ held' = FALSE
                    /\ IF RL!IsLegalTransition(run, "finished")
                         THEN /\ mem' = "finished"
                              /\ StoreRow("finished", res)
                              /\ Return(l)
                         ELSE /\ mem' = run
                              /\ Raise(l)
                              /\ UNCHANGED row
  /\ UNCHANGED <<turn, requests, lastError, records, failedInARow>>

-----------------------------------------------------------------------------
(* RecoveryEngine.recover, on the event loop and outside the lock: it      *)
(* writes the row from its own copy of the Run and never touches mem.      *)

(* What the caller does with an exception: the play loop routes it, and    *)
(* resume_from notes it.                                                   *)
RecoveryRaises(a, external) ==
  proc' = [proc EXCEPT ![a] =
             At(IF a \in Loops THEN "failing" ELSE "noting", 0, 0,
                a \in Loops /\ external)]

(* _ensure_interrupted_and_resuming, first write.  A run it cannot take to *)
(* interrupted is refused.                                                 *)
Interrupt(a) ==
  /\ proc[a].pc = "interrupting"
  /\ CASE proc[a].run = "resuming" -> Goto(a, "loading") /\ UNCHANGED row
       [] proc[a].run = "interrupted" -> Goto(a, "resuming") /\ UNCHANGED row
       [] proc[a].run = "playing" /\ StoreAccepts("interrupted", "none") ->
            StoreRow("interrupted", "none") /\ Goto(a, "resuming")
       [] OTHER -> RecoveryRaises(a, FALSE) /\ UNCHANGED row
  /\ UNCHANGED <<mem, turn, requests, lastError, held, records, failedInARow,
                 faults>>

(* Its second write. *)
EnterResuming(a) ==
  /\ proc[a].pc = "resuming"
  /\ IF StoreAccepts("resuming", "none")
       THEN StoreRow("resuming", "none") /\ Goto(a, "loading")
       ELSE RecoveryRaises(a, FALSE) /\ UNCHANGED row
  /\ UNCHANGED <<mem, turn, requests, lastError, held, records, failedInARow,
                 faults>>

(* The load succeeded.  The play loop looks at the client once more before *)
(* it replays the turn.                                                    *)
LoadSucceeds(a) ==
  /\ proc[a].pc = "loading"
  /\ proc[a].turn \notin absent
  /\ StoreAccepts("playing", "none")
  /\ StoreRow("playing", "none")
  /\ failedInARow' = 0
  /\ LET next(pc) == proc' = [proc EXCEPT ![a].pc = pc, ![a].run = "playing",
                                          ![a].fails = 0]
     IN \/ NoFault /\ next(IF a \in Loops THEN "cycle" ELSE "superseding")
        \/ a \in Loops /\ Injected("still_faulty") /\ Raise(a)
  /\ UNCHANGED <<mem, turn, requests, lastError, held, records>>

LimitReached(fails) == fails >= RecoveryAttemptLimit

(* _on_recovery_attempt_failed: the load raised, or the row could not be   *)
(* taken back to playing.  At the limit the engine fails the run itself.   *)
LoadFails(a) ==
  /\ proc[a].pc = "loading"
  /\ proc[a].turn \notin absent
  /\ IF StoreAccepts("playing", "none") THEN Injected("load") ELSE NoFault
  /\ failedInARow' = failedInARow + 1
  /\ IF LimitReached(proc[a].fails + 1)
       THEN RecoveryRaises(a, TRUE) /\ StoreRow("failed", "unrecoverable_failure")
       ELSE RecoveryRaises(a, FALSE) /\ UNCHANGED row
  /\ UNCHANGED <<mem, turn, requests, lastError, held, records>>

(* FileNotFoundError: the absence is recorded and the run fails outright. *)
SaveFoundMissing(a) ==
  /\ proc[a].pc = "loading"
  /\ IF proc[a].turn \in absent THEN NoFault ELSE Injected("missing")
  /\ absent' = absent \cup {proc[a].turn}
  /\ StoreRow("failed", "unrecoverable_failure")
  /\ RecoveryRaises(a, TRUE)
  /\ UNCHANGED <<mem, turn, requests, lastError, held, saves, authoritative,
                 lineage, failedInARow>>

-----------------------------------------------------------------------------
(* The rest of resume_from *)

(* The last turn a record of which the replay would collide with. *)
LastReplayed_SnapshotOnly(p) == proc[p].turn
LastReplayed(p) == MaxOf(saves \cup {proc[p].from, proc[p].turn})

(* _supersede_replayed_turns, then the lineage event and the new loop, in  *)
(* one lock block.  The store refuses to supersede a lineage point, which  *)
(* raises out of the block after the earlier turns were superseded.        *)
ReplayFrom(p, l) ==
  LET from == proc[p].turn
      doomed == authoritative \cap (from .. LastReplayed(p))
      refused == doomed \cap lineage
  IN /\ proc[p].pc = "superseding"
     /\ mem' = proc[p].run
     /\ IF refused = {}
          THEN /\ authoritative' = authoritative \ doomed
               /\ turn' = from - 1
               /\ pauseReq' = FALSE
               /\ proc' = [proc EXCEPT ![p] = Idle, ![l] = AtTop]
          ELSE /\ authoritative' = authoritative \
                      {t \in doomed : t < MinOf(refused)}
               /\ Return(p)
               /\ UNCHANGED <<turn, pauseReq>>
     /\ UNCHANGED <<row, stopReq, lastError, held, saves, absent, lineage,
                    failedInARow, faults>>

(* _note_resume_failure *)
NoteResumeFailure(p) ==
  /\ proc[p].pc = "noting"
  /\ lastError' = "resume_failed"
  /\ mem' = row.lifecycle
  /\ Return(p)
  /\ UNCHANGED <<row, turn, requests, held, records, failedInARow, faults>>

-----------------------------------------------------------------------------
(* _handle_run_failure, in a lock acquisition of its own.  After           *)
(* RecoveryLimitReached or SaveAddressingError mem is read back from the   *)
(* row.  Then _pause_on_failure: nothing for a terminal run, otherwise a   *)
(* transition to paused from mem, which raises unless mem is playing; the  *)
(* last-resort handler then records what it can.                           *)
HandleRunFailure(l) ==
  LET state == IF proc[l].external THEN row.lifecycle ELSE mem
  IN /\ proc[l].pc = "failing"
     /\ Return(l)
     /\ IF state \in RL!TERMINAL_STATES
          THEN mem' = state /\ lastError' = "handled" /\ UNCHANGED row
        ELSE IF ~RL!IsLegalTransition(state, "paused")
          THEN mem' = state /\ LastResort /\ UNCHANGED row
        ELSE /\ mem' = "paused"
             /\ IF StoreAccepts("paused", "none")
                  THEN StoreRow("paused", "none") /\ lastError' = "handled"
                  ELSE LastResort /\ UNCHANGED row
     /\ UNCHANGED <<turn, requests, held, records, failedInARow, faults>>

-----------------------------------------------------------------------------
(* The rest of the process and of the store *)

ClientGone_IfPaused ==
  IF row.lifecycle \in RL!TERMINAL_STATES \cup {"paused"} THEN NoFault ELSE Injected("sweep")
ClientGone ==
  IF row.lifecycle \in RL!TERMINAL_STATES THEN NoFault ELSE Injected("sweep")

(* _release_terminal_run_clients, run at the start of any other run: the   *)
(* context goes when the row is terminal or its client is disconnected.    *)
ReleaseContext ==
  /\ held
  /\ mem # "unknown"
  /\ ClientGone
  /\ held' = FALSE
  /\ UNCHANGED <<mem, row, turn, requests, lastError, proc, records,
                 failedInARow>>

(* create_branch from another client writes the child's row, which names   *)
(* this run and turn as its parent position.                               *)
Branch(t) ==
  /\ Injected("branch")
  /\ t \in saves \ absent
  /\ lineage' = lineage \cup {t}
  /\ UNCHANGED <<mem, row, turn, requests, lastError, held, proc, saves,
                 absent, authoritative, failedInARow>>

-----------------------------------------------------------------------------
RecoveryStep(a) ==
  \/ Interrupt(a)
  \/ EnterResuming(a)
  \/ LoadSucceeds(a)
  \/ LoadFails(a)
  \/ SaveFoundMissing(a)

LoopStep(l) ==
  \/ StopAtBoundary(l)
  \/ PauseAtBoundary(l)
  \/ BeginTurn(l)
  \/ TakeQuicksave(l)
  \/ TurnRaises(l)
  \/ TurnRaisesUnexpected(l)
  \/ AbandonAttempt(l)
  \/ PersistTurn(l)
  \/ EvaluateOutcome(l)
  \/ RecoveryStep(l)
  \/ HandleRunFailure(l)

(* A command: a new thread's first lock block. *)
Command(p) ==
  \/ RequestPause(p)
  \/ \E l \in FreeSlots : Resume(p, l)
  \/ WithdrawPause(p)
  \/ RequestStop(p)
  \/ \E t \in Turns : ResumeFrom(p, t)

(* What a handler that has begun goes on to do. *)
Continue(p) ==
  \/ TakeSnapshot(p)
  \/ RecoveryStep(p)
  \/ \E l \in FreeSlots : ReplayFrom(p, l)
  \/ NoteResumeFailure(p)

Start ==
  \/ \E first \in FirstTurns, l \in Loops : Begin(first, l)
  \/ FailPreparation

Environment ==
  \/ ReleaseContext
  \/ \E t \in Turns : Branch(t)

Next ==
  \/ Start
  \/ \E p \in Operators : Command(p) \/ Continue(p)
  \/ \E l \in Loops : LoopStep(l)
  \/ Environment

Spec == Init /\ [][Next]_vars

(* The event loop keeps running whatever is ready on it, and a worker      *)
(* thread that has taken a command finishes it; nobody has to issue one.   *)
FairSpec ==
  /\ Spec
  /\ WF_vars(Start)
  /\ \A l \in Loops : WF_vars(LoopStep(l))
  /\ \A p \in Operators : WF_vars(Continue(p))

-----------------------------------------------------------------------------
(* Properties *)

TypeOK ==
  /\ mem \in RL!LifecycleState \cup {"unknown"}
  /\ row \in [lifecycle : RL!LifecycleState,
              resolution : RL!StopResolution \cup {"none"}]
  /\ turn \in 0 .. MaxTurn
  /\ pauseReq \in BOOLEAN /\ stopReq \in BOOLEAN /\ held \in BOOLEAN
  /\ lastError \in {"none", "handled", "resume_failed", "unexpected"}
  /\ proc \in [Actors -> Frames]
  /\ saves \subseteq Turns /\ absent \subseteq saves
  /\ authoritative \subseteq Turns /\ lineage \subseteq Turns
  /\ failedInARow \in Nat /\ faults \in Nat

Busy(a) == proc[a].pc # "idle"
AtRest == \A a \in Actors : ~Busy(a)
Playing == \E l \in Loops : Busy(l)

(* resume_from refuses to rewind under a live _play_run, and a resume only *)
(* schedules a loop for a paused run: a run never has two drivers, whether *)
(* two play loops or a loop and a rewind (_require_resumable's docstring). *)
OneDriver == \A a, b \in Actors : Busy(a) /\ Busy(b) => a = b

(* When nothing is running, the state get_status reports from memory is    *)
(* the state on record, unless the last-resort handler had to give up:     *)
(* every exit of the play loop, of the recovery engine and of resume_from  *)
(* reconciles the two (_resync_after_external_termination,                 *)
(* _note_resume_failure, _pause_on_failure).                               *)
AgreeAtRest ==
  AtRest /\ mem # "unknown" /\ lastError # "unexpected" => mem = row.lifecycle

(* A run that says it is playing has something playing it, or an error on  *)
(* show: the defect _play_run's docstring says it exists to close.         *)
NoSilentStrand == AtRest /\ mem = "playing" => lastError = "unexpected"

(* The record slot of the turn being played is free, so that its persist   *)
(* can not be refused: no rewind leaves behind an authoritative record at  *)
(* a turn the replay will reach (_supersede_replayed_turns' upper bound).  *)
SlotFree ==
  \A l \in Loops :
    proc[l].pc \in {"boundary", "cycle", "interrupting", "resuming", "loading"}
      => proc[l].turn \notin authoritative

(* The client, the context and the identity claim are given up only for a  *)
(* run whose row is terminal (evaluate_stop_facts gives them up before     *)
(* _finish records the transition; both happen in one lock block).         *)
HeldUntilTerminal == ~held => row.lifecycle \in RL!TERMINAL_STATES

(* recovery_attempt_limit failed recoveries in a row leave the run failed  *)
(* (RecoveryEngine.__init__: the counter must survive across separate      *)
(* interruptions; spec.md FR-048).                                         *)
RecoveryBounded ==
  failedInARow >= RecoveryAttemptLimit => row.lifecycle = "failed"

(* Whoever writes the row, and from however stale a copy, it never leaves  *)
(* a terminal state: update_run revalidates what it merges.                *)
TerminalStaysTerminal ==
  [][row.lifecycle \in RL!TERMINAL_STATES =>
       row'.lifecycle \in RL!TERMINAL_STATES]_vars

(* The stored row follows data-model.md section 4's graph, whichever of    *)
(* the runner and the engine writes it, each from its own copy.            *)
RowFollowsGraph == RL!RowSpec

(* A stop requested while the run is being played ends it at the next turn *)
(* boundary, through recoveries, rewinds and a pause requested as well: no *)
(* turn is begun after it, and the run is terminal, parked by a failure or *)
(* shows the last-resort error without having gone past the turn it was at *)
(* (request_stop only sets a flag, which _play_run reads between turns).   *)
StopLands ==
  \A t \in 0 .. MaxTurn :
    stopReq /\ Playing /\ turn = t ~>
      /\ turn <= t
      /\ \/ mem \in RL!TERMINAL_STATES
         \/ mem = "paused" /\ lastError # "none"
         \/ lastError = "unexpected"

(* Whatever is scheduled comes to an end: nothing waits for an answer that *)
(* never comes, and a run with a turn to stop at gets there or is parked.  *)
RunSettles == Playing ~> AtRest

=============================================================================
