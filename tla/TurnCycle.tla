----------------------------- MODULE TurnCycle ------------------------------
(***************************************************************************)
(* run/turn_cycle.py, with the parts of run/runner.py, resilience/         *)
(* recovery.py, saves/ and store/ it drives: what one run's turns do to    *)
(* the game, to the quicksave files and to the stored record.              *)
(*                                                                         *)
(* Runner.tla is about who may drive the run; here there is one driver,    *)
(* and the question is whether the record says what the game went through. *)
(*                                                                         *)
(* A board is the sequence of the attempts that ended its game turns, so a *)
(* board of length n is at the start of, or within, game turn n + 1.       *)
(***************************************************************************)
EXTENDS Naturals, Sequences, FiniteSets, Audit

CONSTANTS
  MaxTurn,               \* bound: highest turn the model plays
  MaxFaults,             \* bound: faults and rewinds
  FaultKinds,            \* which of AllFaultKinds happen
  RecoveryAttemptLimit,  \* RunConfiguration.recovery_attempt_limit
  StopTurn               \* turn_reached(n)

AllFaultKinds ==
  {"raise",       \* a HarnessError that pauses the run
   "observation", \* an observation cannot be assembled during a turn
   "client",      \* the client dies
   "load",        \* SaveLoader.load raises
   "file",        \* a save file disappears
   "unended",     \* the agent's end-turn decision is refused or has no effect
   "rewind",      \* an operator's resume_from
   "retry"}       \* an operator's resume of a run paused by a failure

ASSUME ConstantsOK ==
  /\ MaxTurn \in Nat \ {0}
  /\ MaxFaults \in Nat
  /\ FaultKinds \subseteq AllFaultKinds
  /\ RecoveryAttemptLimit \in Nat \ {0}
  /\ StopTurn \in Nat

VARIABLES
  lifecycle,  \* the stored lifecycle, "failure" for a pause on a failure
  pc,         \* where the play loop is
  turn,       \* current_turn
  attempt,    \* attempt_index of the attempt under way
  began,      \* history: the board the attempt began on
  stepped,    \* the attempt has a completed decision step
  outcome,    \* DecisionLoopResult.outcome, "none" before the loop exits
  client,     \* the game client: "dead", "menu" or "game"
  board,      \* the board in the client, while it is in the game
  files,      \* the board in the save file of each turn that has one
  saved,      \* turns with a SavePoint record
  absent,     \* turns whose save is recorded missing
  pending,    \* <<turn, board>> of a save the game has yet to write, or <<>>
  owed,       \* history: turns whose recorded save is not what their file holds
  records,    \* the stored TurnCycle records
  status,     \* Run.record_completeness_status as persisted
  abandonments, \* turns with a turn_abandoned event
  resumptions,  \* resumed events: [turn, paired], see Audit
  faults,     \* faults and rewinds so far (bound)
  departures  \* history: which of Departures have happened

attemptVars == <<turn, attempt, began, stepped, outcome>>
gameVars == <<client, board>>
saveVars == <<files, saved, absent, pending, owed>>
eventVars == <<abandonments, resumptions>>
faultVars == <<faults, departures>>
vars == <<lifecycle, pc, attemptVars, gameVars, saveVars, records, eventVars,
          status, faultVars>>

Turns == 1 .. MaxTurn

GameTurn(b) == Len(b) + 1

(* What can take the record or the board off the straight line of play. *)
Departures == {"unended", "rewind", "retry"}

Injected(kind) ==
  /\ kind \in FaultKinds
  /\ faults < MaxFaults
  /\ faults' = faults + 1
  /\ departures' = departures \cup ({kind} \cap Departures)

-----------------------------------------------------------------------------
(* The store *)

RecordsOf(t) == {r \in records : r.turn = t}

Authoritative == {r \in records : r.authoritative}

AuthoritativeTurns(recs) == {r.turn : r \in {q \in recs : q.authoritative}}

MaxOf(S) == CHOOSE x \in S : \A y \in S : y <= x

(* _next_attempt_index: one past the highest attempt on record. *)
NextAttemptIndex_AfterAuthoritative(t) ==
  Cardinality({r \in RecordsOf(t) : r.authoritative})
NextAttemptIndex(t) ==
  IF RecordsOf(t) = {} THEN 0 ELSE MaxOf({r.index : r \in RecordsOf(t)}) + 1

(* write_turn_cycle refuses a second write of an attempt's triple (D4) and *)
(* a second authoritative attempt at a turn (I9).                          *)
WriteRefused(rec) ==
  \/ \E r \in RecordsOf(rec.turn) : r.index = rec.index
  \/ rec.authoritative /\ rec.turn \in AuthoritativeTurns(records)

(* turn_gaps: up to the highest recorded turn, and up to the highest       *)
(* attempted one when the run is not actively playing.                     *)
TurnGaps(state, recs) ==
  LET present == AuthoritativeTurns(recs)
      attempted == IF state = "playing" THEN {} ELSE saved
  IN (1 .. MaxOf({0} \cup present \cup attempted)) \ present

(* record_completeness_status.  step_gaps is left out: the loop numbers an *)
(* attempt's steps from 1 without a hole.                                  *)
Completeness(state, recs) ==
  IF saved = {} THEN "unknown"
  ELSE IF TurnGaps(state, recs) # {} THEN "has_gaps" ELSE "complete"

RefreshCompleteness(state, recs) == status' = Completeness(state, recs)

-----------------------------------------------------------------------------
Init ==
  /\ lifecycle = "playing"
  /\ pc = "top"
  /\ turn = 0
  /\ attempt = 0
  /\ began = <<>>
  /\ stepped = FALSE
  /\ outcome = "none"
  /\ client = "game"
  /\ board = <<>>
  /\ files = <<>>
  /\ saved = {}
  /\ absent = {}
  /\ pending = <<>> /\ owed = {}
  /\ records = {}
  /\ status = "unknown"
  /\ abandonments = {} /\ resumptions = {}
  /\ faults = 0
  /\ departures = {}

(* The coroutine returns: nothing plays the run until an operator acts. *)
Park(state) ==
  /\ lifecycle' = state
  /\ pc' = "parked"
  /\ UNCHANGED attemptVars

(* _pause_on_failure re-derives the completeness status. *)
PauseOnFailure_NoRefresh == Park("failure") /\ UNCHANGED status
PauseOnFailure ==
  /\ Park("failure")
  /\ RefreshCompleteness("paused", records)

(* What a fresh or replayed attempt starts from. *)
BeginAttempt(index, b) ==
  /\ attempt' = index
  /\ began' = b
  /\ stepped' = FALSE
  /\ outcome' = "none"
  /\ UNCHANGED turn

-----------------------------------------------------------------------------
(* The turn boundary *)

StopAtBoundary ==
  /\ pc = "top"
  /\ Park("finished")
  /\ RefreshCompleteness("finished", records)
  /\ UNCHANGED <<gameVars, saveVars, records, eventVars, faultVars>>

(* A requested pause lands: _advance, which leaves the status as it was. *)
PauseAtBoundary ==
  /\ pc = "top"
  /\ Park("paused")
  /\ UNCHANGED <<gameVars, saveVars, records, eventVars, status, faultVars>>

BeginTurn ==
  /\ pc = "top"
  /\ turn < MaxTurn
  /\ turn' = turn + 1
  /\ attempt' = NextAttemptIndex(turn + 1)
  /\ pc' = "quicksave"
  /\ UNCHANGED <<lifecycle, began, stepped, outcome, gameVars, saveVars,
                 records, eventVars, status, faultVars>>

-----------------------------------------------------------------------------
(* write_save_point, once the quicksave is verified. *)
RecordSavePoint == saved' = saved \cup {turn}

(* Network.SaveGame returns before the file is written.  The save is named *)
(* after the turn, so a replay writes over the file of the turn it replays. *)
Written(t, b) == [u \in DOMAIN files \cup {t} |-> IF u = t THEN b ELSE files[u]]
SaveGame(landed) ==
  /\ files' = IF landed THEN Written(turn, board) ELSE files
  /\ pending' = IF landed THEN <<>> ELSE <<turn, board>>
  /\ owed' = IF landed THEN owed \ {turn} ELSE owed \cup {turn}

(* verify_save: a file of that name, of one size in two reads.  It may be  *)
(* the file of an earlier line of play, the new one not begun.  (A file    *)
(* that lands after its verification failed has no save point: left out.)  *)
VerifySave(landed) == landed \/ turn \in DOMAIN files

(* _detect_between_turns and _take_quicksave. *)
TakeQuicksave ==
  /\ pc = "quicksave"
  /\ client = "game" /\ pending = <<>>
  /\ \E landed \in BOOLEAN : VerifySave(landed) /\ SaveGame(landed)
  /\ RecordSavePoint
  /\ pc' = "deciding"
  /\ BeginAttempt(attempt, board)
  /\ UNCHANGED <<lifecycle, gameVars, absent, records, eventVars, status, faultVars>>

(* A dead client, no headroom, a refused or unverified save: the turn      *)
(* never comes into existence as an attempt.                               *)
QuicksaveFails ==
  /\ pc = "quicksave"
  /\ IF client = "game" THEN Injected("raise") ELSE UNCHANGED faultVars
  /\ PauseOnFailure
  /\ UNCHANGED <<gameVars, saveVars, records, eventVars>>

-----------------------------------------------------------------------------
(* The decision loop, as far as it bears on the turn *)

CompleteStep ==
  /\ pc = "deciding"
  /\ client = "game"
  /\ ~stepped
  /\ stepped' = TRUE
  /\ UNCHANGED <<lifecycle, pc, turn, attempt, began, outcome, gameVars,
                 saveVars, records, eventVars, status, faultVars>>

(* The agent decides to end the turn and the game is told at once, before  *)
(* the step is observed, verified or recorded.                             *)
AgentEndsTurn ==
  /\ pc = "deciding"
  /\ client = "game"
  /\ \/ /\ board' = Append(board, <<turn, attempt>>)
        /\ UNCHANGED faultVars
     \/ /\ Injected("unended")
        /\ UNCHANGED board
  /\ pc' = "ending"
  /\ UNCHANGED <<lifecycle, attemptVars, client, saveVars, records, eventVars, status>>

(* The step is observed and built; the loop ends on the decision, whatever *)
(* its execution came to.                                                  *)
LoopEndedByAgent ==
  /\ pc = "ending"
  /\ client = "game"
  /\ outcome' = "ended_by_agent"
  /\ stepped' = TRUE
  /\ pc' = "persist"
  /\ UNCHANGED <<lifecycle, turn, attempt, began, gameVars, saveVars, records, eventVars,
                 status, faultVars>>

(* The no-progress streak reached its limit. *)
LoopEndedOnNoProgress ==
  /\ pc = "deciding"
  /\ stepped
  /\ client = "game"
  /\ outcome' = "ended_on_no_progress"
  /\ pc' = "persist"
  /\ UNCHANGED <<lifecycle, turn, attempt, began, stepped, gameVars, saveVars,
                 records, eventVars, status, faultVars>>

(* ProviderChainExhausted, UnknownScreenEncountered, ParityViolation, or   *)
(* the tuner lost while an action is executed, which may be the end-turn   *)
(* the game has already taken: the attempt is dropped with no record of it. *)
LoopRaises ==
  /\ pc \in {"deciding", "ending"}
  /\ Injected("raise")
  /\ PauseOnFailure
  /\ UNCHANGED <<gameVars, saveVars, records, eventVars>>

(* MidTurnObservationFailure, on a step whose action already executed or   *)
(* before one: the steps completed so far are kept, if there are any.      *)
ObservationFails ==
  /\ pc \in {"deciding", "ending"}
  /\ Injected("observation")
  /\ LET rec == [turn |-> turn, index |-> attempt, authoritative |-> FALSE,
                 abandoned |-> TRUE, began |-> began]
     IN IF ~stepped
          THEN pc' = "reloading" /\ UNCHANGED <<records, lifecycle, status>>
        ELSE IF WriteRefused(rec)
          THEN PauseOnFailure /\ UNCHANGED records
        ELSE /\ records' = records \cup {rec}
             /\ pc' = "reloading"
             /\ UNCHANGED <<lifecycle, status>>
  /\ UNCHANGED <<attemptVars, gameVars, saveVars, eventVars>>

(* ClientFaultDetected: the loop is cancelled, and its steps with it. *)
ClientFaultDetected ==
  /\ pc \in {"deciding", "ending"}
  /\ client # "game"
  /\ pc' = "recovering"
  /\ UNCHANGED <<lifecycle, attemptVars, gameVars, saveVars, records, eventVars, status,
                 faultVars>>

-----------------------------------------------------------------------------
(* SaveLoader.load of the save of turn t, as the recovery engine and       *)
(* resume_from use it: the file must be there, a client must answer, and   *)
(* the game must come back at the turn the save is named after.  A client  *)
(* that lives has written its save before it has gone through the menu.    *)
Loads(t) ==
  /\ pending = <<>>
  /\ t \in DOMAIN files
  /\ client # "dead"
  /\ GameTurn(files[t]) = t

LoadInto_KeepsGame(t) == client' = "game" /\ UNCHANGED board
LoadInto(t) == client' = "game" /\ board' = files[t]

(* A load that fails once the client has been taken to the menu leaves it  *)
(* there, or in the game it should not have loaded.                        *)
LoadFailed(t) ==
  /\ pending = <<>> /\ t \in DOMAIN files
  /\ IF client = "dead" THEN UNCHANGED <<gameVars, faultVars>>
     ELSE IF GameTurn(files[t]) # t THEN LoadInto(t) /\ UNCHANGED faultVars
     ELSE /\ Injected("load")
          /\ client' = "menu"
          /\ UNCHANGED board

Recovering == pc \in {"reloading", "recovering"}

(* _ensure_interrupted_and_resuming: the engine records an abandonment for *)
(* a run it finds playing (a paused run is put through playing first), and *)
(* none for one an earlier attempt left at resuming.                       *)
Abandoned_OnlyIfStepped(t) ==
  abandonments' = IF lifecycle = "resuming" \/ ~stepped THEN abandonments
                  ELSE abandonments \cup {t}
Abandoned(t) ==
  abandonments' = IF lifecycle = "resuming" THEN abandonments
                  ELSE abandonments \cup {t}

AbandonedOnly(t) == Abandoned(t) /\ UNCHANGED resumptions

(* The resumed event, once the save is loaded. *)
Resumed(t) ==
  /\ Abandoned(t)
  /\ resumptions' = resumptions \cup {[turn |-> t, paired |-> t \in abandonments']}

(* Recovery reloads the turn's start save and the attempt is replayed. *)
Recover ==
  /\ Recovering
  /\ Loads(turn)
  /\ Resumed(turn)
  /\ LoadInto(turn)
  /\ BeginAttempt(attempt + 1, files[turn])
  /\ pc' = "deciding"
  /\ UNCHANGED <<lifecycle, saveVars, records, status, faultVars>>

(* After a client fault the liveness check is made once more, and a client *)
(* that still fails it stops the run.                                      *)
StillFaulty ==
  /\ pc = "recovering"
  /\ Loads(turn)
  /\ Resumed(turn)
  /\ Injected("raise")
  /\ LoadInto(turn)
  /\ PauseOnFailure
  /\ UNCHANGED <<saveVars, records>>

(* The engine gives up: at its limit it fails the run, below it the error  *)
(* reaches the runner, which pauses the run.  Each turn has a new engine,  *)
(* so the first failure is also the first counted.                         *)
RecoveryFails ==
  /\ Recovering
  /\ LoadFailed(turn)
  /\ AbandonedOnly(turn)
  /\ LET state == IF 1 >= RecoveryAttemptLimit THEN "failed" ELSE "failure"
     IN Park(state) /\ RefreshCompleteness(state, records)
  /\ UNCHANGED <<saveVars, records>>

RecoveryFindsNoFile ==
  /\ Recovering
  /\ turn \notin DOMAIN files
  /\ AbandonedOnly(turn)
  /\ absent' = absent \cup {turn}
  /\ Park("failed")
  /\ RefreshCompleteness("failed", records)
  /\ UNCHANGED <<gameVars, files, saved, pending, owed, records, faultVars>>

-----------------------------------------------------------------------------
(* write_then_advance, the backstop, and the runner's look at the outcome  *)

AtStop == turn >= StopTurn

(* The turn is over for the runner: finished, or on to the next boundary.  *)
TurnReturns(recs) ==
  /\ IF AtStop THEN Park("finished")
               ELSE pc' = "top" /\ UNCHANGED <<lifecycle, attemptVars>>
  /\ RefreshCompleteness(IF AtStop THEN "finished" ELSE "playing", recs)

Persist ==
  LET rec == [turn |-> turn, index |-> attempt, authoritative |-> TRUE,
              abandoned |-> FALSE, began |-> began]
      recs == records \cup {rec}
  IN /\ pc = "persist"
     /\ ~WriteRefused(rec)
     /\ records' = recs
     /\ IF outcome = "ended_by_agent"
          THEN TurnReturns(recs)
          ELSE pc' = "backstop" /\ UNCHANGED <<lifecycle, attemptVars, status>>
     /\ UNCHANGED <<gameVars, saveVars, eventVars, faultVars>>

PersistFails ==
  /\ pc = "persist"
  /\ IF WriteRefused([turn |-> turn, index |-> attempt, authoritative |-> TRUE,
                      abandoned |-> FALSE, began |-> began])
       THEN UNCHANGED faultVars
       ELSE Injected("raise")
  /\ PauseOnFailure
  /\ UNCHANGED <<gameVars, saveVars, records, eventVars>>

(* _dispatch_backstop_end_turn, verified by the turn-number readback. *)
BackstopEndsTurn ==
  /\ pc = "backstop"
  /\ client = "game"
  /\ board' = Append(board, <<turn, attempt>>)
  /\ TurnReturns(records)
  /\ UNCHANGED <<client, saveVars, records, eventVars, faultVars>>

(* BackstopEndTurnNotConfirmed, or the client is gone: the turn is on      *)
(* record and the game has not been seen to leave it.                      *)
BackstopFails ==
  /\ pc = "backstop"
  /\ IF client = "game" THEN Injected("raise") ELSE UNCHANGED faultVars
  /\ PauseOnFailure
  /\ UNCHANGED <<gameVars, saveVars, records, eventVars>>

-----------------------------------------------------------------------------
(* The operator *)

(* request_resume of a run paused at a boundary, or after a failure. *)
Resume ==
  /\ pc = "parked"
  /\ \/ lifecycle = "paused" /\ UNCHANGED faultVars
     \/ lifecycle = "failure" /\ Injected("retry")
  /\ lifecycle' = "playing"
  /\ pc' = "top"
  /\ UNCHANGED <<attemptVars, gameVars, saveVars, records, eventVars, status>>

Rewindable(t) ==
  /\ pc = "parked"
  /\ lifecycle \in {"paused", "failure", "resuming"}
  /\ t \in saved \ absent

(* current_turn is the turn before the one the loop will claim next. *)
RewoundTo_OffByOne(t) == t
RewoundTo(t) == t - 1

(* resume_from: the save is loaded, every authoritative attempt from t on  *)
(* is superseded (never deleted), and play goes on from t.                 *)
ResumeFrom(t) ==
  /\ Rewindable(t)
  /\ Loads(t)
  /\ Injected("rewind")
  /\ LoadInto(t)
  /\ records' = {[r EXCEPT !.authoritative = @ /\ r.turn < t] : r \in records}
  /\ lifecycle' = "playing"
  /\ RefreshCompleteness("playing", records')
  /\ turn' = RewoundTo(t)
  /\ pc' = "top"
  /\ Resumed(t)
  /\ UNCHANGED <<attempt, began, stepped, outcome, saveVars>>

(* A rewind that can not be carried out leaves the run at resuming, or     *)
(* failed by the engine; nothing is superseded, the status not re-derived. *)
ResumeFromFails(t) ==
  /\ Rewindable(t)
  /\ LoadFailed(t)
  /\ AbandonedOnly(t)
  /\ lifecycle' = IF 1 >= RecoveryAttemptLimit THEN "failed" ELSE "resuming"
  /\ UNCHANGED <<pc, attemptVars, saveVars, records, status>>

ResumeFromFindsNoFile(t) ==
  /\ Rewindable(t)
  /\ t \notin DOMAIN files
  /\ AbandonedOnly(t)
  /\ absent' = absent \cup {t}
  /\ lifecycle' = "failed"
  /\ UNCHANGED <<pc, attemptVars, gameVars, files, saved, pending, owed, records, status,
                 faultVars>>

-----------------------------------------------------------------------------
(* The world: the client dies at any moment, and someone starts it again;  *)
(* a save file is written, or deleted.                                     *)

ClientDies ==
  /\ client # "dead"
  /\ Injected("client")
  /\ client' = "dead" /\ pending' = <<>>
  /\ UNCHANGED <<lifecycle, pc, attemptVars, board, files, saved, absent, owed, records,
                 eventVars, status>>

SaveLands ==
  /\ pending # <<>>
  /\ files' = Written(pending[1], pending[2])
  /\ pending' = <<>> /\ owed' = owed \ {pending[1]}
  /\ UNCHANGED <<lifecycle, pc, attemptVars, gameVars, saved, absent, records, eventVars,
                 status, faultVars>>

ClientRelaunched ==
  /\ client = "dead"
  /\ client' = "menu"
  /\ UNCHANGED <<lifecycle, pc, attemptVars, board, saveVars, records, eventVars, status,
                 faultVars>>

FileLost(t) ==
  /\ t \in DOMAIN files
  /\ Injected("file")
  /\ files' = [u \in DOMAIN files \ {t} |-> files[u]]
  /\ UNCHANGED <<lifecycle, pc, attemptVars, gameVars, saved, absent, pending, owed, records,
                 eventVars, status>>

-----------------------------------------------------------------------------
PlayLoop ==
  \/ StopAtBoundary
  \/ PauseAtBoundary
  \/ BeginTurn
  \/ TakeQuicksave
  \/ QuicksaveFails
  \/ CompleteStep
  \/ AgentEndsTurn
  \/ LoopEndedByAgent
  \/ LoopEndedOnNoProgress
  \/ LoopRaises
  \/ ObservationFails
  \/ ClientFaultDetected
  \/ Recover
  \/ StillFaulty
  \/ RecoveryFails
  \/ RecoveryFindsNoFile
  \/ Persist
  \/ PersistFails
  \/ BackstopEndsTurn
  \/ BackstopFails

Operator ==
  \/ Resume
  \/ \E t \in Turns :
       ResumeFrom(t) \/ ResumeFromFails(t) \/ ResumeFromFindsNoFile(t)

World ==
  \/ ClientDies
  \/ ClientRelaunched
  \/ SaveLands
  \/ \E t \in Turns : FileLost(t)

Next == PlayLoop \/ Operator \/ World

Spec == Init /\ [][Next]_vars

-----------------------------------------------------------------------------
(* Properties *)

Boards == Seq(Turns \X Nat)

Attempts == [turn : Turns, index : Nat, authoritative : BOOLEAN, abandoned : BOOLEAN,
             began : Boards]

ControlTyped ==
  /\ lifecycle \in {"playing", "paused", "failure", "resuming", "finished",
                    "failed"}
  /\ pc \in {"top", "quicksave", "deciding", "ending", "persist", "backstop",
             "reloading", "recovering", "parked"}
  /\ stepped \in BOOLEAN
  /\ outcome \in {"none", "ended_by_agent", "ended_on_no_progress"}
  /\ status \in {"unknown", "has_gaps", "complete"}
  /\ faults \in 0 .. MaxFaults
  /\ departures \subseteq Departures

PlayTyped ==
  /\ turn \in 0 .. MaxTurn /\ attempt \in Nat /\ began \in Boards
  /\ client \in {"dead", "menu", "game"} /\ board \in Boards

SavesTyped ==
  /\ saved \subseteq Turns /\ absent \subseteq saved /\ owed \subseteq saved
  /\ DOMAIN files \subseteq saved
  /\ \A t \in DOMAIN files : files[t] \in Boards

TypeOK == ControlTyped /\ PlayTyped /\ SavesTyped /\ records \subseteq Attempts

(* Through crashes of the client, lost saves, failed loads and replays the *)
(* authoritative attempts are one game, played through once: each of them  *)
(* began on the board the authoritative attempts of all the turns before   *)
(* it led to.  No turn is skipped, none is played on an abandoned board,   *)
(* none is recorded under another turn's number.  Not so once an operator  *)
(* has rewound or retried, or the game has not taken an end-turn.          *)
RecordsChain ==
  departures = {} =>
    \A r \in Authoritative :
      /\ Len(r.began) = r.turn - 1
      /\ \A i \in 1 .. r.turn - 1 :
           \E q \in Authoritative : q.turn = i /\ r.began[i] = <<i, q.index>>

(* A replayed attempt starts on the board its turn began on, on every line *)
(* of play.  Not so when the client died before it wrote a save that was   *)
(* verified on the file of an earlier line: that file is loaded.           *)
ReplayStartsWhereItBegan ==
  [][Recovering /\ pc' = "deciding" /\ turn \notin owed =>
       board' = began /\ began' = began]_vars

(* A record is filed under the game turn that was being played, whatever   *)
(* the rewinds: the runner's counter and the game's agree (runner.py's     *)
(* module docstring on FR-009).  A retry of a failed turn and an end-turn  *)
(* the game did not take set the two apart.                                *)
RecordNamesGameTurn ==
  departures \subseteq {"rewind"} =>
    \A r \in records : GameTurn(r.began) = r.turn

(* The store never has a reason to refuse a turn's record: whatever was    *)
(* abandoned, replayed or rewound, the attempt has an index of its own and *)
(* no other attempt at the turn is authoritative (D4, I9).                 *)
PersistNeverRefused ==
  pc = "persist" =>
    ~WriteRefused([turn |-> turn, index |-> attempt, authoritative |-> TRUE,
                   abandoned |-> FALSE, began |-> began])

Derived == Completeness(IF lifecycle = "failure" THEN "paused" ELSE lifecycle,
                        records)

(* When the runner has recorded a stop, the persisted completeness status  *)
(* is what the record says (refresh_run_completeness at every stop).       *)
StatusTruthfulAtStop ==
  pc = "parked" /\ lifecycle \in {"failure", "finished"} => status = Derived

(* What audit recovery and audit completeness say of the run, together. No *)
(* abandoned attempt is ever the authoritative one; a resumption lacks its *)
(* abandonment only after an operator's rewind (one that failed, then one  *)
(* to another turn); and once the run has stopped, a turn abandoned before *)
(* it completed a step, of which no attempt is on record, is a hole the    *)
(* completeness audit names, never only an event.                          *)
AuditsAgree ==
  LET found == AuditRecovery(abandonments, resumptions, records)
      holes == AuditCompleteness(TurnGaps(lifecycle, records), 0)
  IN /\ \A f \in found : f.kind # "abandoned_attempt_still_authoritative"
     /\ "rewind" \notin departures =>
          \A f \in found : f.kind # "resumed_without_abandonment"
     /\ pc = "parked" =>
          \A f \in found : f.kind = "abandoned_turn_missing_from_record" =>
             Finding("turn_gap", f.turn, 0) \in holes

(* The game leaves no turn whose attempt is not on record (data-model.md   *)
(* I3; turn_cycle.py: no path reaches end-turn without a durable record).  *)
PersistedBeforeAdvance ==
  client = "game" =>
    \A i \in DOMAIN board :
      \E r \in records : <<r.turn, r.index>> = board[i]

(* When a turn is persisted, every earlier turn has its authoritative      *)
(* attempt (spec.md FR-042: never skip the turn).                          *)
NoTurnSkipped ==
  pc = "persist" => 1 .. turn - 1 \subseteq AuthoritativeTurns(records)

(* The authoritative record is the game that was played: in well-typed     *)
(* states the attempts chain, and each is under its game turn's number.    *)
RecordIsTheGame == TypeOK /\ RecordsChain /\ RecordNamesGameTurn
=============================================================================
