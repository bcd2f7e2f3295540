# CivSim harness: a TLA+ verification project

`src/src/civsim_harness` lets a language model play Civilization VI: it attaches
to a running game through the tuner's TCP port, plays a *run* turn by turn, and
keeps a record of it (SQLite) that must say what really happened even when the
model chain, the game client, a save, the harness or the operator gets in the
way. The modules here model the part of it that carries that promise, the TLC
runs check it on small instances, and the theorems hold for every instance.

Paths below are relative to `src/src/civsim_harness` unless they start with
`src/`. `specs/` is `src/specs/002-civ-playing-harness`.

## 1. Inventory

| Component | State it keeps | Operations | Talks to |
|---|---|---|---|
| lifecycle, stop (`run/lifecycle.py`, `run/stop.py`, `models/run.py`) | none: a graph, a validator, a precedence | `transition`, `evaluate_stop` | runner, recovery |
| runner (`run/runner.py`) | per run: `Run` in memory, current turn, pause and stop flags, last error | start, start_branch, pause, resume, stop, resume_from, the play loop, failure routing | worker threads call it under `_lock`; play loops are coroutines on one event loop; store, engine, composition |
| turn cycle (`run/turn_cycle.py`, `store/guard.py`) | one attempt at one turn | quicksave, watch, abandon and replay, persist before advance, backstop end-turn | decision loop, engine, saves, store |
| decision loop (`run/decision_loop.py`, `run/no_progress.py`) | steps, events, no-progress streak of an attempt | observe, screen, capture, ask, act, verify | provider, nexus client, store |
| recovery engine (`resilience/recovery.py`) | consecutive failed recoveries | recover, recover_from_observation_assembly_error | store (the row), save loader |
| saves (`saves/*`) | save files, `SavePoint` records, retention status | quicksave, verify, load, address, branch, archive, reap | game client, store |
| match store (`store/*`) | runs, turn cycles, save points, events, captures, branches | merge-and-validate updates, two write refusals, supersede, archive | everyone |
| completeness (`store/completeness.py`) | one cached status per run | derive, persist | store, runner |
| preparation, composition (`run/preparation.py`, `run/composition.py`, `provider/preflight.py`, `saves/headroom.py`) | `run_contexts` (client per run) | the ordered start of a run and its refusals, deferred comparisons, giving up clients and claims | nexus client, lock, store, engine, configuration, host |
| identity lock (`run/identity_lock.py`) | lock files shared by all harness processes | acquire, release, clearing of stale files | composition |
| nexus client (`nexus/*`) | the connection, pending request, Lua state indices | connect, execute, reconnect | the game |
| detection (`run/detection.py`, `resilience/*`) | timers, a liveness streak | check, watch a coroutine, cancel it | turn cycle, host |
| provider chain (`provider/*`) | none between calls | attempt, retry, fall back, account | decision loop |
| operator surface (`operator/*`) | none | HTTP handlers on a thread pool, CLI, doctor, audit | runner, store |
| catalog (`capability/*`, `models/catalog.py`) | the declarations and their Lua bindings, loaded once | load with its gates, resolve, marshal a call | dispatch, observation |
| observation (`observe/*`) | none between steps | read every declaration, assemble a board, capture a frame | nexus client, host, catalog |
| action (`act/*`, `agent/*`) | none between steps | legality, camera rules, prompts, execution, verification by predicates | catalog, nexus client |
| parity (`parity/*`) | profiles, loaded once | screen a frame, screen declarations | decision loop |
| config, host, telemetry, `civsim_web`, Lua, catalogs | loaded once, or none | reads, pure rules, I/O | |

What is hard here, and what each component has to get right:

* **Threads against coroutines.** Commands take `_lock` for short stretches; the
  play loop takes it at the turn boundary and lets go during the turn;
  `resume_from` takes it twice with a wait in the middle. *Never two drivers; a
  run that ended stays ended; a stop lands.*
* **Two copies of a run.** The runner's `Run` and the stored row are written by
  different parties, each from its own copy. *They agree whenever nothing is
  running; the row follows the graph.*
* **Record against game.** Quicksaves, abandoned attempts, reloads and rewinds
  change the board under the record. *The authoritative attempts are one game
  played through once; a record names the turn the game was on; persisting is
  never refused.*
* **Failure inside failure handling.** A load fails during a recovery, a save is
  missing, a store refusal arrives after the load. *Bounded recovery; no run is
  left playing with nothing playing it.*
* **Processes against processes.** Several harnesses share clients and a
  directory of lock files. *One run per client; a live run keeps its claim; a
  failed start leaves nothing behind.*
* **One frame at a time on one socket.** Commands time out while their answers
  are still coming, the client changes phase and renumbers its Lua states, the
  connection drops. *A caller gets its own result, from the state it aimed at; a
  load that reports success loaded the save it names.*
* **A watch on the same loop.** It shares lock, socket and event loop with the
  turn it watches. *No healthy turn is abandoned; a dead client is found in
  time; nothing of the attempt runs on when recovery takes over.*
* **Evidence.** What the model is shown, what it may do and what is recorded as
  having happened all rest on reads that can be missing, late or malformed. *A
  board is whole; an action is one a human could take on it; "applied" means the
  effect is on the board after; a frame recorded as shown was shown and proven
  clean.*
* **Starting right.** A run starts only on the game, build, host and chain it
  was configured for. *What plays was read to be what was configured; what is
  refused leaves nothing behind.*

`PROJECT.json` lists each hazard at its line with the property that covers it,
or with the reason why none does yet.

## 2. Modules

```
RunLifecycle      what one stored row promises (abstract)
  ^ implemented by (INSTANCE RL in)
Runner            runner, recovery engine, stop evaluation, one run
  RunnerMC, Runner_proofs
TurnCycle         what a run's turns do to game, saves and record  (uses Audit)
  TurnCycle_proofs
Retention         branches, archival, reaping beside quicksaves and rewinds
  RetentionMC, Retention_proofs
Claims            starts, connections and claims of several harnesses
  ClaimsMC, Claims_proofs
ProviderChain     one request served by a chain of models
Screening         one frame: tries, gates, profiles
DecisionLoop      one attempt: EXTENDS ProviderChain, Screening, Audit
  DecisionLoopMC, DecisionLoop_proofs  (the chain's theorems too)
NexusClient       the tuner connection and the game at its far end
SaveLoader        a load through the menu: EXTENDS NexusClient
  SaveLoaderMC, SaveLoader_proofs  (the client's theorems too)
Detection         the watch beside a turn, in ticks
  DetectionDispatch_proofs  (its theorems, and Dispatch's)
Preflight         what a start is judged on before it touches anything
Preparation       one start: EXTENDS Preflight, Audit
  PreparationMC, Preparation_proofs
Predicates        the catalog's predicate language
Catalog           the catalog's files, its load-time gates and lookups
Shipped           an excerpt of the catalog the repository ships: EXTENDS Catalog
Dispatch          from catalog to verified action: EXTENDS Catalog
  DispatchMC, DetectionDispatch_proofs
Audit             what each audit finds in a record
```

`MC` modules only give constants their values. `PROJECT.json`'s map names the
lines every definition stands for.

### RunLifecycle, Runner

`lifecycle` and `resolution` are two fields of the stored `Run`. `Transition`
is `run/lifecycle.py`'s `transition`: an edge of `LEGAL_TRANSITIONS`, with a stop
resolution only on an edge into a terminal state. `ValidRun` is the model
validator, which, as written, asks a resolution of a finished run but not of a
failed one.

Runner is one run. `mem` is `_RunState.run.lifecycle_state`, `row` the stored
record, `proc` where every operator thread and play loop is, with the locals
that survive a release of the lock (the `Run` snapshot, the turn, the engine's
failure count). An action is what happens in one stretch under `_lock`, or
between two store writes of the recovery engine. Hence `resume_from` is
`ResumeFrom` (judge), `TakeSnapshot` (move), the engine's steps, and
`ReplayFrom` or `NoteResumeFailure`; the play loop is `StopAtBoundary`,
`PauseAtBoundary`, `BeginTurn`, the turn's outcomes, `EvaluateOutcome` and
`HandleRunFailure`. What the turn does in detail is abstracted to its outcomes.
`FaultKinds` names what the environment may do; `MaxFaults` bounds how often.

### TurnCycle

One driver, the whole turn. A *board* is the sequence of attempts that ended
the game's turns so far: two boards are equal exactly when the same attempts led
to them. `files` maps a turn to the board in its save file (the name carries the
turn, so a replay overwrites it), `records` are the stored `TurnCycle`s with the
board each began on (a history field), `status` the persisted completeness. A
quicksave is asynchronous: `SaveGame` may leave the write `pending`, `VerifySave`
looks at the file's name and size as `saves/verify.py` does, `SaveLands` is the
game's own step. `owed` remembers turns whose save was verified on an older file
and never written. `departures` remembers whether an operator rewound or retried,
or the game did not take an end-turn: on such lines of play less can be
promised, and the invariants say how much.

### Retention, Claims

Retention: one `Root` and branches of it or of each other, and `Operators` that
branch, abandon and reap. One transaction or one file operation is a step, so
`create_branch` is `CheckBranch`, `LoadBranch`, `CreateBranch`;
`abandon_branch_run` is `Abandon`, a `SupersedeNext` per turn,
`RecordAbandonment`, `FinishAbandoned`; `reap` is `PlanReap`, then `DeleteFile`
and `RecordRemoval` per save point; `OperatorDies` between any two. `playedOn`
remembers the runs resumed under or after an abandonment, which the code does not
prevent and for which less holds.

Claims: several harness processes, each with one start at a time. `slot` is the
tuner's single connection, `files` the lock directory, `ctx` each process's
`run_contexts`. `RunIdentityLock.acquire` is split at its file-system calls; a
file is created empty, so it can be read torn, and what a scan read as no claim it
unlinks in a step of its own, whatever the file holds by then. Nothing keeps two
processes apart: their steps interleave freely. `raced` remembers the runs whose
`acquire` another process ran beside, and `dropped` the claims read in between.

### ProviderChain, Screening, DecisionLoop

ProviderChain is `complete_step`: a model is its position in the chain, a reply
of the network a member of `Replies`, and `Outcome` what `openrouter.py` makes of
it. Screening is `capture_for_step` over the four gates, and the resolution of a
profile. DecisionLoop composes them: one attempt, with a frame taken for every
step. What the game shows and what predicates say are inputs; what is executed,
shown, recorded and lost is state. Each way of leaving the loop is a value of
`pc`. The loop's steps, its streak and its events are locals: they are handed on by
a `return` and by the lost observation of `FailObservation`, and every other exit
drops them, as in the code. `clock` counts the readings of `ctx.clock()` that the record keeps.

### NexusClient, SaveLoader

The one socket. `wire` holds frames in arrival units, `buffer` is the
correlator's, `table` the Lua state indices, `call` what each coroutine is doing
in the client and `lock` its `_lock`. The game is external: it serves one request
at a time, prints a command's output in one or two arrivals with or without a
line of the engine's own among it, changes phase, drops the link, dies. A call
may time out or be cancelled at any point where it waits. SaveLoader plays a turn
and a heartbeat over the client until a load is called for, and then is
`LuaSaveLoader.load` with its waits, reconnects and read-back.

### Detection

Time is a `Tick` of five seconds, in which nothing that is due is left undone
unless the turn holds the event loop (`op = "blocking"`: `provider.complete` and
the retry backoff are plain calls). The watch sleeps an interval, asks liveness,
sends a heartbeat under the same client lock, reprobes a lost connection once,
and counts passes that time out. `starved` remembers that the loop was held in
the middle of a pass.

### Preflight, Preparation

Preflight is what is judged on values alone: documents, seed sets, inheritance,
catalog coverage, chain, disk headroom, session type. Preparation is the order of
one start over them: connect, refresh, set the leader, read the build, check the
pin, load a parent's save, write the row, claim, read the set-up back, compare,
announce. The operator may move the client in the middle (`OperatorMoves`), a
doctor may want the slot, and one call may fail anywhere (`CallFails`).

### Predicates, Catalog, Shipped, Dispatch

Predicates evaluates the expression trees `ast.parse` returns, over tagged values
(a JSON or Python value with its type), with the three-valued care of
`act/predicates.py`. `_eval_node` is recursive; `EvalNode` is the table of the
values of a predicate's nodes, each made of those of its parts (`NodeValue`), and
theorem `EvalStep` says that this table is what the recursion computes, for trees
of up to six levels, which is the deepest in `src/catalogs`. Schemas are walked in
the same way. Catalog is what `load_catalog` checks and what it builds. Shipped
writes out five observations and eight actions of `src/catalogs`: their predicates
in full, their schemas with the fields the predicates read. Numbers are in
hundredths, so that the camera's bounds are the catalog's, and compare with booleans
as Python's do; a player's id is a number, and a target may be a boolean. A name
the loader's gate skips for its lower-case spelling (`NULL`, `TRUE`) loads and has no
binding. Dispatch reads every
declared observation, assembles a board, routes a prompt, judges a decision, calls
and verifies on the next board; the game may move by itself in between. Here the
truth of a predicate is computed; in DecisionLoop it is an input. The names of
Dispatch that Detection also has are prefixed (`DispatchSpec`, `DispatchTypeOK`),
as one module proves about both.

### Audit

`operator/audit.py`'s audits as functions from a record to findings. DecisionLoop,
TurnCycle and Preparation write such records, and state what an auditor will find.

## 3. Runs

| Run | Question | Bounds | Distinct states |
|---|---|---|---|
| RunnerSingle | do memory, row, turn slots and client agree with one command in flight, does a stop land before another turn, does everything scheduled end? | 1 operator, 2 loop slots, 5 turns, stop at 3, 2 faults of 9 kinds, fresh and branched starts, limit 1 | 17 thousand |
| RunnerRace | does an ended run stay ended whatever interleaves? | 2 operators, 2 loops, 1 turn, 1 fault, another run's branch and sweep included | 560 thousand |
| TurnCycle | is the record the game that was played, always storable, and replayed from where it began? | 3 turns, 4 faults, rewinds or retries, all 8 kinds, limit 2 | 1.4 million |
| Retention | do saves, lineage points and abandoned records survive each other? | 3 runs, 2 operators, 2 turns, 2 positions, 1 death | 1.6 million |
| ClaimsAll | one run per client, claims kept and given back? | 2 harnesses, 2 clients, 3 starts, every trouble, overlapping scans | 250 thousand |
| DecisionLoop | frames, actions, calls and events: is what is recorded what was done? | 2 models, 2 attempts, 3 actions, 7 kinds of try, 2 tries, 2 profile sets, no-progress limit 2, 2 decisions | 1.0 million |
| SaveLoader | does every caller get its own answer, does a load end where it says? | 2 coroutines, 6 commands, 2 reconnect tries, 2 faults | 151 thousand |
| Detection | no false alarm, found in time? | the code's own constants in ticks of 5 s, 1 raising pass, blocks up to 50 s | 340 thousand |
| Preparation | does a run start only on what it was configured for, and leave nothing otherwise? | 1 move of the operator, 1 failing call, star-shaped sets of starts around one fresh and one branch base, parents on the pinned build and on an accepted one | 1.5 million |
| Dispatch | is what loads dispatchable, what is executed evident, what is applied shown? | 5 observations, 8 actions and one of the other Lua context, 11 capabilities, a root per kind of defect, 24 proposals with boolean targets among them, 2 decisions, 1 move of the game | 165 thousand |

Properties are conjunctions of named parts where several of them are one
question: `RecordIsTheGame`, `SavesAccounted`, `FramesAccounted`,
`ActionsAccounted`, `RecordTellsAttempt`, `CallsAccounted`, `OwnAnswers`,
`CommandsLand`, `VerdictIsTrue`, `StandsOnCleared`, `EvidenceHolds`,
`RecordIsShown`. Each part has its own comment in its module, and the type
invariants of these modules are among the parts.

The bounds. A second loop slot is free whenever the code would schedule a second
loop, so `OneDriver` can fail if it is going to. Two faults are what it takes to
abandon an attempt and fail its recovery; the third turn is what it takes for a
rewind to have a turn before and a turn after it. Four faults in TurnCycle let a
rewind, a late quicksave, a client's death and a recovery follow each other. In
Retention a branch of a branch is abandoned while it is a parent, which takes
three runs; two operators put a reap, a load or a second reap inside another
command. With three starts over two clients, a client can be left by one run,
wanted by a second and claimed by a third; two processes scanning at once are
enough to read a file before it is filled and to unlink it afterwards. The stop
turn of RunnerSingle leaves a turn between a stop request and the run's own end, so
that a request which is ignored shows. Two decisions are what it takes for
one step's observation, frame and verification to be the next one's; two models
with two attempts reach a retry, a fallback and an exhaustion. Six commands and
two faults let a timed-out command's output meet a later one's, in a load that
itself reconnects. In Detection the slowest detection of a dead, deaf or refusing
client takes 10 ticks of free loop time (50 s) against a budget of 12.
One move of the operator suffices to separate any two reads of a start; each
defect of a start or a catalog is tried alone, on a base that has no other.
Texts in Dispatch are atoms and are not ordered; one malformed id, a boolean, stands
for the wrong types an answer can have; one acceptance per transition is
assumed in Preparation.

Deadlock is not checked: a finished or failed run stops, an attempt or a start
ends, and a paused run waits for an operator who need not come.

### What the code does not keep

Two runs check a statement the code does not keep; the lines are quoted under
`findings`.

| Run | What TLC shows |
|---|---|
| RunnerTwoDrivers | two commands interleave with the gap in `resume_from`: two drivers |
| DecisionAudit | the observation after an executed action is stamped before the action's verification: `audit loop` reports every such step |

The following statements of docs or comments are stated in the modules but are in
no run, because the code does not keep them and TLC finds a short counterexample
when they are put in the cfg named:

| Statement | Where | What TLC shows |
|---|---|---|
| `RecoveryBounded` | Runner (`RecoveryAttemptLimit = 2`) | every turn and every rewind has an engine, and a failure count, of its own: the limit of FR-048 (`resilience/recovery.py:139`) is not reached; it holds with a limit of 1 |
| `NoSilentStrand` with fault `"branch"` | Runner | a rewind across a branch's lineage point is refused after the load, and the run is left playing with nothing playing it (`run/runner.py:698`) |
| `NoTurnSkipped` | TurnCycle | resuming a run that a failed turn paused plays the next turn number (`run/runner.py:858`) |
| `PersistedBeforeAdvance` | TurnCycle | the agent's end-turn reaches the game before the attempt is stored; if the next observation fails, the game has left a turn with no record (`run/decision_loop.py:751`) |
| `OneSaveOnePosition` | Retention | a turn's first save point names a file its replay wrote over (`saves/addressing.py:54`) |
| `ClaimHeld` without its `"misread"` | Claims | a lock file read between its creation and its filling is cleared as malformed, though its claimant has filled it since and plays (`run/identity_lock.py:122`; 12 states) |
| `OneRunPerClient` for runs in `raced` too | Claims | two processes list the directory before either has written, and both claim one client (14 states) |
| `BuildAsSeedSet` | Preparation | a branch is judged against its parent's build (`saves/branching.py:343`): one on the build its parent was accepted for carries no reference, though `data-model.md:215` of `specs/002-civ-playing-harness` and I18 (`:689`) ask for one whenever the build is not the seed set's |
| `BooleansAreNoNumbers` | Dispatch | only `+` and `-` keep what `act/predicates.py:202` says of booleans: every comparison takes one for 1 or 0, so `camera.zoom` is authorised for the target true (`catalogs/actions/camera.yaml:27`), and `diplomacy.declare_war` for player true as for player 1 |
| `FoundInTimeByTheClock` | Detection | SC-010's budget counts the wall clock; a provider call that blocks the loop is not counted by the watch (`run/decision_loop.py:659`) |
| `EndedByAgentNamesEndTurn` | DecisionLoop | the loop only reads whether verification says the turn ended, not which action did it (`run/decision_loop.py:810`) |

Reading the source for the models also leads to these, which are exempted by name
in the properties or follow from the models' actions:

* runner: with a limit above 1 a failed load leaves the row at resuming and
  `_pause_on_failure` stores paused, which is no edge (`run/runner.py:973`); a stop
  accepted for a paused run waits until somebody resumes it (`:492`); a pause
  requested while `resume_from` waits is dropped (`:712`); a pause at a boundary
  leaves the completeness status as it was (`_advance`);
* saves: `verify_save` accepts an older file of the same name
  (`saves/verify.py:63`), so its promise that an unverifiable quicksave fails the
  turn does not hold after a rewind, and a client that dies before the new file is
  written is recovered onto the other line's board (`owed` in TurnCycle); the
  catalog's predicate for `save_game` is true whatever happened; a reap that meets
  two save points of one turn raises at the second (`saves/reaper.py:88`); a branch
  resumed while it is being abandoned is played on (`saves/branching.py:528`);
  while a branch loads its parent's save, before its row is written, the parent's
  turn can be rewound or reaped (`:340`);
* starts: a preparation that raises after the claim keeps it
  (`run/composition.py:785`); one the lock or the turn timer refuses leaves its row
  preparing (`:944`, `:963`); a branch start loads the parent's save before the
  lock is asked for (`:882`); a failed preparation has no stop resolution (`:1136`);
  the detail of a fallback says the seed set agreed although there may be none
  (`:1037`); no caller passes `compositing_verified`; a doctor's probe can make a run's first connect fail;
* attempts: frames of an attempt left by a catalog error or a refused decision are
  not on record; an abandoned attempt is to be retained with all the steps it completed
  (`run/decision_loop.py:129`), and only a lost observation hands them on (`:484`): an unregistered screen, an exhausted chain, a capture or catalog error and
  an abort drop them; an executed action is unrecorded when the next observation
  fails, and failed calls get no `ModelCall`;
  the parity audit fails a run whose model once proposed an unlisted action; a
  pass under way when the turn ends may raise a fault over a turn that has ended;
* actions: a prompt reported as `prompts.diplomatic_approach`
  (`act/prompts.py:48`) has no declaration of that name in
  `catalogs/actions/prompts.yaml:81`, so the attempt dies on it (Dispatch's
  `"catalog_error"`); a verification predicate with `!=` or `not` is true of a
  subject that is no longer listed (`act/predicates.py:374` says absent is falsy in
  every predicate of the catalog), which `RecordIsShown` states for `make_peace`;
  `great_people.recruit` asks for `great_person.is_recruitable`, which
  `src/catalogs/README.md:173` lists and neither the schema
  (`src/catalogs/observations/great_people.yaml:29`) nor the Lua that answers it
  (`src/lua/gamecore/great_people.lua:75`) has, so it is never authorised; actions
  whose predicates need both a subject and an item get one `target` for both and
  are never authorised; camera actions are never verified, as no observation backs
  their namespace;
  the loader's gate does not parse a predicate, so a garbled one loads, and compares
  its names with the keywords in lower case (`capability/predicates.py:76`), so `NULL`
  or `TRUE` load too and are names without a binding when the predicate is evaluated
  (`act/predicates.py:118`, `:281`); extra
  parameters precede the target and shift a call's arguments
  (`act/executor.py:120`).

## 4. Fairness

`FairSpec` (Runner) assumes weak fairness of each play loop's steps, of the
continuation of a command that has begun, and of a start. The event loop runs
whatever is ready on it and every await in these steps is bounded by a timeout
of its own; a worker thread that has taken a command runs to its end. Nothing
is assumed of the operator, who may never issue a command, nor of faults.
`MaxTurn` is above `StopTurn` in RunnerSingle so that the bound never stops a
loop that the code would let run.

SaveLoader: weak fairness of the loader's steps, of every call in the client
(each has its own bound) and of the deadline's passing; nothing of the game.

Detection: weak fairness of the watch's steps and of the ends of commands and
provider calls, strong fairness of `Tick`: time is not stopped by a turn that
always has something to do, though a tick is disabled while something is due.

## 5. Theorems

Each is proved for every value of the constants that its module's ASSUME allows:
any number of operators, harnesses, clients, runs, turns, steps, faults and
retries, chains of any length, any screening file, seed set and state table, and
any catalog but where the last column says which.

| Theorem | States | Assumes besides the module's constants |
|---|---|---|
| `Runner_proofs!EndsForGood` | `TerminalStaysTerminal` | nothing |
| `SingleDriver`, `Agreement` | `OneDriver`, `AgreeAtRest` | OneCommand |
| `RowImplements` | `RowFollowsGraph`: the row implements RunLifecycle | OneCommand, `RecoveryAttemptLimit = 1` |
| `HeldToTheEnd` | `HeldUntilTerminal` | OneCommand, no sweep by another start |
| `SlotAlwaysFree` | `SlotFree` | OneCommand |
| `NeverStranded` | `NoSilentStrand` | OneCommand, no branch taken off the run |
| `TurnCycle_proofs!RecordAccepted` | `PersistNeverRefused` | nothing |
| `StatusKept` | `StatusTruthfulAtStop` | nothing |
| `AuditsConsistent` | `AuditsAgree` | nothing |
| `RecordIsTheGameAlways` | `RecordIsTheGame` | nothing |
| `ReplaysStartRight` | `ReplayStartsWhereItBegan` | nothing |
| `Claims_proofs!ClaimsAccountedFor` | `NoOrphanClaim` | nothing |
| `OneRun`, `ClaimKept` | `OneRunPerClient`, `ClaimHeld` | nothing |
| `Retention_proofs!SavesKept` | `SavesAccounted` | nothing |
| `GivenUpIsEmpty` | `AbandonedIsEmpty` | nothing |
| `BranchPointsStay` | `LineageKept` | nothing |
| `DecisionLoop_proofs!LoopCallsCounted` | `CallsAccounted` | nothing |
| `FramesOnRecord`, `ActionsOnRecord` | `FramesAccounted`, `ActionsAccounted` | nothing |
| `OnlyCleanIsShown` | `ShownIsProvenClean` | StrictProfiles |
| `BackstopCounts`, `RecordTells` | `BackstopExact`, `RecordTellsAttempt` | nothing |
| `SaveLoader_proofs!AnswersAreOwn` | `OwnAnswers` | nothing |
| `CommandsReach` | `CommandsLand` | nothing |
| `NamedIsLoaded` | `LoadedIsNamed` | nothing |
| `DetectionDispatch_proofs!NoTurnLostInHealth` | `NoFalseAlarm` | nothing |
| `FoundWithinBudget` | `FoundInTime` | Roomy |
| `DispatchLoadedServes` | `LoadedServes` | nothing |
| `DispatchEvidence`, `DispatchRecords` | `EvidenceHolds`, `RecordIsShown` | OnlyShipped(Roots) |
| `DispatchCalls` | `CallDoesItsAction` | OnlyShipped(Roots) |
| `Preparation_proofs!StartLeavesNothing` | `NothingLeft` | nothing |
| `RunsStandOnCleared`, `StartsEndTruthfully` | `StandsOnCleared`, `VerdictIsTrue` | nothing |

`TypeCorrect`, `TurnTyped`, `ClaimsTyped`, `ChainTyped` and `DetectionTyped` state
the type invariants; DecisionLoop, SaveLoader and Preparation have theirs among
the parts of `FramesAccounted`, `OwnAnswers` and `VerdictIsTrue`. `CallsCounted`,
`RetriesCounted` and `ModelsSpent` are the account of a chain by itself, and its
two halves.

What the last column means:

* `OneCommand`: two operators are the same, so one command is in flight at a
  time. RunnerTwoDrivers shows that it is needed, and a limit of 2 breaks
  `RowFollowsGraph`.
* No branch taken off the run: with the fault `"branch"` TLC strands a run (3).
* `Roomy`: an interval, a command and a heartbeat together fit into the budget
  (10, 30 and 10 of 60 seconds), and the timers inside a pass are no longer than
  the pass and the heartbeat.
* `StrictProfiles`: every profile of a file that loads rejects something.
  `load_screening_profiles` asks it of none (an empty list is a list), while the
  content gate (`parity/screening.py:562`) reports a frame it cannot decode once per
  category to reject, and so lets it pass where there is none.
* `OnlyShipped(Roots)`: what loads declares the observations of Shipped (any
  selection of them, under any capability), its actions, and other actions only
  in another Lua context than `InGame` or with a predicate that does not parse.
  What an action means is not in its predicates, so that a predicate says what a
  human could do, and that its verification shows the effect, can only be a
  statement about given predicates: these are the shipped ones. The order and
  number of files, what does not load, the proposals, the Lua files and the bounds
  stay arbitrary. TLC evaluates the assumption on the roots of its run
  (`RootsAsShipped`). `DispatchLoadedServes` does without it.

Some modules assume of their constants what the code makes sure of elsewhere or
the game was seen to do. `StartsAreValid` (Preparation): a document's fields have
values and an acceptance joins known builds, as `config` validates them.
`TablesAssumption` (NexusClient): in a state table an index names one Lua state,
and `InGame` is listed exactly outside the menu. `LoaderAssumption` (SaveLoader):
the two coroutines are among the tasks, and the command bound leaves the loader
its three. `LoopAssumption` (DecisionLoop): the catalog declares an end-turn
action, and no action is called `none`. `RootsAssumption` and
`ProposalsAssumption` (Dispatch): files and their entries are ordered, a capability
has one of the two paths of `CapabilityPath`, and a decision's target is a JSON
value, in hundredths if it is a number.

**Runner.** *EndsForGood* needs no invariant beyond types: every writer of the row
goes through `StoreAccepts`, which refuses to take back a resolution, or writes a
terminal state. The others rest on one inductive invariant: `Known` (memory is
unknown exactly before `Begin`), `Driver` (at most one actor is busy, and while
one is, memory is playing or where the engine's snapshot says), `Agree` (at rest
memory and row agree unless the last-resort error shows) and `InStep` (the row
state that goes with each position of `proc`). `OneDriver` alone is not
inductive: that a resume cannot start a second loop follows from memory being
paused only when nothing is running, which is `Driver`, and that needs the row
to be known at each position. `Slots` adds for `SlotFree` that no authoritative
record is ahead of the turn in play and each has its save, so that a rewind finds
the turn it is asked for; `Played` adds for `NoSilentStrand` at which snapshot
each position works, so that a refused store write inside a replay is known to
end in a state that says so.

**TurnCycle.** `TurnInv` is the types with `PlayedTurn`, `PendingSave`, `Bounded`,
`FreshIndex` and `RecordBehind`: an attempt's index is one past the highest on
record when its turn begins and no recorded attempt takes it since, and no
authoritative record is ahead of the counter. That there is a highest index at
all is `Bounded`, with the well-foundedness of the naturals. `Audited` is what
the two audits look at: nothing recorded as abandoned is authoritative, every
abandonment has a save, and only a failed rewind resumes without one.
`RecordIsTheGame` is two statements that hold for different reasons, so
there are two invariants on top of `TurnInv`. `Numbered`: as long as nothing but
a rewind departs from the line, every board is as long as its turn says, because
a save is named after its turn and a load that comes back elsewhere is refused.
`Lined`: without a rewind or a retry a turn is saved once, so what a replay
loads is what the abandoned attempt began on, and the authoritative attempts are
the moves of one board. `SaveIsStart` says the middle part on every line of play,
unless the save is owed.

**Claims.** Three invariants, each on top of the one before. `Base` (types,
`Attached`, `OneHarness`, `Unwritten`, `NoOrphanClaim`) needs nothing of the order in
which processes look at the directory. `Kept` follows a file through the scans of the
others: while its run writes it is torn (`WritingTorn`), before that nobody has it on
a list or about to be unlinked (`Unseen`), and what is about to be unlinked was read
torn or is of a client that is gone (`Doomed`), so that a claim is held unless it was
misread (`Held`). `Safe` adds which runs `raced` (`OneScan`, `MisreadRaced`): of the
others, every claimant of the client being claimed is still to be read, or clashes
(`ScanCovers`), so that what is written excludes them (`Exclusive`). The exceptions
are the weakest TLC leaves: without either of them it finds the traces of 3.

**Retention.** Two chains meet. A file is unlinked only for a point made eligible,
which an archival of its own run made so (`ArchivedOnly`), and an archived run has
ended (`ArchivedEnded`); and what has ended, or is being given up, is not played
(`EndedRests`, `AbandonedRests`, `GivenRests`), so no quicksave and no record is
added to it. The second holds only of runs nobody resumed under an abandonment,
which is why `playedOn` is in the statements. `Covered` (every recorded turn has
a save point) is what makes `GivenUp` reach every record.

**DecisionLoop.** `ChainInv` adds to the account where in it the request stands
(`Placed`), with the calls made so far; `LogTold` how far the log tells it. On top
`LoopInv` keeps frames, captures, steps and events in step with `pc`. `InStep`
says how many frames and captures there are at each position, which is what makes
"the frame of this step" mean anything; `SentClean` and `Sending` follow an image
from its gate to the request, `Counted` an action from the board it was decided on
to its bundle (the one step in between, after execution and before the bundle is
written, is `Pending`), `Bundled` and `Noted` relate each bundle and each event to
the frame they are about, and `Backstop` gives the streak as a count over the
bundles.

**SaveLoader.** `SlInv` has eight parts; TLC checked each on the instance of the run
before it was proved. That a caller gets its own output follows from nonces
(`Told`: an END follows the JSON line of its own nonce, and no line is of a
command yet to come), but handshake replies carry none: there `Asking` says that a
question is the last thing sent, that only its answer is on the wire, and that
nobody asks while a stale one can still come. That commands land is `Aimed`, over
everything still on its way, and it needs `Stage`: how far the loader has come,
where the game can be then, and what the tables it can have read say of that.
`Locked`, `Linked` and `Open` relate the lock, the queue and the connection to the
calls. None holds without the others: a table tells where the game is only
because an answer to an older question is never taken for it, and no such answer
is about only because the loader drops the link whenever one might be.

**Detection.** The watch's invariant adds how old a command can be (`CommandAge`)
and what a pass over a healthy client has waited for at most (`HealthyPass`): a
pass has time for the longest command and for its own heartbeat, which is the
assumption on the bounds. `WatchedPass` bounds, at each position of a pass, the
time since the failure by one interval and the age of the pass.

**Preparation.** `StartInv` follows the order of a start: who holds slot, claim and
context at each step (`Holders`), what has been judged by then (`Cleared`: the row
is the one that passed), what was compared with what (`Compared`, exact unless
the operator moved the client), and which events are on record (`Logged`).

**Dispatch.** Two invariants. `CatalogInv` is what the loader's gates leave of any
root: each declaration valid, each predicate free of unknown symbols, each
capability there and complete. "Free of unknown symbols" is the gate's own notion,
which skips other spellings of the keywords; `DispatchLoadedServes` says what that
leaves unbound. Entries of equal id cannot both load, so `ById` is
no choice. `DispatchInv` adds, for the shipped entries, that a board holds what the
game was or a state it could have been in (`Genuine`): whatever passes the schema of
a declaration is one of the answers the Lua side gives, never a malformed one, down
to the items of its lists. That a decision under way was judged on that board is
`Pending`; that the board is whole before and after is `Whole`. From `Genuine` the
value of each predicate is computed, one lemma per action: `EvalStep` takes its
tree apart, and the bindings of a board give the leaves. That an authorised action
is one a human could take, and that "applied" is the effect, follow for all targets,
also of types no human would give: a boolean is taken for the number it is
(`Meant`), which is what the code does and not what its comment says (3). Writing this proof corrected the model twice: the arms of
`ApplyComparison` overlapped, and an answer of `great_people.state` had a field that
the Lua side does not send.

Only model-checked is liveness (`StopLands`, `RunSettles`, `LoadEnds`,
`FailedIsNoticed`), which is out of the prover's reach. Every other property of a
passing run is stated by a theorem.

## 6. Not modelled

Telemetry; the read side of the operator surface and of `civsim_web`, readers of
the store that keep no state; the Lua scripts and panels, which run in the game,
and the declarations of `src/catalogs` that Shipped leaves out; process listing,
window capture and paths of the host adapters; pixels and text recognition; byte
framing; YAML and JSON syntax; the wording of prompts,
events and reports; token prices. Waits that change no state (retry backoff,
settling times, the blocking sleep in `verify_save`) appear only where they hold
the loop (Detection). Each component is listed with its reason in `PROJECT.json`.
What the modules of one component assume of another (a turn's outcomes in Runner,
predicate values in DecisionLoop, one start in Preparation against several in
Claims) is an input chosen freely in the one and computed in the other; the
compositions are not checked in one state space, which would be out of TLC's reach.
