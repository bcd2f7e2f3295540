---------------------------- MODULE DecisionLoop ----------------------------
(***************************************************************************)
(* One attempt at a turn: the observe, decide, execute, verify loop of     *)
(* run/decision_loop.py (run_decision_loop), with the capture of every     *)
(* step (Screening) and the model chain that answers it (ProviderChain).   *)
(*                                                                         *)
(* Every step takes exactly one frame, so a frame is named by the index of *)
(* the step it was taken for.  What the game shows and what the catalog's  *)
(* predicates evaluate to are inputs; what is executed, shown, recorded    *)
(* and lost is state.                                                      *)
(***************************************************************************)
EXTENDS ProviderChain, Screening, Audit

CONSTANTS
    Catalog,          \* [declared ids -> [kind, context, camera]]
    EndTurn,          \* the declared end-turn action
    Limit,            \* no_progress_step_limit
    TrySet,           \* the captures of the host that are explored
    ProfileSets,      \* the contents of screening_profiles.yaml explored
    Platforms,        \* host platforms explored
    MaxSteps          \* bound: requests explored in one attempt

ASSUME LoopAssumption ==
    /\ Limit \in Nat \ {0} /\ MaxSteps \in Nat
    /\ EndTurn \in DOMAIN Catalog /\ "none" \notin DOMAIN Catalog
    /\ TrySet \subseteq Try

VARIABLES
    pc,               \* where the loop is, or how it was left
    host,             \* [platform, profiles, declared]: fixed for the attempt
    permitted,        \* images_permitted: the run's tier is VALIDATED
    comparability,    \* Run.comparability_status
    step,             \* step_index
    observation,      \* [screen, after, id, assembled]: what the step decides on
    fresh,            \* the one read after it, until it becomes the step's
    frames,           \* frames taken: frames[i] is the capture of step i
    captures,         \* capture records written to the store, in order
    sent,             \* frames attached to a request handed to the provider
    decision,         \* raw_decision of the step
    verdict,          \* what dispatch said of it
    executed,         \* actions sent to the game
    steps,            \* DecisionStepBundles
    streak,           \* NoProgressTracker.streak
    events,           \* events the loop carries to its result
    clock             \* readings of the clock so far: no two read the same time

loopVars == <<pc, host, permitted, comparability, step, observation, fresh, frames, captures,
              sent, decision, verdict, executed, steps, streak, events, clock>>
vars == <<chainVars, loopVars>>

None == "none"
NoBoard == [screen |-> None, after |-> 0, id |-> 0, assembled |-> 0]
Undecided == [action |-> None, ends |-> FALSE, prompt |-> FALSE, refused |-> 0]
Screens == {"world", "prompt", "prompt_without_action", "unknown"}
Verdicts == {"authorized", "not_in_catalog", "illegal_in_context",
             "unavailable_to_human_now", "out_of_parity_camera"}
Reject == ResolveProfile(host.profiles, host.declared, host.platform)

Init ==
    /\ ChainInit
    /\ pc = "observing"
    /\ host \in [platform : Platforms, profiles : {p \in ProfileSets : Loads(p)},
                 declared : {"default", "platform"}]
    /\ permitted \in BOOLEAN
    /\ comparability \in {"comparable", "visually_degraded", "not_comparable"}
    /\ step = 1 /\ observation = NoBoard /\ fresh = NoBoard
    /\ frames = <<>> /\ captures = <<>> /\ sent = {}
    /\ decision = Undecided /\ verdict = None /\ executed = 0
    /\ steps = <<>> /\ streak = 0 /\ events = <<>> /\ clock = 0

----------------------------------------------------------------------------
(* Observing: _observe, for the first step and after every decision.       *)

Record_CleanIsShown(i, shown) ==
    [step |-> i, status |-> frames[i].status, shown |-> frames[i].status = "clean"]
Record(i, shown) == [step |-> i, status |-> frames[i].status, shown |-> shown]

Leave(how) == pc' = how

(* The two ways of leaving by an exception.  MidTurnObservationFailure     *)
(* carries what the attempt has recorded so far; any other exception takes *)
(* the loop's local steps, streak and events with it, and hands on at most *)
(* an event of its own.                                                    *)
FailObservation == Leave("observation_failed") /\ UNCHANGED <<steps, streak, events>>
Propagate(how, told) == Leave(how) /\ steps' = <<>> /\ streak' = 0 /\ events' = told

(* Reading the declared observations: a value that fails its schema ends   *)
(* the attempt as MidTurnObservationFailure, anything else propagates.     *)
(* Neither has taken a frame.                                              *)
ReadInputs ==
    /\ pc = "observing"
    /\ fresh' \in [screen : Screens, after : {executed}, id : {0}, assembled : {0}]
    /\ Leave("imaging")
    /\ UNCHANGED <<chainVars, host, permitted, comparability, step, observation, frames,
                   captures, sent, decision, verdict, executed, steps, streak, events, clock>>

ReadFails ==
    /\ pc = "observing"
    /\ FailObservation \/ Propagate("raised", <<>>)
    /\ UNCHANGED <<chainVars, host, permitted, comparability, step, observation, fresh, frames,
                   captures, sent, decision, verdict, executed, clock>>

(* The camera is read only when there is a window (an unreadable camera is *)
(* an empty one); the frame is taken; a degraded one downgrades the run,   *)
(* never up.  A comparable run is the only one that changes.               *)
Downgraded(frame) ==
    IF frame.status # "clean" /\ comparability = "comparable"
    THEN "visually_degraded" ELSE comparability

Camera == {"declared", "elsewhere", "unread"}

FrameOf(window, tries, camera) ==
    LET capture == CaptureForStep(window, tries, camera, Reject)
    IN  [status |-> capture.status, wire |-> capture.wire,
         used |-> IF capture.status = "clean"
                  THEN {[try |-> FrameUsed(tries, camera, Reject), camera |-> camera]} ELSE {}]

Captured == {FrameOf(window, tries, camera) :
                window \in BOOLEAN, tries \in [Tries -> TrySet], camera \in Camera}

TakesFrame(frame) ==
    /\ frames' = Append(frames, frame)
    /\ comparability' = Downgraded(frame)

(* The observation is assembled: the frame's events join the attempt's.    *)
CaptureEvents_OneEvent(i, frame) ==
    IF frame.status = "clean" THEN <<>> ELSE <<[type |-> "capture_failed", step |-> i]>>
CaptureEvents(i, frame) ==
    IF frame.status = "clean" THEN <<>>
    ELSE <<[type |-> "capture_failed", step |-> i], [type |-> "image_withheld", step |-> i]>>

TakeFrame ==
    /\ pc = "imaging"
    /\ \E frame \in Captured :
          /\ TakesFrame(frame)
          /\ events' = events \o CaptureEvents(Len(frames) + 1, frame)
    /\ clock' = clock + 1
    /\ LET assembled == [fresh EXCEPT !.id = Len(frames'), !.assembled = clock']
       IN  IF decision = Undecided
           THEN /\ observation' = assembled /\ fresh' = NoBoard
                /\ Leave("routing")
           ELSE /\ fresh' = assembled /\ UNCHANGED observation
                /\ Leave("verifying")
    /\ UNCHANGED <<chainVars, host, permitted, step, captures, sent, decision, verdict, executed,
                   steps, streak>>

(* The observation cannot be assembled: the frame is written, not shown,   *)
(* its events are lost with the attempt.                                   *)
AssemblyFails ==
    /\ pc = "imaging"
    /\ \E frame \in Captured : TakesFrame(frame)
    /\ captures' = Append(captures, [step |-> Len(frames'), shown |-> FALSE,
                                     status |-> frames'[Len(frames')].status])
    /\ FailObservation
    /\ UNCHANGED <<chainVars, host, permitted, step, observation, fresh, sent, decision, verdict,
                   executed, clock>>

(* The detection watch cancels the loop at one of its awaits.              *)
Cancelled ==
    /\ pc \in {"observing", "imaging", "executing"}
    /\ Propagate("cancelled", <<>>)
    /\ UNCHANGED <<chainVars, host, permitted, comparability, step, observation, fresh, frames,
                   captures, sent, decision, verdict, executed, clock>>

----------------------------------------------------------------------------
(* Deciding: everything from _resolve_trigger to provider.complete runs    *)
(* without an await.                                                       *)

Trigger == IF observation.screen = "prompt" THEN "prompt_response" ELSE "proactive"

StallOnUnknownScreen ==
    /\ pc = "routing" /\ observation.screen = "unknown"
    /\ captures' = Append(captures, Record(step, FALSE))
    /\ Propagate("unknown_screen", <<[type |-> "unknown_screen", step |-> step]>>)
    /\ UNCHANGED <<chainVars, host, permitted, comparability, step, observation, fresh, frames,
                   sent, decision, verdict, executed, clock>>

(* A prompt screen whose action the catalog lacks: CatalogError, caught by *)
(* nothing here.                                                           *)
CatalogGap ==
    /\ pc = "routing" /\ observation.screen = "prompt_without_action"
    /\ Propagate("catalog_error", <<>>)
    /\ UNCHANGED <<chainVars, host, permitted, comparability, step, observation, fresh, frames,
                   captures, sent, decision, verdict, executed, clock>>

(* select_screened_images: of all captures, only this step's own clean one.*)
Selected(candidates) == {i \in candidates : i = step /\ frames[i].status = "clean"}

(* _step_images: a frame in a wire format, on a run whose tier permits     *)
(* images at all.                                                          *)
StepImages == IF permitted /\ frames[step].wire THEN Selected({step}) ELSE {}

Routed == pc = "routing" /\ observation.screen \in {"world", "prompt"}

(* The parity boundary refuses the assembled context.                      *)
RefuseLeak ==
    /\ Routed
    /\ captures' = Append(captures, Record(step, FALSE))
    /\ Propagate("parity_violation", <<>>)
    /\ UNCHANGED <<chainVars, host, permitted, comparability, step, observation, fresh, frames,
                   sent, decision, verdict, executed, clock>>

DispatchRequest ==
    /\ Routed /\ step <= MaxSteps
    /\ captures' = Append(captures, Record(step, StepImages # {}))
    /\ sent' = sent \cup StepImages
    /\ CompleteStep
    /\ Leave("calling")
    /\ UNCHANGED <<host, permitted, comparability, step, observation, fresh, frames, decision,
                   verdict, executed, steps, streak, events, clock>>

CallChain ==
    /\ pc = "calling" /\ phase \in {"calling", "failed"}
    /\ ChainNext
    /\ UNCHANGED loopVars

(* ProviderChainExhausted, or an error the adapter raises.                 *)
NoDecision ==
    /\ pc = "calling" /\ phase \in {"exhausted", "raised"}
    /\ Propagate("no_decision", <<>>)
    /\ UNCHANGED <<chainVars, host, permitted, comparability, step, observation, fresh, frames,
                   captures, sent, decision, verdict, executed, clock>>

(* dispatch_action.  Availability is the predicate's value on this         *)
(* observation; one that cannot be evaluated is unavailable.               *)
Dispatched(action, available) ==
    IF action \notin DOMAIN Catalog \/ Catalog[action].kind # "action" THEN "not_in_catalog"
    ELSE IF Catalog[action].context # "in_game" THEN "illegal_in_context"
    ELSE IF available THEN "authorized" ELSE "unavailable_to_human_now"

(* validate_camera_action judges a camera action that got past the catalog *)
(* and the context, on its target alone.                                   *)
Judgement(action, available) ==
    IF /\ action \in DOMAIN Catalog /\ Catalog[action].camera
       /\ Dispatched(action, available) \notin {"not_in_catalog", "illegal_in_context"}
    THEN IF available THEN "authorized" ELSE "out_of_parity_camera"
    ELSE Dispatched(action, available)

(* The model answers with an action, an end-turn flag and, or not, a       *)
(* prompt type; the flag and the action are independent fields.  A refusal *)
(* is stamped as verified here, before the next board is read.             *)
Decide ==
    /\ pc = "calling" /\ phase = "served"
    /\ clock' = clock + 1
    /\ \E action \in DOMAIN Catalog \cup {"unlisted"}, ends \in BOOLEAN, prompt \in BOOLEAN,
          available \in BOOLEAN :
          /\ verdict' = Judgement(action, available)
          /\ decision' = [action |-> action, ends |-> ends,
                          prompt |-> prompt \/ Trigger = "prompt_response",
                          refused |-> IF verdict' = "authorized" THEN 0 ELSE clock']
    /\ Leave(IF verdict' = "authorized" THEN "executing" ELSE "observing")
    /\ ChainReturns
    /\ UNCHANGED <<host, permitted, comparability, step, observation, fresh, frames,
                   captures, sent, executed, steps, streak, events>>

----------------------------------------------------------------------------
(* Executing and verifying.                                                *)

Execute ==
    /\ pc = "executing"
    /\ executed' = executed + 1
    /\ \/ Leave("observing") /\ UNCHANGED <<steps, streak, events>>
       \/ Propagate("raised", <<>>)
    /\ UNCHANGED <<chainVars, host, permitted, comparability, step, observation, fresh, frames,
                   captures, sent, decision, verdict, clock>>

(* verify_execution: a predicate that is true changes the state, one that  *)
(* is false or cannot be evaluated is a rejection; a refused action was    *)
(* never executed.  There is no third outcome in the code.                 *)
Progress(confirmed) ==
    IF verdict = "authorized" /\ confirmed THEN "changed_state" ELSE "rejected"

StreakAfter(progress) == IF progress = "changed_state" THEN 0 ELSE streak + 1

Tripped_OneLate(s) == s > Limit
Tripped(s) == s >= Limit

(* build_decision refuses a prompt type on a step no prompt triggered; by  *)
(* then the action is executed, the next frame taken and the streak moved. *)
InvalidDecision == decision.prompt # (Trigger = "prompt_response")

RefuseDecision ==
    /\ pc = "verifying" /\ InvalidDecision
    /\ Propagate("invalid_decision", <<>>)
    /\ UNCHANGED <<chainVars, host, permitted, comparability, step, observation, fresh, frames,
                   captures, sent, decision, verdict, executed, clock>>

(* The step's record.  An executed action is verified on the next board,   *)
(* so its verified_at is read after that board's assembled_at.             *)
Bundle(progress) ==
    [ends |-> decision.ends, authorized |-> verdict = "authorized",
     progress |-> progress, streak |-> StreakAfter(progress),
     index |-> step, seen |-> observation.id, images |-> StepImages,
     assembled |-> observation.assembled,
     verified |-> IF verdict = "authorized" THEN clock + 1 ELSE decision.refused,
     listed |-> decision.action \in DOMAIN Catalog,
     answers |-> Trigger = "prompt_response" => decision.prompt]

Recorded_ChangesOnly(progress) ==
    /\ pc = "verifying" /\ ~InvalidDecision
    /\ streak' = StreakAfter(progress)
    /\ steps' = IF progress = "changed_state" THEN Append(steps, Bundle(progress)) ELSE steps
    /\ clock' = clock + 1
Recorded(progress) ==
    /\ pc = "verifying" /\ ~InvalidDecision
    /\ streak' = StreakAfter(progress)
    /\ steps' = Append(steps, Bundle(progress))
    /\ clock' = clock + 1

(* The attempt ends: the frame just taken will serve no decision.          *)
EndsByAgent ==
    /\ \E confirmed \in BOOLEAN : Recorded(Progress(confirmed))
    /\ decision.ends
    /\ captures' = Append(captures, Record(step + 1, FALSE))
    /\ Leave("ended_by_agent")
    /\ UNCHANGED <<chainVars, host, permitted, comparability, step, observation, fresh, frames,
                   sent, decision, verdict, executed, events>>

EndsOnNoProgress ==
    /\ \E confirmed \in BOOLEAN : Recorded(Progress(confirmed))
    /\ ~decision.ends /\ Tripped(streak')
    /\ captures' = Append(captures, Record(step + 1, FALSE))
    /\ events' = Append(events, [type |-> "turn_ended_on_no_progress", step |-> step])
    /\ Leave("ended_on_no_progress")
    /\ UNCHANGED <<chainVars, host, permitted, comparability, step, observation, fresh, frames,
                   sent, decision, verdict, executed>>

(* The board the next step decides on is the one read after this step.    *)
NextBoard == fresh

NextStep ==
    /\ \E confirmed \in BOOLEAN : Recorded(Progress(confirmed))
    /\ ~decision.ends /\ ~Tripped(streak')
    /\ step' = step + 1
    /\ observation' = NextBoard /\ fresh' = NoBoard
    /\ decision' = Undecided /\ verdict' = None
    /\ Leave("routing")
    /\ UNCHANGED <<chainVars, host, permitted, comparability, frames, captures, sent, executed,
                   events>>

Next ==
    \/ ReadInputs \/ ReadFails \/ TakeFrame \/ AssemblyFails \/ Cancelled
    \/ StallOnUnknownScreen \/ CatalogGap \/ RefuseLeak \/ DispatchRequest
    \/ CallChain \/ NoDecision \/ Decide
    \/ Execute \/ RefuseDecision \/ EndsByAgent \/ EndsOnNoProgress \/ NextStep

Spec == Init /\ [][Next]_vars

----------------------------------------------------------------------------
Inside == {"observing", "imaging", "routing", "calling", "executing", "verifying"}
Returned == {"ended_by_agent", "ended_on_no_progress"}
Raised == {"observation_failed", "raised", "cancelled", "unknown_screen", "catalog_error",
           "parity_violation", "no_decision", "invalid_decision"}

(* Every variable has its type.                                            *)
TypeOK ==
    /\ ChainTypeOK
    /\ pc \in Inside \cup Returned \cup Raised
    /\ permitted \in BOOLEAN
    /\ comparability \in {"comparable", "visually_degraded", "not_comparable"}
    /\ step \in Nat \ {0}
    /\ {observation, fresh} \subseteq
          [screen : Screens \cup {None}, after : Nat, id : Nat, assembled : Nat]
    /\ \A i \in DOMAIN frames : frames[i].status \in {"clean", "withheld"}
    /\ captures \in Seq([step : Nat, status : {"clean", "withheld"}, shown : BOOLEAN])
    /\ sent \subseteq DOMAIN frames
    /\ verdict \in {None} \cup Verdicts
    /\ executed \in Nat /\ streak \in Nat /\ clock \in Nat

RecordsOf(i) == {k \in DOMAIN captures : captures[k].step = i}

(* A frame is never recorded twice, and however the attempt ends, except   *)
(* for a catalog that lacks a prompt's action and a decision its record    *)
(* refuses, every frame it took is on record with its own status (FR-051,  *)
(* SC-019): also the last one, which no step carries.                      *)
FrameRecorded ==
    /\ \A i \in DOMAIN frames : Cardinality(RecordsOf(i)) <= 1
    /\ pc \in (Returned \cup Raised) \ {"catalog_error", "invalid_decision"} =>
          \A i \in DOMAIN frames :
             \E k \in RecordsOf(i) : captures[k].status = frames[i].status

(* A capture is recorded as shown exactly when its frame was in a request  *)
(* handed to the provider (FR-015), written before the request left.       *)
ShownIffSent ==
    /\ \A k \in DOMAIN captures : captures[k].shown <=> captures[k].step \in sent
    /\ \A i \in sent : RecordsOf(i) # {}

(* What screening_profiles.yaml requires of a view on a platform.          *)
Required ==
    IF host.declared = "default" \/ host.platform \notin DOMAIN host.profiles
    THEN Universal \cup UNION {host.profiles[p] : p \in DOMAIN host.profiles}
    ELSE host.profiles[host.platform]

(* A frame reaches the agent only on a run whose tier permits images, and  *)
(* only if the frame of that very try came from a plausible window of the  *)
(* right size, under the declared camera, decodes, and shows none of the   *)
(* chrome its profile rejects that a technique can see (FR-024..FR-026).   *)
ShownIsProvenClean ==
    \A i \in sent :
       /\ permitted
       /\ \E u \in frames[i].used :
             /\ u.camera = "declared"
             /\ u.try.ready /\ u.try.captured /\ u.try.source
             /\ u.try.geometry /\ u.try.decodes /\ u.try.wire
             /\ \A c \in u.try.shows \cap Required : Techniques[c] = "text"

(* An action reaches the game only on a board read after every earlier     *)
(* action of the attempt was sent (FR-008, I14).                           *)
FreshBoard == pc = "executing" => observation.after = executed

(* An attempt that returns hands on a record of every action it sent.  One *)
(* that loses its view of the board (T152) hands on all but at most the    *)
(* last, which no further board has verified; so does the loop while it    *)
(* runs.  Any other exception leaves with no record of what was sent.      *)
ExecutedIsRecorded ==
    LET recorded == Cardinality({i \in DOMAIN steps : steps[i].authorized})
    IN  /\ pc \in Inside \cup {"observation_failed"} => executed - recorded \in {0, 1}
        /\ pc \in Returned => executed = recorded

(* The backstop counts the steps since the last one that changed the game, *)
(* ends the attempt at the first that reaches the limit and never earlier, *)
(* and the agent's own end of turn wins over it (FR-014, SC-022).          *)
BackstopExact ==
    LET n == Len(steps)
        changed == {i \in DOMAIN steps : steps[i].progress = "changed_state"}
        tail == n - (IF changed = {} THEN 0 ELSE CHOOSE i \in changed : \A j \in changed : j <= i)
    IN  /\ streak = tail
        /\ \A i \in DOMAIN steps :
              (pc \in Returned /\ i = n) \/ (steps[i].streak < Limit /\ ~steps[i].ends)
        /\ pc = "ended_on_no_progress" <=>
              (pc \in Returned /\ n > 0 /\ tail >= Limit /\ ~steps[n].ends)

(* A run that lost an image stops being comparable at once, also when the  *)
(* attempt is later abandoned (FR-050, SC-013).                            *)
DegradationOnRun ==
    (\E i \in DOMAIN frames : frames[i].status = "withheld") => comparability # "comparable"

(* The result names every withheld frame once, with both of its events,    *)
(* and the backstop's event is there exactly when it ended the turn.       *)
EventsNameWithheld ==
    pc \in Returned =>
       /\ \A i \in DOMAIN frames, type \in {"capture_failed", "image_withheld"} :
             Cardinality({k \in DOMAIN events : events[k] = [type |-> type, step |-> i]})
                = (IF frames[i].status = "clean" THEN 0 ELSE 1)
       /\ pc = "ended_on_no_progress" <=>
             \E k \in DOMAIN events : events[k].type = "turn_ended_on_no_progress"

(* What audit steps, prompts and parity find in a turn the loop returned:  *)
(* no observation or capture serves two steps, every capture a step lists  *)
(* is on record, and the only action that resolves to nothing is one that  *)
(* was refused for it; the agent's proposal alone makes the audit fail.    *)
AuditsClean ==
    pc \in Returned =>
       LET record == [turn \in {1} |-> steps]
           written == {captures[k].step : k \in DOMAIN captures}
       IN  /\ OutcomeOf(DOMAIN record, AuditSteps(record) \cup AuditPrompts(record)) = "passed"
           /\ AuditParity(record, written) =
                 {Finding("unresolved_action", 1, i) :
                     i \in {j \in DOMAIN steps : ~steps[j].listed}}
           /\ \A i \in DOMAIN steps : steps[i].authorized => steps[i].listed

(* audit loop's docstring: each step's observation was assembled strictly  *)
(* after the prior step's decision was verified.                           *)
LoopAuditPasses == pc \in Returned => AuditLoop([turn \in {1} |-> steps], 1) = {}

(* The module's docstring: the loop exits with ended_by_agent when the     *)
(* decision names the declared end-turn action.                            *)
EndedByAgentNamesEndTurn ==
    pc = "ended_by_agent" => decision.action = EndTurn

(* Frames: each taken is on record once and truthfully, shown only if sent *)
(* and lowering the run's comparability if withheld, in well-typed states. *)
FramesAccounted == TypeOK /\ FrameRecorded /\ ShownIffSent /\ DegradationOnRun

(* Actions: each sent is decided on the newest board, and on record with   *)
(* an attempt that returns or, but for the last, loses the board.          *)
ActionsAccounted == FreshBoard /\ ExecutedIsRecorded

(* What an auditor can read off the stored record -- steps, captures,      *)
(* events of frames and of calls -- is what happened in the attempt.       *)
RecordTellsAttempt == AuditsClean /\ EventsNameWithheld /\ LogTellsChain
=============================================================================
