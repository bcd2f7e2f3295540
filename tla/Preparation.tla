---------------------------- MODULE Preparation -----------------------------
(***************************************************************************)
(* run/composition.py's _prepare_run over run/preparation.py and           *)
(* saves/branching.py: one start, from its document to a run that plays,   *)
(* fails on record or was refused, while the operator uses the same client *)
(* and `doctor' (operator/doctor.py) probes it.  Claims has several starts *)
(* at once; here is what one start reads, compares and writes.             *)
(***************************************************************************)
EXTENDS Preflight, Audit

CONSTANTS
    Getters,         \* the fields with a read path (_SETTING_GETTERS)
    Unobservable,    \* UNOBSERVABLE_SETTING_FIELDS
    LeaderFields,    \* civilization and leader
    Starts,          \* the inputs a start may come with
    Setups,          \* the setups a client may be found with
    MaxMoves,        \* bound: what the operator does at the client meanwhile
    MaxFaults        \* bound: calls and store writes that fail

ASSUME PreparationConstants ==
    /\ Getters \cup Unobservable \subseteq Fields /\ Getters \cap Unobservable = {}
    /\ LeaderFields \subseteq Getters
    /\ MaxMoves \in Nat /\ MaxFaults \in Nat

(* What validation leaves of a document, and what the client can show: the *)
(* fields compared have values, an acceptance has an id (None is for none) *)
(* and joins known builds, and a setup gives each getter an answer.        *)
ASSUME StartsAreValid ==
    /\ Setups \subseteq [Getters -> Values \cup {"nil"}]
    /\ LeaderFields # {}
    /\ \A s \in Starts :
         /\ s.kind \in {"fresh", "branch"}
         /\ \A f \in Getters : Configuration(s)[f] \in Values
         /\ \A a \in Accepted(s) : {a.from, a.to} \subseteq Builds /\ a.id # NoAcceptance

VARIABLES
    start,           \* the inputs of this start
    game,            \* external: the client's phase, setup, timer and era of its state table
    slot,            \* the tuner's one connection
    table,           \* state_indices of the run's client
    prep,            \* where the start is and what it holds
    row,             \* the stored Run
    events,          \* its stored events, by kind, with their detail
    claim,           \* the identity lock on the client
    context,         \* the run is in run_contexts
    truth,           \* history: the client's setup when it was read back
    doctor,          \* where a doctor command is, and its finding
    budget           \* what is left of MaxMoves and MaxFaults

vars == <<start, game, slot, table, prep, row, events, claim, context, truth, doctor, budget>>

Phases == {"menu", "create", "game"}
StateNames(phase) == IF phase = "game" THEN {"InGame", "GameCore_Tuner"}
                     ELSE IF phase = "create" THEN {"HostGame"} ELSE {"MainMenu"}
Timers == {"none", "active", "unnamed"}
NoTable == [phase |-> "menu", at |-> -1]
NoRow == [state |-> "absent"]
NotTried == "none"
Config == Configuration(start)
NoReadPath == Fields \ (Getters \cup Unobservable)

Init ==
    /\ start \in Starts
    /\ game \in [phase : Phases, setup : Setups, timer : Timers, at : {0}]
    /\ slot = "free" /\ table = NoTable
    /\ prep = [at |-> "begin", leader |-> NotTried, build |-> "unread",
               snapshot |-> <<>>, timer |-> "unread", mismatches |-> {}]
    /\ row = NoRow /\ events = {} /\ claim = "free" /\ context = FALSE
    /\ truth = <<>> /\ doctor = "off"
    /\ budget = [moves |-> MaxMoves, faults |-> MaxFaults]

At(step) == prep.at = step
Goto(step) == prep' = [prep EXCEPT !.at = step]
Stored == <<row, events>>
Outside == <<start, game, truth, doctor, budget>>

(* Every exception passes the close in _prepare_run and is re-raised.      *)
Closed_OnlyBeforeRow == IF row = NoRow /\ slot = "run" THEN "free" ELSE slot
Closed == IF slot = "run" THEN "free" ELSE slot
Raise ==
    /\ Goto("raised")
    /\ slot' = Closed
    /\ UNCHANGED <<table, claim, context, Stored, Outside>>

Aimed(name) == table.at = game.at /\ name \in StateNames(table.phase)

-----------------------------------------------------------------------------
(* Before the client                                                       *)

LoadConfiguration ==
    /\ At("begin")
    /\ Goto(IF Readable(start) /\ Restated(start) = {} THEN "preflight" ELSE "refused")
    /\ UNCHANGED <<slot, table, claim, context, Stored, Outside>>
RunPreflight ==
    /\ At("preflight")
    /\ Goto(IF Passes(start) THEN "connect" ELSE "refused")
    /\ UNCHANGED <<slot, table, claim, context, Stored, Outside>>
Connect ==
    /\ At("connect")
    /\ IF slot = "free" THEN slot' = "run" /\ Goto("refresh") ELSE slot' = slot /\ Goto("raised")
    /\ UNCHANGED <<table, claim, context, Stored, Outside>>

-----------------------------------------------------------------------------
(* The connected client                                                    *)

Read == table' = [phase |-> game.phase, at |-> game.at]
RefreshTable ==
    /\ At("refresh")
    /\ Read
    /\ Goto(IF "HostGame" \in StateNames(game.phase) THEN "leader" ELSE "phase")
    /\ UNCHANGED <<slot, claim, context, Stored, Outside>>
RefreshAfterLeader ==
    /\ At("leave_create")
    /\ Read
    /\ Goto("phase")
    /\ UNCHANGED <<slot, claim, context, Stored, Outside>>

(* LuaLeaderSelectionApplier: each setter may be refused or ignored by the *)
(* client, and what it took is read back.                                  *)
LeaderIs(result, wrong) ==
    prep' = [prep EXCEPT !.leader = result, !.mismatches = wrong,
                         !.at = IF result = "written" THEN "leader_read" ELSE "leave_create"]
WriteLeader ==
    /\ At("leader")
    /\ IF Aimed("HostGame")
         THEN \E taken \in SUBSET LeaderFields, issued \in BOOLEAN :
                /\ game' = [game EXCEPT !.setup =
                     [f \in Getters |-> IF f \in taken THEN Config[f] ELSE game.setup[f]]]
                /\ IF issued THEN LeaderIs("written", {})
                             ELSE LeaderIs("unavailable", LeaderFields)
         ELSE game' = game /\ LeaderIs("unavailable", LeaderFields)
    /\ UNCHANGED <<start, slot, table, claim, context, Stored, truth, doctor, budget>>
ReadLeaderBack ==
    LET wrong == IF Aimed("HostGame") THEN {f \in LeaderFields : game.setup[f] # Config[f]}
                 ELSE LeaderFields
    IN /\ At("leader_read")
       /\ LeaderIs(IF wrong = {} THEN "verified" ELSE "mismatch", wrong)
       /\ UNCHANGED <<slot, table, claim, context, Stored, Outside>>

(* A fresh run needs a game its operator has started.                      *)
RequireGame ==
    /\ At("phase")
    /\ IF table.phase = "game"
         THEN Goto("build") /\ UNCHANGED <<slot, table, claim, context, Stored, Outside>>
         ELSE Raise

(* read_game_build: a failure of the tuner's reader counts as no answer,   *)
(* and the executable's version has no extractor here.                     *)
ReadBuild ==
    /\ At("build")
    /\ IF Aimed("GameCore_Tuner") /\ start.build \in Builds
         THEN /\ prep' = [prep EXCEPT !.build = start.build, !.at = "pin"]
              /\ UNCHANGED <<slot, table, claim, context, Stored, Outside>>
         ELSE Raise
CheckPin ==
    /\ At("pin")
    /\ IF PinCovers(start, prep.build)
         THEN /\ Goto(IF start.kind = "branch" THEN "source" ELSE "create")
              /\ UNCHANGED <<slot, table, claim, context, Stored, Outside>>
         ELSE Raise

-----------------------------------------------------------------------------
(* create_branch: judged first, then loaded, then put on record            *)

SourceHolds == /\ start.source = "available"
               /\ BranchCovers(start, prep.build)
CheckSource ==
    /\ At("source")
    /\ IF SourceHolds
         THEN Goto("load") /\ UNCHANGED <<slot, table, claim, context, Stored, Outside>>
         ELSE Raise
LoadParentSave ==
    /\ At("load")
    /\ \E s \in Setups : game' = [game EXCEPT !.phase = "game", !.setup = s, !.at = @ + 1]
    /\ table' = [phase |-> "game", at |-> game'.at]
    /\ Goto("create")
    /\ UNCHANGED <<start, slot, claim, context, Stored, truth, doctor, budget>>

LineageOf(s) == IF s.kind = "branch" THEN <<"parent", 1>> ELSE <<>>
NewRow(s, build) ==
    [lineage |-> LineageOf(s), state |-> "preparing", build |-> build, acceptance |-> AcceptanceRef(s, build),
     comparability |-> Comparability(s.host), config |-> Configuration(s)]
AfterRow(s) == IF s.kind = "branch" THEN "record_branch" ELSE "claim"
CreateRow ==
    /\ At("create")
    /\ row' = NewRow(start, prep.build)
    /\ Goto(AfterRow(start))
    /\ UNCHANGED <<slot, table, claim, context, events, Outside>>
RecordBranch ==
    /\ At("record_branch")
    /\ events' = events \cup {[kind |-> "branch_created", lineage |-> row.lineage]}
    /\ Goto("refresh_loaded")
    /\ UNCHANGED <<slot, table, claim, context, row, Outside>>
RefreshLoaded ==
    /\ At("refresh_loaded")
    /\ Read
    /\ Goto("claim")
    /\ UNCHANGED <<slot, claim, context, Stored, Outside>>

-----------------------------------------------------------------------------
(* Claim and read-back                                                     *)

(* No claim is taken when the client's process cannot be found.            *)
Claim ==
    /\ At("claim")
    /\ IF start.process = "claimed" THEN Raise
       ELSE /\ claim' = IF start.process = "found" THEN "run" ELSE claim
            /\ Goto(IF prep.leader \in {NotTried, "verified"} THEN "read" ELSE "fail")
            /\ UNCHANGED <<slot, table, context, Stored, Outside>>

(* LuaGameSetupReader.read: one call in the InGame state.  A state table   *)
(* of an earlier game aims it at another state, which knows no setup.      *)
Nothing == [f \in Getters |-> "nil"]
ReadSetup ==
    /\ At("read")
    /\ IF "InGame" \in StateNames(table.phase)
         THEN /\ prep' = [prep EXCEPT !.at = "judge",
                            !.snapshot = IF Aimed("InGame") THEN game.setup ELSE Nothing,
                            !.timer = IF Aimed("InGame") THEN game.timer ELSE "unnamed"]
              /\ truth' = game.setup
              /\ UNCHANGED <<start, slot, table, claim, context, Stored, game, doctor, budget>>
         ELSE Raise

(* verify_configuration through _read_setting: a field without a read path *)
(* is accepted and listed, one whose value did not come never matches.     *)
Fallback_AnyUnread == Fields \ {f \in Getters : prep.snapshot[f] # "nil"}
Fallback == NoReadPath
Mismatching ==
    {f \in Fields \ (Unobservable \cup Fallback) : prep.snapshot[f] # Config[f]}
Judge ==
    /\ At("judge")
    /\ IF prep.timer = "active" THEN Raise
       ELSE /\ prep' = [prep EXCEPT !.mismatches = Mismatching,
                                    !.at = IF Mismatching = {} THEN "announce" ELSE "fail"]
            /\ UNCHANGED <<slot, table, claim, context, Stored, Outside>>

-----------------------------------------------------------------------------
(* On record: the event first, then the row                                *)

PlayingEvent == [kind |-> "playing", unverified |-> Fallback, unobservable |-> Unobservable]
Announce ==
    /\ At("announce")
    /\ events' = events \cup {PlayingEvent}
    /\ Goto("play")
    /\ UNCHANGED <<slot, table, claim, context, row, Outside>>
Play ==
    /\ At("play")
    /\ row' = [row EXCEPT !.state = "playing"]
    /\ context' = TRUE
    /\ Goto("playing")
    /\ UNCHANGED <<slot, table, claim, events, Outside>>

MismatchEvent(fs) == [kind |-> "mismatch", fields |-> fs]
RecordMismatch ==
    /\ At("fail")
    /\ events' = events \cup {MismatchEvent(prep.mismatches)}
    /\ Goto("announce_failed")
    /\ UNCHANGED <<slot, table, claim, context, row, Outside>>
AnnounceFailed ==
    /\ At("announce_failed")
    /\ events' = events \cup {[kind |-> "failed"]}
    /\ Goto("failing")
    /\ UNCHANGED <<slot, table, claim, context, row, Outside>>
Fail ==
    /\ At("failing")
    /\ row' = [row EXCEPT !.state = "failed"]
    /\ claim' = IF claim = "run" THEN "free" ELSE claim
    /\ slot' = Closed
    /\ Goto("failed")
    /\ UNCHANGED <<table, context, events, Outside>>

-----------------------------------------------------------------------------
(* Around the start                                                        *)

LeaderTrouble == {"mismatch", "unavailable"}
Awaits == {"refresh", "leave_create", "load", "refresh_loaded", "read"}
Writes == {"create", "record_branch", "announce", "play", "fail", "announce_failed", "failing"}
(* A call of the client or a write to the store fails, or the start is     *)
(* cancelled in an await; the leader's and the build's readers catch it.   *)
CallFails ==
    /\ prep.at \in Awaits \cup Writes
    /\ budget.faults > 0
    /\ budget' = [budget EXCEPT !.faults = @ - 1]
    /\ Goto("raised")
    /\ slot' = Closed
    /\ UNCHANGED <<start, game, table, claim, context, Stored, truth, doctor>>

(* The operator opens a screen, starts or loads a game, or sets it up.     *)
OperatorMoves ==
    /\ budget.moves > 0
    /\ game' \in [phase : Phases, setup : Setups, timer : Timers, at : {game.at + 1}]
    /\ budget' = [budget EXCEPT !.moves = @ - 1]
    /\ UNCHANGED <<start, slot, table, prep, Stored, claim, context, truth, doctor>>

DoctorConnects ==
    /\ doctor = "off"
    /\ IF slot = "free" THEN slot' = "doctor" /\ doctor' = "connected"
       ELSE slot' = slot /\ doctor' = "unreachable"
    /\ UNCHANGED <<start, game, table, prep, Stored, claim, context, truth, budget>>
DoctorReads ==
    /\ doctor = "connected"
    /\ doctor' = IF game.phase = "game" THEN "ok" ELSE "no_game_loaded"
    /\ slot' = "free"
    /\ UNCHANGED <<start, game, table, prep, Stored, claim, context, truth, budget>>

Step ==
    \/ LoadConfiguration \/ RunPreflight \/ Connect
    \/ RefreshTable \/ WriteLeader \/ ReadLeaderBack \/ RefreshAfterLeader
    \/ RequireGame \/ ReadBuild \/ CheckPin
    \/ CheckSource \/ LoadParentSave \/ CreateRow \/ RecordBranch \/ RefreshLoaded
    \/ Claim \/ ReadSetup \/ Judge
    \/ Announce \/ Play
    \/ RecordMismatch \/ AnnounceFailed \/ Fail
Next == Step \/ CallFails \/ OperatorMoves \/ DoctorConnects \/ DoctorReads

Spec == Init /\ [][Next]_vars

-----------------------------------------------------------------------------
(* Properties *)

Steps == {"begin", "preflight", "connect", "refresh", "leader", "leader_read",
          "leave_create", "phase", "build", "pin", "source", "load", "create",
          "record_branch", "refresh_loaded", "claim", "read", "judge", "announce", "play",
          "fail", "announce_failed", "failing", "refused", "raised", "playing", "failed"}
Ends == {"refused", "raised", "playing", "failed"}
AcceptanceIds == {a.id : a \in Accepted(start)}
Readings == Values \cup {"nil"}

(* The types of the start's state. *)
TypeOK ==
    /\ game.phase \in Phases /\ game.timer \in Timers /\ game.setup \in [Getters -> Readings]
    /\ slot \in {"free", "run", "doctor"} /\ table.phase \in Phases
    /\ prep.at \in Steps /\ prep.leader \in {NotTried, "written", "verified"} \cup LeaderTrouble
    /\ prep.build \in Builds \cup {"unread"} /\ prep.mismatches \subseteq Fields
    /\ row # NoRow =>
         /\ row.state \in {"preparing", "playing", "failed"} /\ row.build \in Builds
         /\ row.comparability \in {"comparable", "visually_degraded"}
         /\ row.acceptance \in AcceptanceIds \cup {NoAcceptance}
    /\ claim \in {"free", "run"} /\ context \in BOOLEAN
    /\ doctor \in {"off", "connected", "ok", "no_game_loaded", "unreachable"}

(* A run plays only in a game that was read, after every load and refresh, *)
(* to be the one configured, without a turn timer the client could name;   *)
(* and the fields nobody could read are the ones its record says were not  *)
(* verified: preparation.py's "never a silent skip" (V2).                  *)
PlayingIsMatched ==
    row.state = "playing" =>
        /\ \A f \in Getters : truth[f] = row.config[f]
        /\ prep.timer # "active"
        /\ \E e \in events : /\ e.kind = "playing"
                             /\ e.unverified \cup e.unobservable = Fields \ Getters

(* A run that failed its verification names every field the client had     *)
(* otherwise, and no other; the client of an operator who kept still has   *)
(* those fields otherwise indeed (_fail_preparation).                      *)
FailedIsRecorded ==
    row.state = "failed" =>
        /\ \E e \in events : e.kind = "failed"
        /\ \E e \in events :
             /\ e.kind = "mismatch" /\ e.fields # {}
             /\ prep.leader \notin LeaderTrouble /\ budget.moves = MaxMoves =>
                  e.fields = {f \in Getters : truth[f] # row.config[f]}

(* However a start ends without a run that plays, the tuner's one slot is  *)
(* given back and no context stands; a run failed on record keeps no claim *)
(* either.  A context means a playing row on a connected, claimed client.  *)
NothingLeft ==
    /\ prep.at \in Ends \ {"playing"} => slot # "run" /\ ~context
    /\ prep.at = "failed" => claim = "free"
    /\ context => /\ row.state = "playing" /\ slot = "run"
                  /\ start.process = "found" => claim = "run"
    /\ doctor \notin {"off", "connected"} => slot # "doctor"

(* A run that has a seed set stands on the pinned build or on one accepted *)
(* for that very change, and its row names the acceptance of the change    *)
(* made at its start, exactly when there was one: from the pin for a fresh *)
(* run, from its parent's build for a branch (branching.py:343).  Where    *)
(* the two are one build this is data-model.md:215 and I18; a branch of a  *)
(* parent on another build does not keep those, see BuildAsSeedSet.        *)
StartedFrom == IF start.kind = "branch" THEN start.parentBuild ELSE start.seed.pinned
BuildCovered ==
    row # NoRow =>
        /\ HasSeedSet(start) /\ row.build # start.seed.pinned =>
             \E a \in start.seed.accepted : a.from = start.seed.pinned /\ a.to = row.build
        /\ row.acceptance # NoAcceptance =>
             \E a \in Accepted(start) :
                a.from = StartedFrom /\ a.to = row.build /\ a.id = row.acceptance
        /\ row.acceptance # NoAcceptance <=> HasSeedSet(start) /\ row.build # StartedFrom

(* data-model.md:215 and I18 (:689): a reference is on the row exactly     *)
(* when its build is not the seed set's.  In no run: a branch on the build *)
(* its parent was accepted for has none, and one back on the pin has one.  *)
BuildAsSeedSet ==
    row # NoRow /\ HasSeedSet(start) =>
        (row.acceptance # NoAcceptance <=> row.build # start.seed.pinned)

(* A run counts as visually comparable only on a host with nothing that    *)
(* speaks for Wayland -- XWayland sets DISPLAY too -- and a verified        *)
(* compositor, whether it is fresh or a branch of a comparable run.        *)
ComparableIsProven ==
    row # NoRow /\ row.comparability = "comparable" =>
        LET h == start.host
        IN /\ h.os = "linux" /\ h.compositing /\ h.xdg # "wayland"
           /\ h.waylandDisplay => h.xdg = "x11"

(* The parent's save replaces what the client shows only for a branch that *)
(* may stand: its save there, its build the parent's or accepted, across   *)
(* platforms with a passed spike (check_branch_build before load).         *)
LoadedIsCovered ==
    start.kind = "branch" /\ (row # NoRow \/ prep.at \in {"load", "create"}) =>
        /\ start.source = "available"
        /\ \/ prep.build = start.parentBuild
           \/ \E a \in Accepted(start) :
                /\ a.from = start.parentBuild /\ a.to = prep.build
                /\ Platform[a.from] = Platform[a.to] \/ a.spike

(* What a branch inherits it has from its parent, and of its seed set's    *)
(* declared fields none differs: a restatement is refused, not obeyed.     *)
InheritedIsParents ==
    row # NoRow =>
        /\ start.kind = "branch" =>
             \A f \in Inherited : Same(f, row.config[f], start.parent[f])
        /\ HasSeedSet(start) =>
             \A f \in Declared : Same(f, row.config[f], start.seed.values[f])

(* The client is not touched for a run that one of its models, a later one *)
(* of the chain too, or the disk or the catalog could not carry.           *)
ConnectedCanRun ==
    slot = "run" =>
        /\ \A i \in DOMAIN start.chain :
             /\ start.chain[i].confirmed /\ start.chain[i].images
             /\ start.chain[i].window >= ContextNeeded
        /\ start.disk.free >= start.disk.floor
        /\ \A c \in start.capabilities : c \in start.governed

(* What audit lineage and audit builds find in the row of a start that     *)
(* came to its own end: a branch's parent, save point and event are all on *)
(* record, and a seed set accounts for the build of each of its runs.      *)
AuditsHold ==
    row # NoRow =>
        /\ start.kind = "branch" /\ row.state # "preparing" =>
             AuditLineage(row.lineage, {"parent"}, {<<"parent", 1>>},
                          {e.lineage : e \in {v \in events : v.kind = "branch_created"}}) = {}
        /\ HasSeedSet(start) =>
             AuditBuilds(start.seed.pinned, start.seed.accepted, Platform, {row.build})
                \subseteq {"platform_transition_acceptance_missing_spike_ref"} \X Builds \X Builds

(* How a start ended is recorded as it was: a run that plays was matched,  *)
(* a failed one names in what it was not, and the audits of lineage and of *)
(* builds find nothing wrong, in well-typed states.                        *)
VerdictIsTrue == TypeOK /\ PlayingIsMatched /\ FailedIsRecorded /\ AuditsHold

(* No run stands on what it was not cleared for: a build its seed set or   *)
(* its parent does not cover, a save, host, chain, disk or catalog that was *)
(* not checked, a configuration it should have inherited (_prepare_run).   *)
StandsOnCleared ==
    BuildCovered /\ LoadedIsCovered /\ ComparableIsProven /\ InheritedIsParents /\ ConnectedCanRun
=============================================================================
