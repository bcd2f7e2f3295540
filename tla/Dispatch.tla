------------------------------- MODULE Dispatch -------------------------------
(***************************************************************************)
(* From the catalog on disk to a verified action: load_catalog, the read   *)
(* of every declared observation (observe/reader.py, observe/assemble.py), *)
(* the route of a prompt (act/prompts.py), the judgement of a decision     *)
(* (act/dispatch.py, act/camera.py), its call (act/executor.py,            *)
(* capability/executor.py) and its verification on the next board          *)
(* (act/verify.py).  DecisionLoop has the same steps with the values of    *)
(* the predicates as inputs; here they are computed.                       *)
(*                                                                         *)
(* The declarations are read one after the other, so the game may move in  *)
(* the middle of a board.                                                  *)
(***************************************************************************)
EXTENDS Catalog

CONSTANTS
    Roots,            \* contents of catalogs/ that are explored
    Lua,              \* [implementation_ref -> dispatch tables], what is on disk
    Proposals,        \* decisions explored: [action, target, extra]
    MaxSteps,         \* bound: decisions
    MaxMoves          \* bound: moves of the game on its own

ASSUME DispatchAssumption == MaxSteps \in Nat /\ MaxMoves \in Nat

(* The files of a root and the entries of a file are in order, and a       *)
(* capability has one of the two paths of CapabilityPath.  A decision      *)
(* names an action, and its target is a JSON value.                        *)
ASSUME RootsAssumption ==
    \A r \in Roots :
       /\ Places(r.declarations) \subseteq Nat \X Nat
       /\ \A c \in Range(Entries(r.capabilities)) : c.path \in {"firetuner", "bespoke"}
ASSUME ProposalsAssumption ==
    \A p \in Proposals :
       /\ p.action # <<"none", "none">>
       /\ Is(p.target, {"num"}) => p.target[2] \in Int /\ p.target = Num(p.target[2])
       /\ Is(p.target, {"bool"}) => p.target \in {Bool(TRUE), Bool(FALSE)}

VARIABLES
    root,             \* the files under catalogs/
    pc,               \* where the step is, or how the attempt was left
    catalog,          \* the loaded catalog
    game,             \* what is the case in the game
    moves,            \* moves the game made
    board,            \* the entries the step decides on
    fresh,            \* the entries of the read under way
    proposal,         \* the decision of the step
    verdict,          \* DispatchOutcome
    call,             \* the call sent for it
    record,           \* the execution recorded last, until the next decision
    steps             \* decisions taken

dispatchVars == <<root, pc, catalog, game, moves, board, fresh, proposal, verdict, call, record, steps>>

NoCatalog == [order |-> <<>>, declarations |-> <<>>, capabilities |-> <<>>]
NoProposal == [action |-> <<"none", "none">>, target |-> Null, extra |-> <<>>]
NotSent == [function |-> "none", arguments |-> <<>>]
NoRecord == [proposal |-> NoProposal, outcome |-> "none", reason |-> "none", call |-> NotSent,
             before |-> <<>>, after |-> <<>>]

DispatchInit ==
    /\ root \in Roots
    /\ pc = "loading" /\ catalog = NoCatalog
    /\ \E rival \in {"peace", "war"} :
          game = [turn |-> 1, mine |-> TRUE, screen |-> <<"screen", "world">>,
                  rival |-> rival, person |-> "free", tech |-> "none"]
    /\ moves = 0
    /\ board = <<>> /\ fresh = <<>>
    /\ proposal = NoProposal /\ verdict = "none" /\ call = NotSent
    /\ record = NoRecord /\ steps = 0

(* The catalog is loaded whole or the run does not start.                  *)
Load ==
    /\ pc = "loading"
    /\ IF LoadsCatalog(root)
       THEN pc' = "reading" /\ catalog' = LoadedCatalog(root)
       ELSE pc' = "catalog_refused" /\ UNCHANGED catalog
    /\ UNCHANGED <<root, game, moves, board, fresh, proposal, verdict, call, record, steps>>

----------------------------------------------------------------------------
(* Reading.  What the Lua side answers for a declaration: the game's       *)
(* state, or a value that is not what its schema says.                     *)

IsPrompt(screen) == screen[1] = "prompt"
Options == List(<< Str("accept"), Str("refuse") >>)
ScreenState(screen, blocking) ==
    Rec([screen |-> Id(screen), recognized |-> Bool(screen # <<"screen", "unknown">>),
         has_blocking_prompt |-> Bool(blocking),
         prompt_options |-> IF IsPrompt(screen) THEN Options ELSE List(<<>>)])
Rival == Whole(1)
Relation(id, state) ==
    Rec([player_id |-> id, has_met |-> Bool(TRUE), diplomatic_state |-> Str(state)])
Person == Rec([individual_id |-> Whole(2)])

ValueOf(id) ==
    CASE id = <<"game", "screen_state">> -> ScreenState(game.screen, IsPrompt(game.screen))
      [] id = <<"game", "turn_state">> ->
            Rec([turn_number |-> Whole(game.turn), is_local_player_turn |-> Bool(game.mine),
                 is_waiting_for_other_players |-> Bool(~game.mine)])
      [] id = <<"diplomacy", "state">> ->
            Rec([relations |-> List(IF game.rival = "gone" THEN <<>>
                                    ELSE << Relation(Rival, game.rival) >>)])
      [] id = <<"great_people", "state">> ->
            Rec([recruitable_individuals |->
                    List(IF game.person = "free" THEN << Person >> ELSE <<>>)])
      [] id = <<"research", "state">> ->
            Rec([researchable_techs |-> List(<< Str("pottery") >>),
                 current_research |-> IF game.tech = "none" THEN Null ELSE Str(game.tech)])

Malformed(id) ==
    {Rec(<<>>), Null}
    \cup (IF id = <<"diplomacy", "state">>
          THEN {Rec([relations |-> List(<< Rec([has_met |-> Bool(TRUE)]) >>)]),
                Rec([relations |-> List(<< Relation(True, "war") >>)])} ELSE {})
    \cup (IF id = <<"game", "screen_state">>
          THEN {ScreenState(<<"screen", "world">>, TRUE)} ELSE {})

(* The value passes its schema; a screen must also be consistent.          *)
Accepted(id, value) ==
    /\ Conforms(catalog.declarations[id].schema[1], value)
    /\ id = <<"game", "screen_state">> =>
          /\ {"screen", "recognized", "has_blocking_prompt"} \subseteq DOMAIN value[2]
          /\ Truthy(value[2]["recognized"]) /\ Truthy(value[2]["has_blocking_prompt"])
                => IsPrompt(value[2]["screen"][2])

(* One after the other, in the order of the files.                         *)
Unread == Observables(catalog) \ DOMAIN fresh
NextRead ==
    LET unread == {i \in DOMAIN catalog.order : catalog.order[i] \in Unread}
    IN  catalog.order[CHOOSE i \in unread : \A j \in unread : Precedes(i, j)]
Reading == pc = "reading" /\ Unread # {}

ReadDeclaration ==
    /\ Reading
    /\ LET id == NextRead
       IN  /\ Callable(catalog, Lua, id)
           /\ \E value \in {ValueOf(id)} \cup Malformed(id) :
                 IF Accepted(id, value)
                 THEN fresh' = Joined([i \in {id} |-> value], fresh) /\ UNCHANGED pc
                 ELSE pc' = "observation_failed" /\ UNCHANGED fresh
    /\ UNCHANGED <<root, catalog, game, moves, board, proposal, verdict, call, record, steps>>

(* No file, no function, no state table or no such state, or the transport *)
(* fails: an error that is no assembly failure.                            *)
ReadRaises ==
    /\ Reading
    /\ pc' = "raised"
    /\ UNCHANGED <<root, catalog, game, moves, board, fresh, proposal, verdict, call, record,
                   steps>>

(* assemble_observation: one entry for every result, under its id.         *)
Assemble ==
    /\ pc = "reading" /\ Unread = {}
    /\ \A id \in DOMAIN fresh : Observable(catalog, id)
    /\ IF proposal = NoProposal
       THEN pc' = "routing" /\ board' = fresh /\ fresh' = <<>>
       ELSE pc' = "verifying" /\ UNCHANGED <<board, fresh>>
    /\ UNCHANGED <<root, catalog, game, moves, proposal, verdict, call, record, steps>>

----------------------------------------------------------------------------
(* Deciding.                                                               *)

ScreenRead == Read(board, <<"game", "screen_state">>)
Recognized == Truthy(Field(ScreenRead, "recognized"))
Blocked == Recognized /\ Truthy(Field(ScreenRead, "has_blocking_prompt"))

(* An unrecognised screen stalls the run; a prompt no action answers is a  *)
(* CatalogError.  A catalog that declares no screen state routes nothing.  *)
RoutePrompt ==
    /\ pc = "routing"
    /\ pc' = CASE ScreenRead # Null /\ ~Recognized -> "unknown_screen"
               [] Blocked /\ ~Declared(catalog, AnswerTo(Field(ScreenRead, "screen")[2])) ->
                     "catalog_error"
               [] OTHER -> "deciding"
    /\ UNCHANGED <<root, catalog, game, moves, board, fresh, proposal, verdict, call, record,
                   steps>>

Available(id, bindings) ==
    Evaluate(catalog.declarations[id].availability[1], bindings) = True

(* dispatch_action.                                                        *)
DispatchAction(p) ==
    IF ~Declared(catalog, p.action) THEN "not_in_catalog"
    ELSE IF catalog.declarations[p.action].kind # "action" THEN "not_in_catalog"
    ELSE IF ~Authorized(catalog, p.action, "InGame") THEN "illegal_in_context"
    ELSE IF Available(p.action, Bindings(board, p.target, <<>>)) THEN "authorized"
    ELSE "unavailable_to_human_now"

CameraActions == {<<"camera", "move">>, <<"camera", "zoom">>, <<"camera", "set_view_mode">>}

(* validate_camera_action sees the target and nothing else.                *)
ValidateCamera(p) ==
    IF Available(p.action, [target |-> p.target]) THEN "authorized" ELSE "out_of_parity_camera"

Judgement(p) ==
    IF p.action \in CameraActions
       /\ DispatchAction(p) \notin {"not_in_catalog", "illegal_in_context"}
    THEN ValidateCamera(p) ELSE DispatchAction(p)

Decide ==
    /\ pc = "deciding" /\ steps < MaxSteps
    /\ \E p \in Proposals :
          /\ proposal' = p
          /\ verdict' = Judgement(p)
    /\ pc' = IF verdict' = "authorized" THEN "executing" ELSE "reading"
    /\ call' = NotSent /\ record' = NoRecord /\ steps' = steps + 1
    /\ UNCHANGED <<root, catalog, game, moves, board, fresh>>

----------------------------------------------------------------------------
(* Executing: the game does what the function it is called with does, or   *)
(* nothing; what the call returns is not read.                             *)

CallOf(p) ==
    [function |-> FunctionKey(catalog, p.action),
     arguments |-> ArgumentsOf(catalog, p.action, p.extra, p.target)]

Done(c) ==
    CASE c.function = "end_turn" -> [game EXCEPT !.mine = FALSE]
      [] c = [function |-> "declare_war", arguments |-> << Rival >>] /\ game.rival = "peace"
            -> [game EXCEPT !.rival = "war"]
      [] c = [function |-> "make_peace", arguments |-> << Rival >>] /\ game.rival = "war"
            -> [game EXCEPT !.rival = "peace"]
      [] c = [function |-> "recruit", arguments |-> << Whole(2) >>] /\ game.person = "free"
            -> [game EXCEPT !.person = "ours"]
      [] c = [function |-> "set_research", arguments |-> << Str("pottery") >>]
            -> [game EXCEPT !.tech = "pottery"]
      [] c.function = "respond" /\ c.arguments # <<>> /\ c.arguments[1] = Id(game.screen)
            -> [game EXCEPT !.screen = <<"screen", "world">>]
      [] OTHER -> game

Execute ==
    /\ pc = "executing"
    /\ Callable(catalog, Lua, proposal.action)
    /\ call' = CallOf(proposal)
    /\ game' \in {game, Done(call')}
    /\ pc' = "reading"
    /\ UNCHANGED <<root, catalog, moves, board, fresh, proposal, verdict, record, steps>>

ExecuteRaises ==
    /\ pc = "executing"
    /\ pc' = "raised"
    /\ UNCHANGED <<root, catalog, game, moves, board, fresh, proposal, verdict, call, record,
                   steps>>

(* verify_execution: confirmed by the predicate on the fresh board, with   *)
(* the snapshot of the board before.                                       *)
Snapshot_Fresh(before, after) == ObservedSnapshot(after)
Snapshot(before, after) == ObservedSnapshot(before)

Confirmed ==
    Evaluate(catalog.declarations[proposal.action].verification[1],
             Bindings(fresh, proposal.target, Snapshot(board, fresh))) = True

Verified(confirmed) ==
    IF confirmed THEN [outcome |-> "applied", reason |-> "none"]
    ELSE [outcome |-> "rejected", reason |-> "verification_failed"]

Execution ==
    IF verdict = "authorized" THEN Verified(Confirmed)
    ELSE [outcome |-> "rejected", reason |-> verdict]

(* The step is recorded and the board just read is the next step's.        *)
RecordStep ==
    /\ pc = "verifying"
    /\ record' = [proposal |-> proposal, outcome |-> Execution.outcome,
                  reason |-> Execution.reason, call |-> call, before |-> board, after |-> fresh]
    /\ board' = fresh /\ fresh' = <<>>
    /\ proposal' = NoProposal /\ verdict' = "none" /\ call' = NotSent
    /\ pc' = "routing"
    /\ UNCHANGED <<root, catalog, game, moves, steps>>

----------------------------------------------------------------------------
(* The game on its own: a prompt, the other players' moves, the next turn. *)

Moves ==
    {[game EXCEPT !.screen = s] :
        s \in {<<"prompt", "declare_war_response">>, <<"prompt", "diplomatic_approach">>,
               <<"screen", "unknown">>, <<"screen", "world">>}}
    \cup (IF game.mine THEN {}
          ELSE {[game EXCEPT !.rival = r] : r \in {"war", "gone"}}
               \cup {[game EXCEPT !.person = IF @ = "free" THEN "taken" ELSE @],
                     [game EXCEPT !.turn = @ + 1, !.mine = TRUE]})

GameMoves ==
    /\ pc \in {"reading", "deciding", "executing"} /\ moves < MaxMoves
    /\ game' \in Moves \ {game}
    /\ moves' = moves + 1
    /\ UNCHANGED <<root, pc, catalog, board, fresh, proposal, verdict, call, record, steps>>

DispatchNext ==
    \/ Load \/ ReadDeclaration \/ ReadRaises \/ Assemble \/ RoutePrompt
    \/ Decide \/ Execute \/ ExecuteRaises \/ RecordStep \/ GameMoves

DispatchSpec == DispatchInit /\ [][DispatchNext]_dispatchVars

----------------------------------------------------------------------------
Reasons == {"none", "not_in_catalog", "illegal_in_context", "unavailable_to_human_now",
            "out_of_parity_camera", "verification_failed"}

(* Every variable has its type.                                            *)
DispatchTypeOK ==
    /\ pc \in {"loading", "reading", "routing", "deciding", "executing", "verifying",
               "catalog_refused", "observation_failed", "raised", "unknown_screen",
               "catalog_error"}
    /\ moves \in 0..MaxMoves /\ steps \in 0..MaxSteps
    /\ verdict \in {"authorized"} \cup (Reasons \ {"verification_failed"})
    /\ record.outcome \in {"none", "applied", "rejected"} /\ record.reason \in Reasons
    /\ DOMAIN fresh \subseteq Observables(catalog)

(* What the code after the loader takes for granted of a loaded catalog:   *)
(* a declaration has its capability and what its kind needs (the asserts   *)
(* of dispatch_action, verify_execution and _validate_output), a name of a *)
(* predicate that lacks a binding, whatever the board, is an observed_ one *)
(* or a literal in another spelling -- NULL, TRUE -- that the gate let     *)
(* through (capability/predicates.py:76), and the capabilities audit finds *)
(* nothing on it (FR-028, SC-020).                                         *)
LoadedServes ==
    LET bound == DOMAIN Bindings(board, Null, <<>>)
    IN  /\ \A id \in DOMAIN catalog.declarations :
              LET d == catalog.declarations[id]
                  names(e) == {n.id : n \in {m \in Nodes(e) : m.op = "name"}} \ DOMAIN Literals
              IN  /\ d.capability \in DOMAIN catalog.capabilities
                  /\ d.kind # "action" => d.schema # <<>>
                  /\ d.kind = "action" =>
                        \A e \in {d.availability[1], d.verification[1]} :
                           names(e) \subseteq bound \cup ObservedNames \cup OtherSpellings
        /\ CapabilityFindings(catalog, DOMAIN catalog.declarations) = {}

(* A target as Python compares it: a boolean is the number 1 or 0.         *)
Meant(target) ==
    CASE target = Bool(TRUE) -> Whole(1)
      [] target = Bool(FALSE) -> Whole(0)
      [] OTHER -> target
RelationTo(values, target) ==
    LET relations == Field(Read(values, <<"diplomacy", "state">>), "relations")
    IN  {relations[2][i] :
            i \in {j \in DOMAIN relations[2] : Field(relations[2][j], "player_id") = Meant(target)}}
AtWar(relation) == Field(relation, "diplomatic_state") = Str("war")
Turn(values, field) == Field(Read(values, <<"game", "turn_state">>), field)
Screen(values) == Field(Read(values, <<"game", "screen_state">>), "screen")

(* A board a decision is taken on holds every declared observation, each   *)
(* complete down to the items of its lists (FR-016, FR-018): a partial or  *)
(* malformed read never becomes a board.                                   *)
BoardComplete ==
    pc \in {"routing", "deciding", "executing", "verifying"} =>
       /\ DOMAIN board = Observables(catalog)
       /\ \A id \in DOMAIN board : Is(board[id], {"rec"}) /\ DOMAIN board[id][2] # {}
       /\ <<"diplomacy", "state">> \in DOMAIN board =>
             \A i \in DOMAIN Field(board[<<"diplomacy", "state">>], "relations")[2] :
                Field(Field(board[<<"diplomacy", "state">>], "relations")[2][i], "player_id")
                   # Null

(* What a human could do on the board, told without the predicates.        *)
HumanCould(p, values) ==
    CASE p.action = <<"turn", "end_turn">> ->
            /\ Turn(values, "is_local_player_turn") = True
            /\ Is(Screen(values), {"id"}) => ~IsPrompt(Screen(values)[2])
      [] p.action = <<"diplomacy", "declare_war">> ->
            \E r \in RelationTo(values, p.target) : ~AtWar(r)
      [] p.action = <<"diplomacy", "make_peace">> ->
            \E r \in RelationTo(values, p.target) : AtWar(r)
      [] p.action = <<"research", "set_tech">> -> p.target = Str("pottery")
      [] p.action = <<"prompts", "declare_war_response">> ->
            /\ Screen(values) = Id(<<"prompt", "declare_war_response">>)
            /\ p.target \in {Str("accept"), Str("refuse")}
      [] p.action = <<"camera", "zoom">> -> 
            Is(Meant(p.target), {"num"}) /\ Meant(p.target)[2] \in 5..100
      [] OTHER -> FALSE

(* An action reaches the game only if a human could have taken it on the   *)
(* board it was decided on (FR-017): a missing entry, a target that is not *)
(* listed, a text for a number and a name without a binding never count as *)
(* available.  A boolean target does, for the number it is in Python: the  *)
(* camera zooms to true and player true is player 1, see                   *)
(* BooleansAreNoNumbers.  great_people.recruit asks for a field that no    *)
(* observation reports, and congress.cast_vote for a session that the      *)
(* observations of Shipped do not tell of: neither is ever executed.       *)
AuthorizedOnEvidence == pc = "executing" => HumanCould(proposal, board)

(* "bool ... is not a number in this catalog's grammar" (predicates.py:202,*)
(* kept by + and - only): no boolean is available where a number is meant. *)
(* In no run: every comparison takes one (act/predicates.py:265, :474).    *)
BooleansAreNoNumbers ==
    pc = "executing" /\ proposal.action[1] \in {"camera", "diplomacy"} =>
        ~Is(proposal.target, {"bool"})

(* The effect on the board after, or a subject the board no longer lists.  *)
EffectShown(p, before, after) ==
    CASE p.action = <<"turn", "end_turn">> ->
            \/ Turn(after, "turn_number") = Num(Turn(before, "turn_number")[2] + 100)
            \/ Turn(after, "is_waiting_for_other_players") = True
      [] p.action = <<"diplomacy", "declare_war">> ->
            \E r \in RelationTo(after, p.target) : AtWar(r)
      [] p.action = <<"diplomacy", "make_peace">> ->
            \A r \in RelationTo(after, p.target) : ~AtWar(r)
      [] p.action = <<"research", "set_tech">> ->
            Field(Read(after, <<"research", "state">>), "current_research") = p.target
      [] p.action = <<"prompts", "declare_war_response">> ->
            Screen(after) # Id(<<"prompt", "declare_war_response">>)
      [] OTHER -> FALSE

(* An execution is recorded as applied exactly when the board read after   *)
(* it shows the effect (FR-011, I4): what the call returned, and a         *)
(* predicate that cannot be evaluated, confirm nothing.  For make_peace a  *)
(* player that is no longer listed counts as the effect; for the camera    *)
(* nothing does.                                                           *)
VerifiedAsShown ==
    record.outcome # "none" =>
       (record.outcome = "applied" <=>
           /\ record.call # NotSent
           /\ EffectShown(record.proposal, record.before, record.after))

(* The reason on record tells whether the action was performed: only a     *)
(* failed verification, of all rejections, follows a call; an unlisted     *)
(* action, one of the other Lua context and a camera request have reasons  *)
(* of their own, in that order.                                            *)
RecordTellsTruth ==
    LET id == record.proposal.action
        action == IF Declared(catalog, id) THEN catalog.declarations[id].kind = "action" ELSE FALSE
        ours == IF action THEN Authorized(catalog, id, "InGame") ELSE FALSE
    IN  record.outcome # "none" =>
          /\ record.reason \in {"none", "verification_failed"} <=> record.call # NotSent
          /\ record.reason = "not_in_catalog" <=> ~action
          /\ record.reason = "illegal_in_context" <=> action /\ ~ours
          /\ record.reason = "unavailable_to_human_now" => id \notin CameraActions
          /\ record.reason = "out_of_parity_camera" => id \in CameraActions

(* A call the game does not swallow does what the decision means: the      *)
(* function and the arguments sent are that action's own.  Excepted are a  *)
(* decision with parameters besides its target, which they precede, and a  *)
(* boolean target, which counts as a player here and as none in Lua.       *)
CallDoesItsAction ==
    [][pc = "executing" /\ pc' = "reading" /\ proposal.extra = <<>>
          /\ ~Is(proposal.target, {"bool"}) =>
          CASE proposal.action = <<"turn", "end_turn">> -> ~Done(call').mine
            [] proposal.action = <<"diplomacy", "declare_war">> -> Done(call').rival # "peace"
            [] proposal.action = <<"diplomacy", "make_peace">> -> Done(call').rival # "war"
            [] proposal.action = <<"research", "set_tech">> -> Str(Done(call').tech) = proposal.target
            [] proposal.action = <<"prompts", "declare_war_response">> ->
                  Done(call').screen # <<"prompt", "declare_war_response">>
            [] OTHER -> TRUE]_dispatchVars

(* Decisions rest on evidence: in well-typed states a board is whole, and  *)
(* what is executed a human could have done on it.                         *)
EvidenceHolds == DispatchTypeOK /\ BoardComplete /\ AuthorizedOnEvidence

(* What is recorded of an execution -- applied or not, and why not -- is   *)
(* what was sent and what the board after it shows.                        *)
RecordIsShown == VerifiedAsShown /\ RecordTellsTruth
=============================================================================
