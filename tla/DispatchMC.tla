------------------------------ MODULE DispatchMC ------------------------------
(* The shipped entries with their capabilities, the same with one defect   *)
(* of each kind, and the decisions a model may take on them.               *)
EXTENDS Dispatch, Shipped

Capability(id, ref) == [id |-> id, path |-> "firetuner", gap |-> "absent", ref |-> ref]
Capabilities == <<
    Capability("screens.probe", "screens"), Capability("prompts.orders", "screens"),
    Capability("turn.control", "turn"), Capability("diplomacy.read", "diplomacy"),
    Capability("diplomacy.orders", "diplomacy_orders"),
    Capability("great_people.read", "people"), Capability("great_people.orders", "people_orders"),
    Capability("research.read", "research"), Capability("empire.orders", "empire_orders"),
    Capability("congress.orders", "congress_orders"),
    [Capability("camera.control", "camera") EXCEPT !.path = "bespoke", !.gap = "stated"] >>

LuaFiles ==
    [screens |-> << {"probe", "respond"} >>, turn |-> << {"end_turn", "read_turn_number"} >>,
     diplomacy |-> << {"state"} >>, people |-> << {"state"} >>, research |-> << {"state"} >>,
     diplomacy_orders |-> << {"declare_war", "make_peace"} >>,
     people_orders |-> << {"recruit"} >>, empire_orders |-> << {"set_research"} >>,
     congress_orders |-> << {"cast_vote", "propose"} >>,
     camera |-> << {"zoom"} >>]

(* Actions of the other Lua context.                                       *)
Elsewhere(action) == [action EXCEPT !.context = "GameCore_Tuner"]
ProposeEntry ==
    Elsewhere(Action(<<"congress", "propose">>, "congress.orders",
                     Of("congress", "is_in_session"), Of("congress", "exists")))
Sample == Elsewhere(Action(<<"units", "move_to">>, "empire.orders",
                           Of("unit", "exists"), Of("unit", "exists")))

File(entries) == [readable |-> TRUE, entries |-> entries]
Good == [version |-> "stated", capabilities |-> << File(Capabilities) >>,
         declarations |-> << File(Observations), File(Append(Actions, ProposeEntry)) >>]
With(entry) == [Good EXCEPT !.declarations = Append(@, File(<<entry>>))]
WithCapability(c) == [Good EXCEPT !.capabilities = Append(@, File(<<c>>))]

(* One defect each: a version, a file, an entry of every kind that is      *)
(* wrong, two of one name, symbols, schemas and what does not resolve.     *)
Defective == {
    [Good EXCEPT !.version = "blank"],
    [Good EXCEPT !.declarations = Append(@, [readable |-> FALSE, entries |-> <<>>])],
    With(Actions[1]), WithCapability(Capabilities[1]),
    With([Sample EXCEPT !.basis = "blank"]), With([Sample EXCEPT !.verification = <<>>]),
    With([Sample EXCEPT !.camera = TRUE]), With([Sample EXCEPT !.capability = "nowhere"]),
    With([Sample EXCEPT !.verification = << Call("len", << Name("unit") >>) >>]),
    With([Sample EXCEPT !.verification = << Name("units") >>]),
    With([Observations[1] EXCEPT !.id = <<"map", "state">>, !.schema = <<>>]),
    With([Observations[1] EXCEPT !.id = <<"map", "state">>,
                                 !.schema = << ListOf([mapping |-> FALSE]) >>]),
    With([Observations[1] EXCEPT !.id = <<"map", "state">>, !.schema = << Typed("text") >>]),
    With([Observations[1] EXCEPT !.id = <<"view", "world">>, !.kind = "view"]),
    WithCapability([Capability("views", "views") EXCEPT !.path = "bespoke"]),
    WithCapability([Capability("views", "views") EXCEPT !.gap = "blank"]) }

(* What the loader accepts: a predicate that does not parse, or with NULL  *)
(* or TRUE for null or true, and a function that is on no disk.            *)
Unusable == {
    With([Sample EXCEPT !.context = "InGame", !.availability = << Garbled >>]),
    With([Sample EXCEPT !.context = "InGame", !.availability = << Name("TRUE") >>]),
    With([Sample EXCEPT !.verification = << Compare(Of("unit", "name"), "!=", Name("NULL")) >>]),
    [Good EXCEPT !.declarations =
        << File(<< Observations[1], [Observations[5] EXCEPT !.capability = "empire.orders"] >>) >>]}

SomeRoots == {Good} \cup Defective \cup Unusable

(* What the theorems of Dispatch suppose of the roots holds of these.      *)
ASSUME RootsAsShipped == OnlyShipped(Roots)

P(domain, name, target) == [action |-> <<domain, name>>, target |-> target, extra |-> <<>>]
SomeProposals == {
    P("turn", "end_turn", Null), P("diplomacy", "declare_war", Whole(1)),
    P("diplomacy", "declare_war", Whole(3)), P("diplomacy", "make_peace", Whole(1)),
    P("great_people", "recruit", Whole(2)), P("great_people", "recruit", Whole(3)),
    P("research", "set_tech", Str("pottery")), P("research", "set_tech", Str("rocketry")),
    [P("research", "set_tech", Str("pottery")) EXCEPT !.extra = << Str("reason") >>],
    P("prompts", "declare_war_response", Str("accept")),
    P("prompts", "declare_war_response", Str("later")),
    P("camera", "zoom", Num(50)), P("camera", "zoom", Num(1)), P("camera", "zoom", Null),
    P("camera", "zoom", True), P("diplomacy", "declare_war", True),
    P("diplomacy", "make_peace", True), P("diplomacy", "declare_war", Str("rival")),
    P("camera", "move", Null), P("congress", "cast_vote", Null), P("congress", "propose", Null),
    P("units", "move_to", Null), P("research", "state", Null), P("nothing", "listed", Null) }
=============================================================================
