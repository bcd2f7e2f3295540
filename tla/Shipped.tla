-------------------------------- MODULE Shipped --------------------------------
(***************************************************************************)
(* An excerpt of the catalog the repository ships: five observations and   *)
(* eight actions of catalogs/, their predicates as the files write them    *)
(* and their schemas with the fields the predicates read.                  *)
(* Dispatch is checked and proved for catalogs made of these entries.      *)
(***************************************************************************)
EXTENDS Catalog

Node(types, properties, required, items) ==
    [mapping |-> TRUE, types |-> types, composed |-> FALSE, properties |-> properties,
     required |-> required, listed |-> TRUE, items |-> items, positional |-> FALSE]
Typed(type) == Node(<<{type}>>, <<>>, {}, <<>>)
OrNull(type) == Node(<<{type, "null"}>>, <<>>, {}, <<>>)
Object(properties, required) == Node(<<{"object"}>>, properties, required, <<>>)
ListOf(node) == Node(<<{"array"}>>, <<>>, {}, <<node>>)

Observation(id, context, capability, schema) ==
    [id |-> id, kind |-> "observation", basis |-> "stated", context |-> context,
     capability |-> capability, availability |-> <<>>, verification |-> <<>>,
     schema |-> <<schema>>, camera |-> FALSE, profile |-> "absent"]
Action(id, capability, availability, verification) ==
    [id |-> id, kind |-> "action", basis |-> "stated", context |-> "InGame",
     capability |-> capability, availability |-> <<availability>>,
     verification |-> <<verification>>, schema |-> <<>>, camera |-> FALSE, profile |-> "absent"]

----------------------------------------------------------------------------
(* catalogs/observations.                                                  *)

ScreenStateEntry ==
    Observation(<<"game", "screen_state">>, "InGame", "screens.probe",
        Object([screen |-> Typed("string"), recognized |-> Typed("boolean"),
                has_blocking_prompt |-> Typed("boolean"),
                prompt_options |-> ListOf(Typed("string"))],
               {"screen", "recognized", "has_blocking_prompt"}))
TurnStateEntry ==
    Observation(<<"game", "turn_state">>, "InGame", "turn.control",
        Object([turn_number |-> Typed("integer"), is_local_player_turn |-> Typed("boolean"),
                is_waiting_for_other_players |-> Typed("boolean")],
               {"turn_number", "is_local_player_turn", "is_waiting_for_other_players"}))
RelationSchema ==
    Object([player_id |-> Typed("integer"), has_met |-> Typed("boolean"),
            diplomatic_state |-> OrNull("string")], {"player_id", "has_met"})
PersonSchema == Object([individual_id |-> Typed("integer")], {"individual_id"})
DiplomacyEntry ==
    Observation(<<"diplomacy", "state">>, "GameCore_Tuner", "diplomacy.read",
        Object([relations |-> ListOf(RelationSchema)], {"relations"}))
GreatPeopleEntry ==
    Observation(<<"great_people", "state">>, "GameCore_Tuner", "great_people.read",
        Object([recruitable_individuals |-> ListOf(PersonSchema)],
               {"recruitable_individuals"}))
ResearchEntry ==
    Observation(<<"research", "state">>, "GameCore_Tuner", "research.read",
        Object([researchable_techs |-> ListOf(Typed("string")),
                current_research |-> OrNull("string")],
               {"researchable_techs", "current_research"}))

Observations ==
    <<ScreenStateEntry, TurnStateEntry, DiplomacyEntry, GreatPeopleEntry, ResearchEntry>>

----------------------------------------------------------------------------
(* catalogs/actions.                                                       *)

Of(namespace, field) == Attr(Name(namespace), field)
Word(name) == Const(Str(name))
Target == Name("target")
WarPrompt == Const(Id(<<"prompt", "declare_war_response">>))
Favor == Of("player", "diplomatic_favor")

EndTurnEntry ==
    Action(<<"turn", "end_turn">>, "turn.control",
        And(<< Of("game", "is_local_player_turn"), Not(Of("game", "has_blocking_prompt")) >>),
        Or(<< Compare(Of("game", "turn_number"), "==",
                      Add(Name("observed_turn_number"), Const(Whole(1)))),
              Of("game", "is_waiting_for_other_players") >>))
DeclareWarEntry ==
    Action(<<"diplomacy", "declare_war">>, "diplomacy.orders",
        And(<< Of("other_player", "has_met"),
               Compare(Of("other_player", "diplomatic_state"), "!=", Word("war")) >>),
        Compare(Of("other_player", "diplomatic_state"), "==", Word("war")))
MakePeaceEntry ==
    Action(<<"diplomacy", "make_peace">>, "diplomacy.orders",
        And(<< Of("other_player", "has_met"),
               Compare(Of("other_player", "diplomatic_state"), "==", Word("war")) >>),
        Compare(Of("other_player", "diplomatic_state"), "!=", Word("war")))
RecruitEntry ==
    Action(<<"great_people", "recruit">>, "great_people.orders",
        Of("great_person", "is_recruitable"), Not(Of("great_person", "is_recruitable")))
SetTechEntry ==
    Action(<<"research", "set_tech">>, "empire.orders",
        Compare(Target, "in", Of("player", "researchable_techs")),
        Compare(Of("player", "current_research"), "==", Target))
AnswerWarEntry ==
    Action(<<"prompts", "declare_war_response">>, "prompts.orders",
        And(<< Of("game", "has_blocking_prompt"),
               Compare(Of("game", "current_screen"), "==", WarPrompt),
               Compare(Target, "in", Of("prompt", "options")) >>),
        Compare(Of("game", "current_screen"), "!=", WarPrompt))
ZoomEntry ==
    Action(<<"camera", "zoom">>, "camera.control",
        And(<< Compare(Target, ">=", Const(Num(5))), Compare(Target, "<=", Const(Num(100))) >>),
        Compare(Of("camera", "zoom"), "==", Target))
CastVoteEntry ==
    Action(<<"congress", "cast_vote">>, "congress.orders",
        And(<< Of("congress", "is_in_session"), Of("congress", "exists"),
               Compare(Favor, ">", Const(Whole(0))) >>),
        Compare(Favor, "<", Name("observed_diplomatic_favor")))

Actions ==
    <<EndTurnEntry, DeclareWarEntry, MakePeaceEntry, RecruitEntry, SetTechEntry, AnswerWarEntry,
      ZoomEntry, CastVoteEntry>>

----------------------------------------------------------------------------
(* An entry that is one of these (an observation may name any capability), *)
(* or an action that is none of them, in another Lua context than InGame   *)
(* or with a predicate the loader lets through and the evaluator fails on: *)
(* one that does not parse, or a literal in another spelling.  And roots   *)
(* that hold nothing else when they load.                                  *)
Unevaluable == {Garbled} \cup {Name(id) : id \in OtherSpellings}
AsShipped(d) ==
    \/ \E o \in Range(Observations) : d.id = o.id /\ d.kind = o.kind /\ d.schema = o.schema
    \/ d \in Range(Actions)
    \/ d.kind = "action" /\ (d.context # "InGame" \/ \E e \in Unevaluable : d.availability = <<e>>)
OnlyShipped(roots) ==
    \A r \in roots : LoadsCatalog(r) => \A d \in Range(Entries(r.declarations)) : AsShipped(d)
=============================================================================
