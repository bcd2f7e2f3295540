------------------------------ MODULE Predicates ------------------------------
(***************************************************************************)
(* The predicates of the capability catalog: the symbol gate of            *)
(* capability/predicates.py and the evaluator and the bindings of          *)
(* act/predicates.py.                                                      *)
(*                                                                         *)
(* A JSON or Python value is a tuple that starts with its type.  Names are *)
(* atoms, so a name contains no other; a dotted identifier is the pair of  *)
(* its parts.  An expression is the tree ast.parse returns for it.         *)
(***************************************************************************)
EXTENDS Integers, FiniteSets, Sequences, SequencesExt

Null == <<"null">>
Bool(b) == <<"bool", b>>
True == Bool(TRUE)
Num(n) == <<"num", n>>       \* n hundredths: numbers are whole or, for the camera, fractions
Whole(n) == Num(100 * n)
Str(name) == <<"str", name>>
Id(dotted) == <<"id", dotted>>
List(items) == <<"list", items>>
Rec(fields) == <<"rec", fields>>
Err == <<"error">>        \* PredicateEvaluationError

Is(v, types) == v[1] \in types
Number(v) == IF Is(v, {"bool"}) THEN (IF v[2] THEN 100 ELSE 0) ELSE v[2]
Truthy(v) ==
    CASE Is(v, {"null"}) -> FALSE
      [] Is(v, {"bool", "num"}) -> Number(v) # 0
      [] Is(v, {"list"}) -> v[2] # <<>>
      [] Is(v, {"rec"}) -> DOMAIN v[2] # {}
      [] OTHER -> TRUE

(* Grammar: the nodes the evaluator walks, and how the catalog writes them.*)
Const(v) == [op |-> "const", value |-> v]
Name(id) == [op |-> "name", id |-> id]
Attr(e, field) == [op |-> "attr", of |-> e, field |-> field]
Not(e) == [op |-> "not", of |-> e]
Minus(e) == [op |-> "neg", of |-> e]
And(parts) == [op |-> "and", parts |-> parts]
Or(parts) == [op |-> "or", parts |-> parts]
Add(l, r) == [op |-> "add", parts |-> <<l, r>>]
Sub(l, r) == [op |-> "sub", parts |-> <<l, r>>]
Items(parts) == [op |-> "list", parts |-> parts]
Chain(parts, links) == [op |-> "compare", parts |-> parts, links |-> links]
Compare(l, link, r) == Chain(<<l, r>>, <<link>>)
Call(id, parts) == [op |-> "call", id |-> id, parts |-> parts]
Garbled == [op |-> "garbled"]

Allowed == {"const", "name", "attr", "not", "neg", "and", "or", "add", "sub", "list", "compare"}
Literals == [true |-> Bool(TRUE), false |-> Bool(FALSE), null |-> Null]
\* names the gate takes for a literal, as it looks at them in lower case; the evaluator does not
OtherSpellings == {"NULL", "Null", "TRUE", "FALSE"}

ExposedNamespaces == {"game", "player", "unit", "city", "target", "other_player", "congress",
                      "great_person", "spy", "prompt", "camera"}
\* the observed_* names that occur; any other name of that form passes the gate too
ObservedNames == {"observed_turn_number", "observed_diplomatic_favor", "observed_elsewhere"}

Parts(e) ==
    CASE e.op \in {"attr", "not", "neg"} -> {e.of}
      [] e.op \in {"and", "or", "add", "sub", "list", "compare", "call"} -> Range(e.parts)
      [] OTHER -> {}

(* Bound: six levels, the deepest predicate of catalogs/.                  *)
Below(nodes) == UNION {Parts(n) : n \in nodes}
Nodes(e) ==
    LET second == Parts(e)
        third == Below(second)
        fourth == Below(third)
        fifth == Below(fourth)
    IN  {e} \cup second \cup third \cup fourth \cup fifth \cup Below(fifth)

(* unknown_predicate_symbols: the roots nobody exposes and that are no     *)
(* keyword in any case.                                                    *)
UnknownSymbols(e) ==
    {n.id : n \in {m \in Nodes(e) : m.op \in {"name", "call"}}}
       \ (ExposedNamespaces \cup ObservedNames \cup DOMAIN Literals \cup OtherSpellings)

----------------------------------------------------------------------------
(* The evaluator.  Every failure is Err, and Err is never true.            *)

SameValue(l, r) ==
    IF Is(l, {"bool", "num"}) /\ Is(r, {"bool", "num"}) THEN Number(l) = Number(r) ELSE l = r

ContainedIn(l, r) ==
    CASE Is(r, {"null"}) -> Bool(FALSE)
      [] Is(r, {"list"}) -> Bool(\E i \in DOMAIN r[2] : SameValue(l, r[2][i]))
      [] Is(r, {"rec"}) /\ ~Is(l, {"list", "rec"}) -> Bool(Is(l, {"str"}) /\ l[2] \in DOMAIN r[2])
      [] Is(r, {"str", "id"}) /\ Is(l, {"str", "id"}) -> Bool(l = r)
      [] OTHER -> Err

\* numbers only: no predicate of the catalog orders texts or lists
Ordered(link, l, r) ==
    CASE link = "<" -> Number(l) < Number(r)
      [] link = "<=" -> Number(l) <= Number(r)
      [] link = ">" -> Number(l) > Number(r)
      [] link = ">=" -> Number(l) >= Number(r)

ApplyComparison(link, l, r) ==
    CASE link = "==" -> Bool(SameValue(l, r))
      [] link = "!=" -> Bool(~SameValue(l, r))
      [] link = "in" -> ContainedIn(l, r)
      [] link = "not in" ->
            IF ContainedIn(l, r) = Err THEN Err ELSE Bool(~ContainedIn(l, r)[2])
      [] link \in {"<", "<=", ">", ">="} /\ Is(l, {"bool", "num"}) /\ Is(r, {"bool", "num"}) ->
            Bool(Ordered(link, l, r))
      [] OTHER -> Err

ResolveName(id, bindings) ==
    IF id \in DOMAIN Literals THEN Literals[id]
    ELSE IF id \in DOMAIN bindings THEN bindings[id] ELSE Err

ResolveAttribute(base, field) ==
    CASE base = Err -> Err
      [] base = Null -> IF field = "exists" THEN Bool(FALSE) ELSE Null
      [] Is(base, {"rec"}) /\ field \in DOMAIN base[2] -> base[2][field]
      [] OTHER -> Null

Arithmetic(op, l, r) ==
    IF ~Is(l, {"num"}) \/ ~Is(r, {"num"}) THEN Err
    ELSE Num(IF op = "add" THEN l[2] + r[2] ELSE l[2] - r[2])

(* The first of the values that fails or is as true as asked, or the last. *)
FirstOr(values, truth) ==
    LET deciding == {i \in DOMAIN values : values[i] = Err \/ Truthy(values[i]) = truth}
    IN  IF deciding = {} THEN values[Len(values)]
        ELSE values[CHOOSE i \in deciding : \A j \in deciding : i <= j]

(* The value of a node, out of those of its parts.                         *)
NodeValue(e, valueOf, bindings) ==
    LET parts == [i \in DOMAIN e.parts |-> valueOf[e.parts[i]]]
        of == valueOf[e.of]
        Link(i) == IF parts[i + 1] = Err THEN Err
                   ELSE ApplyComparison(e.links[i], parts[i], parts[i + 1])
    IN  CASE e.op = "const" -> e.value
          [] e.op = "name" -> ResolveName(e.id, bindings)
          [] e.op = "attr" -> ResolveAttribute(of, e.field)
          [] e.op = "not" -> IF of = Err THEN Err ELSE Bool(~Truthy(of))
          [] e.op = "neg" -> IF Is(of, {"bool", "num"}) THEN Num(-Number(of)) ELSE Err
          [] e.op = "and" -> FirstOr(parts, FALSE)
          [] e.op = "or" -> FirstOr(parts, TRUE)
          [] e.op \in {"add", "sub"} ->
                IF Err \in Range(parts) THEN Err ELSE Arithmetic(e.op, parts[1], parts[2])
          [] e.op = "list" -> IF Err \in Range(parts) THEN Err ELSE List(parts)
          [] e.op = "compare" ->
                IF parts[1] = Err THEN Err ELSE FirstOr([i \in DOMAIN e.links |-> Link(i)], FALSE)
          [] OTHER -> Err

EvalNode(e, bindings) ==
    LET valueOf[n \in Nodes(e)] == NodeValue(n, valueOf, bindings)
    IN  valueOf[e]

(* evaluate_predicate.                                                     *)
Evaluate(predicate, bindings) ==
    IF \/ UnknownSymbols(predicate) # {}
       \/ \E n \in Nodes(predicate) : n.op \notin Allowed
    THEN Err
    ELSE LET v == EvalNode(predicate, bindings)
         IN  IF v = Err THEN Err ELSE Bool(Truthy(v))

----------------------------------------------------------------------------
(* build_predicate_bindings: the namespaces, out of the values a board     *)
(* holds under the declarations that were read.                            *)

GameSources == << <<"game", "screen_state">>, <<"game", "turn_state">> >>
PlayerSources == << <<"research", "state">>, <<"government", "state">>, <<"religion", "state">> >>
CongressState == <<"congress", "state">>
SubjectSources ==
    [unit |-> [from |-> <<"units", "state">>, list |-> "units", id |-> "unit_id"],
     city |-> [from |-> <<"cities", "state">>, list |-> "cities", id |-> "city_id"],
     other_player |-> [from |-> <<"diplomacy", "state">>, list |-> "relations",
                       id |-> "player_id"],
     congress |-> [from |-> CongressState, list |-> "active_resolutions", id |-> "resolution_id"],
     great_person |-> [from |-> <<"great_people", "state">>, list |-> "recruitable_individuals",
                       id |-> "individual_id"],
     spy |-> [from |-> <<"espionage", "state">>, list |-> "spies", id |-> "unit_id"]]

Read(index, d) == IF d \in DOMAIN index THEN index[d] ELSE Null
Field(v, field) == IF Is(v, {"rec"}) /\ field \in DOMAIN v[2] THEN v[2][field] ELSE Null

Renamed(fields) ==
    [f \in {IF g = "screen" THEN "current_screen" ELSE g : g \in DOMAIN fields} |->
        fields[IF f = "current_screen" THEN "screen" ELSE f]]

(* The fields of both, and the first one's where both have it.             *)
Joined(first, second) ==
    [f \in DOMAIN first \cup DOMAIN second |->
        IF f \in DOMAIN first THEN first[f] ELSE second[f]]

(* A source that was read overrides the ones before it.                    *)
FieldsOf(index, d) == IF Is(Read(index, d), {"rec"}) THEN Renamed(Read(index, d)[2]) ELSE <<>>
MergeFields(index, sources) ==
    LET Holding(f) == {i \in DOMAIN sources : f \in DOMAIN FieldsOf(index, sources[i])}
        Newest(f) == CHOOSE i \in Holding(f) : \A j \in Holding(f) : j <= i
    IN  [f \in UNION {DOMAIN FieldsOf(index, d) : d \in Range(sources)} |->
            FieldsOf(index, sources[Newest(f)])[f]]

GameNamespace(index) ==
    LET game == MergeFields(index, GameSources)
        screen == game["current_screen"]
    IN  IF "current_screen" \notin DOMAIN game THEN game
        ELSE Joined(game,
                    [active_prompt_type |->
                        IF Is(screen, {"id"}) /\ screen[2][1] = "prompt" THEN screen ELSE Null])

PlayerNamespace(index) ==
    LET favor == Field(Read(index, CongressState), "local_player_favor")
        player == MergeFields(index, PlayerSources)
    IN  IF Is(Read(index, CongressState), {"rec"})
           /\ "local_player_favor" \in DOMAIN Read(index, CongressState)[2]
        THEN Joined([diplomatic_favor |-> favor], player) ELSE player

PromptNamespace(index) ==
    LET source == Read(index, <<"game", "screen_state">>)
        options == Field(source, "prompt_options")
    IN  [type |-> Field(source, "screen"),
         is_active |-> Bool(Truthy(Field(source, "has_blocking_prompt"))),
         options |-> IF Truthy(options) THEN options ELSE List(<<>>)]

SubjectNamespace_FirstListed(index, namespace, target) ==
    LET source == SubjectSources[namespace]
        items == Field(Read(index, source.from), source.list)
    IN  IF Truthy(items) THEN Joined([exists |-> Bool(TRUE)], items[2][1][2])
        ELSE [exists |-> Bool(FALSE)]
SubjectNamespace(index, namespace, target) ==
    LET source == SubjectSources[namespace]
        items == Field(Read(index, source.from), source.list)
        matching == IF Is(items, {"list"}) /\ target # Null
                    THEN {i \in DOMAIN items[2] : SameValue(Field(items[2][i], source.id), target)}
                    ELSE {}
        item == items[2][CHOOSE i \in matching : \A j \in matching : i <= j]
        top == IF namespace = "congress" /\ Is(Read(index, CongressState), {"rec"})
                  /\ "is_in_session" \in DOMAIN Read(index, CongressState)[2]
               THEN [is_in_session |-> Field(Read(index, CongressState), "is_in_session")]
               ELSE <<>>
    IN  IF matching = {} THEN Joined([exists |-> Bool(FALSE)], top)
        ELSE Joined([exists |-> Bool(TRUE)], Joined(item[2], top))

Bindings(index, target, snapshot) ==
    Joined([game |-> Rec(GameNamespace(index)), player |-> Rec(PlayerNamespace(index)),
            prompt |-> Rec(PromptNamespace(index)), camera |-> Rec(<<>>), target |-> target],
           Joined([n \in DOMAIN SubjectSources |-> Rec(SubjectNamespace(index, n, target))],
                  snapshot))

(* observed_snapshot: what verification remembers of the board before.     *)
ObservedSources ==
    [observed_turn_number |-> <<"game", "turn_number">>,
     observed_diplomatic_favor |-> <<"player", "diplomatic_favor">>]
ObservedSnapshot(before) ==
    LET bindings == Bindings(before, Null, <<>>)
        Known(o) == ObservedSources[o][2] \in DOMAIN bindings[ObservedSources[o][1]][2]
    IN  [o \in {p \in DOMAIN ObservedSources : Known(p)} |->
            Field(bindings[ObservedSources[o][1]], ObservedSources[o][2])]
=============================================================================
