-------------------------------- MODULE Catalog --------------------------------
(***************************************************************************)
(* The capability catalog: the files under catalogs/ and the load-time     *)
(* validations of capability/loader.py and models/catalog.py, the lookups  *)
(* of capability/registry.py and capability/executor.py, and the schema    *)
(* check of observe/assemble.py.                                           *)
(*                                                                         *)
(* An optional field is a sequence of at most one value.  A declaration id *)
(* is the pair <<domain, name>>.                                           *)
(***************************************************************************)
EXTENDS Predicates

Stated == {"stated"}
JsonTypes == {"object", "array", "string", "number", "integer", "boolean", "null"}

----------------------------------------------------------------------------
(* Schemas: a node that is no mapping, or its type, the presence of a      *)
(* composition keyword, its properties, required names and items.          *)

(* Bound: six levels, the deepest schema of catalogs/.                     *)
Within(nodes) ==
    UNION {Range(n.properties) \cup Range(n.items) : n \in {m \in nodes : m.mapping}}
SchemaNodes(node) ==
    LET second == Within({node})
        third == Within(second)
        fourth == Within(third)
        fifth == Within(fourth)
    IN  {node} \cup second \cup third \cup fourth \cup fifth \cup Within(fifth)

ValidNode(node) ==
    \A n \in SchemaNodes(node) :
       /\ n.mapping
       /\ IF n.types # <<>> THEN n.types[1] \subseteq JsonTypes ELSE n.composed
       /\ n.listed

MatchesType(value, type) ==
    CASE type = "object" -> Is(value, {"rec"})
      [] type = "array" -> Is(value, {"list"})
      [] type = "string" -> Is(value, {"str", "id"})
      [] type = "number" -> Is(value, {"num"})
      [] type = "integer" -> Is(value, {"num"}) /\ value[2] % 100 = 0
      [] type = "boolean" -> Is(value, {"bool"})
      [] type = "null" -> value = Null

(* What _schema_errors compares: a value with its node, a field with its   *)
(* property, an element with its item.                                     *)
Inner(node, value) ==
    (IF Is(value, {"rec"})
     THEN {<<node.properties[f], value[2][f]>> : f \in DOMAIN node.properties \cap DOMAIN value[2]}
     ELSE {})
    \cup (IF Is(value, {"list"}) /\ node.items # <<>>
          THEN {<<node.items[IF node.positional THEN i ELSE 1], value[2][i]>> :
                   i \in {j \in DOMAIN value[2] : node.positional => j \in DOMAIN node.items}}
          ELSE {})
InnerOf(pairs) == UNION {Inner(p[1], p[2]) : p \in pairs}
Compared(node, value) ==
    LET second == Inner(node, value)
        third == InnerOf(second)
        fourth == InnerOf(third)
        fifth == InnerOf(fourth)
    IN  {<<node, value>>} \cup second \cup third \cup fourth \cup fifth \cup InnerOf(fifth)

(* _schema_errors finds none.  A node without a type constrains no type.   *)
Conforms(node, value) ==
    \A p \in Compared(node, value) :
       /\ p[1].types # <<>> => \E type \in p[1].types[1] : MatchesType(p[2], type)
       /\ Is(p[2], {"rec"}) => p[1].required \subseteq DOMAIN p[2][2]

----------------------------------------------------------------------------
(* Entries: ParityDeclaration and IntegrationCapability.                   *)

ValidDeclaration(d) ==
    /\ d.basis \in Stated
    /\ d.kind = "view" => d.camera /\ d.profile \in Stated
    /\ d.kind # "view" => ~d.camera /\ d.profile = "absent"
    /\ d.kind = "action" => d.availability # <<>> /\ d.verification # <<>>
    /\ d.kind # "action" => d.schema # <<>>

ValidCapability(c) ==
    /\ c.path = "bespoke" => c.gap \in Stated
    /\ c.path = "firetuner" => c.gap = "absent"

(* load_catalog.  A file is unreadable (no YAML, no sequence, an entry     *)
(* that is no mapping) or a sequence of entries, and the place of an entry *)
(* is its file and its position in it.                                     *)
Places(files) == UNION {{<<f, i>> : i \in DOMAIN files[f].entries} : f \in DOMAIN files}
Entries(files) == [p \in Places(files) |-> files[p[1]].entries[p[2]]]
Precedes(p, q) == p[1] < q[1] \/ (p[1] = q[1] /\ p[2] <= q[2])

Unique(entries) == \A i, j \in DOMAIN entries : entries[i].id = entries[j].id => i = j
ById(entries) ==
    [id \in {entries[i].id : i \in DOMAIN entries} |->
        entries[CHOOSE i \in DOMAIN entries : entries[i].id = id]]

ChecksSymbols_Availability(d) == UnknownSymbols(d.availability[1]) = {}
ChecksSymbols(d) ==
    UnknownSymbols(d.availability[1]) \cup UnknownSymbols(d.verification[1]) = {}

Resolves(d, capabilities) == \E i \in DOMAIN capabilities : capabilities[i].id = d.capability

LoadsCapabilities(capabilities) ==
    (\A c \in Range(capabilities) : ValidCapability(c)) /\ Unique(capabilities)
LoadsDeclarations(declarations) ==
    /\ \A d \in Range(declarations) :
          /\ ValidDeclaration(d)
          /\ IF d.kind = "action" THEN ChecksSymbols(d) ELSE ValidNode(d.schema[1])
    /\ Unique(declarations)

LoadsCatalog(root) ==
    LET capabilities == Entries(root.capabilities)
        declarations == Entries(root.declarations)
    IN  /\ root.version \in Stated
        /\ \A f \in Range(root.capabilities \o root.declarations) : f.readable
        /\ LoadsCapabilities(capabilities)
        /\ LoadsDeclarations(declarations)
        /\ \A d \in Range(declarations) : Resolves(d, capabilities)

LoadedCatalog(root) ==
    [order |-> [i \in DOMAIN Entries(root.declarations) |-> Entries(root.declarations)[i].id],
     declarations |-> ById(Entries(root.declarations)),
     capabilities |-> ById(Entries(root.capabilities))]

----------------------------------------------------------------------------
(* The registry, and the executor's way from an id to a Lua function.      *)

Declared(catalog, id) == id \in DOMAIN catalog.declarations
CapabilityFor(catalog, id) == catalog.capabilities[catalog.declarations[id].capability]
Authorized(catalog, id, context) == catalog.declarations[id].context = context

(* What is read for every board, and what may become an entry of one.      *)
Observables(catalog) ==
    {id \in Range(catalog.order) : catalog.declarations[id].kind = "observation"}
Observable(catalog, id) ==
    Declared(catalog, id) /\ catalog.declarations[id].kind \in {"observation", "view"}

FunctionKeyOverrides ==
    { << <<"game", "turn_state">>, "read_turn_number" >>,
      << <<"game", "screen_state">>, "probe" >>,
      << <<"research", "set_tech">>, "set_research" >> }

FunctionKey(catalog, id) ==
    IF \E o \in FunctionKeyOverrides : o[1] = id
    THEN (CHOOSE o \in FunctionKeyOverrides : o[1] = id)[2]
    ELSE IF catalog.declarations[id].capability = "prompts.orders" THEN "respond" ELSE id[2]

(* lua maps an implementation_ref that is on disk to the functions each of *)
(* the dispatch tables of that file exposes.                               *)
Callable(catalog, lua, id) ==
    LET ref == CapabilityFor(catalog, id).ref
    IN  /\ ref \in DOMAIN lua /\ Len(lua[ref]) = 1
        /\ FunctionKey(catalog, id) \in lua[ref][1]

(* _build_arguments: what the model passed besides the target, in the      *)
(* order of its names, then the target; a prompt's answer is its type and  *)
(* the option.                                                             *)
ArgumentsOf_TargetLast(catalog, id, extra, target) ==
    IF target = Null THEN extra ELSE Append(extra, target)
ArgumentsOf(catalog, id, extra, target) ==
    IF catalog.declarations[id].capability = "prompts.orders"
    THEN << Id(<<"prompt", id[2]>>), target >>
    ELSE IF target = Null THEN extra ELSE Append(extra, target)

(* route_prompt: the action that answers a prompt's screen.                *)
AnswerTo(screen) == <<"prompts", screen[2]>>

(* audit capabilities, over the declarations a record names.               *)
CapabilityFindings(catalog, used) ==
    {<<"unresolved", id>> : id \in {u \in used : ~Declared(catalog, u)}}
    \cup {<<"missing gap", CapabilityFor(catalog, id).id>> :
             id \in {u \in used : /\ Declared(catalog, u)
                                  /\ CapabilityFor(catalog, u).path # "firetuner"
                                  /\ CapabilityFor(catalog, u).gap \notin Stated}}
=============================================================================
