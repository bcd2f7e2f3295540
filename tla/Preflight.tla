----------------------------- MODULE Preflight ------------------------------
(***************************************************************************)
(* What a start is judged on before it touches a client or the store:      *)
(* config/ (a run's or a branch's document, seed sets, guidance),          *)
(* run/preparation.py (catalog, build pin), host/detect.py with            *)
(* observe/host_gate.py (evidence, tier), provider/preflight.py (chain)    *)
(* and saves/headroom.py (disk).  Every check is a function of a record    *)
(* `start' of inputs.                                                      *)
(***************************************************************************)
EXTENDS Integers, Sequences, FiniteSets

CONSTANTS
    Inherited,       \* _INHERITED_FIELDS: a branch takes them from its parent
    Variable,        \* _VARIABLE_FIELDS: a branch may restate them
    Fields,          \* names of configured_fields: the part of Inherited a
                     \* live client is compared on
    Declared,        \* the fields a seed set declares
    Platform,        \* the platform of each build
    ContextNeeded,   \* worst_case_context_tokens
    SaveBytes, CaptureBytes, StepsPerTurn, OpenEndedTurns

ASSUME PreflightConstants ==
    /\ Declared \subseteq Fields /\ Fields \subseteq Inherited
    /\ Inherited \cap Variable = {}
    /\ {ContextNeeded, SaveBytes, CaptureBytes, StepsPerTurn, OpenEndedTurns} \subseteq Nat

Branchable == Inherited \cup Variable
Builds == DOMAIN Platform

-----------------------------------------------------------------------------
(* Documents.  Values are "a" and "b"; "a2" is the mod list "a" in another *)
(* order, which _mod_set_key does not tell from "a".                       *)

Values == {"a", "b", "a2"}
Key(v) == IF v = "a2" THEN "a" ELSE v
Same(f, v, w) == v = w \/ (f = "mod_set" /\ Key(v) = Key(w))

(* yaml, schema_version, credential-shaped values and the model's own      *)
(* validation each refuse a document.                                      *)
Readable(s) == s.document = "fine"

Filled(file, parent) ==
    [f \in Branchable |-> IF file[f] = "absent" THEN parent[f] ELSE file[f]]
Configuration(s) == IF s.kind = "branch" THEN Filled(s.file, s.parent) ELSE s.file

Restated(s) ==
    {f \in Inherited : s.kind = "branch" /\ ~Same(f, s.parent[f], Configuration(s)[f])}

-----------------------------------------------------------------------------
(* Seed set and build; a seed set holds one acceptance per transition      *)

NoSeedSet == [pinned |-> "none"]
HasSeedSet(s) == s.seed # NoSeedSet
SeedSetAgrees(s) ==
    HasSeedSet(s) =>
        \A f \in Declared : Same(f, Configuration(s)[f], s.seed.values[f])

PlatformTransition(from, to) == Platform[from] # Platform[to]
Accepted(s) == IF HasSeedSet(s) THEN s.seed.accepted ELSE {}

Acceptance_TargetOnly(s, from, to) == {a \in Accepted(s) : a.to = to}
Acceptance(s, from, to) == {a \in Accepted(s) : a.from = from /\ a.to = to}

(* build_pin_preflight *)
PinCovers(s, build) ==
    HasSeedSet(s) => build = s.seed.pinned \/ Acceptance(s, s.seed.pinned, build) # {}

(* check_branch_build: across platforms only with a passed spike on record *)
BranchCovers(s, build) ==
    \/ build = s.parentBuild
    \/ \E a \in Acceptance(s, s.parentBuild, build) :
          PlatformTransition(s.parentBuild, build) => a.spike

NoAcceptance == "none"
AcceptanceRef(s, build) ==
    LET from == IF s.kind = "branch" THEN s.parentBuild ELSE s.seed.pinned
    IN IF (s.kind = "fresh" /\ ~HasSeedSet(s)) \/ build = from THEN NoAcceptance
       ELSE (CHOOSE a \in Acceptance(s, from, build) : TRUE).id

-----------------------------------------------------------------------------
(* Host                                                                    *)

DetectOs(h) == h.os \in {"windows", "macos", "linux"}

Session(h) ==
    IF h.xdg \in {"wayland", "x11"} THEN h.xdg
    ELSE IF h.waylandDisplay THEN "wayland" ELSE IF h.display THEN "x11" ELSE "unknown"

QuicksaveEvidence(os) == os \in {"linux", "windows"}
CaptureEvidence(h) == h.os = "linux" /\ Session(h) = "x11" /\ h.compositing

Probe(h) == [quicksave |-> QuicksaveEvidence(h.os) /\ h.savesResolve,
             capture |-> CaptureEvidence(h)]
Tier(h) == IF ~Probe(h).quicksave THEN "unsupported"
           ELSE IF Probe(h).capture THEN "validated" ELSE "supported"

Comparability(h) ==
    IF Tier(h) = "validated" THEN "comparable" ELSE "visually_degraded"

-----------------------------------------------------------------------------
(* Catalog, guidance, chain, disk                                          *)

Governed(s) == s.capabilities \subseteq s.governed
GuidanceFound(s) == s.guidance # "missing"

Carries(m) == m.confirmed /\ m.images /\ m.window >= ContextNeeded
ChainFits(s) == \A i \in DOMAIN s.chain : Carries(s.chain[i])

OpenEnded == 0     \* a stop condition that names no turn
Footprint(stop) ==
    LET turns == IF stop = OpenEnded THEN OpenEndedTurns ELSE stop
    IN turns * SaveBytes + turns * StepsPerTurn * CaptureBytes
HeadroomHolds(d) == d.free >= d.floor /\ d.free >= Footprint(d.stop)

(* _prepare_run, down to the connection; the debug menu's state is looked  *)
(* at as well, and refuses nothing.                                        *)
Passes(s) ==
    /\ SeedSetAgrees(s)
    /\ GuidanceFound(s)
    /\ Governed(s)
    /\ DetectOs(s.host) /\ Tier(s.host) # "unsupported"
    /\ ChainFits(s)
    /\ HeadroomHolds(s.disk)
=============================================================================
