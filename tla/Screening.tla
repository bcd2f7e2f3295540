----------------------------- MODULE Screening -----------------------------
(***************************************************************************)
(* The capture of one decision step: the retry loop of observe/capture.py  *)
(* (capture_for_step) over the four screening gates of parity/screening.py *)
(* (screen_capture), and the resolution of the screening profile.          *)
(*                                                                         *)
(* A try is what the host and the game produce when asked for one frame:   *)
(*   ready     the host's capture preconditions hold                       *)
(*   captured  the host returned a frame                                   *)
(*   source    the window has a plausible process and title                *)
(*   geometry  the frame has the size of the window's client rect          *)
(*   decodes   the frame can be decoded                                    *)
(*   wire      the frame's format has a media type a request can carry     *)
(*   shows     the categories of non-player chrome drawn in it             *)
(***************************************************************************)
EXTENDS Naturals, FiniteSets

CONSTANTS
    Categories,       \* reject ids of catalogs/screening_profiles.yaml
    Universal,        \* its universal_reject
    Techniques,       \* [Categories -> {"border", "corner", "text"}]
    MaxCaptureAttempts

ASSUME ScreeningAssumption ==
    /\ Universal \subseteq Categories
    /\ Techniques \in [Categories -> {"border", "corner", "text"}]
    /\ MaxCaptureAttempts \in Nat

Try == [ready : BOOLEAN, captured : BOOLEAN, source : BOOLEAN, geometry : BOOLEAN,
        decodes : BOOLEAN, wire : BOOLEAN, shows : SUBSET Categories]

Loads_Unchecked(profiles) == "default" \in DOMAIN profiles

(* The profiles a file may hold: load_screening_profiles refuses one whose *)
(* default is not at least as strict as every other and as Universal.      *)
Loads(profiles) ==
    /\ "default" \in DOMAIN profiles
    /\ \A p \in DOMAIN profiles : profiles[p] \subseteq Categories
    /\ \A p \in DOMAIN profiles : profiles[p] \subseteq profiles["default"]
    /\ Universal \subseteq profiles["default"]

(* A view that declares "default", or a platform without a profile of its  *)
(* own, gets the strictest one.                                            *)
ResolveProfile(profiles, declared, platform) ==
    IF declared # "default" /\ platform \in DOMAIN profiles
    THEN profiles[platform]
    ELSE profiles["default"]

(* The two general techniques of the built-in detector see a category of   *)
(* chrome by its shape; they do not tell two categories of a shape apart.  *)
BorderSuspect(try) == \E c \in try.shows : Techniques[c] = "border"
CornerSuspect(try) == \E c \in try.shows : Techniques[c] = "corner"

(* Every rejected category of a shape that is suspect, and all of them for *)
(* a frame that does not decode.  Text is matched against tokens no caller *)
(* supplies, so nothing is found that way.                                 *)
Detected(try, reject) ==
    {c \in reject : \/ ~try.decodes
                    \/ Techniques[c] = "border" /\ BorderSuspect(try)
                    \/ Techniques[c] = "corner" /\ CornerSuspect(try)}

(* The four gates.  A camera is "declared" when its mode, zoom and target  *)
(* are what the view declares.                                             *)
SourceGate(try) == try.source
GeometryGate(try) == try.geometry
ProvenanceGate(camera) == camera = "declared"
ContentGate(try, reject) == Detected(try, reject) = {}

(* They are run in this order; the first that fails names the reason.      *)
Screened(try, camera, reject) ==
    IF ~SourceGate(try) THEN "capture_failed"
    ELSE IF ~GeometryGate(try) THEN "geometry_mismatch"
    ELSE IF ~ProvenanceGate(camera) THEN "provenance_failure"
    ELSE IF ~ContentGate(try, reject) THEN "non_player_ui"
    ELSE "clean"

(* A precondition that does not hold means no frame is taken at all.       *)
AttemptOnce(try, camera, reject) ==
    IF try.ready /\ try.captured THEN Screened(try, camera, reject) ELSE "capture_failed"

(* Up to MaxCaptureAttempts tries (at least one), stopping at a clean one; *)
(* the last one made decides.  Without a window nothing is tried.          *)
Tries == 1..(IF MaxCaptureAttempts = 0 THEN 1 ELSE MaxCaptureAttempts)

CaptureForStep(window, tries, camera, reject) ==
    LET result(i) == AttemptOnce(tries[i], camera, reject)
        last == CHOOSE i \in Tries :
                   /\ result(i) = "clean" \/ i = Cardinality(Tries)
                   /\ \A j \in 1..(i - 1) : result(j) # "clean"
    IN  IF ~window
        THEN [status |-> "withheld", reason |-> "capture_failed", wire |-> FALSE]
        ELSE IF result(last) = "clean"
        THEN [status |-> "clean", reason |-> "none", wire |-> tries[last].wire]
        ELSE [status |-> "withheld", reason |-> result(last), wire |-> FALSE]

(* The frame the record of the step is built from.                         *)
FrameUsed(tries, camera, reject) ==
    tries[CHOOSE i \in Tries :
             /\ AttemptOnce(tries[i], camera, reject) = "clean" \/ i = Cardinality(Tries)
             /\ \A j \in 1..(i - 1) : AttemptOnce(tries[j], camera, reject) # "clean"]
=============================================================================
