--------------------------- MODULE PreparationMC ----------------------------
(* Small instance of Preparation: the starts are two plain ones and those  *)
(* that differ from them in one input, or in the build and what covers it. *)
EXTENDS Preparation

MCFields == {"civilization", "leader", "mod_set", "resources", "turn_limit"}
MCInherited == MCFields \cup {"seed_set"}
MCVariable == {"models"}
MCGetters == {"civilization", "leader", "mod_set"}
MCPlatform == [w1 |-> "win", w2 |-> "win", l1 |-> "linux"]

Every(S, v) == [f \in S |-> v]
Plain == Every(MCGetters, "a")
MCSetups == {Plain, [Plain EXCEPT !.mod_set = "a2"], [Plain EXCEPT !.leader = "b"],
             [Plain EXCEPT !.civilization = "nil", !.leader = "b"]}

All == MCInherited \cup MCVariable
Host == [os |-> "linux", xdg |-> "x11", waylandDisplay |-> FALSE, display |-> TRUE,
         compositing |-> TRUE, savesResolve |-> TRUE]
Model == [confirmed |-> TRUE, images |-> TRUE, window |-> 2]
Fresh == [kind |-> "fresh", document |-> "fine", file |-> Every(All, "a"),
          parent |-> Every(All, "a"), parentBuild |-> "w1", source |-> "available",
          seed |-> NoSeedSet, build |-> "w1", guidance |-> "found", host |-> Host,
          capabilities |-> {"c1", "c2"}, governed |-> {"c1", "c2"},
          chain |-> <<Model, Model>>, disk |-> [free |-> 9, floor |-> 2, stop |-> 2],
          process |-> "found"]
Branch == [Fresh EXCEPT !.kind = "branch", !.file = Every(All, "absent")]

Accept(id, from, to, spike) == [id |-> id, from |-> from, to |-> to, spike |-> spike]
SeedSet(values, pin, accepted) == [values |-> values, pinned |-> pin, accepted |-> accepted]
SeedValues == Every({"civilization", "leader", "mod_set"}, "a")
Acceptances == {{}, {Accept("x", "w1", "l1", TRUE)}, {Accept("x", "w1", "l1", FALSE)},
                {Accept("x", "w2", "l1", TRUE)}, {Accept("x", "l1", "w1", TRUE)}}
Covered(s) ==
    {[s EXCEPT !.build = b, !.seed = SeedSet(SeedValues, "w1", A)] :
        b \in {"w1", "l1", "unreadable"}, A \in Acceptances}

Documents(s) == {[s EXCEPT !.document = "invalid"]}
SeedSets(s) ==
    {[s EXCEPT !.seed = SeedSet([SeedValues EXCEPT !.mod_set = v], "w1", {})] : v \in Values}
Files(s) == {[s EXCEPT !.file = [@ EXCEPT ![f] = v]] : f \in {"mod_set", "models", "leader"}, v \in Values}
Hosts(s) ==
    {[s EXCEPT !.host = [Host EXCEPT !.xdg = x, !.waylandDisplay = w]] :
        x \in {"x11", "wayland", "unset"}, w \in BOOLEAN} \cup
    {[s EXCEPT !.host = [Host EXCEPT !.os = o]] : o \in {"windows", "macos", "other"}} \cup
    {[s EXCEPT !.host = [Host EXCEPT !.savesResolve = FALSE]],
     [s EXCEPT !.host = [Host EXCEPT !.compositing = FALSE]]}
Others(s) ==
    {[s EXCEPT !.guidance = "missing"], [s EXCEPT !.governed = {"c1"}],
     [s EXCEPT !.chain = <<Model, [Model EXCEPT !.window = 1]>>],
     [s EXCEPT !.disk = [@ EXCEPT !.free = 1]], [s EXCEPT !.disk = [@ EXCEPT !.stop = OpenEnded]],
     [s EXCEPT !.process = "unseen"], [s EXCEPT !.process = "claimed"],
     [s EXCEPT !.source = "missing"]}

Around(s) == {s} \cup Covered(s) \cup Documents(s) \cup SeedSets(s) \cup Files(s)
                 \cup Hosts(s) \cup Others(s)
(* Branches of a parent that was itself accepted on another build than the pin *)
OfAccepted ==
    {[Branch EXCEPT !.parentBuild = "l1", !.build = b, !.seed = SeedSet(SeedValues, "w1", A)] :
        b \in {"w1", "l1", "w2"},
        A \in {{Accept("x", "w1", "l1", TRUE)},
               {Accept("x", "w1", "l1", TRUE), Accept("y", "l1", "w1", TRUE)},
               {Accept("x", "w1", "w2", TRUE), Accept("y", "l1", "w2", TRUE)}}}

MCStarts ==
    Around(Fresh) \cup Around(Branch) \cup OfAccepted \cup {[Branch EXCEPT !.build = "w2"]}
=============================================================================
