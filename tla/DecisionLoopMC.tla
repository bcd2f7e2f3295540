--------------------------- MODULE DecisionLoopMC ---------------------------
(* Small instance of DecisionLoop: a catalog with one entry of each kind    *)
(* the dispatcher tells apart and the captures the gates tell apart.        *)
EXTENDS DecisionLoop

MCCatalog ==
    [end_turn   |-> [kind |-> "action", context |-> "in_game", camera |-> FALSE],
     move_view  |-> [kind |-> "action", context |-> "in_game", camera |-> TRUE],
     load_save  |-> [kind |-> "action", context |-> "game_core", camera |-> FALSE]]

MCTechniques == [border |-> "border", overlay |-> "corner", window |-> "text"]

CleanTry == [ready |-> TRUE, captured |-> TRUE, source |-> TRUE, geometry |-> TRUE,
             decodes |-> TRUE, wire |-> TRUE, shows |-> {}]

MCTries ==
    {CleanTry, [CleanTry EXCEPT !.wire = FALSE], [CleanTry EXCEPT !.ready = FALSE],
     [CleanTry EXCEPT !.geometry = FALSE], [CleanTry EXCEPT !.decodes = FALSE],
     [CleanTry EXCEPT !.shows = {"border"}], [CleanTry EXCEPT !.shows = {"overlay"}]}

CleanTries == {CleanTry}

MCProfileSets ==
    {[linux |-> {"overlay", "window"}, default |-> {"border", "overlay", "window"}],
     [linux |-> {"border"}, default |-> {"overlay", "window"}]}
=============================================================================
