---------------------------- MODULE SaveLoaderMC ----------------------------
(* Small instance of SaveLoader: the index of the menu's MainMenu state is  *)
(* that of InGame in a game, as measured on the live client.                *)
EXTENDS SaveLoader

InGameTable == [GameCore_Tuner |-> 1, InGame |-> 2, MainMenu |-> 3]
MCStateTable ==
    [menu |-> [MainState |-> 1, MainMenu |-> 2], leaving |-> InGameTable, game |-> InGameTable]
=============================================================================
