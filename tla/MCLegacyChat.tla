---------------------------- MODULE MCLegacyChat ----------------------------
(***************************************************************************)
(* Scenarios for TLC: people coming and going, conversations with a break, *)
(* a group's life, and the requests of the dialogs.                        *)
(***************************************************************************)
EXTENDS LegacyChat

Scenario(ops, online, made, conns, frames, ends) ==
    [does |-> ops, online |-> online, made |-> made, conns |-> conns, clicks |-> frames,
     breaks |-> ends]

MCScenarios ==
    { Scenario({"mistype", "register"}, 0, 0, 2, 3, 0),
      Scenario({}, 1, 0, 3, 2, 2),
      Scenario({"chat"}, 2, 0, 2, 3, 0),
      Scenario({"chat"}, 2, 0, 3, 3, 1),
      Scenario({"ask"}, 1, 0, 1, 4, 0),
      Scenario({"groupchat"}, 2, 1, 2, 3, 1),
      Scenario({}, 2, 1, 2, 4, 0) }
=============================================================================
