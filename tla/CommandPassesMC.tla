-------------------------- MODULE CommandPassesMC --------------------------
(* All layer cases with their segmentations and all configurations, up to  *)
(* a length of the command lists.                                          *)
EXTENDS CommandPasses, LayerCases

MaxCommands == 60

MCLayers ==
  {L \in UNION {Segmented(case) : case \in Cases} : Len(GenerateCommands(L)) <= MaxCommands}
=============================================================================
