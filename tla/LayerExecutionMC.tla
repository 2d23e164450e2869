-------------------------- MODULE LayerExecutionMC --------------------------
(* Layers with one segmentation each, translated with all passes and with  *)
(* the block extension only.                                               *)
EXTENDS LayerExecution, LayerCases, DmaMerger, DmaBlockExtension, DmaStoreSplitter

\* The segmentation with the fewest and largest segments.
Coarsest(L) ==
  CHOOSE S \in Segmented(L) :
    \A T \in Segmented(L) : Len(GenerateCommands(S)) <= Len(GenerateCommands(T))

AllPasses(commands) == ExtendLoops(SplitStores(Merge(ExtendBlocks(Merge(commands)))))

Executed == {Coarsest(L) : L \in {Channels, ChannelsUnits, Padded, Pooled, Lines, ElementwiseRow, Concatenation,
                             MaxPooling, Squares2}}

\* Depth to space has no passes.
Lists(L, commands) ==
  IF L.kind = "d2s" THEN {commands}
  ELSE {AllPasses(commands)} \cup (IF L.seg.over = 0 THEN {ExtendBlocks(commands)} ELSE {})

MCPrograms ==
  UNION {{[layer |-> L, list |-> l] : l \in Lists(L, GenerateCommands(L))} : L \in Executed}
=============================================================================
