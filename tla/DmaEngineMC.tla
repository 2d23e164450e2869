---------------------------- MODULE DmaEngineMC ----------------------------
(* Small blocks for TLC.                                                   *)
EXTENDS DmaEngine

Block(type, e, l, w, h, leap, pad, units) ==
  [type |-> type, ext |-> e, loc |-> l, w |-> w, h |-> h, leap |-> leap, pad |-> pad,
   units |-> units]

\* Loads of three columns with padding on all, some or no sides, of a
\* padded row, and stores of a row and of a block with a gap.
MCCommands ==
  {Block("e2l2D", 0, 0, 3, 3, 2, {"top", "right", "bottom", "left"}, {0, 1}),
   Block("e2l2D", 1, 0, 3, 3, 1, {"right", "top"}, {0}),
   Block("e2l1D", 2, 4, 4, 1, 1, {"left"}, {1}),
   Block("l2e2D", 0, 3, 2, 2, 3, {"left", "top"}, {1}),
   Block("l2e1D", 3, 0, 3, 1, 0, {}, {0})}

Config(t, r, b, l) == [top |-> t, right |-> r, bottom |-> b, left |-> l, value |-> 9]

MCPads == {Config(1, 1, 1, 1), Config(0, 2, 1, 0), Config(2, 0, 1, 3)}

MCExt == 0 .. 6
MCLoc == 0 .. 8
MCUnits == {0, 1}
MCValues == 0 .. 9

\* Every word of the external memory can be told from the others.
MCMemories == {[ext |-> [a \in MCExt |-> a], lm |-> [u \in MCUnits |-> [a \in MCLoc |-> 8 - a]]]}
=============================================================================
