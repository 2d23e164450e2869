------------------------------ MODULE DmaBlock ------------------------------
(***************************************************************************)
(* The geometry of a DMA command.  A command c copies h rows of w words    *)
(* between the external memory, from c.ext on, and the local memories of   *)
(* the units in c.units, from c.loc on.  c.leap is the distance from the   *)
(* last word of a row in the external memory to the first of the next.     *)
(* For a 2D load c.pad says on which sides the block has padding, as wide  *)
(* as the padding registers p say, which is not in the external memory.    *)
(***************************************************************************)
EXTENDS Integers

IsLoad(c) == c.type \in {"e2l1D", "e2l2D"}

\* Width of the padding of a command on one side.
PadOf(c, p, side) == IF c.type = "e2l2D" /\ side \in c.pad THEN p[side] ELSE 0

\* Words of a row that are in the external memory.
RowLen(c, p) == c.w - PadOf(c, p, "left") - PadOf(c, p, "right")

Padded(c, p, col, row) ==
  \/ row < PadOf(c, p, "top") \/ row >= c.h - PadOf(c, p, "bottom")
  \/ col < PadOf(c, p, "left") \/ col >= c.w - PadOf(c, p, "right")

ExtAddr(c, p, col, row) ==
  c.ext + (row - PadOf(c, p, "top")) * (RowLen(c, p) + c.leap - 1)
        + col - PadOf(c, p, "left")

LocAddr(c, col, row) == c.loc + row * c.w + col

FirstUnit(c) == CHOOSE u \in c.units : \A v \in c.units : u <= v
=============================================================================
