--------------------------- MODULE DmaFrontEndMC ---------------------------
(* Small programs for TLC: loops over clusters, units and inside a unit,   *)
(* loops cut short by their count, shifts to the right, negative and       *)
(* wrapping increments, and direct commands between them.                  *)
EXTENDS DmaFrontEnd

Cmd(mm, lm, unit, cluster) ==
  [dir |-> "dma", cmd |-> [mm |-> mm, lm |-> lm, unit |-> unit, cluster |-> cluster]]

Loop(cl, clShift, un, unShift, inter, lmIncr, mmIncr, count) ==
  [dir |-> "loop",
   loop |-> [cluster_len |-> cl, cluster_shift |-> clShift,
             unit_len |-> un, unit_shift |-> unShift, inter_len |-> inter,
             lm_incr |-> lmIncr, mm_incr |-> mmIncr, count |-> count]]

\* A loop over both clusters and two units, with two commands per unit.
Nest == <<Loop(1, 1, 1, 1, 1, 7, 3, 8), Cmd(2, 5, {0}, {0}), Cmd(9, 1, {1}, {1})>>

\* A loop cut short by its count, to the right, and another one after it.
Short == <<Loop(1, -1, 0, 0, 2, 6, -3, 5), Cmd(2, 0, {1}, {1}),
           Loop(0, 0, 1, 1, 0, 0, 2, 2), Cmd(1, 2, {0}, {0, 1})>>

\* Direct commands only, to one cluster and then to the other.
Direct == <<Cmd(1, 1, {0}, {0}), Cmd(2, 1, {0}, {0}), Cmd(3, 1, {0}, {1}),
            Cmd(4, 1, {0}, {0}), Cmd(5, 1, {0}, {1})>>

\* Only the last command of a block is for cluster 1.
LastToOther == [i \in 1 .. 6 |-> Cmd(i, 0, {0}, {IF i = 6 THEN 1 ELSE 0})]

MCSyncPrograms == {LastToOther}

MCPrograms == {Nest, Short, Direct}

MCRegisterCommands == {[mm |-> 7, lm |-> 3, unit |-> {2}, cluster |-> {0}]}

=============================================================================
