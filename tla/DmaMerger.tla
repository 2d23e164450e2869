----------------------------- MODULE DmaMerger -----------------------------
(***************************************************************************)
(* The merging pass: sorts the DMA commands of each run of one direction,  *)
(* drops repeated commands and joins commands whose words are contiguous   *)
(* in the main and in the local memory.  It runs twice, before and after   *)
(* the DMA commands are grouped into blocks.                               *)
(***************************************************************************)
EXTENDS CommandList

MaxMergedWords == 8192   \* a merged 1D transfer stays below this size

-----------------------------------------------------------------------------
(* Sorting.  A run ends before the first command that is no DMA command or *)
(* has another direction; its last command is not part of the sorted       *)
(* range and stays at the end of the run.                                  *)

ByMainMemory(cmd) == <<cmd.cluster, cmd.unit, cmd.mm, cmd.lm>>
ByLocalMemory(cmd) == <<cmd.cluster, cmd.unit, cmd.lm, cmd.mm>>
ForLoops(cmd) == <<cmd.mm, cmd.lm, cmd.unit, cmd.cluster>>

CloseRun(run, Key(_)) ==
  IF run = <<>> THEN <<>> ELSE Append(StableSort(Front(run), Key), Last(run))

Reorder(list, Key(_)) ==
  LET scan == Fold(
        LAMBDA acc, cmd :
          IF IsDma(cmd) /\ (acc.run = <<>> \/ Last(acc.run).dir = cmd.dir)
          THEN [acc EXCEPT !.run = Append(@, cmd)]
          ELSE [done |-> acc.done \o CloseRun(acc.run, Key) \o (IF IsDma(cmd) THEN <<>> ELSE <<cmd>>),
                run |-> IF IsDma(cmd) THEN <<cmd>> ELSE <<>>],
        [done |-> <<>>, run |-> <<>>], list)
  IN  scan.done \o scan.run

-----------------------------------------------------------------------------
(* Merging.  The passes look at what the bytes of a segment say, not at    *)
(* its type.                                                               *)

SameTarget(a, b) ==
  /\ a.dir = b.dir
  /\ a.bias = b.bias
  /\ a.kernel = b.kernel
  /\ a.cluster = b.cluster
  /\ a.unit = b.unit

SameCommand(a, b) ==
  /\ SameTarget(a, b)
  /\ a.mm = b.mm
  /\ a.lm = b.lm
  /\ a.leap = b.leap
  /\ a.x = b.x
  /\ a.y = b.y
  /\ a.pad = b.pad

DropRepeated(last, cmd) == IF SameCommand(last, cmd) THEN <<last>> ELSE <<last, cmd>>

As1D(cmd) == [cmd EXCEPT !.dir = IF @ = "e2l2D" THEN "e2l1D" ELSE "l2e1D"]

\* Mutant: a 2D command with gaps between its rows is flattened too.
FlattenGaps(cmd) ==
  IF IsDma(cmd) /\ Is2D(cmd) /\ cmd.pad = 0
  THEN [As1D(cmd) EXCEPT !.x = cmd.x * cmd.y, !.y = 1]
  ELSE cmd

Flatten(cmd) ==
  IF ~(IsDma(cmd) /\ Is2D(cmd)) THEN cmd
  ELSE IF cmd.y = 1 THEN As1D(cmd)
  ELSE IF cmd.y > 1 /\ cmd.leap = 1 /\ cmd.pad = 0 /\ cmd.x * cmd.y <= MaxMergedWords
       THEN [As1D(cmd) EXCEPT !.x = cmd.x * cmd.y, !.y = 1]
       ELSE cmd

\* The elements a segment computes past the end of its row are not moved.
DropOvercalc(cmd) ==
  IF IsDma(cmd) /\ ~Is2D(cmd) THEN [cmd EXCEPT !.x = @ - cmd.skip, !.skip = 0] ELSE cmd

\* b continues a: n words further in the local memory, mmStep bytes in the
\* main memory.
Continues(a, b, n, mmStep) == a.mm + mmStep = b.mm /\ a.lm + n = b.lm

Words1D(cmd) == cmd.x
Bytes1D(cmd) == 2 * cmd.x
Words2D(cmd) == cmd.x * cmd.y
Bytes2D(cmd) == 2 * (cmd.x + cmd.leap - 1) * cmd.y

Join1D(last, cmd) ==
  LET joined == [last EXCEPT !.x = @ + cmd.x]
  IN  IF cmd.dir \in {"e2l1D", "l2e1D"} /\ SameTarget(last, cmd)
      THEN IF Continues(last, cmd, Words1D(last), Bytes1D(last)) THEN <<joined>>
           ELSE IF Continues(cmd, last, Words1D(cmd), Bytes1D(cmd))
                THEN <<[joined EXCEPT !.mm = cmd.mm, !.lm = cmd.lm]>>
                ELSE <<last, cmd>>
      ELSE <<last, cmd>>

Join2D(last, cmd) ==
  LET joined == [last EXCEPT !.y = @ + cmd.y]
  IN  IF /\ cmd.dir \in {"e2l2D", "l2e2D"} /\ SameTarget(last, cmd)
         /\ last.leap = cmd.leap /\ last.x = cmd.x
      THEN IF Continues(last, cmd, Words2D(last), Bytes2D(last)) THEN <<joined>>
           ELSE IF Continues(cmd, last, Words2D(cmd), Bytes2D(cmd))
                THEN <<[joined EXCEPT !.mm = cmd.mm, !.lm = cmd.lm]>>
                ELSE <<last, cmd>>
      ELSE <<last, cmd>>

MergeOnce(list, Prepare(_)) ==
  LET flat == Map(Prepare, FoldCommands(DropRepeated, list))
  IN  FoldCommands(Join2D, FoldCommands(Join1D, flat))

FlattenAndTrim(cmd) == DropOvercalc(Flatten(cmd))

Merge(list) ==
  LET first  == MergeOnce(Reorder(list, ByMainMemory), FlattenAndTrim)
      second == MergeOnce(Reorder(first, ByLocalMemory), Flatten)
  IN  Reorder(second, ForLoops)

\* The assertions of the pass: it ends with a command that is no DMA command
\* and no 2D command has elements to skip.
MergeAsserts(list) ==
  /\ list # <<>> /\ ~IsDma(Last(list))
  /\ \A i \in DOMAIN list : IsDma(list[i]) /\ Is2D(Flatten(list[i])) => list[i].skip = 0
=============================================================================
