---------------------------- MODULE CommandList ----------------------------
(***************************************************************************)
(* Command lists of the network compiler: the 32-byte COMMAND_SEGMENTs a   *)
(* layer is translated to and the runtime executes.  A COMMAND_SEGMENT is  *)
(* a union: the passes read the direction, the addresses and the sizes of  *)
(* a DMA command also where the segment holds something else, so a VPRO    *)
(* command carries the values its bytes have as a DMA command.             *)
(***************************************************************************)
EXTENDS Integers, Sequences, FiniteSets, SequencesExt, TLC

\* A DMA command as its constructor leaves it.
ZeroCommand ==
  [type |-> "dma", dir |-> "e2l1D", bias |-> 0, kernel |-> 0, pad |-> 0,
   cluster |-> 0, unit |-> 0, mm |-> 0, lm |-> 0, leap |-> 0,
   x |-> 0, y |-> 0, skip |-> 0, info |-> <<>>]

Loads == {"e2l1D", "e2l2D"}
Stores == {"l2e1D", "l2e2D"}
Syncs == {"dma_wait", "vpro_wait", "both_sync"}

IsDma(cmd) == cmd.type = "dma"
IsVpro(cmd) == cmd.type = "vpro"
IsSync(cmd) == cmd.type \in Syncs
IsStore(cmd) == cmd.type = "dma" /\ cmd.dir \in Stores

Sync == [ZeroCommand EXCEPT !.type = "both_sync"]
Block(count) == [ZeroCommand EXCEPT !.type = "block", !.unit = count]

\* The direction the first byte of a VPRO command is read as.
OpAsDirection ==
  [conv_start |-> "e2l1D", conv_add |-> "e2l2D", maxpool2x2_fused |-> "l2e1D",
   activation_fused |-> "l2e2D", shift_store |-> "loop", add |-> "add",
   mul |-> "mul", concatenate |-> "concatenate",
   depth_to_space |-> "depth_to_space", max_pooling |-> "max_pooling"]

ZeroVpro ==
  [op |-> "conv_start", lanes |-> 0, buffer |-> 0, xend |-> 0, yend |-> 0,
   zend |-> 0, offset |-> 0, shift |-> 0, kernel |-> 0, kernel1 |-> 0,
   bias |-> 0, bias1 |-> 0, stride |-> 0, nops |-> 0]

\* A VPRO command and what it looks like as a DMA command; kernel1 and bias
\* lie where the simulator's 64-bit address is, which no pass reads.
Vpro(v) ==
  [type |-> "vpro", dir |-> OpAsDirection[v.op], bias |-> v.lanes,
   kernel |-> v.buffer % 256, pad |-> v.buffer \div 256,
   cluster |-> v.xend + 65536 * v.yend, unit |-> v.zend + 65536 * v.offset,
   mm |-> v.shift + 65536 * v.kernel, lm |-> v.bias1, leap |-> 0,
   x |-> v.stride, y |-> 0, skip |-> v.nops, info |-> <<v>>]

-----------------------------------------------------------------------------
(* Masks are numbers in the segments; ids are the positions of their bits. *)

Bits(mask) == {b \in 0 .. 15 : (mask \div 2^b) % 2 = 1}
MaskNumber(bits) == FoldSet(LAMBDA b, n : n + 2^b, 0, bits)

CeilDiv(a, b) == (a + b - 1) \div b
Smaller(a, b) == IF a < b THEN a ELSE b
Positive(a) == IF a < 0 THEN 0 ELSE a

\* Lexicographic order on tuples of the same length.
Before(a, b) ==
  \E i \in DOMAIN a : a[i] < b[i] /\ \A j \in 1 .. i - 1 : a[j] = b[j]

\* std::stable_sort and std::list::sort keep the order of equal keys.
StableSort(s, Key(_)) ==
  LET keys == SortSeq([i \in DOMAIN s |-> Append(Key(s[i]), i)], Before)
  IN  [k \in DOMAIN s |-> s[Last(keys[k])]]

\* FoldLeft for long lists.  The result of each prefix is evaluated before
\* the step to the next one, which keeps TLC's stack low.
Fold(Step(_, _), base, s) ==
  LET result[i \in 0 .. Len(s)] ==
        IF i = 0 THEN base
        ELSE CHOOSE next \in {Step(done, s[i]) : done \in {result[i - 1]}} : TRUE
  IN  result[Len(s)]

\* The list with its commands in the order of the passes' folds: Step
\* combines the last command of the result with the next one of the list.
FoldCommands(Step(_, _), s) ==
  Fold(LAMBDA done, cmd :
             IF done = <<>> THEN <<cmd>>
             ELSE Front(done) \o Step(Last(done), cmd),
           <<>>, s)

Map(Op(_), list) == [i \in DOMAIN list |-> Op(list[i])]

\* A list cut after each command that satisfies the test, rest included.
CutAfter(Test(_), s) ==
  LET cut == Fold(LAMBDA acc, cmd :
                        IF Test(cmd)
                        THEN [done |-> Append(acc.done, Append(acc.open, cmd)), open |-> <<>>]
                        ELSE [acc EXCEPT !.open = Append(@, cmd)],
                      [done |-> <<>>, open |-> <<>>], s)
  IN  IF cut.open = <<>> THEN cut.done ELSE Append(cut.done, cut.open)

\* The phases of a list: what runs between two synchronisations.
Phases(list) == CutAfter(IsSync, list)

-----------------------------------------------------------------------------
(* What a DMA command moves: pairs of a local memory word and a main       *)
(* memory address, one per element, in the units of its mask.              *)

Is2D(cmd) == cmd.dir \in {"e2l2D", "l2e2D"}

Rows(cmd) == IF Is2D(cmd) THEN cmd.y ELSE 1
RowStep(cmd) == IF Is2D(cmd) THEN 2 * (cmd.x + cmd.leap - 1) ELSE 0

\* The units a command serves, once its cluster is an id or a mask.
ClustersOf(cmd, masked) == IF masked THEN Bits(cmd.cluster) ELSE {cmd.cluster}

\* A command with padding rows is kept whole, so it is its own transfer.
Copies(cmd, masked) ==
  LET units == {<<c, u>> : c \in ClustersOf(cmd, masked), u \in Bits(cmd.unit)}
      words == IF cmd.pad # 0
               THEN {<<cmd.pad, cmd.lm, cmd.mm, cmd.x, cmd.y, cmd.leap>>}
               ELSE {<<0, cmd.lm + j * cmd.x + i, cmd.mm + j * RowStep(cmd) + 2 * i, 0, 0, 0>> :
                       i \in 0 .. cmd.x - 1 - cmd.skip, j \in 0 .. Rows(cmd) - 1}
  IN  {<<IF cmd.dir \in Loads THEN "load" ELSE "store", u, w>> : u \in units, w \in words}
=============================================================================
