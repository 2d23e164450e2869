------------------------------ MODULE DmaLoop ------------------------------
(***************************************************************************)
(* DMA commands and loop descriptions, as the structs of a command memory  *)
(* hold them, and the commands such structs stand for.  The front end of   *)
(* the DMA issues them (DmaFrontEnd); the network compiler generates them  *)
(* (DmaLoopExtension) and the runtime hands them over (LayerExecution).    *)
(***************************************************************************)
EXTENDS Integers, Sequences, SequencesExt

CONSTANTS
  MaskBits,  \* width of a cluster or unit mask
  WordMod,   \* number of values of a 32-bit address register
  IncrMod    \* number of values of the 13-bit local memory increment

ASSUME WidthAssumption ==
  /\ MaskBits \in Nat \ {0}
  /\ WordMod \in Nat \ {0}
  /\ IncrMod \in Nat \ {0}

Masks == SUBSET (0 .. MaskBits - 1)
Words == 0 .. WordMod - 1

\* A DMA command, reduced to the registers the looper rewrites.
Command == [mm : Words, lm : Words, unit : Masks, cluster : Masks]

LoopLen == 0 .. 255
LoopDesc == [cluster_len : LoopLen, cluster_shift : Int,
             unit_len : LoopLen, unit_shift : Int, inter_len : LoopLen,
             lm_incr : Int, mm_incr : Int, count : Nat]

Struct == [dir : {"dma"}, cmd : Command] \cup [dir : {"loop"}, loop : LoopDesc]

\* A mask register is 32 bits wide: bits shifted out are lost.
ShiftMask(mask, by) == {b \in 0 .. MaskBits - 1 : b - by \in mask}

\* lm_incr is a 13-bit field: its top bit is the sign.
SignExtend(v) ==
  LET low == v % IncrMod
  IN  IF 2 * low >= IncrMod THEN low - IncrMod ELSE low

\* Mutant: an address register wider than 32 bits.
AddWide(a, b) == a + b

AddWord(a, b) == (a + b) % WordMod

-----------------------------------------------------------------------------
(* The commands a loop description and its base command stand for: three   *)
(* nested loops, cut short by dma_cmd_count.                               *)

LoopSize(l) ==
  LET all == (l.cluster_len + 1) * (l.unit_len + 1) * (l.inter_len + 1)
  IN  IF l.count < all THEN l.count ELSE all

LoopCommand(l, base, k) ==
  LET inter   == k % (l.inter_len + 1)
      unit    == (k \div (l.inter_len + 1)) % (l.unit_len + 1)
      cluster == k \div ((l.inter_len + 1) * (l.unit_len + 1))
  IN  [mm      |-> AddWord(base.mm, k * l.mm_incr),
       lm      |-> AddWord(base.lm, inter * SignExtend(l.lm_incr)),
       unit    |-> ShiftMask(base.unit, unit * l.unit_shift),
       cluster |-> ShiftMask(base.cluster, cluster * l.cluster_shift)]

LoopCommands(l, base) ==
  [i \in 1 .. LoopSize(l) |-> LoopCommand(l, base, i - 1)]

\* The commands the n-th struct adds: a loop description none, the struct
\* behind it, its base command, all of the loop, another command itself.
Expansion(structs, n) ==
  IF structs[n].dir = "loop" THEN <<>>
  ELSE IF n > 1 /\ structs[n - 1].dir = "loop"
       THEN LoopCommands(structs[n - 1].loop, structs[n].cmd)
       ELSE <<structs[n].cmd>>

\* The commands of a sequence of structs.
Stream(structs) == FlattenSeq([n \in 1 .. Len(structs) |-> Expansion(structs, n)])
=============================================================================
