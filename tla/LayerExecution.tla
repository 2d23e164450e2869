--------------------------- MODULE LayerExecution ---------------------------
(***************************************************************************)
(* The runtime executes a layer: calcLayer walks the command list, hands   *)
(* blocks of DMA commands to the block extractor and instructions to the   *)
(* queues of the vector units, and waits at the synchronisations.          *)
(* Meanwhile the extractor, the DMA of each cluster and each vector unit   *)
(* work through what they have been given.                                 *)
(*                                                                         *)
(* A DMA or a unit executes the command at the head of its queue in one    *)
(* step.  That loses nothing as long as no two commands that wait at the   *)
(* same time touch the same words, which is NoBufferConflict.              *)
(***************************************************************************)
EXTENDS LayerKernels, DmaLoopExtension

CONSTANT Programs   \* the layers with their command lists

VARIABLES
  layer, list,   \* the layer and its command list
  seg,           \* seg_cnt: the segment calcLayer looks at
  block,         \* commands the block extractor has not sent yet
  dmas,          \* the queue of each cluster's DMA
  vpros,         \* the queue of each vector unit
  units,         \* the memories of each vector unit
  mm             \* the words of the main memory written by stores

program == <<layer, list>>
vars == <<program, seg, block, dmas, vpros, units, mm>>

ClusterIds(L) == 0 .. L.hw.clusters - 1
Units(L) == ClusterIds(L) \X (0 .. L.hw.units - 1)

Init ==
  /\ \E p \in Programs : layer = p.layer /\ list = p.list
  /\ seg = 1
  /\ block = <<>>
  /\ dmas = [c \in ClusterIds(layer) |-> <<>>]
  /\ vpros = [u \in Units(layer) |-> <<>>]
  /\ units = [u \in Units(layer) |-> FreshUnit(layer)]
  /\ mm = [a \in {} |-> NoValue]

-----------------------------------------------------------------------------
(* calcLayer.                                                              *)

AtSegment(type) == seg <= Len(list) /\ list[seg].type = type

HandsOver(cmd) == cmd.type \in {"block", "dma"}

\* The commands a block hands over, its loops unrolled, or a single one.
HandedOver(l, i) ==
  HwCommands(IF l[i].type = "block" THEN SubSeq(l, i + 1, i + l[i].unit) ELSE <<l[i]>>)

\* Mutant: seg_cnt skips the segment behind the block, too.
PastBlockEnd(i) == i + list[i].unit + 2

\* seg_cnt skips the structs of a block.
BehindBlock(i) == i + list[i].unit + 1

\* dma_block_size, dma_block_addr_trigger and dma_dcache_short_command wait
\* for the extractor and the looper.
HandOver(next) ==
  /\ block = <<>>
  /\ block' = HandedOver(list, seg)
  /\ seg' = next
  /\ UNCHANGED <<program, dmas, vpros, units, mm>>

TriggerBlock == AtSegment("block") /\ HandOver(BehindBlock(seg))
IssueDma == AtSegment("dma") /\ HandOver(seg + 1)

\* The kernel's instructions go to the queues of all units.
IssueVpro ==
  /\ AtSegment("vpro")
  /\ vpros' = [u \in DOMAIN vpros |-> Append(vpros[u], list[seg].info[1])]
  /\ seg' = seg + 1
  /\ UNCHANGED <<program, block, dmas, units, mm>>

DmaIdle == block = <<>> /\ \A c \in DOMAIN dmas : dmas[c] = <<>>
VproIdle == \A u \in DOMAIN vpros : vpros[u] = <<>>

WaitsForDma(cmd) == cmd.type \in {"dma_wait", "both_sync"}
WaitsForVpro(cmd) == cmd.type \in {"vpro_wait", "both_sync"}

\* Mutant: vpro_sync waits for the DMAs only.
DrainedDmaOnly(cmd) == WaitsForDma(cmd) => DmaIdle

\* vpro_dma_sync, vpro_lane_sync and vpro_sync
Drained(cmd) ==
  /\ WaitsForDma(cmd) => DmaIdle
  /\ WaitsForVpro(cmd) => VproIdle

Synchronise ==
  /\ seg <= Len(list) /\ IsSync(list[seg])
  /\ Drained(list[seg])
  /\ seg' = seg + 1
  /\ UNCHANGED <<program, block, dmas, vpros, units, mm>>

-----------------------------------------------------------------------------
(* The hardware.                                                           *)

\* The extractor and the looper send the next command to its clusters.
SendNext ==
  /\ block # <<>>
  /\ dmas' = [c \in DOMAIN dmas |->
                IF c \in Bits(Head(block).cluster) THEN Append(dmas[c], Head(block)) ELSE dmas[c]]
  /\ block' = Tail(block)
  /\ UNCHANGED <<program, seg, vpros, units, mm>>

\* The main memory with the words of a store, which replace those at their addresses.
WriteOver(words, memory) ==
  [a \in DOMAIN words \cup DOMAIN memory |-> IF a \in DOMAIN words THEN words[a] ELSE memory[a]]

Transfer(c, cmd) ==
  LET targets == {u \in DOMAIN units : u[1] = c /\ u[2] \in Bits(cmd.unit)}
  IN  IF cmd.dir \in Loads
      THEN /\ units' = [u \in DOMAIN units |->
                          IF u \in targets THEN LoadUnit(layer, cmd, units[u]) ELSE units[u]]
           /\ UNCHANGED mm
      ELSE /\ \E u \in targets : mm' = WriteOver(Stored(cmd, units[u]), mm)
           /\ UNCHANGED units

RunDma(c) ==
  /\ dmas[c] # <<>>
  /\ Transfer(c, Head(dmas[c]))
  /\ dmas' = [dmas EXCEPT ![c] = Tail(@)]
  /\ UNCHANGED <<program, seg, block, vpros>>

RunUnit(u) ==
  /\ vpros[u] # <<>>
  /\ units' = [units EXCEPT ![u] = RunVpro(layer, Head(vpros[u]), @)]
  /\ vpros' = [vpros EXCEPT ![u] = Tail(@)]
  /\ UNCHANGED <<program, seg, block, dmas, mm>>

-----------------------------------------------------------------------------
\* Mutant: no branch for a single DMA command.
ProgramOfBlocks == TriggerBlock \/ IssueVpro \/ Synchronise

Program == TriggerBlock \/ IssueDma \/ IssueVpro \/ Synchronise

Next ==
  \/ Program
  \/ SendNext
  \/ \E c \in DOMAIN dmas : RunDma(c)
  \/ \E u \in DOMAIN vpros : RunUnit(u)

Spec == Init /\ [][Next]_vars

\* The program and the hardware are clocked together: something happens
\* as long as something can.
FairSpec == Spec /\ WF_vars(Next)

-----------------------------------------------------------------------------
(* Which commands may wait at the same time.                               *)

\* A DMA and a VPRO command conflict when one writes a word of the local
\* memory that the other one reads or writes.
Conflict(L, dma, v) ==
  LET words == WordsOf(dma)
  IN  IF dma.dir \in Loads THEN words \cap (VproReads(L, v) \cup VproWrites(L, v)) # {}
      ELSE words \cap VproWrites(L, v) # {}

\* Nothing orders the transfers handed over at i and the VPRO command at j: whichever comes
\* first in the list, no synchronisation before the other waits for it.
Unordered(l, i, j) ==
  /\ \A k \in i .. j : ~(IsSync(l[k]) /\ WaitsForDma(l[k]))
  /\ \A k \in j .. i : ~(IsSync(l[k]) /\ WaitsForVpro(l[k]))

RaceFree(L, l) ==
  \A i, j \in DOMAIN l :
    HandsOver(l[i]) /\ IsVpro(l[j]) /\ Unordered(l, i, j) =>
      \A d \in Range(HandedOver(l, i)) : ~Conflict(L, d, l[j].info[1])

IsSequence(s) == s \in Seq(Range(s))

\* What the compiler hands to the runtime (CommandPasses checks it): lists
\* whose blocks hold no synchronisation, and are race free.
ASSUME ProgramsAssumption ==
  \A p \in Programs :
    /\ IsSequence(p.list)
    /\ \A i \in DOMAIN p.list : HandsOver(p.list[i]) => IsSequence(HandedOver(p.list, i))
    /\ \A i \in DOMAIN p.list : p.list[i].type = "block" =>
         /\ p.list[i].unit \in Nat
         /\ \A k \in i + 1 .. i + p.list[i].unit : k \in DOMAIN p.list /\ ~IsSync(p.list[k])
    /\ RaceFree(p.layer, p.list)

-----------------------------------------------------------------------------
(* The list executed in order, each segment when the one before is done.   *)

\* The units a DMA command serves.
ServedBy(L, cmd) == {u \in Units(L) : u[1] \in Bits(cmd.cluster) /\ u[2] \in Bits(cmd.unit)}

\* A unit before the first and behind each of some DMA commands.
UnitStates(L, cmds, u, unit) ==
  LET state[k \in 0 .. Len(cmds)] ==
        IF k = 0 THEN unit
        ELSE IF cmds[k].dir \in Loads /\ u \in ServedBy(L, cmds[k])
             THEN LoadUnit(L, cmds[k], state[k - 1])
             ELSE state[k - 1]
  IN  state

\* The next segment and the units when that before it is done.
InOrderStep(L, l, s) ==
  LET cmd == l[s.at]
      past == IF cmd.type = "block" THEN cmd.unit ELSE 0
      after(u) == IF HandsOver(cmd)
                  THEN LET cmds == HandedOver(l, s.at) IN UnitStates(L, cmds, u, s.units[u])[Len(cmds)]
                  ELSE IF IsVpro(cmd) THEN RunVpro(L, cmd.info[1], s.units[u])
                  ELSE s.units[u]
  IN  IF s.at > Len(l) THEN s
      ELSE [at |-> s.at + past + 1, units |-> [u \in Units(L) |-> after(u)]]

InOrder(L, l) ==
  LET state[n \in 0 .. Len(l)] ==
        IF n = 0 THEN [at |-> 1, units |-> [u \in Units(L) |-> FreshUnit(L)]]
        ELSE InOrderStep(L, l, state[n - 1])
  IN  state

\* The main memory words of a store, which do not depend on what it stores.
Addresses(L, cmd) == DOMAIN Stored(cmd, FreshUnit(L))

Agree(f, g) == \A a \in DOMAIN f \cap DOMAIN g : f[a] = g[a]

\* Handed over to the DMAs when n segments are done.
HandedAt(L, l, n) ==
  LET at == InOrder(L, l)[n].at
  IN  IF at \in DOMAIN l /\ HandsOver(l[at]) THEN HandedOver(l, at) ELSE <<>>

\* In order, the stores write the output, word for word its value, and the
\* list ends when the DMAs are done.
ComputesInOrder(L, l) ==
  /\ \A n \in 0 .. Len(l) - 1 : \A u \in Units(L) :
       LET cmds == HandedAt(L, l, n)
           unit == UnitStates(L, cmds, u, InOrder(L, l)[n].units[u])
       IN  \A k \in DOMAIN cmds :
             cmds[k].dir \notin Loads /\ u \in ServedBy(L, cmds[k]) =>
               Agree(Stored(cmds[k], unit[k - 1]), Output(L))
  /\ \A a \in DOMAIN Output(L) : \E n \in 0 .. Len(l) - 1 :
       \E cmd \in Range(HandedAt(L, l, n)) :
         cmd.dir \notin Loads /\ ServedBy(L, cmd) # {} /\ a \in Addresses(L, cmd)
  /\ l # <<>> /\ IsSync(Last(l)) /\ WaitsForDma(Last(l))

\* The commands use words of the local memory only.
LmWords(L) == 0 .. L.hw.lm - 1

UsesLocalMemory(L, l) ==
  /\ {L.n, KernelSize(L), RfDiscard(L), L.seg.cw, L.seg.ch, L.seg.iw} \subseteq Nat
  /\ \A i \in DOMAIN l :
       /\ HandsOver(l[i]) => \A d \in Range(HandedOver(l, i)) :
            {d.lm, CommandWords(d)} \subseteq Nat /\ WordsOf(d) \subseteq LmWords(L)
       /\ IsVpro(l[i]) =>
            LET v == l[i].info[1]
            IN  /\ v.op \in DOMAIN OpAsDirection \ {"mul"}
                /\ {v.buffer, v.kernel, v.kernel1, v.bias, v.bias1, v.xend, v.yend, v.offset} \subseteq Nat
                /\ VproReads(L, v) \subseteq LmWords(L)

\* What the compiler hands to the runtime computes the layer when it is
\* executed in order (CommandPasses checks that of all its lists).
ASSUME InOrderAssumption ==
  \A p \in Programs : UsesLocalMemory(p.layer, p.list) /\ ComputesInOrder(p.layer, p.list)

-----------------------------------------------------------------------------
(* Properties.                                                             *)

Waiting == Range(block) \cup UNION {Range(dmas[c]) : c \in DOMAIN dmas}
WaitingVpros == UNION {Range(vpros[u]) : u \in DOMAIN vpros}

\* What waits has been handed over behind the last synchronisation that
\* waits for it.
DmaSince(d, i) ==
  /\ HandsOver(list[i]) /\ d \in Range(HandedOver(list, i))
  /\ \A k \in i .. seg - 1 : ~(IsSync(list[k]) /\ WaitsForDma(list[k]))

VproSince(v, j) ==
  /\ IsVpro(list[j]) /\ v = list[j].info[1]
  /\ \A k \in j .. seg - 1 : ~(IsSync(list[k]) /\ WaitsForVpro(list[k]))

\* No command outlives the synchronisation behind it: when calcLayer has
\* gone past one, nothing that it handed over before still waits.
NothingOutlivesSync ==
  /\ \A d \in Waiting : \E i \in 1 .. seg - 1 : DmaSince(d, i)
  /\ \A v \in WaitingVpros : \E j \in 1 .. seg - 1 : VproSince(v, j)

\* Double buffering works: whatever the DMAs and the vector units still have
\* in their queues, no DMA command writes words that a waiting VPRO command
\* uses, and none reads words that one writes.
NoBufferConflict ==
  \A d \in Waiting : \A v \in WaitingVpros : ~Conflict(layer, d, v)

\* A layer comes to its end: calcLayer is never left waiting, neither at a
\* synchronisation nor at a segment it does not know.
Completes == <>(seg > Len(list))

Abstract == INSTANCE LayerSpec WITH
  target <- Output(layer),
  out <- [a \in DOMAIN mm \cap DOMAIN Output(layer) |-> mm[a]],
  done <- seg > Len(list)

\* The execution implements its abstract specification: in every order in
\* which the DMAs and the units work, a word of the output is only ever
\* written with its value, and all are written when calcLayer returns.
ImplementsLayer == Abstract!LSpec
=============================================================================
