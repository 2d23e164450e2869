--------------------------- MODULE CommandPasses ---------------------------
(***************************************************************************)
(* From a segmented layer to the list the runtime executes: the list is    *)
(* generated, and the passes the layer is configured with rewrite it one   *)
(* after the other.                                                        *)
(***************************************************************************)
EXTENDS LayerKernels, DmaMerger, DmaBlockExtension, DmaStoreSplitter, DmaLoopExtension

CONSTANT Layers   \* the segmented layers to translate

VARIABLES
  layer,    \* the layer
  config,   \* the optional passes that are switched on
  pass,     \* the next pass
  list      \* the command list so far

vars == <<layer, config, pass, list>>

Config == [merger : BOOLEAN, splitter : BOOLEAN, loops : BOOLEAN]

\* Elements to skip at the end of a line are removed by the merger only.
Needs(L, c) == L.seg.over # 0 => c.merger

\* Depth to space leaves its list as it is.
Compressed(L) == L.kind # "d2s"
NoPasses == [merger |-> FALSE, splitter |-> FALSE, loops |-> FALSE]

Init ==
  /\ layer \in Layers
  /\ config \in {c \in Config : Needs(layer, c) /\ (~Compressed(layer) => c = NoPasses)}
  /\ pass = "generate"
  /\ list = <<>>

Pass(name, next, on, Rewrite(_)) ==
  /\ pass = name
  /\ pass' = next
  /\ list' = IF on THEN Rewrite(list) ELSE list
  /\ UNCHANGED <<layer, config>>

Generate    == Pass("generate", IF Compressed(layer) THEN "merge ids" ELSE "done", TRUE, LAMBDA old : GenerateCommands(layer))
MergeIds    == Pass("merge ids", "extend blocks", config.merger, Merge)
Extend      == Pass("extend blocks", "merge masks", TRUE, ExtendBlocks)
MergeMasks  == Pass("merge masks", "split stores", config.merger, Merge)
Split       == Pass("split stores", "extend loops", config.splitter, SplitStores)
Loops       == Pass("extend loops", "done", config.loops, ExtendLoops)

Next == Generate \/ MergeIds \/ Extend \/ MergeMasks \/ Split \/ Loops

Spec == Init /\ [][Next]_vars

-----------------------------------------------------------------------------
(* What a list does.                                                       *)

\* Clusters are ids up to the extension of blocks and masks behind it.
HasMasks(name) == name \in {"merge masks", "split stores", "extend loops", "done"}
Generated(name) == name # "generate"

DmasOf(phase) == SelectSeq(HwCommands(phase), IsDma)
VprosOf(phase) == Map(LAMBDA cmd : cmd.info[1], SelectSeq(phase, IsVpro))

Effect(phase, masked) ==
  LET copies(dirs) == UNION {Copies(d, masked) : d \in {d \in ToSet(DmasOf(phase)) : d.dir \in dirs}}
  IN  [loads |-> copies(Loads), stores |-> copies(Stores), vpros |-> VprosOf(phase)]

NoEffect == [loads |-> {}, stores |-> {}, vpros |-> <<>>]

Effects(commands, masked) ==
  SelectSeq(Map(LAMBDA phase : Effect(phase, masked), Phases(commands)), LAMBDA e : e # NoEffect)

AllStores(effects) == UNION {effects[p].stores : p \in DOMAIN effects}

\* A run of the list with one command after the other.
UnitIds(L) == (0 .. L.hw.clusters - 1) \X (0 .. L.hw.units - 1)

RunDma(L, cmd, targets, state) ==
  IF cmd.dir \in Loads
  THEN [state EXCEPT !.units = [u \in DOMAIN @ |-> IF u \in targets THEN LoadUnit(L, cmd, @[u]) ELSE @[u]]]
  ELSE [state EXCEPT !.mm = Stored(cmd, state.units[CHOOSE u \in targets : TRUE]) @@ @]

RunCommand(L, cmd, masked, state) ==
  IF IsVpro(cmd)
  THEN [state EXCEPT !.units = [u \in DOMAIN @ |-> RunVpro(L, cmd.info[1], @[u])]]
  ELSE IF IsDma(cmd)
       THEN RunDma(L, [cmd EXCEPT !.x = @ - cmd.skip],
                   {<<c, u>> : c \in ClustersOf(cmd, masked), u \in Bits(cmd.unit)}, state)
       ELSE state

Result(L, commands, masked) ==
  LET start == [units |-> [u \in UnitIds(L) |-> FreshUnit(L)], mm |-> <<>>]
  IN  Fold(LAMBDA state, phase :
                 Fold(LAMBDA s, cmd : RunCommand(L, cmd, masked, s), state, HwCommands(phase)),
               start, Phases(commands)).mm

-----------------------------------------------------------------------------
(* Properties.                                                             *)

\* No pass changes what is loaded and computed between two synchronisations,
\* and only the store splitter moves stores to another phase: nothing is
\* lost, moved across a synchronisation or sent elsewhere by sorting, merging
\* and loops.
EffectsKept ==
  [][Generated(pass) =>
       LET before == Effects(list, HasMasks(pass))
           after  == Effects(list', HasMasks(pass'))
       IN  /\ Len(before) = Len(after)
           /\ AllStores(before) = AllStores(after)
           /\ \A p \in DOMAIN before :
                /\ before[p].loads = after[p].loads
                /\ before[p].vpros = after[p].vpros
                /\ pass # "split stores" => before[p].stores = after[p].stores]_vars

\* After every pass the list computes the layer: each word of the output
\* ends up with the value the layer's definition gives it, padding, strides,
\* pooling, groups and broadcasts included.
ComputesLayer ==
  Generated(pass) =>
    LET result == Result(layer, list, HasMasks(pass))
        output == Output(layer)
    IN  \A a \in DOMAIN output : a \in DOMAIN result /\ result[a] = output[a]

\* The words of the local memories that the loads, the stores and the VPRO
\* commands of a phase use.
DmaWords(phase, dirs) == UNION {WordsOf(d) : d \in {d \in ToSet(DmasOf(phase)) : d.dir \in dirs}}
ReadWords(L, phase)  == UNION {VproReads(L, v) : v \in ToSet(VprosOf(phase))}
WriteWords(L, phase) == UNION {VproWrites(L, v) : v \in ToSet(VprosOf(phase))}

RaceFree(L, phase) ==
  LET loads == DmaWords(phase, Loads)
      stores == DmaWords(phase, Stores)
      reads == ReadWords(L, phase)
      writes == WriteWords(L, phase)
  IN  /\ loads \cap (reads \cup writes) = {}
      /\ stores \cap writes = {}

\* Nothing orders the DMA and the VPRO commands between two synchronisations:
\* in every list a load uses other words of the local memory than the VPRO
\* commands of its phase, and a store other words than they write.
PhasesRaceFree ==
  Generated(pass) => \A phase \in ToSet(Phases(list)) : RaceFree(layer, phase)

\* In a compressed list each block hands over exactly the structs up to the next command that is
\* none, and at least one: the block extractor counts its size down and would
\* not stop at zero.
BlocksExact ==
  HasMasks(pass) /\ Compressed(layer) =>
    \A i \in DOMAIN list :
      /\ list[i].type = "block" => list[i].unit = DmaRun(list, i) /\ list[i].unit > 0
      /\ IsDma(list[i]) => \E j \in 1 .. i - 1 : list[j].type = "block" /\ j + list[j].unit >= i

Asserts(L, sets) == SegmentAsserts(L, sets) /\ LoadAsserts(L, sets)

\* The assertions of the segmentation, the loads and the passes hold.
AssertionsHold ==
  /\ pass = "generate" => Asserts(layer, GenerateSegments(layer))
  /\ pass = "merge ids" /\ config.merger => MergeAsserts(list)
  /\ pass = "extend blocks" => BlockAsserts(list)
  /\ pass = "merge masks" /\ config.merger => MergeAsserts(list)
  /\ pass = "split stores" /\ config.splitter => SplitAsserts(list)
  /\ pass = "extend loops" /\ config.loops => LoopAsserts(list)
=============================================================================
