--------------------------- MODULE LayerCommands ---------------------------
(***************************************************************************)
(* The command list of a layer: for each set of segments the loads of its  *)
(* inputs, kernels and biases, the VPRO commands that compute it, and the  *)
(* stores of its results.  The two halves of the local memory take turns:  *)
(* one is loaded while the other one is computed with.  Each half has its  *)
(* inputs in the lower and the results in the upper quarter.               *)
(***************************************************************************)
EXTENDS LayerSegments

HalfOf(L, buffer) == buffer * (L.hw.lm \div 2)
Quarter(L) == L.hw.lm \div 4

\* Mutant: single buffering.
SameBuffer(buffer) == buffer

\* The other buffer is loaded while one is in use.
OtherBuffer(buffer) == 1 - buffer

\* The hardware element of a position in a set: lanes first, clusters last.
Element(L, i) ==
  LET slot == (i - 1) \div L.n
  IN  IF L.kind \in {"concat", "d2s"}
      THEN [cluster |-> (i - 1) % L.hw.clusters, unit |-> 0, lane |-> 0, iter |-> 0]
      ELSE [cluster |-> slot \div (L.hw.lanes * L.hw.units), unit |-> (slot \div L.hw.lanes) % L.hw.units,
            lane |-> slot % L.hw.lanes, iter |-> (i - 1) % L.n]

\* The positions of a set that hold a segment, in order.
Filled(set) == SelectSeq([i \in DOMAIN set |-> i], LAMBDA i : ~set[i].dummy)

At(e) == [ZeroCommand EXCEPT !.cluster = e.cluster, !.unit = 2^e.unit]

-----------------------------------------------------------------------------
(* Loads.                                                                  *)

KernelSize(L) == L.k * L.k

KernelLoad(L, s, e, buffer) ==
  [At(e) EXCEPT !.kernel = 1, !.x = KernelSize(L), !.y = 1,
     !.mm = L.weights + 2 * KernelSize(L) * (s.oc + L.och * (s.ic % GroupLen(L))),
     !.lm = HalfOf(L, buffer) + Quarter(L)
              - (IF IsLine(L) THEN 2 * L.n - e.iter - L.n * e.lane ELSE KernelSize(L) * (e.lane + 1))]

BiasLoad(L, s, e, buffer) ==
  [At(e) EXCEPT !.bias = 1, !.x = 1, !.y = 1,
     !.mm = L.weights + 2 * (L.och * GroupLen(L) * KernelSize(L) + s.oc),
     !.lm = HalfOf(L, buffer) + Quarter(L)
              - (IF IsLine(L) THEN 4 * L.n - e.iter - L.n * e.lane
                              ELSE 2 * KernelSize(L) + 1 + e.lane)]

\* The DMA does not fetch the padding: the command starts at the first and
\* leaps from the last to the next element that is no padding.
PadsOf(s, p) == [side \in DOMAIN p |-> IF s.pads[side] THEN p[side] ELSE 0]

DataLoadPadded(L, s, e, buffer, source, pad) ==
  LET in == s.inputs[source]
      narrow(field, out) == L.kind = "add" /\ Broadcast(L, L.src[source], field, out)
      x == IF narrow("x", OutX(L)) THEN 1 ELSE L.seg.iw
      y == IF narrow("y", OutY(L)) THEN 1 ELSE L.seg.ih
      bit(side, value) == IF s.pads[side] THEN value ELSE 0
  IN  [At(e) EXCEPT !.dir = "e2l2D", !.x = x, !.y = y,
         !.mm = in.mm + 2 * in.mmx * pad.top + 2 * pad.left,
         !.lm = HalfOf(L, buffer) + (source - 1) * L.seg.iw * L.seg.ih,
         !.leap = IF IsLine(L) THEN 1 ELSE in.mmx - (x - pad.left - pad.right) + 1,
         !.pad = bit("top", 1) + bit("right", 2) + bit("bottom", 4) + bit("left", 8)]

DataLoad(L, s, e, buffer, source) ==
  DataLoadPadded(L, s, e, buffer, source, PadsOf(s, DmaPadding(L, L.seg)))

\* Equal loads of units of one cluster become one, with the units' masks.
JoinUnits(last, cmd) ==
  IF [last EXCEPT !.unit = 0] = [cmd EXCEPT !.unit = 0]
  THEN <<[last EXCEPT !.unit = MaskNumber(Bits(@) \cup Bits(cmd.unit))]>>
  ELSE <<last, cmd>>

StartBroadcastLoad(loads) ==
  FoldCommands(JoinUnits, StableSort(loads, LAMBDA cmd : <<cmd.mm>>))

Load(L, set, buffer) ==
  LET words(i) ==
        LET e == Element(L, i)
        IN  IF L.kind # "conv" \/ L.max THEN <<>>
            ELSE <<KernelLoad(L, set[i], e, buffer)>>
                   \o (IF set[i].first THEN <<BiasLoad(L, set[i], e, buffer)>> ELSE <<>>)
      data(i) ==
        LET e == Element(L, i)
        IN  IF L.kind = "conv" /\ e.lane # 0 THEN <<>>
            ELSE [source \in DOMAIN set[i].inputs |-> DataLoad(L, set[i], e, buffer, source)]
  IN  StartBroadcastLoad(FlattenSeq(Map(words, Filled(set))))
        \o StartBroadcastLoad(FlattenSeq(Map(data, Filled(set))))

\* The padding of a load fits into it, and rows do not overlap backwards.
LoadFits(seg, s, pad) ==
  /\ pad.left + pad.right <= seg.iw
  /\ pad.top + pad.bottom <= seg.ih
  /\ \A in \in ToSet(s.inputs) :
       seg.ih > 1 => in.mmx - (seg.iw - pad.left - pad.right) + 1 >= 0

LoadAsserts(L, sets) ==
  \A i \in DOMAIN sets : \A s \in ToSet(sets[i]) :
    ~s.dummy => LoadFits(L.seg, s, PadsOf(s, DmaPadding(L, L.seg)))

-----------------------------------------------------------------------------
(* VPRO commands.                                                          *)

\* The first segment of a set stands for all of them.
Prototype(set) == set[Head(Filled(set))]

LaneMask(L, set) == MaskNumber({Element(L, i).lane : i \in ToSet(Filled(set))})

ConvVpro(L, set, buffer) ==
  LET end == HalfOf(L, buffer) + Quarter(L)
      k == KernelSize(L) * L.n
      first == Prototype(set).first
  IN  Vpro([ZeroVpro EXCEPT
        !.op = IF L.max THEN "max_pooling" ELSE IF first THEN "conv_start" ELSE "conv_add",
        !.lanes = LaneMask(L, set), !.buffer = HalfOf(L, buffer),
        !.kernel  = IF IsLine(L) THEN end - 2 * L.n ELSE end - k,
        !.kernel1 = IF IsLine(L) THEN end - L.n ELSE end - 2 * k,
        !.bias  = IF ~first THEN 0 ELSE IF IsLine(L) THEN end - 4 * L.n ELSE end - 2 * k - L.n,
        !.bias1 = IF ~first THEN 0 ELSE IF IsLine(L) THEN end - 3 * L.n ELSE end - 2 * k - 2 * L.n])

\* Where the results lie in the register file; kernel1 and bias hold the
\* distances of the channels there and in the local memory.
MemLayout(L, set, buffer) ==
  LET channel == IF IsLine(L) THEN L.seg.cw * L.seg.ch ELSE 0
  IN  [ZeroVpro EXCEPT
        !.lanes = IF L.kind = "conv" THEN LaneMask(L, set) ELSE 1,
        !.buffer = HalfOf(L, buffer),
        !.xend = (IF L.kind = "conv" THEN L.seg.cw ELSE L.seg.ow) - 1,
        !.yend = (IF L.kind = "conv" THEN L.seg.ch ELSE L.seg.oh) - 1,
        !.zend = L.n - 1, !.kernel1 = channel, !.bias = channel]

AfterPool(layout) ==
  [layout EXCEPT !.xend = @ \div 2, !.yend = @ \div 2, !.bias = @ \div 4]

ShiftStore(L, layout, buffer) ==
  Vpro([layout EXCEPT !.op = "shift_store", !.stride = L.hw.rf,
                      !.buffer = HalfOf(L, buffer) + Quarter(L)])

\* Pooling, activation and the transfer of the results to the local memory.
PostProcess(L, layout, store) ==
  LET pool == IF L.pool > 1 THEN <<Vpro([layout EXCEPT !.op = "maxpool2x2_fused"])>> ELSE <<>>
      pooled == IF L.pool > 1 THEN AfterPool(layout) ELSE layout
      act == IF L.act THEN <<Vpro([pooled EXCEPT !.op = "activation_fused"])>> ELSE <<>>
  IN  pool \o act \o <<ShiftStore(L, pooled, store)>>

BroadcastMap(L) ==
  LET bit(s, field, out, value) == IF Broadcast(L, L.src[s], field, out) THEN value ELSE 0
  IN  bit(1, "x", OutX(L), 1) + bit(1, "y", OutY(L), 2) + bit(1, "ch", L.och, 4)
        + bit(2, "x", OutX(L), 8) + bit(2, "y", OutY(L), 16) + bit(2, "ch", L.och, 32)

SourceShift(L, set) == L.shifts[ConcatSource(L, Prototype(set).oc)]

Compute(L, set, buffer, store) ==
  LET layout == MemLayout(L, set, buffer)
  IN  CASE L.kind = "conv" ->
             <<ConvVpro(L, set, buffer)>>
               \o (IF Prototype(set).last THEN PostProcess(L, layout, store) ELSE <<>>)
        [] L.kind = "add" ->
             <<Vpro([layout EXCEPT !.op = "add", !.kernel = BroadcastMap(L)])>>
               \o PostProcess(L, layout, store)
        [] L.kind = "concat" ->
             IF SourceShift(L, set) = 0 THEN <<>>
             ELSE <<Vpro([ZeroVpro EXCEPT !.op = "concatenate", !.buffer = HalfOf(L, buffer),
                            !.offset = HalfOf(L, buffer) + Quarter(L),
                            !.xend = L.seg.ow - 1, !.yend = L.seg.oh - 1,
                            !.shift = SourceShift(L, set)])>>

-----------------------------------------------------------------------------
(* Stores.                                                                 *)

Store(L, set, buffer) ==
  LET one(i) ==
        LET s == set[i]
            e == Element(L, i)
            processed == L.kind # "concat" \/ SourceShift(L, set) # 0
        IN  [At(e) EXCEPT !.dir = "l2e2D", !.mm = s.out, !.x = L.seg.ow, !.y = L.seg.oh,
               !.lm = HalfOf(L, buffer) + e.lane * L.hw.rf + (IF processed THEN Quarter(L) ELSE 0)
                        + e.iter * L.seg.ow * L.seg.oh,
               !.leap = IF IsLine(L) THEN 1 ELSE OutMmx(L) - L.seg.ow + 1,
               !.skip = IF IsLine(L) /\ s.x = L.seg.nx - 1 THEN L.seg.over ELSE 0]
      due(i) == L.kind = "concat" \/ set[i].last
  IN  Map(one, SelectSeq(Filled(set), due))

-----------------------------------------------------------------------------
(* The lists.                                                              *)

DmaWait == [Sync EXCEPT !.type = "dma_wait"]

\* Each set that finishes its segments switches the buffer of the results.
StoreBuffer(sets, i) == Cardinality({j \in 1 .. i : Prototype(sets[j]).last}) % 2

DoubleBuffered(L, sets) ==
  LET buffer(i) == IF i % 2 = 1 THEN 0 ELSE OtherBuffer(0)
      step(i) ==
        (IF i < Len(sets) THEN Load(L, sets[i + 1], buffer(i + 1)) ELSE <<>>)
          \o Compute(L, sets[i], buffer(i), StoreBuffer(sets, i))
          \o <<Sync>> \o Store(L, sets[i], StoreBuffer(sets, i))
  IN  Load(L, sets[1], 0) \o <<DmaWait>>
        \o FlattenSeq([i \in DOMAIN sets |-> step(i)]) \o <<Sync>>

OneByOne(L, sets) ==
  LET buffer(i) == IF i % 2 = 1 THEN 0 ELSE OtherBuffer(0)
  IN  FlattenSeq([i \in DOMAIN sets |->
                    Load(L, sets[i], buffer(i)) \o <<DmaWait>>
                      \o Compute(L, sets[i], buffer(i), 0) \o <<Sync>>
                      \o Store(L, sets[i], buffer(i))]) \o <<DmaWait>>

\* Depth to space knows the bits of the clusters from the beginning.
SquareDma(L, s, e) ==
  [At(e) EXCEPT !.cluster = 2^@, !.lm = (s.ic % 4) * L.seg.iw * L.seg.ih]

SquareLoad(L, s, e) ==
  [SquareDma(L, s, e) EXCEPT !.dir = "e2l2D", !.mm = s.inputs[1].mm, !.x = L.seg.iw, !.y = L.seg.ih,
                             !.leap = s.inputs[1].mmx - L.seg.iw + 1]

SquareStore(L, s, e) ==
  [SquareDma(L, s, e) EXCEPT !.dir = "l2e2D", !.mm = s.out, !.x = L.seg.iw * L.seg.ih, !.y = 1,
                             !.leap = OutMmx(L) - L.seg.iw * L.seg.ih + 1]

Squares(L, sets) ==
  LET load(set) == Map(LAMBDA i : SquareLoad(L, set[i], Element(L, i)), Filled(set))
      store(set) == Map(LAMBDA i : SquareStore(L, set[i], Element(L, i)), Filled(set))
  IN  FlattenSeq([n \in DOMAIN sets |->
        load(sets[n]) \o <<DmaWait>>
          \o <<Vpro([ZeroVpro EXCEPT !.op = "depth_to_space", !.xend = 1, !.yend = 1])>> \o <<Sync>>
          \o store(sets[n]) \o <<DmaWait>>])

GenerateVia(L, sets) ==
  CASE L.kind = "concat" -> OneByOne(L, sets)
    [] L.kind = "d2s"    -> Squares(L, sets)
    [] OTHER             -> DoubleBuffered(L, sets)

GenerateCommands(L) == GenerateVia(L, GenerateSegments(L))
=============================================================================
