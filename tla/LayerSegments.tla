--------------------------- MODULE LayerSegments ---------------------------
(***************************************************************************)
(* How a layer is cut into segments, the pieces of one output channel that *)
(* one vector lane computes at a time: their geometry, their padding and   *)
(* their addresses, and the order in which sets of segments, one per lane, *)
(* are processed.                                                          *)
(*                                                                         *)
(* A layer L has a kind ("conv", "add", "concat" or "d2s", depth to        *)
(* space; max pooling is a "conv" with L.max), its hardware L.hw,          *)
(* its inputs L.src (a channel count, a size, the width mmx of a row in    *)
(* the main memory, a base address), its output channels L.och and base    *)
(* L.out, and, once segmented, L.seg.                                      *)
(***************************************************************************)
EXTENDS CommandList

ParallelLanes(L) == L.hw.clusters * L.hw.units * L.hw.lanes
SetSize(L) == ParallelLanes(L) * L.n

\* The 1x1 convolution that a lane computes for several output channels; it
\* treats the image as a line.
IsLine(L) == L.n > 1

\* The register file keeps one word for discarded results.
RfDiscard(L) == L.hw.rf - 1

-----------------------------------------------------------------------------
(* Sizes.                                                                  *)

ConvOut(L, in) ==
  CeilDiv(IF L.mode = "valid" THEN in - (L.k - 1) ELSE in, L.stride)

Larger(a, b) == IF a > b THEN a ELSE b

\* Elementwise layers broadcast an input whose size is 1.
FullSize(L, field) ==
  IF L.kind = "add" THEN Larger(L.src[1][field], L.src[2][field]) ELSE L.src[1][field]

OutSize(L, field) ==
  CASE L.kind = "conv" -> ConvOut(L, L.src[1][field]) \div L.pool
    [] L.kind = "d2s"  -> 2 * L.src[1][field]
    [] OTHER           -> FullSize(L, field)

OutX(L) == OutSize(L, "x")
OutY(L) == OutSize(L, "y")

\* The padding the algorithm asks for.
TotalPadding(L, in) ==
  IF L.kind = "conv" /\ L.mode = "same" /\ L.k > 1
  THEN (ConvOut(L, in) - 1) * L.stride + L.k - in ELSE 0

Halves(x, y) == [left |-> x \div 2, right |-> x - x \div 2, top |-> y \div 2, bottom |-> y - y \div 2]

AlgoPadding(L) == Halves(TotalPadding(L, L.src[1].x), TotalPadding(L, L.src[1].y))

\* The padding the DMA adds: segments may reach further than the padded
\* input, or leave some of it out.
NoPadding == [left |-> 0, right |-> 0, top |-> 0, bottom |-> 0]

Extended(in, seg, algo) ==
  [left   |-> Positive(algo.left),
   top    |-> Positive(algo.top),
   right  |-> Positive((seg.nx - 1) * seg.ixs + seg.iw - in.x - algo.left),
   bottom |-> Positive((seg.ny - 1) * seg.iys + seg.ih - in.y - algo.top)]

DmaPadding(L, seg) ==
  IF L.kind = "add" \/ IsLine(L) THEN NoPadding ELSE Extended(L.src[1], seg, AlgoPadding(L))

-----------------------------------------------------------------------------
(* Segment geometry.                                                       *)

Weights(L) == L.k * L.k + 1

RfFree(L) == RfDiscard(L) - Weights(L)
LmFree(L) == L.hw.lm \div 4 - L.hw.lanes * Weights(L)

ConvGeometry(L, cw, ch) ==
  [cw |-> cw, ch |-> ch,
   nx |-> CeilDiv(ConvOut(L, L.src[1].x), cw), ny |-> CeilDiv(ConvOut(L, L.src[1].y), ch),
   iw |-> L.k + (cw - 1) * L.stride, ih |-> L.k + (ch - 1) * L.stride,
   ixs |-> cw * L.stride, iys |-> ch * L.stride,
   ow |-> cw \div L.pool, oh |-> ch \div L.pool,
   oxs |-> cw \div L.pool, oys |-> ch \div L.pool, over |-> 0]

\* Mutant: a padding may be larger than a segment's step.
PaddingUnchecked(L, seg) == seg.iw >= L.k /\ seg.ih >= L.k

RoomFor(seg, p) ==
  LET room(num, lo, hi) == IF num < 2 THEN lo + hi ELSE Larger(lo, hi)
  IN  /\ seg.iw >= room(seg.nx, p.left, p.right)
      /\ seg.ih >= room(seg.ny, p.top, p.bottom)
      /\ p.top <= seg.iys /\ p.bottom <= seg.iys
      /\ p.left <= seg.ixs /\ p.right <= seg.ixs

PaddingFits(L, seg) == RoomFor(seg, DmaPadding(L, seg))

\* The segmentations the search accepts; its cost function picks one of
\* them.  The limits of the instruction fields (32 rows and more) are far
\* above the sizes of the layers considered here.
ConvSegmentations(L) ==
  {seg \in {ConvGeometry(L, cw, ch) : cw \in 1 .. ConvOut(L, L.src[1].x),
                                      ch \in 1 .. ConvOut(L, L.src[1].y)} :
     /\ seg.cw % L.pool = 0 /\ seg.ch % L.pool = 0
     /\ seg.cw * seg.ch <= RfFree(L)
     /\ seg.iw * seg.ih <= LmFree(L)
     /\ PaddingFits(L, seg)}

\* Lines: blocks of the image in memory order, the last one too long.  The
\* heuristic tries all sizes for which it expects the results, kernels and
\* biases to fit into the register file (a last word is in fact reserved).
LineLimit(L) ==
  LET room == Smaller((L.hw.rf - 2 * L.n) \div L.n, (L.hw.lm \div 2) \div L.n)
  IN  Smaller(Smaller(room, L.hw.lm \div 2 - 2 * L.n), L.src[1].mmx * L.src[1].y)

LineGeometry(L, block) ==
  LET words == L.src[1].mmx * L.src[1].y
      count == CeilDiv(words, block)
  IN  [cw |-> block, ch |-> 1, nx |-> count, ny |-> 1,
       iw |-> block, ih |-> 1, ixs |-> block, iys |-> 0,
       ow |-> block, oh |-> 1, oxs |-> block, oys |-> 0,
       over |-> block * count - words]

\* Other layers: as few segments as fit, at most a square each.
Root(n) == CHOOSE r \in 0 .. n : r * r <= n /\ (r + 1) * (r + 1) > n

PlainSegmentation(L) ==
  LET inMax == Root(L.hw.lm \div 4)
      outMax == Smaller(inMax, Root(RfDiscard(L)))
      num(field, out) == Larger(CeilDiv(out, outMax), CeilDiv(L.src[1][field], inMax))
      nx == num("x", OutX(L))
      ny == num("y", OutY(L))
      w == CeilDiv(OutX(L), nx)
      h == CeilDiv(OutY(L), ny)
  IN  [cw |-> w, ch |-> h, nx |-> nx, ny |-> ny, iw |-> w, ih |-> h, ixs |-> w, iys |-> h,
       ow |-> w, oh |-> h, oxs |-> w, oys |-> h, over |-> 0]

\* Depth to space turns squares of 2x2 words into squares of 4x4 words.
SquareSegmentation(L) ==
  LET nx == L.src[1].x \div 2
      ny == L.src[1].y \div 2
      w == OutX(L) \div nx
      h == OutY(L) \div ny
  IN  [cw |-> w, ch |-> h, nx |-> nx, ny |-> ny, iw |-> 2, ih |-> 2, ixs |-> 2, iys |-> 2,
       ow |-> w, oh |-> h, oxs |-> w, oys |-> h, over |-> 0]

Segmentations(L) ==
  CASE IsLine(L) -> {LineGeometry(L, block) : block \in 1 .. LineLimit(L)}
    [] L.kind = "conv" /\ ~IsLine(L) -> ConvSegmentations(L)
    [] L.kind = "d2s" -> {SquareSegmentation(L)}
    [] L.kind \in {"add", "concat"} -> {PlainSegmentation(L)}

-----------------------------------------------------------------------------
(* Addresses.                                                              *)

\* Bytes of an input channel and of the output rows in the main memory.
SourceChannel(src, ch) == src.base + 2 * ch * src.mmx * src.mmy

OutMmx(L) == IF IsLine(L) THEN L.src[1].mmx ELSE L.seg.ow + (L.seg.nx - 1) * L.seg.oxs
OutMmy(L) == IF IsLine(L) THEN OutY(L) ELSE L.seg.oh + (L.seg.ny - 1) * L.seg.oys
OutChannel(L, oc) == L.out + 2 * oc * OutMmx(L) * OutMmy(L)

Ahead(in, p) == 2 * (in.mmx * p.top + p.left)
PaddedChannel(L, src, ch) == SourceChannel(src, ch) - Ahead(L.src[1], DmaPadding(L, L.seg))

GroupLen(L) == L.src[1].ch \div L.groups
FirstInput(L, oc) == IF L.kind = "conv" THEN (oc \div (L.och \div L.groups)) * GroupLen(L) ELSE 0
InputsPerSet(L) == IF L.kind = "conv" THEN GroupLen(L) ELSE 1

Broadcast(L, src, field, out) == src[field] < out

\* The source of an output channel of a concatenation, and its channel there.
ConcatSource(L, oc) == CHOOSE s \in DOMAIN L.src :
  LET before == Fold(LAMBDA n, src : n + src.ch, 0, SubSeq(L.src, 1, s - 1))
  IN  oc >= before /\ oc < before + L.src[s].ch
ConcatChannel(L, oc) ==
  oc - Fold(LAMBDA n, src : n + src.ch, 0, SubSeq(L.src, 1, ConcatSource(L, oc) - 1))

\* Depth to space writes a row of its square for each of four input channels,
\* and loads them in the order its kernel reads them in.
SquareInput(L, x, y, ic, oc) ==
  LET in == L.src[1]
      part == CASE ic % 4 = 1 -> 2 [] ic % 4 = 2 -> 1 [] OTHER -> ic % 4
  IN  in.base + 2 * ((part * L.och + oc) * in.x * in.y + x * L.seg.iw + y * in.x * L.seg.ih)

SquareRow(L, x, y, ic, oc) ==
  L.out + 2 * (((ic % 4) + oc * OutY(L)) * OutX(L) + x * 4 + y * L.seg.ih * 2 * OutX(L))

\* The main memory address of the top left element of each input, padding
\* included, and the width of its rows.
InputsOf(L, x, y, ic, oc) ==
  LET at(src, ch) == PaddedChannel(L, src, ch) + 2 * (x * L.seg.ixs + y * L.seg.iys * src.mmx)
      plain(src) ==
        SourceChannel(src, IF Broadcast(L, src, "ch", L.och) THEN 0 ELSE oc)
          + 2 * (x * (IF Broadcast(L, src, "x", OutX(L)) THEN 0 ELSE L.seg.ixs)
                 + y * (IF Broadcast(L, src, "y", OutY(L)) THEN 0 ELSE L.seg.iys) * src.mmx)
      concat(src) ==
        SourceChannel(src, ConcatChannel(L, oc)) + 2 * (x * L.seg.iw + y * L.seg.ih * src.mmx)
  IN  CASE L.kind = "conv"   -> <<[mm |-> at(L.src[1], ic), mmx |-> L.src[1].mmx]>>
        [] L.kind = "add"    -> [s \in DOMAIN L.src |-> [mm |-> plain(L.src[s]), mmx |-> L.src[s].mmx]]
        [] L.kind = "concat" -> LET src == L.src[ConcatSource(L, oc)]
                                IN  <<[mm |-> concat(src), mmx |-> src.mmx]>>
        [] L.kind = "d2s"    -> <<[mm |-> SquareInput(L, x, y, ic, oc), mmx |-> L.src[1].mmx]>>

\* A padding applies to the segments at its edge; it is one or all of it.
AtEdge(seg, p, x, y) ==
  [top    |-> Positive(p.top - y * seg.iys),
   right  |-> Positive(p.right - (seg.nx - 1 - x) * seg.ixs),
   bottom |-> Positive(p.bottom - (seg.ny - 1 - y) * seg.iys),
   left   |-> Positive(p.left - x * seg.ixs)]

SegmentPadding(L, x, y) == AtEdge(L.seg, DmaPadding(L, L.seg), x, y)

IsLastSegment(L, x, y, ic, oc) ==
  CASE L.kind = "conv"   -> ic = FirstInput(L, oc) + GroupLen(L) - 1
    [] L.kind = "add"    -> TRUE
    [] L.kind = "concat" -> /\ x = L.seg.nx - 1 /\ y = L.seg.ny - 1
                            /\ ConcatChannel(L, oc) = L.src[ConcatSource(L, oc)].ch - 1
    [] L.kind = "d2s"    -> x = L.seg.nx - 1 /\ y = L.seg.ny - 1 /\ ic = L.src[1].ch - 1

OutputOf(L, x, y, ic, oc) ==
  IF L.kind = "d2s" THEN SquareRow(L, x, y, ic, oc)
  ELSE OutChannel(L, oc) + 2 * (x * L.seg.oxs + y * L.seg.oys * OutMmx(L))

Present(pad) == [side \in DOMAIN pad |-> pad[side] > 0]

GetSegment(L, x, y, ic, oc) ==
  [dummy |-> FALSE, x |-> x, y |-> y, ic |-> ic, oc |-> oc,
   first |-> ic = FirstInput(L, oc), last |-> IsLastSegment(L, x, y, ic, oc),
   inputs |-> InputsOf(L, x, y, ic, oc),
   out |-> OutputOf(L, x, y, ic, oc),
   pads |-> Present(SegmentPadding(L, x, y))]

DummySegment == [dummy |-> TRUE]

-----------------------------------------------------------------------------
(* Sets of segments.                                                       *)

Position(x, y, oc) == [x |-> x, y |-> y, oc |-> oc]

\* Segments row by row, each for all output channels.
ByPosition(L) ==
  [i \in 1 .. L.seg.nx * L.seg.ny * L.och |->
     LET oc == (i - 1) % L.och
         p  == (i - 1) \div L.och
     IN  Position(p % L.seg.nx, p \div L.seg.nx, oc)]

\* Groups of output channels, each for all segments.
ByChannels(L, group) ==
  FlattenSeq([c \in 1 .. CeilDiv(L.och, group) |->
    LET len == Smaller(group, L.och - (c - 1) * group)
    IN  [i \in 1 .. L.seg.nx * L.seg.ny * len |->
           LET oc == ((c - 1) * group) + ((i - 1) % len)
               p  == (i - 1) \div len
           IN  Position(p \div L.seg.ny, p % L.seg.ny, oc)]])

\* Concatenations go through the channels in memory order.
ByChannel(L) == [i \in 1 .. L.seg.nx * L.seg.ny * L.och |->
     LET p == (i - 1) % (L.seg.nx * L.seg.ny)
         oc == (i - 1) \div (L.seg.nx * L.seg.ny)
     IN  Position(p % L.seg.nx, p \div L.seg.nx, oc)]

BlockOrder(L) ==
  CASE L.kind = "concat" -> ByChannel(L)
    [] L.kind # "concat" /\ IsLine(L) -> ByChannels(L, L.n * L.hw.lanes)
    [] OTHER -> ByPosition(L)

FirstChannel(L, oc) == IF L.kind = "concat" THEN ConcatChannel(L, oc) ELSE FirstInput(L, oc)

SegmentBlocks(L) ==
  Map(LAMBDA p : GetSegment(L, p.x, p.y, FirstChannel(L, p.oc), p.oc), BlockOrder(L))

\* Mutant: segments with other inputs may share a unit.
AlwaysCompatible(L, a, b, lane, iter) ==
  IF L.kind = "add" THEN lane % L.hw.lanes = 0 ELSE TRUE

\* The lanes of a unit share a local memory: they need the same input.
Compatible(L, a, b, lane, iter) ==
  IF L.kind = "add" THEN lane % L.hw.lanes = 0
  ELSE \/ lane % L.hw.lanes = 0 /\ iter = 0
       \/ a.inputs = b.inputs /\ a.pads = b.pads

\* Each set takes the next segments in order; a lane that cannot take the
\* next one, and all lanes behind it up to the next unit, get a dummy.
NextSet(L, blocks) ==
  LET fill(acc, slot) ==
        LET lane == (slot - 1) \div L.n
            iter == (slot - 1) % L.n
            inDummies == acc.dummies /\ ~(lane % L.hw.lanes = 0 /\ iter = 0)
            misfit == /\ acc.set # <<>> /\ ~Last(acc.set).dummy
                      /\ ~Compatible(L, Head(acc.left), Last(acc.set), lane, iter)
        IN  IF acc.left = <<>> \/ inDummies \/ misfit
            THEN [acc EXCEPT !.set = Append(@, DummySegment), !.dummies = TRUE]
            ELSE [left |-> Tail(acc.left), set |-> Append(acc.set, Head(acc.left)), dummies |-> FALSE]
  IN  Fold(fill, [left |-> blocks, set |-> <<>>, dummies |-> FALSE], [i \in 1 .. SetSize(L) |-> i])

SegmentSets(L, blocks) ==
  Fold(LAMBDA acc, i :
             IF acc.left = <<>> THEN acc
             ELSE LET next == NextSet(L, acc.left)
                  IN  [left |-> next.left, sets |-> Append(acc.sets, next.set)],
           [left |-> blocks, sets |-> <<>>], blocks).sets

\* A set is repeated for all the input channels of its segments.
ForInput(L, set, r) ==
  [i \in DOMAIN set |->
     IF set[i].dummy THEN DummySegment
     ELSE GetSegment(L, set[i].x, set[i].y, set[i].ic + r, set[i].oc)]

ForInputs(L, sets) ==
  FlattenSeq([i \in DOMAIN sets |-> [r \in 1 .. InputsPerSet(L) |-> ForInput(L, sets[i], r - 1)]])

\* Concatenations give each cluster one segment and start a new set for each
\* source, since all units work with the same shift.
ConcatSets(L, blocks) ==
  Fold(LAMBDA acc, s :
        LET open == Append(acc.open, s)
            full == s.last \/ Len(open) = L.hw.clusters
        IN  IF full
            THEN [open |-> <<>>,
                  sets |-> Append(acc.sets, open \o [i \in 1 .. L.hw.clusters - Len(open) |-> DummySegment])]
            ELSE [acc EXCEPT !.open = open],
       [open |-> <<>>, sets |-> <<>>], blocks).sets

\* Depth to space gives each cluster a square; a set has the four input
\* channels of one output channel.
SquareSets(L) ==
  LET clusters == L.hw.clusters
      squares == L.seg.nx * L.seg.ny
      segment(p, ic, oc) ==
        IF p < squares THEN GetSegment(L, p % L.seg.nx, p \div L.seg.nx, ic, oc) ELSE DummySegment
      set(turn, oc) ==
        [i \in 1 .. 4 * clusters |->
           segment(turn * clusters + ((i - 1) % clusters), 4 * oc + (i - 1) \div clusters, oc)]
  IN  FlattenSeq([turn \in 1 .. CeilDiv(squares, clusters) |->
                    [oc \in 1 .. L.och |-> set(turn - 1, oc - 1)]])

GenerateSegments(L) ==
  CASE L.kind = "concat" -> ConcatSets(L, SegmentBlocks(L))
    [] L.kind = "d2s"    -> SquareSets(L)
    [] OTHER             -> ForInputs(L, SegmentSets(L, SegmentBlocks(L)))

\* The assertions of the segmentation: a padding is all or nothing, and the
\* lanes of a set finish together.
AllOrNothing(seg, p) ==
  \A x \in 0 .. seg.nx - 1, y \in 0 .. seg.ny - 1 :
    \A side \in DOMAIN p : AtEdge(seg, p, x, y)[side] \in {0, p[side]}

FinishTogether(L, real) ==
  real # {} /\ (L.kind = "conv" => \A s, t \in real : s.last = t.last)

SegmentAsserts(L, sets) ==
  /\ AllOrNothing(L.seg, DmaPadding(L, L.seg))
  /\ \A i \in DOMAIN sets : FinishTogether(L, {s \in ToSet(sets[i]) : ~s.dummy})
=============================================================================
