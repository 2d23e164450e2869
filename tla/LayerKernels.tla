---------------------------- MODULE LayerKernels ----------------------------
(***************************************************************************)
(* What the commands of a layer's list do to a vector unit.  A unit has a  *)
(* local memory unit.lm and one register file per lane, unit.rf.  Values   *)
(* are terms: a word of the main memory is <<"mem", address>>, a result    *)
(* names the operation and its operands, so that two results are equal     *)
(* only when they are computed from the same words in the same way.        *)
(***************************************************************************)
EXTENDS LayerCommands

NoValue == <<"none">>
Pad == <<"pad">>
Mem(address) == <<"mem", address>>

FreshUnit(L) ==
  [lm |-> [w \in 0 .. L.hw.lm - 1 |-> NoValue],
   rf |-> [lane \in 0 .. L.hw.lanes - 1 |-> [r \in 0 .. L.hw.rf - 1 |-> NoValue]]]

-----------------------------------------------------------------------------
(* DMA commands.                                                           *)

\* The rows and columns of a command that are padding, in the widths set for
\* the layer.
Chosen(p, flags) ==
  LET on(value, n) == IF (flags \div value) % 2 = 1 THEN n ELSE 0
  IN  [top |-> on(1, p.top), right |-> on(2, p.right),
       bottom |-> on(4, p.bottom), left |-> on(8, p.left)]

CommandPadding(L, cmd) == Chosen(DmaPadding(L, L.seg), cmd.pad)

CommandWords(cmd) == cmd.x * Rows(cmd)

\* The local memory words of a command, and its n-th element.
WordsOf(cmd) == cmd.lm .. cmd.lm + CommandWords(cmd) - 1

Loaded(cmd, p, n) ==
  LET i == (n % cmd.x) - p.left
      j == (n \div cmd.x) - p.top
      width == cmd.x - p.left - p.right
  IN  IF i \in 0 .. width - 1 /\ j \in 0 .. Rows(cmd) - p.top - p.bottom - 1
      THEN Mem(cmd.mm + 2 * (j * (width + cmd.leap - 1) + i))
      ELSE Pad

LoadPadded(cmd, p, unit) ==
  [unit EXCEPT !.lm = [w \in DOMAIN @ |-> IF w \in WordsOf(cmd) THEN Loaded(cmd, p, w - cmd.lm) ELSE @[w]]]

LoadUnit(L, cmd, unit) == LoadPadded(cmd, CommandPadding(L, cmd), unit)

\* The main memory words a store writes.
Stored(cmd, unit) ==
  LET address(n) == cmd.mm + 2 * ((n \div cmd.x) * (cmd.x + cmd.leap - 1) + (n % cmd.x))
      elements == 0 .. CommandWords(cmd) - 1
  IN  [a \in {address(n) : n \in elements} |->
         unit.lm[cmd.lm + (CHOOSE n \in elements : address(n) = a)]]

-----------------------------------------------------------------------------
(* VPRO commands: the words of the local memory they read and write.       *)

KernelBase(L) == RfDiscard(L) - KernelSize(L) * L.n
BiasBase(L) == KernelBase(L) - L.n
Pixels(L) == L.seg.cw * L.seg.ch

\* The taps of output pixel p: a kernel word and the input word it weighs.
Taps(L, p) ==
  {[kernel |-> kx + ky * L.k,
    input |-> (p \div L.seg.cw) * L.seg.iw * L.stride + (p % L.seg.cw) * L.stride + kx + ky * L.seg.iw] :
     kx \in 0 .. L.k - 1, ky \in 0 .. L.k - 1}

Span(base, n) == base .. base + n - 1

StoreWords(L, v) ==
  {v.buffer + lane * v.stride + z * v.bias + y * (v.xend + 1) + x :
     lane \in Bits(v.lanes), x \in 0 .. v.xend, y \in 0 .. v.yend, z \in 0 .. v.zend}

\* An input whose size is 1 is loaded as one column or row.
SourceWord(L, v, s, x, y) ==
  LET narrow(field, out) == Broadcast(L, L.src[s], field, out)
      column == IF narrow("x", OutX(L)) THEN 0 ELSE x
      row == IF narrow("y", OutY(L)) THEN 0 ELSE y
  IN  v.buffer + (s - 1) * (v.xend + 1) * (v.yend + 1)
        + row * (IF narrow("x", OutX(L)) THEN 1 ELSE v.xend + 1) + column

\* The words of a square, four parts of four words.
SquareWords == 0 .. 15

\* Both lanes load kernels and biases, also one that has nothing to compute.
VproReads(L, v) ==
  LET kernels == UNION {Span(base, KernelSize(L) * L.n) : base \in {v.kernel, v.kernel1}}
      biases  == UNION {Span(base, L.n) : base \in {v.bias, v.bias1}}
      inputs  == {v.buffer + t.input : t \in UNION {Taps(L, p) : p \in 0 .. Pixels(L) - 1}}
  IN  CASE v.op = "conv_start" -> kernels \cup biases \cup inputs
        [] v.op = "conv_add"   -> kernels \cup inputs
        [] v.op = "max_pooling" -> inputs
        [] v.op = "depth_to_space" -> SquareWords
        [] v.op = "add"        -> {SourceWord(L, v, s, x, y) :
                                     s \in 1 .. 2, x \in 0 .. v.xend, y \in 0 .. v.yend}
        [] v.op = "concatenate" -> Span(v.buffer, L.seg.iw * v.yend + v.xend + 1)
        [] OTHER               -> {}

VproWrites(L, v) ==
  CASE v.op = "shift_store" -> StoreWords(L, v)
    [] v.op = "concatenate" -> Span(v.offset, L.seg.iw * v.yend + v.xend + 1)
    [] v.op = "depth_to_space" -> SquareWords
    [] OTHER -> {}

-----------------------------------------------------------------------------
(* VPRO commands: their results.                                           *)

\* Kernels, and biases at a first segment, move to the register file; then
\* each pixel is accumulated on its bias or on its previous value.
ConvLane(L, v, lm, lane, rf) ==
  LET start == v.op = "conv_start"
      kernel == IF lane = 0 THEN v.kernel ELSE v.kernel1
      bias == IF lane = 0 THEN v.bias ELSE v.bias1
      ready == [r \in DOMAIN rf |->
                  IF r \in Span(KernelBase(L), KernelSize(L) * L.n) THEN lm[kernel + r - KernelBase(L)]
                  ELSE IF start /\ r \in Span(BiasBase(L), L.n) THEN lm[bias + r - BiasBase(L)]
                  ELSE rf[r]]
      pixel(regs, dst) ==
        LET z == dst \div Pixels(L)
        IN  <<"conv", regs[IF start THEN BiasBase(L) + z ELSE dst],
              {<<regs[KernelBase(L) + z * KernelSize(L) + t.kernel], lm[v.buffer + t.input]>> :
                 t \in Taps(L, dst % Pixels(L))}>>
  IN  Fold(LAMBDA regs, i : [regs EXCEPT ![i - 1] = pixel(regs, i - 1)],
               ready, [i \in 1 .. Pixels(L) * L.n |-> i])

\* The registers of results of the given layout, each replaced.
Replaced(v, rf, New(_, _)) ==
  LET w == v.xend + 1
  IN  [r \in DOMAIN rf |-> IF r < w * (v.yend + 1) THEN New(r % w, r \div w) ELSE rf[r]]

PoolLane(v, rf) ==
  LET w == v.xend + 1
      pooled(x, y) == <<"max", {rf[(2 * y + dy) * w + 2 * x + dx] : dx \in 0 .. 1, dy \in 0 .. 1}>>
      h == (v.yend + 1) \div 2
  IN  [r \in DOMAIN rf |-> IF r < (w \div 2) * h THEN pooled(r % (w \div 2), r \div (w \div 2)) ELSE rf[r]]

\* The maximum under the taps, in the layer's own max pooling.
MaxLane(L, v, lm, rf) ==
  [r \in DOMAIN rf |->
     IF r < Pixels(L) THEN <<"max", {lm[v.buffer + t.input] : t \in Taps(L, r)}>> ELSE rf[r]]

\* The parts of a square are interleaved in the register file of lane 0,
\* from there they go back to the local memory.
Interleaved(w) == 4 * (((w \div 4) % 2) + (2 * (w % 2))) + 2 * (w \div 8) + (w % 4) \div 2

RunSquare(unit) ==
  [lm |-> [w \in DOMAIN unit.lm |-> unit.lm[IF w \in SquareWords THEN Interleaved(w) ELSE w]],
   rf |-> [unit.rf EXCEPT ![0] =
             [r \in DOMAIN @ |-> IF r \in SquareWords THEN unit.lm[Interleaved(r)] ELSE @[r]]]]

ActivationLane(v, rf) ==
  [r \in DOMAIN rf |->
     IF r < (v.xend + 1) * (v.yend + 1) * (v.zend + 1) THEN <<"act", rf[r]>> ELSE rf[r]]

AddLane(L, v, lm, rf) ==
  LET sum(x, y) == <<"add", lm[SourceWord(L, v, 1, x, y)], lm[SourceWord(L, v, 2, x, y)]>>
  IN  Replaced(v, rf, sum)

\* Lanes of a command that names its lanes.
OnLanes(unit, lanes, Op(_)) ==
  [unit EXCEPT !.rf = [lane \in DOMAIN @ |-> IF lane \in lanes THEN Op(@[lane]) ELSE @[lane]]]

StoreResults(L, v, unit) ==
  LET size == (v.xend + 1) * (v.yend + 1)
      source(lane, w) ==
        LET n == w - v.buffer - lane * v.stride
        IN  CHOOSE r \in 0 .. size * (v.zend + 1) - 1 :
              (r \div size) * v.bias + (r % size) = n
      written(lane) == StoreWords(L, [v EXCEPT !.lanes = 2^lane])
  IN  [unit EXCEPT !.lm = [w \in DOMAIN @ |->
         IF w \in StoreWords(L, v)
         THEN LET lane == CHOOSE l \in Bits(v.lanes) : w \in written(l)
              IN  unit.rf[lane][LET r == source(lane, w) IN (r \div size) * v.kernel1 + (r % size)]
         ELSE @[w]]]

RunVpro(L, v, unit) ==
  CASE v.op \in {"conv_start", "conv_add"} ->
         [unit EXCEPT !.rf = [lane \in DOMAIN @ |-> ConvLane(L, v, unit.lm, lane, @[lane])]]
    [] v.op = "max_pooling" -> OnLanes(unit, DOMAIN unit.rf, LAMBDA rf : MaxLane(L, v, unit.lm, rf))
    [] v.op = "depth_to_space" -> RunSquare(unit)
    [] v.op = "maxpool2x2_fused" -> OnLanes(unit, Bits(v.lanes), LAMBDA rf : PoolLane(v, rf))
    [] v.op = "activation_fused" -> OnLanes(unit, Bits(v.lanes), LAMBDA rf : ActivationLane(v, rf))
    [] v.op = "add" -> OnLanes(unit, {0}, LAMBDA rf : AddLane(L, v, unit.lm, rf))
    [] v.op = "shift_store" -> StoreResults(L, v, unit)
    [] v.op = "concatenate" ->
         [unit EXCEPT !.lm = [w \in DOMAIN @ |->
            IF w \in VproWrites(L, v) THEN <<"shift", v.shift, @[w - v.offset + v.buffer]>> ELSE @[w]]]

-----------------------------------------------------------------------------
(* What a layer promises: the value of each word of its output, as the     *)
(* layer's definition gives it.                                            *)

\* A word of an input, padding around it included.
InputAt(src, x, y, ch) ==
  IF x \in 0 .. src.x - 1 /\ y \in 0 .. src.y - 1
  THEN Mem(src.base + 2 * (ch * src.mmx * src.mmy + y * src.mmx + x)) ELSE Pad

\* The convolution of an output channel with input channels 0 to c of its
\* group, at an output pixel before pooling.
ConvValue(L, oc, x, y) ==
  LET group == GroupLen(L)
      algo == AlgoPadding(L)
      bias == Mem(L.weights + 2 * (L.och * group * KernelSize(L) + oc))
      terms(c) ==
        {<<Mem(L.weights + 2 * ((c * L.och + oc) * KernelSize(L) + ky * L.k + kx)),
           InputAt(L.src[1], x * L.stride + kx - algo.left, y * L.stride + ky - algo.top,
                   (oc \div (L.och \div L.groups)) * group + c)>> :
           kx \in 0 .. L.k - 1, ky \in 0 .. L.k - 1}
  IN  Fold(LAMBDA value, c : <<"conv", value, terms(c - 1)>>, bias, [c \in 1 .. group |-> c])

\* The maximum of the inputs that an output of a max pooling layer covers.
MaxValue(L, oc, x, y) ==
  LET algo == AlgoPadding(L)
  IN  <<"max", {InputAt(L.src[1], x * L.stride + kx - algo.left, y * L.stride + ky - algo.top, oc) :
                  kx \in 0 .. L.k - 1, ky \in 0 .. L.k - 1}>>

\* Depth to space: four input channels, L.och apart, make up one of twice
\* the width and the height.
SquareValue(L, oc, x, y) ==
  InputAt(L.src[1], x \div 2, y \div 2, ((2 * (y % 2)) + (x % 2)) * L.och + oc)

ElementwiseValue(L, oc, x, y) ==
  LET at(src) == InputAt(src, IF src.x = 1 THEN 0 ELSE x, IF src.y = 1 THEN 0 ELSE y,
                         IF src.ch = 1 THEN 0 ELSE oc)
  IN  <<"add", at(L.src[1]), at(L.src[2])>>

ConcatValue(L, oc, x, y) ==
  LET s == ConcatSource(L, oc)
      value == InputAt(L.src[s], x, y, ConcatChannel(L, oc))
  IN  IF L.shifts[s] = 0 THEN value ELSE <<"shift", L.shifts[s], value>>

Activated(L, value) == IF L.act THEN <<"act", value>> ELSE value

OutputValue(L, oc, x, y) ==
  CASE L.kind = "conv" /\ L.max -> Activated(L, MaxValue(L, oc, x, y))
    [] L.kind = "d2s" -> SquareValue(L, oc, x, y)
    [] L.kind = "conv" /\ ~L.max /\ L.pool = 1 -> Activated(L, ConvValue(L, oc, x, y))
    [] L.kind = "conv" /\ L.pool > 1 ->
         Activated(L, <<"max", {ConvValue(L, oc, 2 * x + dx, 2 * y + dy) : dx \in 0 .. 1, dy \in 0 .. 1}>>)
    [] L.kind = "add" -> Activated(L, ElementwiseValue(L, oc, x, y))
    [] L.kind = "concat" -> ConcatValue(L, oc, x, y)

\* The layer's output, as a function of main memory addresses.
Output(L) ==
  LET word == 0 .. L.och - 1
      address(oc, x, y) == OutChannel(L, oc) + 2 * (y * OutMmx(L) + x)
      all == {<<oc, x, y>> : oc \in word, x \in 0 .. OutX(L) - 1, y \in 0 .. OutY(L) - 1}
  IN  [a \in {address(t[1], t[2], t[3]) : t \in all} |->
         LET t == CHOOSE t \in all : address(t[1], t[2], t[3]) = a
         IN  OutputValue(L, t[1], t[2], t[3])]
=============================================================================
