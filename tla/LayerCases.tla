---------------------------- MODULE LayerCases ----------------------------
(* Small layers on scaled down hardware, one for each shape of list the    *)
(* layers are translated to.  As in the hardware, a quarter of the local   *)
(* memory holds two register files.                                        *)
EXTENDS LayerCommands

Hw(clusters, units, lm) ==
  [clusters |-> clusters, units |-> units, lanes |-> 2, lm |-> lm, rf |-> lm \div 8]

Input(x, y, ch, base) ==
  [x |-> x, y |-> y, ch |-> ch, mmx |-> x, mmy |-> y, base |-> base]

In == 1000
Second == 2000
Weight == 4000
Out == 6000

Plain ==
  [kind |-> "conv", hw |-> Hw(2, 1, 64), src |-> <<Input(2, 2, 1, In)>>, och |-> 1, out |-> Out,
   weights |-> Weight, k |-> 1, stride |-> 1, mode |-> "same", pool |-> 1, groups |-> 1,
   n |-> 1, act |-> FALSE, max |-> FALSE, shifts |-> <<0, 0>>]

\* A 1x1 convolution of two input channels to three output channels.
Channels == [Plain EXCEPT !.src = <<Input(2, 2, 2, In)>>, !.och = 3]

\* One output channel for each of eight lanes: their transfers form loops.
Wide == [Plain EXCEPT !.hw = Hw(2, 2, 64), !.src = <<Input(2, 1, 1, In)>>, !.och = 8]

\* With six of them the transfers are almost a loop.
WidePartly == [Wide EXCEPT !.och = 6]

\* The first one on one cluster of two units.
ChannelsUnits == [Channels EXCEPT !.hw = Hw(1, 2, 64)]

\* A padded convolution.
Padded == [Plain EXCEPT !.hw = Hw(2, 1, 128), !.src = <<Input(3, 3, 1, In)>>, !.och = 2, !.k = 2]

\* A padding of more than one row and column.
LargeKernel == [Plain EXCEPT !.hw = Hw(1, 1, 256), !.src = <<Input(3, 2, 1, In)>>, !.k = 4]

\* A convolution with stride, pooling and activation.
Pooled == [Plain EXCEPT !.src = <<Input(8, 4, 1, In)>>, !.och = 2, !.stride = 2, !.pool = 2, !.act = TRUE]

\* A depthwise convolution: each output channel reads an input of its own.
Depthwise == [Plain EXCEPT !.src = <<Input(2, 2, 4, In)>>, !.och = 4, !.groups = 4]

\* Lines: two output channels per lane, one word too much in the last block.
Lines == [Plain EXCEPT !.src = <<Input(3, 1, 2, In)>>, !.och = 3, !.n = 2]

\* Elementwise layers, the second one broadcasts a row of its second input.
Elementwise ==
  [Plain EXCEPT !.kind = "add", !.src = <<Input(4, 4, 1, In), Input(4, 4, 1, Second)>>]
ElementwiseRow ==
  [Plain EXCEPT !.kind = "add", !.hw = Hw(1, 2, 64), !.och = 2, !.act = TRUE,
                !.src = <<Input(4, 2, 2, In), Input(4, 1, 2, Second)>>]

\* Concatenations, the first source shifted.
Concatenation ==
  [Plain EXCEPT !.kind = "concat", !.och = 5, !.shifts = <<1, 0>>,
                !.src = <<Input(2, 2, 3, In), Input(2, 2, 2, Second)>>]

\* A layer of max pooling, padded at the right and at the bottom.
MaxPooling ==
  [Plain EXCEPT !.hw = Hw(2, 1, 128), !.src = <<Input(3, 3, 2, In)>>, !.och = 2, !.groups = 2,
                !.k = 2, !.stride = 2, !.max = TRUE]

\* Depth to space: a square too few for the clusters, and two output channels.
Square == [Plain EXCEPT !.kind = "d2s", !.hw = Hw(2, 1, 128), !.src = <<Input(6, 2, 4, In)>>]
Squares2 == [Square EXCEPT !.src = <<Input(2, 2, 8, In)>>, !.och = 2]

Cases == {MaxPooling, Square, Squares2,
          Channels, Wide, WidePartly, LargeKernel, ChannelsUnits, Padded, Pooled, Depthwise, Lines,
          Elementwise, ElementwiseRow, Concatenation}

\* A layer with each segmentation it may get.
Segmented(L) == {[f \in DOMAIN L \cup {"seg"} |-> IF f = "seg" THEN seg ELSE L[f]] : seg \in Segmentations(L)}
============================================================================
