----------------------------- MODULE NetLayout -----------------------------
(***************************************************************************)
(* What the network compiler decides about a network as a whole (base_net  *)
(* and base_layer): the order its layers run in, where their outputs lie,  *)
(* and which layers take part in the handshake with the host.              *)
(*                                                                         *)
(* A network is the sequence of its layers in instantiation order.  A      *)
(* layer has the fields src (the layers it reads, all instantiated before  *)
(* it), is_input_layer, produces_binary_data, out_is_result, size, the     *)
(* cells of its output, and offset, where a slice begins in the output of  *)
(* its source.  A cell is a piece of main memory.                          *)
(***************************************************************************)
EXTENDS Integers, Sequences, FiniteSets

CONSTANTS
  Alignment,  \* cells an output is aligned to: 16 bytes
  LineCells   \* cells of a line of the DCMA

ASSUME LayoutAssumption == Alignment \in Nat \ {0} /\ LineCells \in Nat \ {0}

Align(a) == ((a + Alignment - 1) \div Alignment) * Alignment

\* A reshape or slice is no work: its output lies in that of its source.
Transparent(l) == ~ l.is_input_layer /\ ~ l.produces_binary_data

\* Net::designMmLayoutVpro: the outputs lie one after the other; those of
\* the first k layers end here.
End(net) ==
  LET end[k \in 0 .. Len(net)] ==
        IF k = 0 THEN 0
        ELSE Align(end[k - 1]) + IF Transparent(net[k]) THEN 0 ELSE net[k].size
  IN  end

\* setOutputMMAddr of Layer, of Reshape and of SliceChannel
Base(net) ==
  LET base[i \in DOMAIN net] ==
        IF Transparent(net[i]) THEN base[CHOOSE s \in net[i].src : TRUE] + net[i].offset
        ELSE Align(End(net)[i - 1])
  IN  base

CellsOf(net, i) == Base(net)[i] .. Base(net)[i] + net[i].size - 1

Cells(net) == UNION {CellsOf(net, i) : i \in DOMAIN net}
InputCells(net) == UNION {CellsOf(net, i) : i \in {j \in DOMAIN net : net[j].is_input_layer}}
ResultCells(net) == UNION {CellsOf(net, i) : i \in {j \in DOMAIN net : net[j].out_is_result}}

LineOf(c) == c \div LineCells

\* Net::generateLayerExecList: the layers that compute, in the order in which
\* they were instantiated.
LayerExecList(net) ==
  LET run == {i \in DOMAIN net : net[i].produces_binary_data}
  IN  [x \in 1 .. Cardinality(run) |-> CHOOSE i \in run : Cardinality({j \in run : j <= i}) = x]

\* Layer::is_transient_input_layer
IsTransientInput(net, i) ==
  LET transient[j \in DOMAIN net] ==
        \/ net[j].is_input_layer
        \/ ~ net[j].produces_binary_data /\ \E s \in net[j].src : transient[s]
  IN  transient[i]

Executed(net) == DOMAIN LayerExecList(net)

ReadsInput(net, x) ==
  \E s \in net[LayerExecList(net)[x]].src : IsTransientInput(net, s)

WritesResult(net, x) == net[LayerExecList(net)[x]].out_is_result

\* Mutant: the host gets the input back after the first layer that reads it.
FirstReader(net, x) ==
  ReadsInput(net, x) /\ \A y \in Executed(net) : y < x => ~ ReadsInput(net, y)

\* Net::generateNet: last_layer_using_input and first_layer_producing_output
LastUsingInput(net, x) ==
  ReadsInput(net, x) /\ \A y \in Executed(net) : y > x => ~ ReadsInput(net, y)

FirstProducingOutput(net, x) ==
  WritesResult(net, x) /\ \A y \in Executed(net) : y < x => ~ WritesResult(net, y)
=============================================================================
