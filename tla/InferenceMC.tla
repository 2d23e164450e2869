---------------------------- MODULE InferenceMC ----------------------------
(* Small networks for TLC: an image of four cells, outputs of two.         *)
EXTENDS Inference

Input(size) ==
  [src |-> {}, is_input_layer |-> TRUE, produces_binary_data |-> FALSE, out_is_result |-> FALSE,
   size |-> size, offset |-> 0]
Slice(s, offset, size) ==
  [src |-> {s}, is_input_layer |-> FALSE, produces_binary_data |-> FALSE, out_is_result |-> FALSE,
   size |-> size, offset |-> offset]
Hidden(src, size) ==
  [src |-> src, is_input_layer |-> FALSE, produces_binary_data |-> TRUE, out_is_result |-> FALSE,
   size |-> size, offset |-> 0]
Result(src, size) ==
  [src |-> src, is_input_layer |-> FALSE, produces_binary_data |-> TRUE, out_is_result |-> TRUE,
   size |-> size, offset |-> 0]

\* A chain whose result shares a line with the layer before it; a skip
\* connection, through a slice, from the input to the second layer; two
\* results, the second computed from the first.
MCNets ==
  {<<Input(4), Hidden({1}, 2), Result({2}, 2)>>,
   <<Input(4), Slice(1, 2, 2), Hidden({1}, 1), Result({2, 3}, 2)>>,
   <<Input(4), Result({1}, 2), Result({2}, 1)>>}

\* An image that does not fill its last line.
MCSharedLine == {<<Input(2), Hidden({1}, 1), Result({2}, 1)>>}
=============================================================================
