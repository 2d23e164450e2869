----------------------------- MODULE LayerSpec -----------------------------
(***************************************************************************)
(* What the runtime promises of a layer: words of its output appear in any *)
(* order, never with another value than the layer defines, and when the    *)
(* layer is done all of them are there.                                    *)
(***************************************************************************)
VARIABLES
  target,  \* the layer's output: a function from addresses to values
  out,     \* the words of the output written so far
  done     \* the layer has been executed

lvars == <<target, out, done>>

LInit ==
  /\ out = [a \in {} |-> 0]
  /\ done = FALSE

Write ==
  /\ ~done
  /\ DOMAIN out \subseteq DOMAIN out'
  /\ DOMAIN out' \subseteq DOMAIN target
  /\ \A a \in DOMAIN out' : out'[a] = target[a]
  /\ UNCHANGED <<target, done>>

Complete ==
  /\ ~done /\ out = target
  /\ done' = TRUE
  /\ UNCHANGED <<target, out>>

LSpec == LInit /\ [][Write \/ Complete]_lvars
=============================================================================
