------------------------------ MODULE Dataflow ------------------------------
(***************************************************************************)
(* What a vector unit promises: each lane produces the results of its      *)
(* elements in program order, and a result only after all the chained      *)
(* results it is computed from.  How many lanes do so in a step, and how   *)
(* long it takes, is left open.                                            *)
(***************************************************************************)
EXTENDS ChainProgram

VARIABLES
  prog,  \* the program
  done   \* elements of each lane that have their result

vars == <<prog, done>>

Init == prog \in Programs /\ done = [l \in Lanes |-> 0]

\* The next element of lane l has everything it reads.
CanRun(l) ==
  \E e \in Elements(prog, l) :
    /\ Position(prog, l, e) = done[l] + 1
    /\ \A o \in Chained(prog[e.c]) :
         LET s == Source(l, prog[e.c], o)
         IN \E f \in Feeders(prog, e, s) : Position(prog, s, f) <= done[s]

Run == \E L \in SUBSET Lanes :
  /\ \A l \in L : CanRun(l)
  /\ done' = [l \in Lanes |-> IF l \in L THEN done[l] + 1 ELSE done[l]]
  /\ UNCHANGED prog

Spec == Init /\ [][Run]_vars
=============================================================================
