---------------------------- MODULE ImageStream ----------------------------
(***************************************************************************)
(* What the host is promised of the network on the board: every image it   *)
(* hands over comes back as one result, in order and computed from that    *)
(* image alone.                                                            *)
(***************************************************************************)
EXTENDS Integers, Sequences

CONSTANTS
  MaxImages,  \* images the host has
  Capacity    \* images between the host's two ends

VARIABLES
  given,      \* images handed over so far
  results     \* the image each result was computed from

HandOver ==
  /\ given < MaxImages /\ given < Len(results) + Capacity
  /\ given' = given + 1
  /\ UNCHANGED results

Deliver ==
  /\ Len(results) < given
  /\ results' = Append(results, Len(results) + 1)
  /\ UNCHANGED given

IInit == given = 0 /\ results = <<>>

ISpec == IInit /\ [][HandOver \/ Deliver]_<<given, results>>
=============================================================================
