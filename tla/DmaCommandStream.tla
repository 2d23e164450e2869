-------------------------- MODULE DmaCommandStream --------------------------
(***************************************************************************)
(* What the DMA command front end promises.  A program hands it the        *)
(* 32-byte structs of its command memory in order; a struct is a DMA       *)
(* command or a loop description followed by its base command.  The front  *)
(* end issues exactly the commands these structs stand for, in program     *)
(* order, each one to the DMA queues of all the clusters of its mask.      *)
(***************************************************************************)
EXTENDS DmaLoop

CONSTANTS
  Clusters,  \* ids of the clusters, each one with a DMA
  Programs,  \* command memories: sequences of structs
  RegisterCommands  \* commands a program may write to the DMA registers

ASSUME MaskAssumption ==
  Clusters # {} /\ Clusters \subseteq 0 .. MaskBits - 1

-----------------------------------------------------------------------------
VARIABLES
  prog,      \* the command memory
  given,     \* how many structs of it the program has handed over
  issued,    \* how many commands of their stream have been issued
  queue      \* queue[c]: commands the DMA of cluster c has not finished

svars == <<prog, given, issued, queue>>

SInit ==
  /\ prog \in Programs
  /\ given = 0
  /\ issued = 0
  /\ queue = [c \in Clusters |-> <<>>]

SendTo(cmd) ==
  queue' = [c \in Clusters |->
              IF c \in cmd.cluster THEN Append(queue[c], cmd) ELSE queue[c]]

\* The program hands over the next structs.
Give ==
  /\ given < Len(prog)
  /\ given' \in given + 1 .. Len(prog)
  /\ UNCHANGED <<prog, issued, queue>>

\* The next command of the stream goes to its clusters.
Issue ==
  LET stream == Stream(SubSeq(prog, 1, given))
  IN  /\ issued < Len(stream)
      /\ issued' = issued + 1
      /\ SendTo(stream[issued + 1])
      /\ UNCHANGED <<prog, given>>

\* A command written to the DMA registers bypasses the stream.
Bypass ==
  /\ \E cmd \in RegisterCommands : SendTo(cmd)
  /\ UNCHANGED <<prog, given, issued>>

\* The DMA of cluster c finishes its oldest command.
Finish(c) ==
  /\ queue[c] # <<>>
  /\ queue' = [queue EXCEPT ![c] = Tail(@)]
  /\ UNCHANGED <<prog, given, issued>>

SNext == Give \/ Issue \/ Bypass \/ \E c \in Clusters : Finish(c)

SSpec == SInit /\ [][SNext]_svars
=============================================================================
