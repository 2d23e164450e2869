----------------------------- MODULE BlockCopy -----------------------------
(***************************************************************************)
(* What the DMA of a cluster promises: it carries out the commands it was  *)
(* given one after the other, and each of them copies a block of h rows of *)
(* w words between the external memory, where a row starts leap words      *)
(* after the end of the row before, and the local memories of its units,   *)
(* where the words lie next to each other.  A load can surround the block  *)
(* with padding that is not in the external memory.                        *)
(***************************************************************************)
EXTENDS DmaBlock, Sequences

CONSTANTS
  Units,      \* units of the cluster, each one with a local memory
  ExtWords,   \* addresses of the external memory, in words
  LocWords,   \* addresses of a local memory, in words
  Values,     \* contents of a word
  Commands,   \* what the DMA is told to do
  PadConfigs  \* contents of the padding registers

VARIABLES
  ext,    \* the external memory
  lm,     \* lm[u]: the local memory of unit u
  pads,   \* the padding registers
  todo,   \* commands given and not completed
  x, y    \* next word of the first of them: column and row

cvars == <<ext, lm, pads, todo, x, y>>

CInit ==
  /\ ext \in [ExtWords -> Values]
  /\ lm \in [Units -> [LocWords -> Values]]
  /\ pads \in PadConfigs
  /\ todo = <<>> /\ x = 0 /\ y = 0

Give(c) ==
  /\ todo' = Append(todo, c)
  /\ UNCHANGED <<ext, lm, pads, x, y>>

\* The registers are shared by all commands.
Configure ==
  /\ todo = <<>>
  /\ pads' \in PadConfigs
  /\ UNCHANGED <<ext, lm, todo, x, y>>

\* One word of the first command.
Transfer(c) ==
  LET e == ExtAddr(c, pads, x, y)
      l == LocAddr(c, x, y)
      word == IF Padded(c, pads, x, y) THEN pads.value ELSE ext[e]
  IN  \/ /\ IsLoad(c)
         /\ lm' = [u \in Units |-> IF u \in c.units THEN [lm[u] EXCEPT ![l] = word] ELSE lm[u]]
         /\ UNCHANGED ext
      \/ /\ ~ IsLoad(c)
         /\ ext' = [ext EXCEPT ![e] = lm[FirstUnit(c)][l]]
         /\ UNCHANGED lm

Advance(c) ==
  /\ x' = IF x + 1 = c.w THEN 0 ELSE x + 1
  /\ y' = IF x + 1 < c.w THEN y ELSE IF y + 1 = c.h THEN 0 ELSE y + 1
  /\ todo' = IF x + 1 = c.w /\ y + 1 = c.h THEN Tail(todo) ELSE todo

Move ==
  /\ todo # <<>>
  /\ Transfer(Head(todo)) /\ Advance(Head(todo))
  /\ UNCHANGED pads

CNext == Move \/ Configure \/ \E c \in Commands : Give(c)

CSpec == CInit /\ [][CNext]_cvars
=============================================================================
