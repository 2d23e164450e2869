-------------------------- MODULE WriteBackMemory --------------------------
(***************************************************************************)
(* What the DCMA promises the DMAs: one memory.  cur is what the DMAs read *)
(* and write, mem what the main memory behind the cache holds.  The two    *)
(* agree again, block by block, whenever a block is written back; a reset  *)
(* of the cache drops what was not.                                        *)
(***************************************************************************)
CONSTANTS
  Ids,      \* the DMAs
  Blocks,   \* cache lines of the main memory
  Offsets,  \* DMA words of a line
  Values    \* contents of a word

VARIABLES
  cur,  \* the memory the DMAs see
  mem,  \* the main memory
  data  \* data[c]: the word DMA c moved last

mvars == <<cur, mem, data>>

MInit ==
  /\ mem \in [Blocks -> [Offsets -> Values]]
  /\ cur = mem
  /\ data \in [Ids -> Values]

\* A load returns the last value stored.
Load(c, b, o) ==
  /\ data' = [data EXCEPT ![c] = cur[b][o]]
  /\ UNCHANGED <<cur, mem>>

Store(c, b, o, v) ==
  /\ cur' = [cur EXCEPT ![b][o] = v]
  /\ data' = [data EXCEPT ![c] = v]
  /\ UNCHANGED mem

WriteBack(b) ==
  /\ mem' = [mem EXCEPT ![b] = cur[b]]
  /\ UNCHANGED <<cur, data>>

Drop ==
  /\ cur' = mem
  /\ UNCHANGED <<mem, data>>

MNext ==
  \/ \E c \in Ids, b \in Blocks, o \in Offsets :
       Load(c, b, o) \/ \E v \in Values : Store(c, b, o, v)
  \/ \E b \in Blocks : WriteBack(b)
  \/ Drop

MSpec == MInit /\ [][MNext]_mvars
=============================================================================
