---------------------------- MODULE DcmaCacheMC ----------------------------
(* Small caches for TLC.                                                   *)
EXTENDS DcmaCache

Transfer(word, len, write) == [word |-> word, len |-> len, write |-> write]

\* Two ways for three blocks: every third block evicts.
MCRequests == {Transfer(0, 1, TRUE), Transfer(0, 3, FALSE)}

\* The same with transfers that overlap in a block.
MCWayRequests == {Transfer(0, 2, TRUE), Transfer(1, 2, FALSE)}

\* Every word of the main memory holds one.
MCImages == {[b \in Blocks |-> [o \in Offsets |-> 1]]}

\* burst_wait_counter in memory that was zero, and in any other memory.
MCZero == {0}
MCGarbage == {0, 1, 2}
=============================================================================
