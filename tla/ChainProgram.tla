---------------------------- MODULE ChainProgram ----------------------------
(***************************************************************************)
(* The commands a program gives to a vector unit and what they mean.  A    *)
(* command makes each lane of its mask work on n elements, one after       *)
(* another.  A lane with the chain flag hands the result of every element  *)
(* to the lanes that name it as the source of an operand.                  *)
(***************************************************************************)
EXTENDS Integers, Sequences

CONSTANTS
  LANES,    \* VPRO_CFG::LANES, the processing lanes; the load/store lane comes after them
  Programs  \* what the program of the RISC core may give to the unit

LS == LANES
Lanes == 0 .. LANES

\* Sources of data (SRC_SEL_LEFT, ...) and of addresses (SRC_SEL_INDIRECT_LEFT, ...).
DataSel == {"left", "right", "ls"}
AddressSel == {"ileft", "iright", "ils"}
Operands == {"src1", "src2", "dst"}

Sel == {"none"} \cup DataSel \cup AddressSel

\* "sync": the program waits for the unit before it gives the command.
Command == [type : {"proc", "load", "store"}, lanes : (SUBSET Lanes) \ {{}}, n : Nat \ {0},
            chain : BOOLEAN, blocking : BOOLEAN, src1 : Sel, src2 : Sel, dst : Sel,
            gamma : 0 .. LANES - 1, sync : BOOLEAN]

\* A command that takes data and an address from one side stops the simulator
\* (check_indirect_addressing).
Mixes(c, Data, Adr) == (\E o \in Operands : c[o] \in Data) /\ (\E o \in Operands : c[o] \in Adr)

\* What the functions of VPRO::DIM3 give: loads always chain, a store takes
\* its data from the lane in gamma, only loads have a chained address in LS.
WellFormed(c) ==
  CASE c.type = "proc" -> /\ LS \notin c.lanes /\ c.dst \notin DataSel
                          /\ ~ Mixes(c, {"left", "right"}, {"ileft", "iright"})
                          /\ ~ Mixes(c, {"ls"}, {"ils"})
    [] c.type = "load" -> /\ c.lanes = {LS} /\ c.chain /\ c.src1 \in {"none", "ileft", "iright"}
                          /\ c.src2 = "none" /\ c.dst = "none"
    [] c.type = "store" -> /\ c.lanes = {LS} /\ ~ c.chain /\ c.dst = "left"
                           /\ c.src1 = "none" /\ c.src2 = "none"

ASSUME ProgramAssumption ==
  /\ LANES \in Nat /\ LANES >= 2
  /\ \A p \in Programs : p \in Seq(Command) /\ \A c \in DOMAIN p : WellFormed(p[c])

\* get_lane_from_src, and the lane whose data is stored.
Source(l, cmd, o) ==
  CASE l = LS /\ cmd[o] \in DataSel -> cmd.gamma
    [] cmd[o] \in {"left", "ileft"} -> IF l = LS THEN 0 ELSE (l + LANES - 1) % LANES
    [] cmd[o] \in {"right", "iright"} -> IF l = LS THEN LANES - 1 ELSE (l + 1) % LANES
    [] OTHER -> LS

Chained(cmd) == {o \in Operands : cmd[o] # "none"}

-----------------------------------------------------------------------------
(* The meaning of a program p: in program order, the n elements of a       *)
(* command that reads lane s get the next n results that s chains.         *)

Reads(cmd, s) == \E l \in cmd.lanes, o \in Chained(cmd) : Source(l, cmd, o) = s
Chains(cmd, s) == cmd.chain /\ s \in cmd.lanes

\* The commands that lane l works on, that read it, and that make it chain.
CommandsOf(p, l) == {c \in DOMAIN p : l \in p[c].lanes}
Reading(p, l) == {c \in DOMAIN p : Reads(p[c], l)}
Chaining(p, l) == {c \in DOMAIN p : Chains(p[c], l)}

\* Elements of the commands in C before the c-th.
Before(p, C, c) ==
  LET sum[i \in 0 .. Len(p)] ==
        IF i = 0 THEN 0 ELSE sum[i - 1] + IF i \in C THEN p[i].n ELSE 0
  IN  sum[c - 1]

Position(p, l, e) == Before(p, CommandsOf(p, l), e.c) + e.k
Total(p, l) == Before(p, CommandsOf(p, l), Len(p) + 1)

Elements(p, l) == UNION {{[c |-> c, k |-> k] : k \in 1 .. p[c].n} : c \in CommandsOf(p, l)}

\* The elements (one or none) whose result element e reads from lane s.
Feeders(p, e, s) ==
  {f \in Elements(p, s) :
     /\ p[f.c].chain
     /\ Before(p, Chaining(p, s), f.c) + f.k = Before(p, Reading(p, s), e.c) + e.k}
=============================================================================
