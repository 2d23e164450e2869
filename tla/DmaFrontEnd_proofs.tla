------------------------- MODULE DmaFrontEnd_proofs -------------------------
(* Proofs about the DMA command front end, for every program, number of    *)
(* clusters and register width.                                            *)
EXTENDS DmaFrontEnd, SharedTheorems

USE WidthAssumption, IoAssumption

-----------------------------------------------------------------------------
(* Registers.                                                              *)

\* A register keeps its width when an increment is added to it.
LEMMA AddWordType ==
  ASSUME NEW a \in Int, NEW b \in Int PROVE AddWord(a, b) \in Words
  BY DEF AddWord, Words

\* A sign-extended field is an integer.
LEMMA SignExtendType ==
  ASSUME NEW v \in Int PROVE SignExtend(v) \in Int
  BY DEF SignExtend

\* A counter that has not run out is decremented without wrapping.
LEMMA NoWrap ==
  ASSUME NEW n \in Words, n > 0 PROVE (n - 1) % WordMod = n - 1
  BY DEF Words

\* A shifted mask is a mask.
LEMMA ShiftMaskType ==
  ASSUME NEW m, NEW k PROVE ShiftMask(m, k) \in Masks
  BY DEF ShiftMask, Masks

\* The DMA queues hold commands.
LEMMA SendToType ==
  ASSUME queue \in [Clusters -> Seq(Command)], NEW cmd \in Command, SendTo(cmd)
  PROVE  queue' \in [Clusters -> Seq(Command)]
  BY DEF SendTo

\* One iteration keeps the registers commands and the counters naturals.
LEMMA NextIterationType ==
  ASSUME loop \in LoopDesc, base \in Command, cur \in Command,
         ctr \in [cluster : Nat, unit : Nat, inter : Nat]
  PROVE  /\ NextIteration.ctr \in [cluster : Nat, unit : Nat, inter : Nat]
         /\ NextIteration.cur \in Command
  <1>1. AddWord(cur.lm, SignExtend(loop.lm_incr)) \in Words
    <2>1. cur.lm \in Words /\ loop.lm_incr \in Int
      BY DEF LoopDesc, Command
    <2>2. cur.lm \in Int
      BY <2>1 DEF Words
    <2>3. SignExtend(loop.lm_incr) \in Int
      BY <2>1, SignExtendType
    <2> QED BY <2>2, <2>3, AddWordType
  <1>2. /\ ShiftMask(cur.unit, loop.unit_shift) \in Masks
        /\ ShiftMask(cur.cluster, loop.cluster_shift) \in Masks
    BY ShiftMaskType
  <1>3. [cur EXCEPT !.lm = AddWord(@, SignExtend(loop.lm_incr))] \in Command
    BY <1>1 DEF Command
  <1>4. [cur EXCEPT !.lm = base.lm, !.unit = ShiftMask(@, loop.unit_shift)] \in Command
    BY <1>2 DEF Command
  <1>5. [cur EXCEPT !.lm = base.lm, !.unit = base.unit,
                    !.cluster = ShiftMask(@, loop.cluster_shift)] \in Command
    BY <1>2 DEF Command
  <1>a. /\ [ctr EXCEPT !.inter = @ + 1] \in [cluster : Nat, unit : Nat, inter : Nat]
        /\ [ctr EXCEPT !.unit = @ + 1, !.inter = 0] \in [cluster : Nat, unit : Nat, inter : Nat]
        /\ [cluster |-> ctr.cluster + 1, unit |-> 0, inter |-> 0]
             \in [cluster : Nat, unit : Nat, inter : Nat]
    <2>1. ctr.cluster \in Nat /\ ctr.unit \in Nat /\ ctr.inter \in Nat
      OBVIOUS
    <2>2. ctr.cluster + 1 \in Nat /\ ctr.unit + 1 \in Nat /\ ctr.inter + 1 \in Nat
      BY <2>1
    <2> QED BY <2>2
  <1>6. CASE ctr.cluster > loop.cluster_len
    BY <1>6 DEF NextIteration
  <1>7. CASE ~ (ctr.cluster > loop.cluster_len) /\ ctr.inter < loop.inter_len
    BY <1>3, <1>7, <1>a, Zenon DEF NextIteration
  <1>8. CASE /\ ~ (ctr.cluster > loop.cluster_len) /\ ~ (ctr.inter < loop.inter_len)
             /\ ctr.unit < loop.unit_len
    BY <1>4, <1>8, <1>a, Zenon DEF NextIteration
  <1>9. CASE /\ ~ (ctr.cluster > loop.cluster_len) /\ ~ (ctr.inter < loop.inter_len)
             /\ ~ (ctr.unit < loop.unit_len)
    BY <1>5, <1>9, <1>a, Zenon DEF NextIteration
  <1> QED BY <1>6, <1>7, <1>8, <1>9

\* The lengths of a loop are natural numbers.
LEMMA LoopLengths ==
  ASSUME NEW l \in LoopDesc
  PROVE  /\ l.cluster_len \in Nat /\ l.unit_len \in Nat /\ l.inter_len \in Nat
         /\ l.count \in Nat
  <1>1. /\ l.cluster_len \in LoopLen /\ l.unit_len \in LoopLen
        /\ l.inter_len \in LoopLen /\ l.count \in Nat
    BY DEF LoopDesc
  <1> QED BY <1>1 DEF LoopLen

-----------------------------------------------------------------------------
(* Programs.                                                               *)

\* A struct is a command or a loop description, told apart by its dir.
LEMMA StructKinds ==
  ASSUME NEW s \in Struct
  PROVE  /\ s.dir = "dma" => s.cmd \in Command
         /\ s.dir = "loop" => s.loop \in LoopDesc
         /\ s.dir \in {"dma", "loop"}
  BY DEF Struct

\* The structs of the command memory; a loop is followed by its base.
LEMMA ProgramStructs ==
  ASSUME prog \in Programs, NEW i \in 1 .. Len(prog)
  PROVE  /\ prog[i] \in Struct
         /\ prog[i].dir = "loop" =>
              /\ i < Len(prog) /\ prog[i + 1].dir = "dma"
              /\ prog[i].loop.count > 1
              /\ prog[i].loop.cluster_len + prog[i].loop.unit_len
                   + prog[i].loop.inter_len > 0
  BY ProgramAssumption

\* A program is shorter than the range of the size register.
LEMMA ProgramLength ==
  ASSUME prog \in Programs
  PROVE  Len(prog) \in Nat /\ Len(prog) < WordMod
  BY ProgramAssumption

-----------------------------------------------------------------------------
(* The initial state.                                                      *)

LEMMA InitControlInv == Init => ControlInv
  <1> SUFFICES ASSUME Init PROVE ControlInv
    OBVIOUS
  <1>1. NoLoop \in LoopDesc /\ NoCommand \in Command
    BY DEF NoLoop, LoopDesc, LoopLen, NoCommand, Command, Words, Masks
  <1>2. TypeOK
    <2>1. given \in 0 .. Len(prog)
      BY ProgramLength DEF Init, SInit
    <2>2. queue \in [Clusters -> Seq(Command)]
      BY DEF Init, SInit
    <2>3. block \in [size : Words, addr : Nat, busy : BOOLEAN]
      BY DEF Init, Words
    <2>4. io \in Nat /\ regs \in Nat /\ issued \in Nat /\ generated \in Nat
      BY DEF Init, SInit
    <2> QED BY <1>1, <2>1, <2>2, <2>3, <2>4 DEF Init, SInit, TypeOK, Polls
  <1>3. InputFree /\ LoopOwesCommands /\ BlockInRange
    BY DEF Init, InputFree, LoopOwesCommands, BlockInRange
  <1>4. BlockNotRetriggered
    BY DEF Init, BlockNotRetriggered
  <1>5. LooperInStep
    BY DEF Init, LooperInStep
  <1>6. CallInStep
    BY DEF Init, CallInStep, Polls
  <1> QED BY <1>2, <1>3, <1>4, <1>5, <1>6 DEF ControlInv

-----------------------------------------------------------------------------
(* One cycle of the front end.                                             *)

\* The input register holds a struct of the program, and the loop that
\* waits for its base is the struct before it.
LEMMA InputKinds ==
  ASSUME ControlInv, input # NoStruct
  PROVE  /\ input \in Struct
         /\ state = "WAIT_FOR_BASE" =>
              /\ input.dir = "dma" /\ loop.count > 1
              /\ loop.cluster_len + loop.unit_len + loop.inter_len > 0
         /\ state = "IDLE" /\ input.dir = "loop" =>
              Fetched > 0 /\ prog[Fetched] = input
  <1>1. input \in Struct /\ prog \in Programs
    BY DEF ControlInv, TypeOK
  <1>2. Fetched > 0 /\ input = prog[Fetched]
    BY DEF ControlInv, LooperInStep
  <1>3. Len(prog) \in Nat /\ given \in 0 .. Len(prog)
    BY <1>1, ProgramLength DEF ControlInv, TypeOK
  <1>4. Fetched \in 1 .. Len(prog)
    <2>1. block.size \in Nat /\ (block.busy => block.size > 0)
      BY DEF ControlInv, TypeOK, BlockInRange, Words
    <2> QED BY <2>1, <1>2, <1>3 DEF Fetched
  <1>5. ASSUME state = "WAIT_FOR_BASE"
        PROVE  /\ input.dir = "dma" /\ loop.count > 1
               /\ loop.cluster_len + loop.unit_len + loop.inter_len > 0
    <2>1. /\ Fetched - 1 > 0 /\ prog[Fetched - 1].dir = "loop"
          /\ loop = prog[Fetched - 1].loop
      BY <1>5 DEF ControlInv, LooperInStep
    <2>2. Fetched - 1 \in 1 .. Len(prog) /\ (Fetched - 1) + 1 = Fetched
      BY <2>1, <1>4, <1>3
    <2> QED BY <2>1, <2>2, <1>1, <1>2, ProgramStructs
  <1> QED BY <1>1, <1>2, <1>5

\* An iteration that is not the last one stays inside the nest.
LEMMA NextIterationInNest ==
  ASSUME ControlInv, state = "LOOPING",
         NEW c, c = NextIteration.ctr,
         ~ AtLoopEnd(c, generated + 1)
  PROVE  /\ generated + 1 \in 1 .. loop.count - 1
         /\ c.cluster <= loop.cluster_len /\ c.unit <= loop.unit_len
         /\ c.inter <= loop.inter_len
  <1>1. /\ ctr \in [cluster : Nat, unit : Nat, inter : Nat]
        /\ loop.count \in Nat /\ loop.cluster_len \in Nat
        /\ loop.unit_len \in Nat /\ loop.inter_len \in Nat
    BY LoopLengths DEF ControlInv, TypeOK
  <1>2. /\ generated \in 1 .. loop.count - 1
        /\ ctr.cluster <= loop.cluster_len /\ ctr.unit <= loop.unit_len
        /\ ctr.inter <= loop.inter_len
        /\ ~ AtLoopEnd(ctr, generated)
    BY DEF ControlInv, LoopOwesCommands
  <1>3. generated + 1 # loop.count
    BY DEF AtLoopEnd
  <1>4. ctr = [cluster |-> ctr.cluster, unit |-> ctr.unit, inter |-> ctr.inter]
    BY <1>1
  <1>5. ~ (/\ ctr.cluster = loop.cluster_len /\ ctr.unit = loop.unit_len
           /\ ctr.inter = loop.inter_len)
    BY <1>2, <1>4 DEF AtLoopEnd
  <1>6. ctr.cluster \in Nat /\ ctr.unit \in Nat /\ ctr.inter \in Nat
    BY <1>1
  <1>7. CASE ctr.inter < loop.inter_len
    <2>1. c = [ctr EXCEPT !.inter = @ + 1]
      BY <1>7, <1>1, <1>2, <1>6 DEF NextIteration
    <2> QED BY <2>1, <1>1, <1>2, <1>3, <1>6, <1>7
  <1>8. CASE ~ (ctr.inter < loop.inter_len) /\ ctr.unit < loop.unit_len
    <2>1. c = [ctr EXCEPT !.unit = @ + 1, !.inter = 0]
      BY <1>8, <1>1, <1>2, <1>6 DEF NextIteration
    <2> QED BY <2>1, <1>1, <1>2, <1>3, <1>6, <1>8
  <1>9. CASE ~ (ctr.inter < loop.inter_len) /\ ~ (ctr.unit < loop.unit_len)
    <2>1. c = [cluster |-> ctr.cluster + 1, unit |-> 0, inter |-> 0]
      BY <1>9, <1>1, <1>2, <1>6 DEF NextIteration
    <2> QED BY <2>1, <1>1, <1>2, <1>3, <1>5, <1>6, <1>9
  <1> QED BY <1>7, <1>8, <1>9

\* What a cycle of the looper leaves in its registers.
LEMMA LooperStep ==
  ASSUME ControlInv, LooperTick
  PROVE  /\ issued' \in Nat /\ queue' \in [Clusters -> Seq(Command)]
         /\ state' \in {"IDLE", "WAIT_FOR_BASE", "LOOPING"} /\ busy' \in BOOLEAN
         /\ loop' \in LoopDesc /\ base' \in Command /\ cur' \in Command
         /\ ctr' \in [cluster : Nat, unit : Nat, inter : Nat]
         /\ generated' \in Nat
         /\ busy' <=> state' = "LOOPING"
         /\ LoopOwesCommands'
         /\ state' = "WAIT_FOR_BASE" =>
              \/ state = "WAIT_FOR_BASE" /\ input = NoStruct /\ loop' = loop
              \/ /\ state = "IDLE" /\ input # NoStruct
                 /\ Fetched > 0 /\ prog[Fetched].dir = "loop"
                 /\ loop' = prog[Fetched].loop
         /\ state' = "LOOPING" => InputAfterLooper = NoStruct
  <1> USE DEF ControlInv
  <1>0. /\ TypeOK /\ InputFree /\ LoopOwesCommands
        /\ issued \in Nat /\ generated \in Nat
        /\ queue \in [Clusters -> Seq(Command)]
        /\ state \in {"IDLE", "WAIT_FOR_BASE", "LOOPING"} /\ busy \in BOOLEAN
        /\ loop \in LoopDesc /\ base \in Command /\ cur \in Command
        /\ ctr \in [cluster : Nat, unit : Nat, inter : Nat]
    BY DEF TypeOK
  <1>1. CASE LoopIteration
    <2>1. state = "LOOPING" /\ input = NoStruct
      BY <1>1, <1>0 DEF LoopIteration, InputFree
    <2>2. ~ FsmError
      <3>1. /\ ctr.cluster <= loop.cluster_len
            /\ ctr.cluster \in Nat /\ loop.cluster_len \in Nat
        BY <1>0, <2>1, LoopLengths DEF LoopOwesCommands
      <3> QED BY <3>1 DEF FsmError
    <2>3. /\ ctr' = NextIteration.ctr
          /\ cur' = [NextIteration.cur EXCEPT !.mm = AddWord(@, loop.mm_incr)]
          /\ generated' = generated + 1
          /\ IF AtLoopEnd(ctr', generated')
             THEN state' = "IDLE" /\ busy' = FALSE
             ELSE state' = state /\ busy' = TRUE
          /\ Emit(cur')
          /\ loop' = loop /\ base' = base
      BY <1>1, <2>2, Zenon DEF LoopIteration
    <2>4. cur' \in Command
      <3>1. NextIteration.cur \in Command
        BY <1>0, NextIterationType
      <3>2. NextIteration.cur.mm \in Words /\ loop.mm_incr \in Int
        BY <3>1, <1>0 DEF Command, LoopDesc
      <3>3. AddWord(NextIteration.cur.mm, loop.mm_incr) \in Words
        <4>1. NextIteration.cur.mm \in Int
          BY <3>2 DEF Words
        <4> QED BY <4>1, <3>2, AddWordType
      <3> QED BY <3>1, <3>3, <2>3 DEF Command
    <2>5. ctr' \in [cluster : Nat, unit : Nat, inter : Nat] /\ generated' \in Nat
      BY <1>0, <2>3, NextIterationType
    <2>6. issued' \in Nat /\ queue' \in [Clusters -> Seq(Command)]
      BY <2>3, <2>4, <1>0, SendToType DEF Emit
    <2>7. LoopOwesCommands'
      <3> SUFFICES ASSUME state' = "LOOPING" PROVE LoopOwesCommands'
        BY DEF LoopOwesCommands
      <3>1. ~ AtLoopEnd(ctr', generated')
        BY <2>3
      <3>2. /\ generated + 1 \in 1 .. loop.count - 1
            /\ ctr'.cluster <= loop.cluster_len /\ ctr'.unit <= loop.unit_len
            /\ ctr'.inter <= loop.inter_len
        BY <2>1, <2>3, <3>1, NextIterationInNest
      <3> QED BY <2>3, <3>1, <3>2 DEF LoopOwesCommands, AtLoopEnd
    <2> QED BY <1>0, <2>1, <2>3, <2>4, <2>5, <2>6, <2>7 DEF InputAfterLooper
  <1>2. CASE AcceptBase
    <2>1. state = "WAIT_FOR_BASE" /\ input # NoStruct
      BY <1>2 DEF AcceptBase
    <2>2. /\ input \in Struct /\ input.dir = "dma" /\ loop.count > 1
          /\ loop.cluster_len + loop.unit_len + loop.inter_len > 0
      BY <2>1, InputKinds
    <2>3. input.cmd \in Command
      BY <2>2, StructKinds
    <2>4. /\ state' = "LOOPING" /\ busy' = TRUE /\ generated' = 1
          /\ base' = input.cmd /\ cur' = input.cmd /\ loop' = loop
          /\ ctr' = [cluster |-> 0, unit |-> 0, inter |-> 0]
          /\ Emit(input.cmd)
      BY <1>2 DEF AcceptBase
    <2>5. issued' \in Nat /\ queue' \in [Clusters -> Seq(Command)]
      BY <2>3, <2>4, <1>0, SendToType DEF Emit
    <2>6. LoopOwesCommands'
      <3>1. /\ loop.cluster_len \in Nat /\ loop.unit_len \in Nat
            /\ loop.inter_len \in Nat /\ loop.count \in Nat
        BY <1>0, LoopLengths
      <3>2. ~ AtLoopEnd(ctr', generated')
        BY <2>2, <2>4, <3>1 DEF AtLoopEnd
      <3> QED BY <2>2, <2>4, <3>1, <3>2 DEF LoopOwesCommands, AtLoopEnd
    <2> QED BY <1>0, <2>1, <2>3, <2>4, <2>5, <2>6 DEF InputAfterLooper
  <1>3. CASE AcceptLoop
    <2>1. state = "IDLE" /\ input # NoStruct /\ input.dir = "loop"
      BY <1>3 DEF AcceptLoop
    <2>2. input \in Struct /\ Fetched > 0 /\ prog[Fetched] = input
      BY <2>1, InputKinds
    <2>3. input.loop \in LoopDesc
      BY <2>1, <2>2, StructKinds
    <2> QED BY <1>0, <1>3, <2>1, <2>2, <2>3
            DEF AcceptLoop, NoEmit, LoopOwesCommands
  <1>4. CASE PassDirect
    <2>1. state = "IDLE" /\ input # NoStruct /\ input.dir = "dma"
      BY <1>4 DEF PassDirect
    <2>2. input.cmd \in Command
      BY <2>1, InputKinds, StructKinds
    <2>3. Emit(input.cmd)
      BY <1>4 DEF PassDirect
    <2>4. issued' \in Nat /\ queue' \in [Clusters -> Seq(Command)]
      BY <2>2, <2>3, <1>0, SendToType DEF Emit
    <2> QED BY <1>0, <1>4, <2>1, <2>4 DEF PassDirect, LoopOwesCommands
  <1>5. CASE LooperIdle
    BY <1>0, <1>5 DEF LooperIdle, NoEmit, InputFree, LoopOwesCommands, AtLoopEnd,
                      InputAfterLooper
  <1> QED BY <1>1, <1>2, <1>3, <1>4, <1>5 DEF LooperTick

\* A cycle of the front end keeps everything but what the program's
\* registers say, and never restarts a block.
LEMMA FrontEndStep ==
  ASSUME ControlInv, FrontEndTick
  PROVE  /\ prog' \in Programs /\ given' \in 0 .. Len(prog') /\ issued' \in Nat
         /\ queue' \in [Clusters -> Seq(Command)]
         /\ state' \in {"IDLE", "WAIT_FOR_BASE", "LOOPING"} /\ busy' \in BOOLEAN
         /\ input' \in Struct \cup {NoStruct}
         /\ loop' \in LoopDesc /\ base' \in Command /\ cur' \in Command
         /\ ctr' \in [cluster : Nat, unit : Nat, inter : Nat]
         /\ generated' \in Nat
         /\ block' \in [size : Words, addr : Nat, busy : BOOLEAN]
         /\ InputFree' /\ LoopOwesCommands' /\ BlockInRange' /\ LooperInStep'
         /\ ~ block.busy => block' = block
  <1> DEFINE Pushed == block.busy /\ ~ busy'
             L == LoopOwesCommands'
  <1>1. /\ LooperTick /\ BlockTick /\ prog' = prog /\ given' = given
        /\ TypeOK /\ BlockInRange /\ LooperInStep
    BY DEF FrontEndTick, ControlInv
  <1>2. /\ issued' \in Nat /\ queue' \in [Clusters -> Seq(Command)]
        /\ state' \in {"IDLE", "WAIT_FOR_BASE", "LOOPING"} /\ busy' \in BOOLEAN
        /\ loop' \in LoopDesc /\ base' \in Command /\ cur' \in Command
        /\ ctr' \in [cluster : Nat, unit : Nat, inter : Nat]
        /\ generated' \in Nat
        /\ busy' <=> state' = "LOOPING"
        /\ L
    BY <1>1, LooperStep
  <1>3. /\ state' = "WAIT_FOR_BASE" =>
             \/ state = "WAIT_FOR_BASE" /\ input = NoStruct /\ loop' = loop
             \/ /\ state = "IDLE" /\ input # NoStruct
                /\ Fetched > 0 /\ prog[Fetched].dir = "loop"
                /\ loop' = prog[Fetched].loop
        /\ state' = "LOOPING" => InputAfterLooper = NoStruct
    BY <1>1, LooperStep
  <1>4. /\ prog \in Programs /\ Len(prog) \in Nat /\ given \in 0 .. Len(prog)
        /\ block \in [size : Words, addr : Nat, busy : BOOLEAN]
        /\ block.size \in Nat /\ block.addr \in Nat
        /\ input \in Struct \cup {NoStruct}
    BY <1>1, ProgramLength DEF TypeOK, Words
  \* The loop that waits after this cycle is the struct fetched last.
  <1>5. ASSUME state' = "WAIT_FOR_BASE"
        PROVE  /\ InputAfterLooper = NoStruct
               /\ Fetched > 0 /\ prog[Fetched].dir = "loop"
               /\ loop' = prog[Fetched].loop
    BY <1>1, <1>3, <1>5 DEF InputAfterLooper, LooperInStep
  <1>6. CASE Pushed
    <2> DEFINE left == block.size - 1
    <2>1. block.size > 0 /\ block.addr > 0 /\ block.addr + block.size = given + 1
      BY <1>1, <1>6 DEF BlockInRange
    <2>2. (block.size - 1) % WordMod = left
      BY <1>4, <2>1, NoWrap
    <2>3. /\ input' = prog[block.addr]
          /\ block' = [size |-> left, addr |-> block.addr + 1, busy |-> left > 0]
      BY <1>1, <1>6, <2>2 DEF BlockTick
    <2>4. left \in Words
      <3>1. block.size \in Words
        BY <1>4
      <3> QED BY <3>1, <2>1 DEF Words
    <2>5. block' \in [size : Words, addr : Nat, busy : BOOLEAN]
      BY <2>3, <2>4, <1>4
    <2>6. block.addr \in 1 .. Len(prog)
      BY <1>4, <2>1
    <2>7. input' \in Struct
      BY <2>3, <2>6, <1>4, ProgramStructs
    <2>8. InputFree'
      BY <1>2, <1>6 DEF InputFree
    <2>9. BlockInRange'
      <3>1. block'.size = left /\ block'.addr = block.addr + 1
            /\ (block'.busy <=> left > 0)
        BY <2>3
      <3> QED BY <3>1, <1>1, <1>4, <2>1 DEF BlockInRange
    <2>10. Fetched' = block.addr /\ Fetched = block.addr - 1
      <3>1. block'.size = left /\ (block'.busy <=> left > 0)
        BY <2>3
      <3> QED BY <3>1, <1>1, <1>4, <1>6, <2>1 DEF Fetched
    <2>11. LooperInStep'
      <3>1. Fetched' > 0 /\ input' = prog'[Fetched']
        BY <2>3, <2>10, <2>1, <1>1
      <3>2. ASSUME state' = "WAIT_FOR_BASE"
            PROVE  /\ Fetched' - 1 = Fetched
                   /\ Fetched > 0 /\ prog[Fetched].dir = "loop"
                   /\ loop' = prog[Fetched].loop
        BY <3>2, <1>5, <2>10, <1>4
      <3>3. input' # NoStruct
        BY <2>7 DEF Struct, NoStruct
      <3> QED BY <3>1, <3>2, <3>3, <1>1 DEF LooperInStep
    <2> QED BY <1>1, <1>2, <1>4, <1>6, <2>5, <2>7, <2>8, <2>9, <2>11
  <1>7. CASE ~ Pushed
    <2>1. input' = InputAfterLooper /\ block' = block
      BY <1>1, <1>7 DEF BlockTick
    <2>2. input' \in Struct \cup {NoStruct}
      BY <2>1, <1>4 DEF InputAfterLooper
    <2>3. InputFree'
      BY <2>1, <1>2, <1>3 DEF InputFree
    <2>4. BlockInRange'
      BY <2>1, <1>1 DEF BlockInRange
    <2>5. Fetched' = Fetched
      BY <2>1, <1>1 DEF Fetched
    <2>6. LooperInStep'
      <3>1. input' # NoStruct => Fetched' > 0 /\ input' = prog'[Fetched']
        BY <2>1, <2>5, <1>1 DEF InputAfterLooper, LooperInStep
      <3>2. state' = "WAIT_FOR_BASE" =>
              /\ input' = NoStruct /\ Fetched' > 0 /\ prog'[Fetched'].dir = "loop"
              /\ loop' = prog'[Fetched'].loop
        BY <2>1, <2>5, <1>1, <1>5
      <3> QED BY <3>1, <3>2 DEF LooperInStep
    <2> QED BY <1>1, <1>2, <1>4, <2>1, <2>2, <2>3, <2>4, <2>6
  <1> QED BY <1>6, <1>7

-----------------------------------------------------------------------------
(* Every step of the specification.                                        *)

\* The cycles, inside an access or outside.
LEMMA TickInv ==
  ASSUME ControlInv, RiscTick \/ OtherTick
  PROVE  ControlInv'
  <1>1. /\ FrontEndTick /\ TypeOK /\ BlockNotRetriggered /\ CallInStep
        /\ syncMask' = syncMask /\ pc' = pc /\ arg' = arg /\ regs' = regs
        /\ io' = io \/ (io > 0 /\ io' = io - 1)
    BY DEF RiscTick, OtherTick, program, ControlInv
  <1>2. /\ prog' \in Programs /\ given' \in 0 .. Len(prog') /\ issued' \in Nat
        /\ queue' \in [Clusters -> Seq(Command)]
        /\ state' \in {"IDLE", "WAIT_FOR_BASE", "LOOPING"} /\ busy' \in BOOLEAN
        /\ input' \in Struct \cup {NoStruct}
        /\ loop' \in LoopDesc /\ base' \in Command /\ cur' \in Command
        /\ ctr' \in [cluster : Nat, unit : Nat, inter : Nat]
        /\ generated' \in Nat
        /\ block' \in [size : Words, addr : Nat, busy : BOOLEAN]
    BY <1>1, FrontEndStep
  <1>3. /\ InputFree' /\ LoopOwesCommands' /\ BlockInRange' /\ LooperInStep'
        /\ ~ block.busy => block' = block
    BY <1>1, FrontEndStep
  <1>4. io' \in Nat
    BY <1>1 DEF TypeOK
  <1>5. TypeOK'
    BY <1>1, <1>2, <1>4 DEF TypeOK
  <1>6. BlockNotRetriggered'
    BY <1>1, <1>3 DEF BlockNotRetriggered
  <1>7. CallInStep'
    <2>1. prog' = prog /\ given' = given
      BY <1>1 DEF FrontEndTick
    <2>2. pc \in {"trig_poll", "trig_hi", "cmd_lo", "trig_lo"} => block' = block
      BY <1>1, <1>3 DEF BlockNotRetriggered
    <2> QED BY <1>1, <2>1, <2>2 DEF CallInStep
  <1> QED BY <1>3, <1>5, <1>6, <1>7 DEF ControlInv

\* The invariants that the looper and the block alone decide.
LEMMA HardwareUnchanged ==
  ASSUME ControlInv, UNCHANGED hardware
  PROVE  InputFree' /\ LoopOwesCommands' /\ BlockInRange' /\ LooperInStep'
  BY DEF hardware, looper, ControlInv, InputFree, LoopOwesCommands, AtLoopEnd, BlockInRange,
         LooperInStep, Fetched

\* The steps of the program.  None of them touches the looper; a block is
\* written only after a poll that saw it idle.
LEMMA ProgramInv ==
  ASSUME ControlInv, ProgramStep
  PROVE  ControlInv'
  <1> USE DEF GoTo
  <1>1. /\ TypeOK /\ InputFree /\ LoopOwesCommands /\ BlockNotRetriggered
        /\ BlockInRange /\ LooperInStep /\ CallInStep
    BY DEF ControlInv
  <1>2. /\ prog \in Programs /\ Len(prog) \in Nat /\ Len(prog) < WordMod
        /\ given \in 0 .. Len(prog) /\ IoCycles \in Nat
        /\ arg \in [n : Nat, mask : SUBSET Clusters]
        /\ block \in [size : Words, addr : Nat, busy : BOOLEAN]
        /\ queue \in [Clusters -> Seq(Command)]
        /\ syncMask \subseteq Clusters /\ regs \in Nat
    BY <1>1, ProgramLength DEF TypeOK
  \* A step that leaves the hardware alone.
  <1>h. ASSUME UNCHANGED hardware,
               syncMask' \subseteq Clusters, io' \in Nat, regs' \in Nat,
               pc' \in Polls \cup {"idle", "cmd_hi", "cmd_lo", "size", "trig_hi",
                                   "trig_lo", "mask", "sync", "reg"},
               arg' \in [n : Nat, mask : SUBSET Clusters],
               BlockNotRetriggered', CallInStep'
        PROVE  ControlInv'
    <2>1. TypeOK'
      BY <1>1, <1>h DEF TypeOK, hardware, looper
    <2> QED BY <1>1, <1>h, <2>1, HardwareUnchanged DEF ControlInv
  \* A write to the block extractor, found idle.
  <1>w. ASSUME UNCHANGED <<prog, issued, queue, looper, syncMask, arg, regs>>,
               io' \in Nat, given' \in 0 .. Len(prog),
               pc' \in {"idle", "cmd_lo", "trig_poll", "trig_lo"},
               block' \in [size : Words, addr : Nat, busy : BOOLEAN],
               BlockNotRetriggered', BlockInRange', CallInStep', Fetched' = Fetched
        PROVE  ControlInv'
    <2>1. TypeOK'
      <3>1. pc' \in Polls \cup {"idle", "cmd_hi", "cmd_lo", "size", "trig_hi",
                                "trig_lo", "mask", "sync", "reg"}
        BY <1>w DEF Polls
      <3>2. prog' = prog /\ given' \in 0 .. Len(prog')
        BY <1>w
      <3> QED BY <1>1, <1>w, <3>1, <3>2 DEF TypeOK, looper
    <2>2. InputFree' /\ LoopOwesCommands'
      BY <1>1, <1>w DEF looper, InputFree, LoopOwesCommands, AtLoopEnd
    <2>3. LooperInStep'
      BY <1>1, <1>w DEF looper, LooperInStep
    <2> QED BY <1>w, <2>1, <2>2, <2>3 DEF ControlInv
  <1>3. CASE CallShort
    <2>1. arg' = [arg EXCEPT !.n = 1]
      BY <1>3 DEF CallShort
    <2>2. arg' \in [n : Nat, mask : SUBSET Clusters] /\ arg'.n = 1
      BY <1>2, <2>1
    <2>3. /\ pc' = "cmd_poll" /\ io' \in Nat /\ UNCHANGED hardware
          /\ syncMask' = syncMask /\ regs' = regs /\ given < Len(prog)
      BY <1>2, <1>3 DEF CallShort
    <2>4. BlockNotRetriggered' /\ CallInStep'
      BY <1>2, <2>2, <2>3 DEF BlockNotRetriggered, CallInStep, hardware
    <2> QED BY <1>2, <2>2, <2>3, <2>4, <1>h DEF Polls
  <1>4. CASE CallBlock
    <2>1. PICK n \in 1 .. Len(prog) - given : arg' = [arg EXCEPT !.n = n]
      BY <1>4 DEF CallBlock
    <2>2. arg' \in [n : Nat, mask : SUBSET Clusters] /\ arg'.n = n /\ n \in Nat
      BY <1>2, <2>1
    <2>3. /\ pc' = "size_poll" /\ io' \in Nat /\ UNCHANGED hardware
          /\ syncMask' = syncMask /\ regs' = regs
      BY <1>2, <1>4 DEF CallBlock
    <2>4. BlockNotRetriggered' /\ CallInStep'
      BY <1>2, <2>1, <2>2, <2>3 DEF BlockNotRetriggered, CallInStep, hardware
    <2> QED BY <1>2, <2>2, <2>3, <2>4, <1>h DEF Polls
  <1>5. CASE CallWait
    <2>1. PICK m \in (SUBSET Clusters) \ {{}} : arg' = [arg EXCEPT !.mask = m]
      BY <1>5 DEF CallWait
    <2>2. arg' \in [n : Nat, mask : SUBSET Clusters]
      BY <1>2, <2>1
    <2>3. /\ pc' = "mask" /\ io' \in Nat /\ UNCHANGED hardware
          /\ syncMask' = syncMask /\ regs' = regs
      BY <1>2, <1>5 DEF CallWait
    <2>4. BlockNotRetriggered' /\ CallInStep'
      BY <2>3 DEF BlockNotRetriggered, CallInStep, Polls
    <2> QED BY <1>2, <2>2, <2>3, <2>4, <1>h
  <1>6. CASE CallRegister
    <2>1. /\ pc' = "reg" /\ io' \in Nat /\ UNCHANGED hardware
          /\ syncMask' = syncMask /\ regs' \in Nat /\ arg' = arg
      BY <1>2, <1>6 DEF CallRegister
    <2>2. BlockNotRetriggered' /\ CallInStep'
      BY <2>1 DEF BlockNotRetriggered, CallInStep, Polls
    <2> QED BY <1>2, <2>1, <2>2, <1>h
  <1>7. CASE PollFsm
    <2>1. /\ UNCHANGED hardware /\ syncMask' = syncMask /\ regs' = regs /\ arg' = arg
          /\ io' \in Nat /\ pc \in Polls
          /\ IF FsmBusy THEN pc' = pc ELSE pc' = AfterPoll(pc)
      BY <1>2, <1>7 DEF PollFsm
    <2>2. pc' \in {"cmd_poll", "size_poll", "trig_poll", "cmd_hi", "size", "trig_hi"}
      BY <2>1 DEF Polls, AfterPoll
    <2>3. BlockNotRetriggered'
      BY <1>1, <2>1 DEF BlockNotRetriggered, FsmBusy, hardware, Polls, AfterPoll
    <2>4. CallInStep'
      BY <1>1, <2>1 DEF CallInStep, hardware, Polls, AfterPoll
    <2> QED BY <1>2, <2>1, <2>2, <2>3, <2>4, <1>h DEF Polls
  <1>8. CASE WriteHigh
    <2> DEFINE size == IF pc = "cmd_hi" THEN 1 ELSE block.size
    <2>1. /\ UNCHANGED <<prog, given, issued, queue, looper, syncMask, arg, regs>>
          /\ pc \in {"cmd_hi", "trig_hi"} /\ io' \in Nat
          /\ pc' = (IF pc = "cmd_hi" THEN "cmd_lo" ELSE "trig_lo")
          /\ block' = [block EXCEPT !.addr = 0, !.size = size]
      BY <1>2, <1>8 DEF WriteHigh
    <2>2. ~ block.busy /\ arg.n > 0 /\ given + arg.n <= Len(prog) /\ size = arg.n
      BY <1>1, <2>1 DEF BlockNotRetriggered, CallInStep
    <2>3. size \in Words
      BY <1>2, <2>2 DEF Words
    <2>4. /\ block' \in [size : Words, addr : Nat, busy : BOOLEAN]
          /\ block'.busy = block.busy /\ block'.addr = 0 /\ block'.size = arg.n
      BY <1>2, <2>1, <2>2, <2>3
    <2>5. BlockNotRetriggered' /\ BlockInRange' /\ Fetched' = Fetched
      BY <2>1, <2>2, <2>4 DEF BlockNotRetriggered, BlockInRange, Fetched
    <2>6. CallInStep'
      BY <1>1, <2>1, <2>2, <2>4 DEF CallInStep, Polls
    <2> QED BY <1>2, <2>1, <2>4, <2>5, <2>6, <1>w
  <1>9. CASE WriteLow
    <2>1. /\ UNCHANGED <<prog, issued, queue, looper, syncMask, arg, regs>>
          /\ pc \in {"cmd_lo", "trig_lo"} /\ pc' = "idle" /\ io' \in Nat
          /\ given' = given + arg.n
          /\ block' = [block EXCEPT !.addr = @ + given + 1, !.busy = TRUE]
      BY <1>9 DEF WriteLow
    <2>2. /\ ~ block.busy /\ arg.n > 0 /\ given + arg.n <= Len(prog)
          /\ block.size = arg.n /\ block.addr = 0
      BY <1>1, <2>1 DEF BlockNotRetriggered, CallInStep
    <2>3. /\ block' \in [size : Words, addr : Nat, busy : BOOLEAN]
          /\ block'.busy /\ block'.addr = given + 1 /\ block'.size = arg.n
      <3>1. block.addr + given + 1 = given + 1 /\ given + 1 \in Nat
        BY <1>2, <2>2
      <3>2. block' = [block EXCEPT !.addr = given + 1, !.busy = TRUE]
        BY <2>1, <3>1
      <3> QED BY <1>2, <2>2, <3>1, <3>2
    <2>4. arg.n \in Nat /\ given' \in 0 .. Len(prog)
      BY <1>2, <2>1, <2>2
    <2>5. BlockNotRetriggered' /\ CallInStep'
      BY <2>1 DEF BlockNotRetriggered, CallInStep, Polls
    <2>6. BlockInRange' /\ Fetched' = Fetched
      BY <1>2, <2>1, <2>2, <2>3, <2>4 DEF BlockInRange, Fetched
    <2> QED BY <2>1, <2>3, <2>4, <2>5, <2>6, <1>w
  <1>10. CASE WriteSize
    <2>1. /\ UNCHANGED <<prog, given, issued, queue, looper, syncMask, arg, regs>>
          /\ pc = "size" /\ pc' = "trig_poll" /\ io' \in Nat
          /\ block' = [block EXCEPT !.size = arg.n]
      BY <1>2, <1>10 DEF WriteSize
    <2>2. ~ block.busy /\ arg.n > 0 /\ given + arg.n <= Len(prog)
      BY <1>1, <2>1 DEF BlockNotRetriggered, CallInStep
    <2>3. arg.n \in Words
      BY <1>2, <2>2 DEF Words
    <2>4. /\ block' \in [size : Words, addr : Nat, busy : BOOLEAN]
          /\ block'.busy = block.busy /\ block'.size = arg.n
      BY <1>2, <2>1, <2>3
    <2>5. /\ BlockNotRetriggered' /\ BlockInRange' /\ Fetched' = Fetched
      BY <2>1, <2>2, <2>4 DEF BlockNotRetriggered, BlockInRange, Fetched
    <2>6. CallInStep'
      BY <2>1, <2>2, <2>4 DEF CallInStep, Polls
    <2> QED BY <1>2, <2>1, <2>4, <2>5, <2>6, <1>w
  <1>11. CASE WriteMask
    <2>1. /\ UNCHANGED hardware /\ arg' = arg /\ regs' = regs /\ syncMask' = arg.mask
          /\ pc' = "sync" /\ io' \in Nat
      BY <1>2, <1>11 DEF WriteMask
    <2>2. syncMask' \subseteq Clusters
      BY <1>2, <2>1
    <2>3. BlockNotRetriggered' /\ CallInStep'
      BY <2>1 DEF BlockNotRetriggered, CallInStep, Polls
    <2> QED BY <1>2, <2>1, <2>2, <2>3, <1>h
  <1>12. CASE PollSync
    <2>1. /\ UNCHANGED hardware /\ arg' = arg /\ regs' = regs /\ syncMask' = syncMask
          /\ pc' \in {"sync", "idle"} /\ io' \in Nat
      BY <1>2, <1>12 DEF PollSync
    <2>2. BlockNotRetriggered' /\ CallInStep'
      BY <2>1 DEF BlockNotRetriggered, CallInStep, Polls
    <2> QED BY <1>2, <2>1, <2>2, <1>h
  <1>13. CASE SendRegister
    <2>1. PICK cmd \in RegisterCommands : SendTo(cmd)
      BY <1>13 DEF SendRegister
    <2>2. cmd \in Command
      BY ProgramAssumption
    <2>3. queue' \in [Clusters -> Seq(Command)]
      BY <1>2, <2>1, <2>2, SendToType
    <2>4. /\ UNCHANGED <<prog, given, issued, looper, block, syncMask, arg, regs>>
          /\ pc' = "idle" /\ io' = 0
      BY <1>13 DEF SendRegister
    <2>5. TypeOK'
      BY <1>1, <2>3, <2>4 DEF TypeOK, looper
    <2>6. InputFree' /\ LoopOwesCommands' /\ BlockInRange' /\ LooperInStep'
      BY <1>1, <2>4 DEF looper, InputFree, LoopOwesCommands, AtLoopEnd, BlockInRange,
                        LooperInStep, Fetched
    <2>7. BlockNotRetriggered' /\ CallInStep'
      BY <2>4 DEF BlockNotRetriggered, CallInStep, Polls
    <2> QED BY <2>5, <2>6, <2>7 DEF ControlInv
  <1> QED BY <1>3, <1>4, <1>5, <1>6, <1>7, <1>8, <1>9, <1>10, <1>11, <1>12, <1>13
          DEF ProgramStep

\* A DMA that finishes a command.
LEMMA FinishInv ==
  ASSUME ControlInv, NEW c \in Clusters, DmaFinish(c)
  PROVE  ControlInv'
  <1>1. /\ TypeOK /\ InputFree /\ LoopOwesCommands /\ BlockNotRetriggered
        /\ BlockInRange /\ LooperInStep /\ CallInStep
    BY DEF ControlInv
  <1>2. /\ queue \in [Clusters -> Seq(Command)] /\ queue[c] # <<>>
        /\ queue' = [queue EXCEPT ![c] = Tail(@)]
        /\ UNCHANGED <<prog, given, issued, looper, block, program>>
    BY <1>1 DEF DmaFinish, Finish, TypeOK
  <1>3. queue' \in [Clusters -> Seq(Command)]
    <2>1. Tail(queue[c]) \in Seq(Command)
      BY <1>2
    <2> QED BY <1>2, <2>1
  <1>4. TypeOK'
    BY <1>1, <1>2, <1>3 DEF TypeOK, looper, program
  <1>5. InputFree' /\ LoopOwesCommands' /\ BlockInRange' /\ LooperInStep'
    BY <1>1, <1>2 DEF looper, InputFree, LoopOwesCommands, AtLoopEnd, BlockInRange,
                      LooperInStep, Fetched
  <1>6. BlockNotRetriggered' /\ CallInStep'
    BY <1>1, <1>2 DEF program, BlockNotRetriggered, CallInStep
  <1> QED BY <1>4, <1>5, <1>6 DEF ControlInv

\* A stuttering step.
LEMMA StutterInv ==
  ASSUME ControlInv, UNCHANGED vars
  PROVE  ControlInv'
  BY DEF vars, looper, program, ControlInv, TypeOK, InputFree, LoopOwesCommands, AtLoopEnd,
         BlockNotRetriggered, BlockInRange, LooperInStep, Fetched, CallInStep

LEMMA NextControlInv == ControlInv /\ [Next]_vars => ControlInv'
  BY ProgramInv, TickInv, FinishInv, StutterInv DEF Next

-----------------------------------------------------------------------------
(* The commands of a loop.                                                 *)

\* A mask that is not shifted stays what it is.
LEMMA ShiftZero ==
  ASSUME NEW m \in Masks
  PROVE  ShiftMask(m, 0) = m
  <1>1. m \subseteq 0 .. MaskBits - 1
    BY DEF Masks
  <1>2. \A b \in 0 .. MaskBits - 1 : b - 0 = b
    OBVIOUS
  <1> QED BY <1>1, <1>2 DEF ShiftMask

\* Shifting step by step loses no other bits than shifting at once, since
\* all steps go the same way.
LEMMA ShiftMore ==
  ASSUME NEW m \in Masks, NEW n \in Nat, NEW s \in Int
  PROVE  ShiftMask(ShiftMask(m, n * s), s) = ShiftMask(m, (n + 1) * s)
  <1> DEFINE R == 0 .. MaskBits - 1
             d == n * s
  <1>1. d \in Int /\ (n + 1) * s = d + s /\ m \subseteq R
    BY DEF Masks
  <1>2. (s >= 0 => d >= 0) /\ (s <= 0 => d <= 0)
    OBVIOUS
  <1> HIDE DEF d
  <1>3. ASSUME NEW b \in R
        PROVE  (b - s \in {a \in R : a - d \in m}) <=> (b - (d + s) \in m)
    <2>1. (b - s) - d = b - (d + s)
      BY <1>1
    <2>2. b - (d + s) \in m => b - s \in R
      BY <1>1, <1>2
    <2> QED BY <2>1, <2>2
  <1>4. {b \in R : b - s \in {a \in R : a - d \in m}} = {b \in R : b - (d + s) \in m}
    BY <1>3
  <1> QED BY <1>1, <1>4 DEF ShiftMask, d

\* Increments of a register add up.
LEMMA AddMore ==
  ASSUME NEW a \in Int, NEW b \in Int, NEW c \in Int
  PROVE  AddWord(AddWord(a, b), c) = AddWord(a, b + c)
  <1> DEFINE x == a + b
  <1>1. x \in Int /\ x + c = a + (b + c)
    OBVIOUS
  <1> HIDE DEF x
  <1>2. ((x % WordMod) + c) % WordMod = (x + c) % WordMod
    BY <1>1, ModAdd
  <1> QED BY <1>1, <1>2 DEF AddWord, x

\* Adding nothing leaves a register as it is.
LEMMA AddZero ==
  ASSUME NEW a \in Words
  PROVE  AddWord(a, 0) = a
  BY DEF AddWord, Words

\* The place of a command in the nest of its loop.
Place(l, c, u, i) == (c * (l.unit_len + 1) + u) * (l.inter_len + 1) + i

\* Command k of a loop, at the place c, u, i of the nest.
CommandAt(l, b, k, c, u, i) ==
  [mm      |-> AddWord(b.mm, k * l.mm_incr),
   lm      |-> AddWord(b.lm, i * SignExtend(l.lm_incr)),
   unit    |-> ShiftMask(b.unit, u * l.unit_shift),
   cluster |-> ShiftMask(b.cluster, c * l.cluster_shift)]

\* The command at a place of the nest.
LEMMA CommandAtPlace ==
  ASSUME NEW l \in LoopDesc, NEW b \in Command,
         NEW c \in Nat, NEW u \in 0 .. l.unit_len, NEW i \in 0 .. l.inter_len
  PROVE  /\ Place(l, c, u, i) \in Nat
         /\ LoopCommand(l, b, Place(l, c, u, i)) = CommandAt(l, b, Place(l, c, u, i), c, u, i)
  <1> DEFINE U == l.unit_len + 1
             I == l.inter_len + 1
             h == c * U + u
             k == h * I + i
  <1>1. U \in Nat \ {0} /\ I \in Nat \ {0} /\ u \in 0 .. U - 1 /\ i \in 0 .. I - 1
    BY LoopLengths
  <1>2. Place(l, c, u, i) = k
    BY DEF Place
  <1> HIDE DEF U, I
  <1>3. h \in Nat /\ h \div U = c /\ h % U = u
    <2>1. c \in Int /\ c * U \in Nat
      BY <1>1
    <2> QED BY <1>1, <2>1, DivUnique
  <1> HIDE DEF h
  <1>4. k \in Nat /\ k \div I = h /\ k % I = i
    <2>1. h \in Int /\ h * I \in Nat
      BY <1>1, <1>3
    <2> QED BY <1>1, <2>1, DivUnique
  <1>5. k \div (I * U) = c
    <2> DEFINE r == u * I + i
    <2>1. c * (U * I) \in Nat /\ U * I = I * U /\ I * U \in Nat \ {0}
      BY <1>1
    <2>2. h * I = (c * U) * I + u * I /\ (c * U) * I = c * (I * U)
      BY <1>1 DEF h
    <2>3. r \in 0 .. I * U - 1
      <3>1. u * I <= (U - 1) * I /\ (U - 1) * I = I * U - I /\ u * I \in Nat
        BY <1>1
      <3> QED BY <1>1, <2>1, <3>1
    <2> DEFINE m == I * U
    <2>4. k = c * m + r /\ m \in Nat \ {0} /\ r \in 0 .. m - 1 /\ c \in Int
      BY <2>1, <2>2, <2>3, <1>1
    <2> HIDE DEF m, r, k
    <2>5. (c * m + r) \div m = c
      BY <2>4, DivUnique
    <2> QED BY <2>4, <2>5 DEF m
  <1> HIDE DEF k
  <1> QED BY <1>2, <1>3, <1>4, <1>5 DEF LoopCommand, CommandAt, U, I

\* The first command of a loop is its base.
LEMMA CommandFirst ==
  ASSUME NEW l \in LoopDesc, NEW b \in Command
  PROVE  LoopCommand(l, b, 0) = b
  <1>1. 0 \in Nat /\ 0 \in 0 .. l.unit_len /\ 0 \in 0 .. l.inter_len
    BY LoopLengths
  <1>2. Place(l, 0, 0, 0) = 0
    BY LoopLengths DEF Place
  <1>3. /\ l.mm_incr \in Int /\ l.lm_incr \in Int /\ l.unit_shift \in Int
        /\ l.cluster_shift \in Int
    BY DEF LoopDesc
  <1>4. /\ 0 * l.mm_incr = 0 /\ 0 * SignExtend(l.lm_incr) = 0
        /\ 0 * l.unit_shift = 0 /\ 0 * l.cluster_shift = 0
    BY <1>3, SignExtendType
  <1>5. LoopCommand(l, b, 0) =
          [mm |-> AddWord(b.mm, 0), lm |-> AddWord(b.lm, 0),
           unit |-> ShiftMask(b.unit, 0), cluster |-> ShiftMask(b.cluster, 0)]
    <2>1. LoopCommand(l, b, Place(l, 0, 0, 0)) = CommandAt(l, b, Place(l, 0, 0, 0), 0, 0, 0)
      BY <1>1, CommandAtPlace
    <2> QED BY <1>2, <1>4, <2>1 DEF CommandAt
  <1>6. b = [mm |-> b.mm, lm |-> b.lm, unit |-> b.unit, cluster |-> b.cluster]
        /\ b.mm \in Words /\ b.lm \in Words /\ b.unit \in Masks /\ b.cluster \in Masks
    BY DEF Command
  <1> QED BY <1>5, <1>6, AddZero, ShiftZero

\* The nest has as many places as LoopSize counts before the cut.
LEMMA PlaceBound ==
  ASSUME NEW l \in LoopDesc, NEW c \in 0 .. l.cluster_len, NEW u \in 0 .. l.unit_len,
         NEW i \in 0 .. l.inter_len
  PROVE  LET all == (l.cluster_len + 1) * (l.unit_len + 1) * (l.inter_len + 1)
         IN  /\ all \in Nat /\ Place(l, c, u, i) < all
             /\ c = l.cluster_len /\ u = l.unit_len /\ i = l.inter_len
                  => Place(l, c, u, i) + 1 = all
  <1> DEFINE C == l.cluster_len + 1
             U == l.unit_len + 1
             I == l.inter_len + 1
             h == c * U + u
  <1>1. /\ C \in Nat \ {0} /\ U \in Nat \ {0} /\ I \in Nat \ {0}
        /\ c \in 0 .. C - 1 /\ u \in 0 .. U - 1 /\ i \in 0 .. I - 1
    BY LoopLengths
  <1>2. Place(l, c, u, i) = h * I + i
    BY DEF Place
  <1>3. /\ (c = l.cluster_len => c = C - 1) /\ (u = l.unit_len => u = U - 1)
        /\ (i = l.inter_len => i = I - 1)
    BY LoopLengths
  <1> HIDE DEF C, U, I
  <1>4. C * U \in Nat /\ h \in Nat /\ h <= C * U - 1 /\ (c = C - 1 /\ u = U - 1 => h = C * U - 1)
    <2>1. c * U <= (C - 1) * U /\ (C - 1) * U = C * U - U /\ c * U \in Nat /\ C * U \in Nat
      BY <1>1
    <2> QED BY <1>1, <2>1
  <1> HIDE DEF h
  <1>5. h * I + i < C * U * I
    <2>1. h * I <= (C * U - 1) * I /\ (C * U - 1) * I = C * U * I - I /\ h * I \in Nat
          /\ C * U * I \in Nat
      BY <1>1, <1>4
    <2> QED BY <1>1, <2>1
  <1>6. ASSUME c = C - 1, u = U - 1, i = I - 1
        PROVE  h * I + i + 1 = C * U * I
    <2>1. h * I = (C * U - 1) * I /\ (C * U - 1) * I = C * U * I - I
      BY <1>1, <1>4, <1>6
    <2>2. C * U * I \in Nat
      BY <1>1, <1>4
    <2> QED BY <1>1, <1>6, <2>1, <2>2
  <1>7. C * U * I \in Nat
    BY <1>1, <1>4
  <1> QED BY <1>2, <1>3, <1>5, <1>6, <1>7 DEF C, U, I

\* An iteration goes to the next place of the nest, and stays inside.
LEMMA NextPlace ==
  ASSUME TypeOK, LoopOwesCommands, state = "LOOPING"
  PROVE  LET n == NextIteration.ctr
         IN  /\ n \in [cluster : 0 .. loop.cluster_len, unit : 0 .. loop.unit_len,
                       inter : 0 .. loop.inter_len]
             /\ Place(loop, n.cluster, n.unit, n.inter)
                  = Place(loop, ctr.cluster, ctr.unit, ctr.inter) + 1
  <1> DEFINE n == NextIteration.ctr
             U == loop.unit_len + 1
             I == loop.inter_len + 1
             c == ctr.cluster
             u == ctr.unit
             i == ctr.inter
  <1>1. /\ loop \in LoopDesc /\ ctr \in [cluster : Nat, unit : Nat, inter : Nat]
        /\ c \in Nat /\ u \in Nat /\ i \in Nat
        /\ loop.cluster_len \in Nat /\ loop.unit_len \in Nat /\ loop.inter_len \in Nat
    BY LoopLengths DEF TypeOK
  <1>2. c <= loop.cluster_len /\ u <= loop.unit_len /\ i <= loop.inter_len
        /\ ~ (c = loop.cluster_len /\ u = loop.unit_len /\ i = loop.inter_len)
    <2>1. ctr = [cluster |-> c, unit |-> u, inter |-> i]
      BY <1>1
    <2> QED BY <2>1 DEF LoopOwesCommands, AtLoopEnd
  <1>3. U \in Nat \ {0} /\ I \in Nat \ {0} /\ c * U + u \in Nat
    BY <1>1
  <1>4. CASE i < loop.inter_len
    <2>1. n = [ctr EXCEPT !.inter = @ + 1]
      BY <1>1, <1>2, <1>4 DEF NextIteration
    <2>2. n.cluster = c /\ n.unit = u /\ n.inter = i + 1
          /\ n = [cluster |-> c, unit |-> u, inter |-> i + 1]
      BY <1>1, <2>1
    <2>3. n \in [cluster : 0 .. loop.cluster_len, unit : 0 .. loop.unit_len,
                 inter : 0 .. loop.inter_len]
      BY <1>1, <1>2, <1>4, <2>2
    <2>4. Place(loop, c, u, i + 1) = Place(loop, c, u, i) + 1
      <3> DEFINE h == (c * U + u) * I
      <3>1. h \in Nat
        BY <1>3
      <3> HIDE DEF h
      <3>2. h + (i + 1) = h + i + 1
        BY <1>1, <3>1
      <3> QED BY <3>2 DEF Place, h
    <2> QED BY <2>2, <2>3, <2>4
  <1>5. CASE ~ (i < loop.inter_len) /\ u < loop.unit_len
    <2>1. n = [ctr EXCEPT !.unit = @ + 1, !.inter = 0]
      BY <1>1, <1>2, <1>5 DEF NextIteration
    <2>2. n.cluster = c /\ n.unit = u + 1 /\ n.inter = 0
          /\ n = [cluster |-> c, unit |-> u + 1, inter |-> 0]
      BY <1>1, <2>1
    <2>3. n \in [cluster : 0 .. loop.cluster_len, unit : 0 .. loop.unit_len,
                 inter : 0 .. loop.inter_len]
      BY <1>1, <1>2, <1>5, <2>2
    <2>4. Place(loop, c, u + 1, 0) = Place(loop, c, u, i) + 1
      <3> DEFINE h == c * U + u
      <3>1. i = I - 1 /\ c * U + (u + 1) = h + 1
        BY <1>1, <1>2, <1>3, <1>5
      <3> HIDE DEF h, I
      <3>2. (h + 1) * I + 0 = (h * I + i) + 1
        <4>1. (h + 1) * I = h * I + I /\ h * I \in Int
          BY <1>3 DEF h
        <4> QED BY <1>3, <3>1, <4>1
      <3> QED BY <3>1, <3>2 DEF Place, h, I
    <2> QED BY <2>2, <2>3, <2>4
  <1>6. CASE ~ (i < loop.inter_len) /\ ~ (u < loop.unit_len)
    <2>1. n = [cluster |-> ctr.cluster + 1, unit |-> 0, inter |-> 0]
      BY <1>1, <1>2, <1>6 DEF NextIteration
    <2>2. c < loop.cluster_len
      BY <1>1, <1>2, <1>6
    <2>3. n \in [cluster : 0 .. loop.cluster_len, unit : 0 .. loop.unit_len,
                 inter : 0 .. loop.inter_len]
      BY <1>1, <2>1, <2>2
    <2>4. Place(loop, c + 1, 0, 0) = Place(loop, c, u, i) + 1
      <3>1. i = I - 1 /\ u = U - 1 /\ c \in Int
        BY <1>1, <1>2, <1>6
      <3> HIDE DEF U, I
      <3>2. ((c + 1) * U + 0) * I + 0 = ((c * U + u) * I + i) + 1
        <4> DEFINE h == c * U
        <4>1. (c + 1) * U = h + U /\ h \in Int
          BY <1>1, <1>3
        <4> HIDE DEF h
        <4>2. (h + U + 0) * I = (h + u) * I + I /\ (h + u) * I \in Int
          <5>1. h + U + 0 = (h + u) + 1 /\ h + u \in Int
            BY <1>3, <3>1, <4>1
          <5> DEFINE g == h + u
          <5> HIDE DEF g
          <5>2. (g + 1) * I = g * I + I /\ g * I \in Int
            BY <1>3, <5>1 DEF g
          <5> QED BY <5>1, <5>2 DEF g
        <4> QED BY <1>3, <3>1, <4>1, <4>2 DEF h
      <3> QED BY <3>2 DEF Place, U, I
    <2> QED BY <2>1, <2>3, <2>4
  <1> QED BY <1>4, <1>5, <1>6

\* An iteration leaves in the registers the command of the next place.
LEMMA NextCommand ==
  ASSUME TypeOK, LoopOwesCommands, state = "LOOPING",
         NEW k, k = Place(loop, ctr.cluster, ctr.unit, ctr.inter),
         cur = LoopCommand(loop, base, k)
  PROVE  [NextIteration.cur EXCEPT !.mm = AddWord(@, loop.mm_incr)]
           = LoopCommand(loop, base, k + 1)
  <1> DEFINE n == NextIteration.ctr
             m == NextIteration.cur
             c == ctr.cluster
             u == ctr.unit
             i == ctr.inter
             e == SignExtend(loop.lm_incr)
  <1>1. /\ loop \in LoopDesc /\ base \in Command /\ cur \in Command
        /\ ctr \in [cluster : Nat, unit : Nat, inter : Nat]
        /\ c \in Nat /\ u \in Nat /\ i \in Nat
        /\ loop.cluster_len \in Nat /\ loop.unit_len \in Nat /\ loop.inter_len \in Nat
    BY LoopLengths DEF TypeOK
  <1>2. c <= loop.cluster_len /\ u <= loop.unit_len /\ i <= loop.inter_len
    BY DEF LoopOwesCommands
  <1>3. /\ loop.mm_incr \in Int /\ loop.unit_shift \in Int /\ loop.cluster_shift \in Int
        /\ loop.lm_incr \in Int
    BY <1>1 DEF LoopDesc
  <1>4. e \in Int
    BY <1>3, SignExtendType
  <1>5. /\ base.mm \in Words /\ base.lm \in Words /\ base.unit \in Masks
        /\ base.cluster \in Masks /\ base.mm \in Int /\ base.lm \in Int
    BY <1>1 DEF Command, Words
  <1>6. k \in Nat /\ cur = CommandAt(loop, base, k, c, u, i)
    <2>1. u \in 0 .. loop.unit_len /\ i \in 0 .. loop.inter_len
      BY <1>1, <1>2
    <2> HIDE DEF c, u, i
    <2>2. /\ Place(loop, c, u, i) \in Nat
          /\ LoopCommand(loop, base, Place(loop, c, u, i))
               = CommandAt(loop, base, Place(loop, c, u, i), c, u, i)
      BY <1>1, <2>1, CommandAtPlace
    <2> QED BY <2>2 DEF c, u, i
  <1>a. /\ cur.mm = AddWord(base.mm, k * loop.mm_incr) /\ cur.lm = AddWord(base.lm, i * e)
        /\ cur.unit = ShiftMask(base.unit, u * loop.unit_shift)
        /\ cur.cluster = ShiftMask(base.cluster, c * loop.cluster_shift)
        /\ cur = [mm |-> cur.mm, lm |-> cur.lm, unit |-> cur.unit, cluster |-> cur.cluster]
    BY <1>6 DEF CommandAt
  <1>7. /\ k + 1 = Place(loop, n.cluster, n.unit, n.inter)
        /\ n.cluster \in Nat /\ n.unit \in 0 .. loop.unit_len
        /\ n.inter \in 0 .. loop.inter_len
    BY <1>1, NextPlace
  <1> DEFINE x == CommandAt(loop, base, k + 1, n.cluster, n.unit, n.inter)
  <1>8. LoopCommand(loop, base, k + 1) = x
    <2> DEFINE nc == n.cluster
               nu == n.unit
               ni == n.inter
    <2>1. /\ nc \in Nat /\ nu \in 0 .. loop.unit_len /\ ni \in 0 .. loop.inter_len
          /\ k + 1 = Place(loop, nc, nu, ni)
      BY <1>7
    <2> HIDE DEF nc, nu, ni
    <2>2. LoopCommand(loop, base, Place(loop, nc, nu, ni))
            = CommandAt(loop, base, Place(loop, nc, nu, ni), nc, nu, ni)
      BY <1>1, <2>1, CommandAtPlace
    <2> QED BY <2>1, <2>2 DEF nc, nu, ni
  <1>b. /\ x.lm = AddWord(base.lm, n.inter * e)
        /\ x.unit = ShiftMask(base.unit, n.unit * loop.unit_shift)
        /\ x.cluster = ShiftMask(base.cluster, n.cluster * loop.cluster_shift)
        /\ x = [mm |-> AddWord(base.mm, (k + 1) * loop.mm_incr),
                lm |-> x.lm, unit |-> x.unit, cluster |-> x.cluster]
    BY DEF CommandAt
  <1> HIDE DEF x
  <1>9. AddWord(cur.mm, loop.mm_incr) = AddWord(base.mm, (k + 1) * loop.mm_incr)
    <2>1. k * loop.mm_incr \in Int /\ k * loop.mm_incr + loop.mm_incr = (k + 1) * loop.mm_incr
      <3> DEFINE j == loop.mm_incr
      <3>1. k \in Int /\ j \in Int
        BY <1>3, <1>6
      <3> HIDE DEF j
      <3>2. k * j \in Int /\ k * j + j = (k + 1) * j
        BY <3>1
      <3> QED BY <3>2 DEF j
    <2>2. AddWord(AddWord(base.mm, k * loop.mm_incr), loop.mm_incr)
            = AddWord(base.mm, k * loop.mm_incr + loop.mm_incr)
      <3> DEFINE d == k * loop.mm_incr
      <3>1. d \in Int
        BY <2>1
      <3> HIDE DEF d
      <3>2. AddWord(AddWord(base.mm, d), loop.mm_incr) = AddWord(base.mm, d + loop.mm_incr)
        BY <1>3, <1>5, <3>1, AddMore
      <3> QED BY <3>2 DEF d
    <2> QED BY <1>a, <2>1, <2>2
  \* What the iteration leaves of the other registers.
  <1>10. /\ m = [cur EXCEPT !.lm = x.lm, !.unit = x.unit, !.cluster = x.cluster]
    <2>1. CASE i < loop.inter_len
      <3>1. n = [ctr EXCEPT !.inter = @ + 1] /\ m = [cur EXCEPT !.lm = AddWord(@, e)]
        BY <1>1, <1>2, <2>1 DEF NextIteration
      <3>2. n.cluster = c /\ n.unit = u /\ n.inter = i + 1
        BY <1>1, <3>1
      <3>3. i * e \in Int /\ i * e + e = (i + 1) * e
        BY <1>1, <1>4
      <3>4. AddWord(cur.lm, e) = AddWord(base.lm, (i + 1) * e)
        <4>1. AddWord(AddWord(base.lm, i * e), e) = AddWord(base.lm, i * e + e)
          BY <1>4, <1>5, <3>3, AddMore
        <4> QED BY <1>a, <3>3, <4>1
      <3> HIDE DEF n, m, e
      <3> QED BY <1>a, <1>b, <3>1, <3>2, <3>4
    <2>2. CASE ~ (i < loop.inter_len) /\ u < loop.unit_len
      <3>1. /\ n = [ctr EXCEPT !.unit = @ + 1, !.inter = 0]
            /\ m = [cur EXCEPT !.lm = base.lm, !.unit = ShiftMask(@, loop.unit_shift)]
        BY <1>1, <1>2, <2>2 DEF NextIteration
      <3>2. n.cluster = c /\ n.unit = u + 1 /\ n.inter = 0
        BY <1>1, <3>1
      <3>3. AddWord(base.lm, 0 * e) = base.lm
        <4>1. 0 * e = 0
          BY <1>4
        <4> QED BY <1>5, <4>1, AddZero
      <3>4. ShiftMask(cur.unit, loop.unit_shift) = ShiftMask(base.unit, (u + 1) * loop.unit_shift)
        BY <1>1, <1>3, <1>5, <1>a, ShiftMore
      <3> HIDE DEF n, m, e
      <3> QED BY <1>a, <1>b, <3>1, <3>2, <3>3, <3>4
    <2>3. CASE ~ (i < loop.inter_len) /\ ~ (u < loop.unit_len)
      <3>1. /\ n = [cluster |-> c + 1, unit |-> 0, inter |-> 0]
            /\ m = [cur EXCEPT !.lm = base.lm, !.unit = base.unit,
                               !.cluster = ShiftMask(@, loop.cluster_shift)]
        BY <1>1, <1>2, <2>3 DEF NextIteration
      <3>2. n.cluster = c + 1 /\ n.unit = 0 /\ n.inter = 0
        BY <3>1
      <3>3. AddWord(base.lm, 0 * e) = base.lm
        <4>1. 0 * e = 0
          BY <1>4
        <4> QED BY <1>5, <4>1, AddZero
      <3>4. ShiftMask(cur.cluster, loop.cluster_shift)
              = ShiftMask(base.cluster, (c + 1) * loop.cluster_shift)
        BY <1>1, <1>3, <1>5, <1>a, ShiftMore
      <3>5. ShiftMask(base.unit, 0 * loop.unit_shift) = base.unit
        <4>1. 0 * loop.unit_shift = 0
          BY <1>3
        <4> QED BY <1>5, <4>1, ShiftZero
      <3> HIDE DEF n, m, e
      <3> QED BY <1>a, <1>b, <3>1, <3>2, <3>3, <3>4, <3>5
    <2> QED BY <2>1, <2>2, <2>3
  <1> HIDE DEF m, n, e, c, u, i
  <1>11. m = [mm |-> cur.mm, lm |-> x.lm, unit |-> x.unit, cluster |-> x.cluster]
    BY <1>10, <1>a
  <1>12. [m EXCEPT !.mm = AddWord(@, loop.mm_incr)]
           = [mm |-> AddWord(cur.mm, loop.mm_incr), lm |-> x.lm, unit |-> x.unit,
              cluster |-> x.cluster]
    BY <1>11
  <1> QED BY <1>b, <1>8, <1>9, <1>12 DEF m

-----------------------------------------------------------------------------
(* The stream of commands of a program.                                    *)

\* A loop stands for LoopSize commands.
LEMMA LoopCommandsType ==
  ASSUME NEW l \in LoopDesc, NEW b \in Command
  PROVE  /\ LoopCommands(l, b) \in Seq(Command)
         /\ LoopSize(l) \in Nat /\ Len(LoopCommands(l, b)) = LoopSize(l)
         /\ \A k \in 1 .. LoopSize(l) : LoopCommands(l, b)[k] = LoopCommand(l, b, k - 1)
  <1>1. /\ l.cluster_len \in Nat /\ l.unit_len \in Nat /\ l.inter_len \in Nat
        /\ l.count \in Nat /\ l.mm_incr \in Int /\ l.lm_incr \in Int
    BY LoopLengths DEF LoopDesc
  <1>2. LoopSize(l) \in Nat
    <2>1. (l.cluster_len + 1) * (l.unit_len + 1) * (l.inter_len + 1) \in Nat
      BY <1>1
    <2> QED BY <1>1, <2>1 DEF LoopSize
  <1>3. ASSUME NEW k \in Nat PROVE LoopCommand(l, b, k) \in Command
    <2>1. b.mm \in Int /\ b.lm \in Int
      BY DEF Command, Words
    <2>2. k * l.mm_incr \in Int
      BY <1>1
    <2>3. AddWord(b.mm, k * l.mm_incr) \in Words
      BY <2>1, <2>2, AddWordType
    <2> DEFINE i == k % (l.inter_len + 1)
               e == SignExtend(l.lm_incr)
    <2>4. i \in Int /\ e \in Int
      <3>1. l.inter_len + 1 \in Nat \ {0} /\ k \in Int
        BY <1>1
      <3> QED BY <1>1, <3>1, DivMod, SignExtendType
    <2>5. AddWord(b.lm, i * e) \in Words
      <3> HIDE DEF i, e
      <3>1. i * e \in Int
        BY <2>4
      <3> QED BY <2>1, <3>1, AddWordType
    <2> QED BY <2>3, <2>5, ShiftMaskType DEF LoopCommand, Command
  <1>4. \A k \in 1 .. LoopSize(l) : k - 1 \in Nat
    BY <1>2
  <1>5. LoopCommands(l, b) \in [1 .. LoopSize(l) -> Command]
    BY <1>3, <1>4 DEF LoopCommands
  <1>6. LoopCommands(l, b) \in Seq(Command) /\ Len(LoopCommands(l, b)) = LoopSize(l)
    BY <1>2, <1>5
  <1> QED BY <1>2, <1>6 DEF LoopCommands

\* Every struct of a program adds commands.
LEMMA ExpansionType ==
  ASSUME NEW p \in Programs, NEW n \in 1 .. Len(p)
  PROVE  Expansion(p, n) \in Seq(Command)
  <1>1. p \in Seq(Struct) /\ Len(p) \in Nat
    BY ProgramAssumption
  <1>2. CASE p[n].dir = "loop"
    BY <1>2 DEF Expansion
  <1>3. ASSUME p[n].dir # "loop" PROVE p[n].cmd \in Command
    BY <1>1, <1>3, StructKinds
  <1>4. CASE p[n].dir # "loop" /\ n > 1 /\ p[n - 1].dir = "loop"
    <2>1. n - 1 \in 1 .. Len(p)
      BY <1>1, <1>4
    <2>2. p[n - 1].loop \in LoopDesc
      BY <1>1, <1>4, <2>1, StructKinds
    <2>3. LoopCommands(p[n - 1].loop, p[n].cmd) \in Seq(Command)
      BY <1>3, <1>4, <2>2, LoopCommandsType
    <2> QED BY <1>4, <2>3 DEF Expansion
  <1>5. CASE p[n].dir # "loop" /\ ~ (n > 1 /\ p[n - 1].dir = "loop")
    <2>1. <<p[n].cmd>> \in Seq(Command)
      BY <1>3, <1>5
    <2> QED BY <1>5, <2>1 DEF Expansion
  <1> QED BY <1>2, <1>4, <1>5

\* What each of the first n structs adds.
Parts(p, n) == [i \in 1 .. n |-> Expansion(p, i)]

\* The stream of a prefix is made of the parts of its structs.
LEMMA StreamParts ==
  ASSUME NEW p \in Programs, NEW n \in 0 .. Len(p)
  PROVE  /\ Parts(p, n) \in Seq(Seq(Command)) /\ Len(Parts(p, n)) = n
         /\ Stream(SubSeq(p, 1, n)) = FlattenSeq(Parts(p, n))
  <1>1. p \in Seq(Struct) /\ Len(p) \in Nat
    BY ProgramAssumption
  <1>2. Parts(p, n) \in [1 .. n -> Seq(Command)]
    <2>1. \A i \in 1 .. n : Expansion(p, i) \in Seq(Command)
      BY <1>1, ExpansionType
    <2> DEFINE D == Seq(Command)
    <2> HIDE DEF D
    <2> QED BY <2>1 DEF Parts, D
  <1>3. Parts(p, n) \in Seq(Seq(Command)) /\ Len(Parts(p, n)) = n
    <2> DEFINE D == Seq(Command)
    <2>1. Parts(p, n) \in [1 .. n -> D] /\ n \in Nat
      BY <1>1, <1>2
    <2> HIDE DEF D
    <2>2. Parts(p, n) \in Seq(D) /\ Len(Parts(p, n)) = n
      BY <2>1
    <2> QED BY <2>2 DEF D
  <1> DEFINE q == SubSeq(p, 1, n)
  <1>4. Len(q) = n /\ \A i \in 1 .. n : q[i] = p[i]
    BY <1>1
  <1>5. ASSUME NEW i \in 1 .. n PROVE Expansion(q, i) = Expansion(p, i)
    <2>1. i > 1 => i - 1 \in 1 .. n
      OBVIOUS
    <2> HIDE DEF q
    <2> QED BY <1>4, <2>1 DEF Expansion
  <1>6. [i \in 1 .. Len(q) |-> Expansion(q, i)] = Parts(p, n)
    <2> HIDE DEF q
    <2> QED BY <1>4, <1>5 DEF Parts
  <1> QED BY <1>3, <1>6 DEF Stream

\* The stream of a prefix of a program is a sequence of commands.
LEMMA StreamType ==
  ASSUME NEW p \in Programs, NEW n \in 0 .. Len(p)
  PROVE  Stream(SubSeq(p, 1, n)) \in Seq(Command)
  BY StreamParts, FlattenType

\* No struct, no command.
LEMMA StreamEmpty ==
  ASSUME NEW p \in Programs
  PROVE  Len(Stream(SubSeq(p, 1, 0))) = 0
  <1>1. Len(p) \in Nat /\ 0 \in 0 .. Len(p)
    BY ProgramAssumption
  <1>2. /\ Parts(p, 0) \in Seq(Seq(Command)) /\ Len(Parts(p, 0)) = 0
        /\ Stream(SubSeq(p, 1, 0)) = FlattenSeq(Parts(p, 0))
    BY <1>1, StreamParts
  <1>3. Parts(p, 0) = <<>>
    BY <1>2
  <1>4. FlattenSeq(Parts(p, 0)) = <<>>
    BY <1>2, <1>3, FlattenIsLast, Zenon
  <1> QED BY <1>2, <1>4

\* A further struct adds its commands behind the others.
LEMMA StreamNext ==
  ASSUME NEW p \in Programs, NEW n \in 1 .. Len(p)
  PROVE  LET s == Stream(SubSeq(p, 1, n - 1))
             t == Stream(SubSeq(p, 1, n))
             e == Expansion(p, n)
         IN  /\ Len(t) = Len(s) + Len(e)
             /\ \A k \in 1 .. Len(s) : t[k] = s[k]
             /\ \A k \in 1 .. Len(e) : t[Len(s) + k] = e[k]
  <1> DEFINE s == Stream(SubSeq(p, 1, n - 1))
             t == Stream(SubSeq(p, 1, n))
             e == Expansion(p, n)
             m == n - 1
  <1>1. Len(p) \in Nat /\ m \in Nat /\ m \in 0 .. Len(p) /\ n \in 0 .. Len(p) /\ n = m + 1
    BY ProgramAssumption
  <1>2. s \in Seq(Command) /\ t \in Seq(Command) /\ e \in Seq(Command)
    BY <1>1, StreamType, ExpansionType
  <1>3. t = s \o e
    <2> DEFINE a == Parts(p, m)
               b == Parts(p, m + 1)
    <2>1. /\ a \in Seq(Seq(Command)) /\ Len(a) = m /\ s = FlattenSeq(a)
          /\ b \in Seq(Seq(Command)) /\ Len(b) = m + 1 /\ t = FlattenSeq(b)
      BY <1>1, StreamParts
    <2>2. (\A i \in 1 .. m : a[i] = b[i]) /\ b[m + 1] = e
      BY <1>1 DEF Parts
    <2> HIDE DEF a, b, s, t, e, m
    <2>3. FlattenSeq(b) = FlattenSeq(a) \o b[m + 1]
      BY <1>1, <2>1, <2>2, FlattenNext
    <2> QED BY <2>1, <2>2, <2>3
  <1> HIDE DEF s, t, e
  <1>4. /\ Len(t) = Len(s) + Len(e)
        /\ \A k \in 1 .. Len(s) : t[k] = s[k]
        /\ \A k \in 1 .. Len(e) : t[Len(s) + k] = e[k]
    BY <1>2, <1>3
  <1> QED BY <1>4 DEF s, t, e

\* What further structs add comes behind the commands of a prefix.
LEMMA StreamPrefix ==
  ASSUME NEW p \in Programs, NEW n \in 0 .. Len(p), NEW m \in 0 .. n
  PROVE  LET s == Stream(SubSeq(p, 1, m))
             t == Stream(SubSeq(p, 1, n))
         IN  Len(s) <= Len(t) /\ \A k \in 1 .. Len(s) : t[k] = s[k]
  <1> DEFINE S(i) == Stream(SubSeq(p, 1, i))
             Q == {i \in Nat : m + i <= n =>
                     Len(S(m)) <= Len(S(m + i)) /\ \A k \in 1 .. Len(S(m)) : S(m + i)[k] = S(m)[k]}
  <1>0. Len(p) \in Nat /\ m \in Nat /\ n \in Nat /\ n <= Len(p)
    BY ProgramAssumption
  <1>1. ASSUME NEW i \in 0 .. n PROVE S(i) \in Seq(Command) /\ Len(S(i)) \in Nat
    <2>1. i \in 0 .. Len(p)
      BY <1>0
    <2> QED BY <2>1, StreamType
  <1>2. ASSUME NEW i \in 1 .. n
        PROVE  /\ Len(S(i)) = Len(S(i - 1)) + Len(Expansion(p, i))
               /\ \A k \in 1 .. Len(S(i - 1)) : S(i)[k] = S(i - 1)[k]
               /\ Len(Expansion(p, i)) \in Nat
    <2>1. i \in 1 .. Len(p)
      BY <1>0
    <2> QED BY <2>1, StreamNext, ExpansionType
  <1> HIDE DEF S
  <1>3. 0 \in Q
    <2>1. m + 0 = m /\ m \in 0 .. n
      BY <1>0
    <2> QED BY <1>1, <2>1
  <1>4. ASSUME NEW i \in Nat, i \in Q PROVE i + 1 \in Q
    <2> SUFFICES ASSUME m + (i + 1) <= n
                 PROVE  /\ Len(S(m)) <= Len(S(m + (i + 1)))
                        /\ \A k \in 1 .. Len(S(m)) : S(m + (i + 1))[k] = S(m)[k]
      OBVIOUS
    <2> DEFINE j == m + (i + 1)
    <2>1. j \in 1 .. n /\ j - 1 = m + i /\ m + i \in 0 .. n /\ m + i <= n
      BY <1>0
    <2>2. Len(S(m)) <= Len(S(j - 1)) /\ \A k \in 1 .. Len(S(m)) : S(j - 1)[k] = S(m)[k]
      BY <1>4, <2>1
    <2>3. /\ Len(S(j)) = Len(S(j - 1)) + Len(Expansion(p, j))
          /\ \A k \in 1 .. Len(S(j - 1)) : S(j)[k] = S(j - 1)[k]
          /\ Len(Expansion(p, j)) \in Nat
      BY <1>2, <2>1
    <2>4. Len(S(m)) \in Nat /\ Len(S(j - 1)) \in Nat
      BY <1>0, <1>1, <2>1
    <2> HIDE DEF j
    <2>5. Len(S(m)) <= Len(S(j)) /\ \A k \in 1 .. Len(S(m)) : S(j)[k] = S(m)[k]
      BY <2>2, <2>3, <2>4
    <2> QED BY <2>5 DEF j
  <1> HIDE DEF Q
  <1>5. Nat \subseteq Q
    BY <1>3, <1>4, AllNumbers
  <1>6. n - m \in Q /\ m + (n - m) = n
    BY <1>0, <1>5
  <1>7. Len(S(m)) <= Len(S(n)) /\ \A k \in 1 .. Len(S(m)) : S(n)[k] = S(m)[k]
    BY <1>0, <1>6 DEF Q
  <1> QED BY <1>7 DEF S

-----------------------------------------------------------------------------
(* One cycle and the stream.                                               *)

\* The extractor never fetches more than was given.
LEMMA FetchedType ==
  ASSUME ControlInv
  PROVE  /\ Fetched \in 0 .. given /\ given \in 0 .. Len(prog) /\ Len(prog) \in Nat
         /\ prog \in Programs /\ Taken \in 0 .. Len(prog)
         /\ input # NoStruct =>
              /\ Fetched > 0 /\ Taken = Fetched - 1 /\ Taken + 1 \in 1 .. Len(prog)
              /\ input = prog[Taken + 1]
  <1>1. /\ prog \in Programs /\ Len(prog) \in Nat /\ given \in 0 .. Len(prog)
        /\ block.size \in Nat /\ block.addr \in Nat
    BY ProgramLength DEF ControlInv, TypeOK, Words
  <1>2. Fetched \in 0 .. given
    BY <1>1 DEF ControlInv, BlockInRange, Fetched
  <1>3. input # NoStruct => Fetched > 0 /\ input = prog[Fetched]
    BY DEF ControlInv, LooperInStep
  <1> QED BY <1>1, <1>2, <1>3 DEF Taken

\* In a cycle the looper takes the struct in its input register, if there
\* is one; the extractor may push the next into it.
LEMMA TickTakes ==
  ASSUME ControlInv, FrontEndTick
  PROVE  /\ prog' = prog /\ given' = given /\ Taken' = Fetched
         /\ input = NoStruct => Taken = Fetched
  <1>1. BlockTick /\ prog' = prog /\ given' = given /\ LooperTick
    BY DEF FrontEndTick
  <1>2. Fetched \in 0 .. given /\ given \in Nat
    BY FetchedType
  <1>3. state = "LOOPING" => input = NoStruct
    BY DEF ControlInv, InputFree
  <1>4. InputAfterLooper = NoStruct
    BY <1>3 DEF InputAfterLooper
  <1>5. CASE block.busy /\ ~ busy'
    <2>1. /\ block.size > 0 /\ block.size \in Words /\ block.addr > 0
          /\ block.addr + block.size = given + 1 /\ block.addr \in Nat
      BY <1>5 DEF ControlInv, BlockInRange, TypeOK
    <2>2. (block.size - 1) % WordMod = block.size - 1 /\ block.size \in Nat
      BY <2>1, NoWrap DEF Words
    <2>3. /\ input' = prog[block.addr]
          /\ block' = [size |-> block.size - 1, addr |-> block.addr + 1,
                       busy |-> block.size - 1 > 0]
      BY <1>1, <1>5, <2>2 DEF BlockTick
    <2>4. input' # NoStruct
      <3>1. given \in 0 .. Len(prog) /\ Len(prog) \in Nat /\ prog \in Programs
        BY FetchedType
      <3> DEFINE a == block.addr
                 z == block.size
      <3>a. a \in Nat /\ z \in Nat /\ a > 0 /\ z > 0 /\ a + z = given + 1
        BY <2>1, <2>2
      <3> HIDE DEF a, z
      <3>2. a \in 1 .. Len(prog)
        BY <3>1, <3>a
      <3>3. input' \in Struct
        BY <2>3, <3>1, <3>2, ProgramStructs DEF a
      <3> QED BY <3>3 DEF Struct, NoStruct
    <2>5. Fetched' = block.addr /\ Fetched = block.addr - 1
      <3>1. block'.size = block.size - 1 /\ (block'.busy <=> block.size - 1 > 0)
        BY <2>3
      <3> QED BY <3>1, <1>1, <1>2, <1>5, <2>1, <2>2 DEF Fetched
    <2> QED BY <1>1, <2>1, <2>4, <2>5 DEF Taken
  <1>6. CASE ~ (block.busy /\ ~ busy')
    <2>1. input' = NoStruct /\ block' = block
      BY <1>1, <1>4, <1>6 DEF BlockTick
    <2>2. Fetched' = Fetched
      BY <1>1, <2>1 DEF Fetched
    <2> QED BY <1>1, <2>1, <2>2 DEF Taken
  <1> QED BY <1>5, <1>6

\* A cycle issues nothing, or the next command of the structs fetched.
IssuesNext ==
  \/ UNCHANGED <<queue, issued>>
  \/ /\ issued < Issues(Fetched) /\ issued' = issued + 1
     /\ SendTo(Stream(SubSeq(prog, 1, Fetched))[issued + 1])

\* An iteration issues the next command of its loop.
LEMMA LoopIterationStream ==
  ASSUME IInv, FrontEndTick, LoopIteration
  PROVE  StreamInStep' /\ IssuesNext
  <1> DEFINE T == Taken
             k == generated - 1
  <1>1. /\ TypeOK /\ LoopOwesCommands /\ ControlInv /\ state = "LOOPING" /\ input = NoStruct
        /\ StreamInStep
    BY DEF IInv, ControlInv, InputFree, LoopIteration
  <1>2. /\ prog' = prog /\ T' = T /\ T = Fetched /\ T \in 0 .. Len(prog) /\ prog \in Programs
        /\ Len(prog) \in Nat
    BY <1>1, TickTakes, FetchedType
  <1>3. /\ T > 1 /\ prog[T - 1].dir = "loop" /\ loop = prog[T - 1].loop
        /\ prog[T].dir = "dma" /\ base = prog[T].cmd
        /\ issued = Issues(T - 1) + generated
        /\ k = Place(loop, ctr.cluster, ctr.unit, ctr.inter)
        /\ cur = LoopCommand(loop, base, k)
    BY <1>1 DEF StreamInStep, Place
  <1>4. /\ loop \in LoopDesc /\ base \in Command /\ generated \in Nat /\ loop.count \in Nat
        /\ generated \in 1 .. loop.count - 1 /\ ctr.cluster <= loop.cluster_len
        /\ ctr \in [cluster : Nat, unit : Nat, inter : Nat]
        /\ loop.cluster_len \in Nat
    BY <1>1, LoopLengths DEF TypeOK, LoopOwesCommands
  <1> DEFINE n == NextIteration.ctr
             m == NextIteration.cur
  <1>5. /\ ctr' = n /\ generated' = generated + 1
        /\ cur' = [m EXCEPT !.mm = AddWord(@, loop.mm_incr)]
        /\ IF AtLoopEnd(ctr', generated') THEN state' = "IDLE" ELSE state' = state
        /\ SendTo(cur') /\ issued' = issued + 1
        /\ loop' = loop /\ base' = base
    <2>1. ~ FsmError
      BY <1>4 DEF FsmError
    <2> QED BY <2>1 DEF LoopIteration, Emit
  <1>6. cur' = LoopCommand(loop, base, generated)
    <2>1. k + 1 = generated
      BY <1>4
    <2> HIDE DEF k
    <2>2. [m EXCEPT !.mm = AddWord(@, loop.mm_incr)] = LoopCommand(loop, base, k + 1)
      BY <1>1, <1>3, NextCommand
    <2> QED BY <1>5, <2>1, <2>2
  <1>7. /\ n \in [cluster : 0 .. loop.cluster_len, unit : 0 .. loop.unit_len,
                  inter : 0 .. loop.inter_len]
        /\ generated = Place(loop, n.cluster, n.unit, n.inter)
    <2>1. Place(loop, n.cluster, n.unit, n.inter) = k + 1
      BY <1>1, <1>3, NextPlace
    <2> QED BY <1>1, <1>4, <2>1, NextPlace
  \* The loop's share of the stream.
  <1> DEFINE s == Stream(SubSeq(prog, 1, T - 1))
             t == Stream(SubSeq(prog, 1, T))
             e == LoopCommands(loop, base)
  <1>8. /\ s \in Seq(Command) /\ t \in Seq(Command) /\ Len(s) \in Nat
        /\ Len(e) = LoopSize(loop) /\ LoopSize(loop) \in Nat
        /\ \A j \in 1 .. LoopSize(loop) : e[j] = LoopCommand(loop, base, j - 1)
        /\ Len(t) = Len(s) + Len(e)
        /\ \A j \in 1 .. Len(e) : t[Len(s) + j] = e[j]
    <2>1. T \in 1 .. Len(prog) /\ T - 1 \in 0 .. Len(prog)
      BY <1>2, <1>3
    <2>2. Expansion(prog, T) = e
      BY <1>3 DEF Expansion
    <2>3. s \in Seq(Command) /\ t \in Seq(Command)
      BY <1>2, <2>1, StreamType
    <2>4. /\ Len(t) = Len(s) + Len(e)
          /\ \A j \in 1 .. Len(e) : t[Len(s) + j] = e[j]
      BY <1>2, <2>1, <2>2, StreamNext
    <2>5. Len(s) \in Nat
      BY <2>3
    <2>6. /\ Len(e) = LoopSize(loop) /\ LoopSize(loop) \in Nat
          /\ \A j \in 1 .. LoopSize(loop) : e[j] = LoopCommand(loop, base, j - 1)
      BY <1>4, LoopCommandsType
    <2> HIDE DEF s, t, e
    <2> QED BY <2>3, <2>4, <2>5, <2>6
  <1>9. /\ generated + 1 <= LoopSize(loop)
        /\ AtLoopEnd(ctr', generated') => generated + 1 = LoopSize(loop)
    <2> DEFINE all == (loop.cluster_len + 1) * (loop.unit_len + 1) * (loop.inter_len + 1)
               c == n.cluster
               u == n.unit
               i == n.inter
    <2>1. c \in 0 .. loop.cluster_len /\ u \in 0 .. loop.unit_len /\ i \in 0 .. loop.inter_len
      BY <1>7
    <2>2. /\ all \in Nat /\ generated < all
          /\ c = loop.cluster_len /\ u = loop.unit_len /\ i = loop.inter_len
               => generated + 1 = all
      <3> HIDE DEF c, u, i
      <3> QED BY <1>4, <1>7, <2>1, PlaceBound DEF c, u, i
    <2>3. LoopSize(loop) = IF loop.count < all THEN loop.count ELSE all
      BY DEF LoopSize
    <2>4. AtLoopEnd(ctr', generated') =>
            \/ generated + 1 = loop.count
            \/ c = loop.cluster_len /\ u = loop.unit_len /\ i = loop.inter_len
      BY <1>5 DEF AtLoopEnd
    <2> HIDE DEF all, c, u, i
    <2> QED BY <1>4, <2>2, <2>3, <2>4
  <1>10. Issues(T) = Len(t) /\ Issues(T - 1) = Len(s) /\ issued = Len(s) + generated
    BY <1>3 DEF Issues
  <1>11. t[issued + 1] = cur'
    <2> HIDE DEF s, t, e
    <2>1. generated + 1 \in 1 .. Len(e) /\ (generated + 1) - 1 = generated
      BY <1>4, <1>8, <1>9
    <2>2. t[Len(s) + (generated + 1)] = LoopCommand(loop, base, generated)
      BY <1>8, <2>1
    <2>3. issued + 1 = Len(s) + (generated + 1)
      BY <1>4, <1>8, <1>10
    <2> QED BY <1>6, <2>2, <2>3
  <1>12. issued < Issues(T) /\ (AtLoopEnd(ctr', generated') => issued + 1 = Issues(T))
    <2> HIDE DEF s, t, e
    <2> QED BY <1>4, <1>8, <1>9, <1>10
  <1>13. IssuesNext
    BY <1>2, <1>5, <1>11, <1>12 DEF IssuesNext
  <1>14. Issues(Taken)' = Issues(T) /\ Issues(Taken - 1)' = Issues(T - 1)
    BY <1>2 DEF Issues
  <1>15. CASE AtLoopEnd(ctr', generated')
    <2>1. state' = "IDLE" /\ issued' = Issues(Taken)'
      BY <1>5, <1>12, <1>14, <1>15
    <2> QED BY <1>2, <1>3, <1>13, <2>1 DEF StreamInStep
  <1>16. CASE ~ AtLoopEnd(ctr', generated')
    <2>1. state' = "LOOPING"
      BY <1>1, <1>5, <1>16
    <2>2. issued' = Issues(Taken - 1)' + generated'
      <3>1. Issues(T - 1) \in Nat
        BY <1>8, <1>10
      <3> QED BY <1>3, <1>4, <1>5, <1>14, <3>1
    <2>3. generated' - 1 = generated
      BY <1>4, <1>5
    <2>4. generated = (ctr'.cluster * (loop.unit_len + 1) + ctr'.unit) * (loop.inter_len + 1)
                        + ctr'.inter
      BY <1>5, <1>7 DEF Place
    <2> QED BY <1>2, <1>3, <1>5, <1>6, <1>13, <2>1, <2>2, <2>3, <2>4 DEF StreamInStep
  <1> QED BY <1>15, <1>16

\* The other steps of the looper take the struct of the input register, if
\* there is one, and issue the commands it adds one by one or not at all.
LEMMA TakeStream ==
  ASSUME IInv, FrontEndTick, ~ LoopIteration
  PROVE  StreamInStep' /\ IssuesNext
  <1> DEFINE T == Taken
  <1>1. /\ TypeOK /\ ControlInv /\ StreamInStep /\ state # "LOOPING"
        /\ LooperTick
    <2>1. LooperTick /\ ~ LoopIteration
      BY DEF FrontEndTick
    <2>2. state # "LOOPING"
      BY <2>1 DEF LooperTick, AcceptBase, AcceptLoop, PassDirect, LooperIdle
    <2> QED BY <2>1, <2>2 DEF IInv, ControlInv
  <1>2. /\ prog' = prog /\ Taken' = Fetched /\ prog \in Programs /\ Len(prog) \in Nat
        /\ T \in 0 .. Len(prog) /\ Fetched \in Nat
        /\ input = NoStruct => T = Fetched
        /\ input # NoStruct => T = Fetched - 1 /\ T + 1 \in 1 .. Len(prog)
                               /\ input = prog[T + 1] /\ Fetched = T + 1
    <2>1. T \in Nat /\ Fetched \in Nat
      BY <1>1, FetchedType
    <2> QED BY <1>1, <2>1, TickTakes, FetchedType
  <1>3. issued = Issues(T) /\ (state = "IDLE" => T = 0 \/ prog[T].dir = "dma")
    BY <1>1 DEF StreamInStep
  <1>4. CASE LooperIdle
    <2>1. UNCHANGED <<state, loop, base, cur, ctr, generated, queue, issued>>
          /\ input = NoStruct
      BY <1>4 DEF LooperIdle, NoEmit
    <2>2. Taken' = T /\ Issues(Taken)' = Issues(T)
      BY <1>2, <2>1 DEF Issues
    <2>3. StreamInStep'
      BY <1>1, <1>2, <1>3, <2>1, <2>2 DEF StreamInStep
    <2> QED BY <2>1, <2>3 DEF IssuesNext
  <1>5. CASE input # NoStruct
    <2> DEFINE N == T + 1
               s == Stream(SubSeq(prog, 1, T))
               t == Stream(SubSeq(prog, 1, N))
               e == Expansion(prog, N)
    <2>1. N \in 1 .. Len(prog) /\ N - 1 = T /\ Taken' = N /\ Fetched = N /\ input = prog[N]
      BY <1>2, <1>5
    <2>2. /\ s \in Seq(Command) /\ Len(s) \in Nat /\ e \in Seq(Command)
          /\ Len(t) = Len(s) + Len(e) /\ \A j \in 1 .. Len(e) : t[Len(s) + j] = e[j]
      <3>1. T \in 0 .. Len(prog) /\ N \in 1 .. Len(prog) /\ N - 1 = T /\ prog \in Programs
        BY <1>2, <2>1
      <3> HIDE DEF T, N
      <3>2. s \in Seq(Command)
        BY <3>1, StreamType
      <3>3. e \in Seq(Command)
        BY <3>1, ExpansionType
      <3>4. /\ Len(t) = Len(s) + Len(e)
            /\ \A j \in 1 .. Len(e) : t[Len(s) + j] = e[j]
        BY <3>1, StreamNext
      <3> HIDE DEF s, t, e
      <3> QED BY <3>2, <3>3, <3>4
    <2>3. issued = Len(s) /\ Issues(N) = Len(t) /\ Issues(Taken)' = Len(t)
      BY <1>2, <1>3, <2>1 DEF Issues
    <2>4. input \in Struct /\ input.dir \in {"dma", "loop"}
          /\ (input.dir = "dma" => input.cmd \in Command)
          /\ (input.dir = "loop" => input.loop \in LoopDesc)
      BY <1>2, <2>1, ProgramStructs, StructKinds
    <2>5. CASE AcceptLoop
      <3>1. /\ input.dir = "loop" /\ state' = "WAIT_FOR_BASE"
            /\ UNCHANGED <<queue, issued>>
        BY <2>5 DEF AcceptLoop, NoEmit
      <3>2. Len(e) = 0
        BY <2>1, <3>1 DEF Expansion
      <3>3. issued' = Issues(Taken)'
        <4> HIDE DEF s, t, e
        <4> QED BY <2>2, <2>3, <3>1, <3>2
      <3>4. StreamInStep'
        BY <3>1, <3>3 DEF StreamInStep
      <3> QED BY <3>1, <3>4 DEF IssuesNext
    <2>6. CASE PassDirect
      <3>1. /\ input.dir = "dma" /\ state = "IDLE" /\ state' = "IDLE"
            /\ SendTo(input.cmd) /\ issued' = issued + 1
        BY <2>6 DEF PassDirect, Emit
      <3>2. e = <<input.cmd>>
        <4>1. ~ (N > 1 /\ prog[N - 1].dir = "loop")
          <5>1. T = 0 \/ prog[T].dir = "dma"
            BY <1>3, <3>1
          <5> QED BY <1>2, <2>1, <5>1
        <4> HIDE DEF N
        <4> QED BY <2>1, <3>1, <4>1 DEF Expansion
      <3>3. Len(e) = 1 /\ e[1] = input.cmd
        BY <3>2
      <3>4. /\ issued' = Issues(Taken)' /\ issued < Issues(N)
            /\ t[issued + 1] = input.cmd
        <4> HIDE DEF s, t, e
        <4> QED BY <2>2, <2>3, <3>1, <3>3
      <3>5. StreamInStep'
        <4>1. prog'[Taken'].dir = "dma"
          BY <1>2, <2>1, <3>1
        <4> QED BY <3>1, <3>4, <4>1 DEF StreamInStep
      <3>6. IssuesNext
        BY <2>1, <3>1, <3>4 DEF IssuesNext
      <3> QED BY <3>5, <3>6
    <2>7. CASE AcceptBase
      <3>1. /\ state = "WAIT_FOR_BASE" /\ state' = "LOOPING"
            /\ base' = input.cmd /\ cur' = input.cmd
            /\ ctr' = [cluster |-> 0, unit |-> 0, inter |-> 0]
            /\ generated' = 1 /\ SendTo(input.cmd) /\ issued' = issued + 1
            /\ loop' = loop
        BY <2>7 DEF AcceptBase, Emit
      <3>2. T > 0 /\ prog[T].dir = "loop" /\ loop = prog[T].loop
        BY <1>1, <1>2, <1>5, <3>1 DEF ControlInv, LooperInStep
      <3>3. input.dir = "dma" /\ loop.count > 1
            /\ loop.cluster_len + loop.unit_len + loop.inter_len > 0
            /\ loop \in LoopDesc
        BY <1>1, <1>5, <3>1, InputKinds DEF TypeOK
      <3>4. e = LoopCommands(loop, input.cmd)
        <4>1. N > 1
          BY <1>2, <3>2
        <4> HIDE DEF N, T
        <4> QED BY <2>1, <3>2, <3>3, <4>1 DEF Expansion
      <3>5. 0 < LoopSize(loop)
        <4>1. 0 \in 0 .. loop.cluster_len /\ 0 \in 0 .. loop.unit_len /\ 0 \in 0 .. loop.inter_len
          BY <3>3, LoopLengths
        <4>2. Place(loop, 0, 0, 0) = 0
          BY <3>3, LoopLengths DEF Place
        <4> DEFINE all == (loop.cluster_len + 1) * (loop.unit_len + 1) * (loop.inter_len + 1)
        <4>3. all \in Nat /\ Place(loop, 0, 0, 0) < all
          <5> 0 \in Int
            OBVIOUS
          <5> QED BY <3>3, <4>1, PlaceBound
        <4>4. LoopSize(loop) = IF loop.count < all THEN loop.count ELSE all
          BY DEF LoopSize
        <4> HIDE DEF all
        <4> QED BY <3>3, <4>2, <4>3, <4>4, LoopLengths
      <3>6. /\ Len(e) = LoopSize(loop) /\ LoopSize(loop) \in Nat
            /\ e[1] = LoopCommand(loop, input.cmd, 0)
        <4>1. LoopSize(loop) \in Nat
          BY <2>4, <3>3, LoopCommandsType
        <4>2. 1 \in 1 .. LoopSize(loop) /\ 1 - 1 = 0
          BY <3>5, <4>1
        <4>3. /\ Len(LoopCommands(loop, input.cmd)) = LoopSize(loop)
              /\ LoopCommands(loop, input.cmd)[1] = LoopCommand(loop, input.cmd, 1 - 1)
          BY <2>4, <3>3, <4>2, LoopCommandsType
        <4> HIDE DEF e
        <4> QED BY <3>4, <4>1, <4>2, <4>3
      <3>7. LoopCommand(loop, input.cmd, 0) = input.cmd
        BY <2>4, <3>3, CommandFirst
      <3>8. /\ issued < Issues(N) /\ t[issued + 1] = input.cmd
        <4> HIDE DEF s, t, e
        <4> QED BY <2>2, <2>3, <3>5, <3>6, <3>7
      <3>9. IssuesNext
        BY <2>1, <3>1, <3>8 DEF IssuesNext
      <3>10. Issues(Taken - 1)' = issued
        BY <1>2, <1>3, <2>1 DEF Issues
      <3>11. generated' - 1 = (ctr'.cluster * (loop'.unit_len + 1) + ctr'.unit)
                                 * (loop'.inter_len + 1) + ctr'.inter
        BY <3>1, <3>3, LoopLengths
      <3>12. cur' = LoopCommand(loop', base', generated' - 1)
        BY <3>1, <3>7
      <3>13. issued' = Issues(Taken - 1)' + generated'
        BY <3>1, <3>10
      <3>14. /\ Taken' > 1 /\ prog'[Taken' - 1].dir = "loop"
             /\ loop' = prog'[Taken' - 1].loop
             /\ prog'[Taken'].dir = "dma" /\ base' = prog'[Taken'].cmd
        BY <1>2, <2>1, <3>1, <3>2, <3>3
      <3>15. StreamInStep'
        <4>1. state' = "LOOPING"
          BY <3>1
        <4> QED BY <3>11, <3>12, <3>13, <3>14, <4>1 DEF StreamInStep
      <3> QED BY <3>9, <3>15
    <2> QED BY <1>1, <1>5, <2>5, <2>6, <2>7 DEF LooperTick, LoopIteration, LooperIdle
  <1> QED BY <1>1, <1>4, <1>5 DEF LooperTick, AcceptBase, AcceptLoop, PassDirect, LoopIteration

\* The other steps keep the place in the stream.
LEMMA StreamFrame ==
  ASSUME IInv, UNCHANGED <<prog, issued, looper>>, Fetched' = Fetched
  PROVE  StreamInStep'
  <1>1. Taken' = Taken
    BY DEF Taken, looper
  <1>2. Issues(Taken)' = Issues(Taken) /\ Issues(Taken - 1)' = Issues(Taken - 1)
    BY <1>1 DEF Issues
  <1>3. StreamInStep
    BY DEF IInv
  <1> QED BY <1>1, <1>2, <1>3 DEF StreamInStep, looper

\* A step outside the cycles pushes no struct to the looper.
LEMMA OtherFetched ==
  ASSUME IInv, ProgramStep \/ (\E c \in Clusters : DmaFinish(c)) \/ UNCHANGED vars
  PROVE  UNCHANGED <<prog, issued, looper>> /\ Fetched' = Fetched
  <1>1. CASE (\E c \in Clusters : DmaFinish(c)) \/ UNCHANGED vars
    BY <1>1 DEF DmaFinish, Finish, vars, Fetched
  <1>2. CASE CallShort \/ CallBlock \/ CallWait \/ CallRegister \/ PollFsm \/ WriteMask
             \/ PollSync
    BY <1>2 DEF CallShort, CallBlock, CallWait, CallRegister, PollFsm, WriteMask, PollSync,
                hardware, Fetched
  <1>3. CASE SendRegister
    BY <1>3 DEF SendRegister, Fetched
  <1>4. block \in [size : Words, addr : Nat, busy : BOOLEAN]
        /\ (pc \in {"cmd_hi", "cmd_lo", "size", "trig_hi", "trig_lo"} => ~ block.busy)
    BY DEF IInv, ControlInv, TypeOK, BlockNotRetriggered
  <1>5. CASE WriteHigh
    <2>1. block'.busy = block.busy /\ ~ block.busy /\ given' = given
      BY <1>4, <1>5 DEF WriteHigh
    <2> QED BY <1>5, <2>1 DEF WriteHigh, Fetched
  <1>6. CASE WriteSize
    <2>1. block'.busy = block.busy /\ ~ block.busy /\ given' = given
      BY <1>4, <1>6 DEF WriteSize
    <2> QED BY <1>6, <2>1 DEF WriteSize, Fetched
  <1>7. CASE WriteLow
    <2>1. ~ block.busy /\ block'.busy /\ given' = given + arg.n /\ block'.size = block.size
      BY <1>4, <1>7 DEF WriteLow
    <2>2. block.size = arg.n /\ arg.n \in Nat /\ given \in Nat
      <3>1. arg \in [n : Nat, mask : SUBSET Clusters] /\ block.size = arg.n
        BY <1>7 DEF IInv, ControlInv, TypeOK, CallInStep, WriteLow
      <3> QED BY <3>1, FetchedType DEF IInv
    <2>3. Fetched' = Fetched
      BY <2>1, <2>2 DEF Fetched
    <2> QED BY <1>7, <2>3 DEF WriteLow
  <1> QED BY <1>1, <1>2, <1>3, <1>5, <1>6, <1>7 DEF ProgramStep

\* A step keeps the invariant.
LEMMA NextIInv == IInv /\ [Next]_vars => IInv'
  <1> SUFFICES ASSUME IInv, [Next]_vars PROVE IInv'
    OBVIOUS
  <1>1. ControlInv'
    BY NextControlInv DEF IInv
  <1>2. CASE RiscTick \/ OtherTick
    BY <1>1, <1>2, LoopIterationStream, TakeStream DEF IInv, RiscTick, OtherTick
  <1>3. CASE ProgramStep \/ (\E c \in Clusters : DmaFinish(c)) \/ UNCHANGED vars
    BY <1>1, <1>3, OtherFetched, StreamFrame DEF IInv
  <1> QED BY <1>2, <1>3 DEF Next

\* At the start nothing has been issued.
LEMMA InitIInv == Init => IInv
  <1> SUFFICES ASSUME Init PROVE IInv
    OBVIOUS
  <1>1. ControlInv
    BY InitControlInv
  <1>2. /\ prog \in Programs /\ given = 0 /\ issued = 0 /\ state = "IDLE"
        /\ input = NoStruct /\ ~ block.busy
    BY DEF Init, SInit
  <1>3. Taken = 0
    BY <1>2 DEF Taken, Fetched
  <1>4. Issues(Taken) = 0
    BY <1>2, <1>3, StreamEmpty DEF Issues
  <1> QED BY <1>1, <1>2, <1>3, <1>4 DEF IInv, StreamInStep

-----------------------------------------------------------------------------
(* The front end and the stream it issues.                                 *)

\* Once the looper and the extractor are idle, all that was given is issued.
LEMMA NothingLostFromInv == IInv => NothingLost
  <1> SUFFICES ASSUME IInv, ~ FsmBusy, input = NoStruct
               PROVE  issued = Len(Stream(SubSeq(prog, 1, given)))
    BY DEF NothingLost
  <1>1. ~ block.busy /\ state # "LOOPING"
    BY DEF FsmBusy, IInv, ControlInv, InputFree
  <1>2. Taken = given
    BY <1>1 DEF Taken, Fetched
  <1>3. issued = Issues(Taken)
    BY <1>1 DEF IInv, StreamInStep
  <1> QED BY <1>2, <1>3 DEF Issues

\* When a wait returns with commands missing they are those of the struct in
\* the input register; an idle looper takes that for a single command.
LEMMA SyncDrainsFromInv ==
  ASSUME IInv, [Next]_vars, SyncReturns
  PROVE  /\ \A c \in syncMask : queue[c] = <<>>
         /\ LET stream == Stream(SubSeq(prog, 1, given))
            IN  issued < Len(stream) =>
                  /\ input # NoStruct
                  /\ state = "IDLE" => issued + 1 = Len(stream)
  <1> DEFINE stream == Stream(SubSeq(prog, 1, given))
  <1>1. PollSync /\ ~ MaskedDmaBusy
    <2>1. PollSync
      <3>1. pc = "sync" /\ pc' # pc
        BY DEF SyncReturns
      <3>2. ~ (RiscTick \/ OtherTick \/ (\E c \in Clusters : DmaFinish(c)) \/ UNCHANGED vars)
        BY <3>1 DEF RiscTick, OtherTick, DmaFinish, program, vars
      <3>3. ~ (CallShort \/ CallBlock \/ CallWait \/ CallRegister \/ WriteHigh \/ WriteLow
               \/ WriteSize \/ WriteMask \/ SendRegister)
        BY <3>1 DEF CallShort, CallBlock, CallWait, CallRegister, WriteHigh, WriteLow,
                    WriteSize, WriteMask, SendRegister
      <3>4. ~ PollFsm
        BY <3>1 DEF PollFsm, Polls
      <3> QED BY <3>2, <3>3, <3>4 DEF Next, ProgramStep
    <2> QED BY <2>1 DEF SyncReturns, PollSync, GoTo
  <1>2. /\ \A c \in syncMask : queue[c] = <<>>
        /\ ~ FsmBusy
    BY <1>1 DEF MaskedDmaBusy
  <1>3. ~ block.busy /\ state # "LOOPING" /\ Fetched = given
    BY <1>2 DEF FsmBusy, IInv, ControlInv, InputFree, Fetched
  <1>4. issued = Issues(Taken) /\ (state = "IDLE" => Taken = 0 \/ prog[Taken].dir = "dma")
    BY <1>3 DEF IInv, StreamInStep
  <1>5. ASSUME issued < Len(stream) PROVE input # NoStruct
    BY <1>2, <1>5, NothingLostFromInv, FetchedType DEF NothingLost, IInv, TypeOK, ControlInv
  <1>6. ASSUME issued < Len(stream), state = "IDLE" PROVE issued + 1 = Len(stream)
    <2>1. /\ prog \in Programs /\ given \in 1 .. Len(prog) /\ Taken = given - 1
          /\ Len(prog) \in Nat
      BY <1>3, <1>5, <1>6, FetchedType DEF IInv
    <2> DEFINE e == Expansion(prog, given)
               s == Stream(SubSeq(prog, 1, given - 1))
    <2>2. ~ (given > 1 /\ prog[given - 1].dir = "loop")
      BY <1>4, <1>6, <2>1
    <2>3. Len(stream) = Len(s) + Len(e)
      BY <2>1, StreamNext
    <2>4. issued = Len(s) /\ Len(s) \in Nat
      <3>1. given - 1 \in 0 .. Len(prog)
        BY <2>1
      <3>2. s \in Seq(Command)
        BY <2>1, <3>1, StreamType
      <3>3. issued = Len(s)
        BY <1>4, <2>1 DEF Issues
      <3> HIDE DEF s
      <3> QED BY <3>2, <3>3
    <2>5. Len(e) = 0 \/ Len(e) = 1
      <3>1. e = <<>> \/ e = <<prog[given].cmd>>
        BY <2>2, Zenon DEF Expansion
      <3> HIDE DEF e
      <3> QED BY <3>1
    <2>6. Len(stream) = issued + Len(e) /\ issued \in Nat
      BY <2>3, <2>4
    <2>7. issued < Len(stream)
      BY <1>6
    <2> HIDE DEF stream, s, e
    <2>8. CASE Len(e) = 0
      BY <2>6, <2>7, <2>8
    <2>9. CASE Len(e) = 1
      BY <2>6, <2>9
    <2> QED BY <2>5, <2>8, <2>9
  <1> QED BY <1>2, <1>5, <1>6

\* A cycle issues the next command of what was given, or none.
LEMMA TickIssues ==
  ASSUME IInv, FrontEndTick
  PROVE  [Issue]_svars
  <1>1. IssuesNext /\ UNCHANGED <<prog, given>>
    BY LoopIterationStream, TakeStream DEF FrontEndTick
  <1>2. CASE UNCHANGED <<queue, issued>>
    BY <1>1, <1>2 DEF svars
  <1>3. CASE ~ UNCHANGED <<queue, issued>>
    <2> DEFINE s == Stream(SubSeq(prog, 1, Fetched))
               t == Stream(SubSeq(prog, 1, given))
    <2>1. /\ issued' = issued + 1 /\ issued < Len(s)
          /\ SendTo(s[issued + 1])
      BY <1>1, <1>3 DEF IssuesNext, Issues
    <2>2. /\ prog \in Programs /\ given \in 0 .. Len(prog) /\ Fetched \in 0 .. given
          /\ issued \in Nat /\ Len(prog) \in Nat
      BY FetchedType DEF IInv, ControlInv, TypeOK
    <2>3. Len(s) <= Len(t) /\ \A k \in 1 .. Len(s) : t[k] = s[k]
      BY <2>2, StreamPrefix
    <2>4. Len(s) \in Nat /\ Len(t) \in Nat
      <3>1. Fetched \in 0 .. Len(prog)
        BY <2>2
      <3> HIDE DEF Fetched
      <3>2. s \in Seq(Command) /\ t \in Seq(Command)
        BY <2>2, <3>1, StreamType
      <3> HIDE DEF s, t
      <3> QED BY <3>2
    <2>5. issued < Len(t) /\ t[issued + 1] = s[issued + 1]
      <3> HIDE DEF s, t
      <3> QED BY <2>1, <2>2, <2>3, <2>4
    <2> QED BY <1>1, <2>1, <2>5 DEF Issue
  <1> QED BY <1>2, <1>3

\* Every step of the front end is a step of the stream, or none.
LEMMA StepImplementsStream ==
  ASSUME IInv, [Next]_vars
  PROVE  [SNext]_svars
  <1>1. CASE RiscTick \/ OtherTick
    BY <1>1, TickIssues DEF RiscTick, OtherTick, SNext
  <1>2. CASE CallShort \/ CallBlock \/ CallWait \/ CallRegister \/ PollFsm \/ WriteHigh
             \/ WriteSize \/ WriteMask \/ PollSync \/ UNCHANGED vars
    BY <1>2 DEF CallShort, CallBlock, CallWait, CallRegister, PollFsm, WriteHigh, WriteSize,
                WriteMask, PollSync, vars, svars, hardware
  <1>3. CASE WriteLow
    <2>1. arg.n > 0 /\ given + arg.n <= Len(prog) /\ given' = given + arg.n
          /\ UNCHANGED <<prog, issued, queue>>
      BY <1>3 DEF IInv, ControlInv, CallInStep, WriteLow
    <2>2. arg.n \in Nat /\ given \in Nat /\ Len(prog) \in Nat
      <3>1. arg \in [n : Nat, mask : SUBSET Clusters]
        BY DEF IInv, ControlInv, TypeOK
      <3> QED BY <3>1, FetchedType DEF IInv
    <2> QED BY <2>1, <2>2 DEF Give, SNext
  <1>4. CASE SendRegister
    BY <1>4 DEF SendRegister, Bypass, SNext
  <1>5. CASE \E c \in Clusters : DmaFinish(c)
    BY <1>5 DEF DmaFinish, SNext
  <1> QED BY <1>1, <1>2, <1>3, <1>4, <1>5 DEF Next, ProgramStep

-----------------------------------------------------------------------------
(* Theorems.                                                               *)

\* The inductive invariant: the looper, the block extractor and the call in
\* progress stay in step, whatever the interleaving of cycles and accesses.
THEOREM FrontEndInvariant == Spec => []IInv
  BY InitIInv, NextIInv, PTL DEF Spec

\* The registers keep their types: no value outgrows its width.
THEOREM FrontEndTypes == Spec => []TypeOK
  <1>1. IInv => TypeOK
    BY DEF IInv, ControlInv
  <1> QED BY <1>1, FrontEndInvariant, PTL

\* No struct pushed into the looper replaces one that it has not taken.
THEOREM NoStructOverwritten == Spec => []InputFree
  <1>1. IInv => InputFree
    BY DEF IInv, ControlInv
  <1> QED BY <1>1, FrontEndInvariant, PTL

\* The "fsm error" branch of DMALooper::tick is dead for loops of at least
\* two commands.
THEOREM LooperNeverFails == Spec => []LoopOwesCommands
  <1>1. IInv => LoopOwesCommands
    BY DEF IInv, ControlInv
  <1> QED BY <1>1, FrontEndInvariant, PTL

\* assert(!dmablock->isBusy()) in ISS::io_write never fires.
THEOREM BlockAssertHolds == Spec => []BlockNotRetriggered
  <1>1. IInv => BlockNotRetriggered
    BY DEF IInv, ControlInv
  <1> QED BY <1>1, FrontEndInvariant, PTL

\* The extractor fetches the structs of the triggered block, no other.
THEOREM BlockStaysInRange == Spec => []BlockInRange
  <1>1. IInv => BlockInRange
    BY DEF IInv, ControlInv
  <1> QED BY <1>1, FrontEndInvariant, PTL

\* No struct is lost or half expanded: when the looper and the extractor are
\* idle, exactly the commands of the structs given so far have been issued.
THEOREM NothingIsLost == Spec => []NothingLost
  BY FrontEndInvariant, NothingLostFromInv, PTL

\* When dma_wait_to_finish returns the masked DMAs are empty, and of the
\* stream at most the commands of the struct in the looper's input register
\* have not been issued.
THEOREM SyncDrainsQueues == Spec => SyncDrains
  <1>1. IInv /\ [Next]_vars =>
          [SyncReturns =>
             /\ \A c \in syncMask : queue[c] = <<>>
             /\ LET stream == Stream(SubSeq(prog, 1, given))
                IN  issued < Len(stream) =>
                      /\ input # NoStruct
                      /\ state = "IDLE" => issued + 1 = Len(stream)]_vars
    BY SyncDrainsFromInv
  <1> QED BY <1>1, FrontEndInvariant, PTL DEF Spec, SyncDrains

\* The front end implements the command stream: the DMA queues receive the
\* commands of the structs in program order, each loop expanded as the
\* reference LoopCommands expands it, whatever the interleaving of cycles,
\* accesses and finishing DMAs.
THEOREM ImplementsStream == Spec => SSpec
  <1>1. Init => SInit
    BY DEF Init
  <1>2. IInv /\ [Next]_vars => [SNext]_svars
    BY StepImplementsStream
  <1> QED BY <1>1, <1>2, FrontEndInvariant, PTL DEF Spec, SSpec
=============================================================================
