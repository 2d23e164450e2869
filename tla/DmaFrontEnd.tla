---------------------------- MODULE DmaFrontEnd ----------------------------
(***************************************************************************)
(* The DMA command front end of the simulator and the program that drives  *)
(* it: DMALooper (expands loop descriptions into commands),                *)
(* DMABlockExtractor (fetches structs from the command memory), the io     *)
(* registers of ISS::io_read / ISS::io_write and the calls of iss_aux.cpp  *)
(* that poll and write them.                                               *)
(*                                                                         *)
(* Simulated time only passes inside an io access: an access first runs    *)
(* IoCycles RISC clock cycles, each one ticking the looper and then the    *)
(* block extractor, and then reads or writes its register.  A call is a    *)
(* sequence of accesses; pc names the access in progress and io the cycles *)
(* still to run before it takes effect.  While pc = "idle" the program     *)
(* does unrelated work that may also tick the front end.                   *)
(*                                                                         *)
(* The DMAs themselves are abstracted to queues that finish their commands *)
(* one by one at any moment.                                               *)
(***************************************************************************)
EXTENDS DmaCommandStream

CONSTANTS
  IoCycles,     \* ISS::risc_io_access_cycles
  MaxRegister   \* bound: register commands a program issues

ASSUME IoAssumption == IoCycles \in Nat \ {0} /\ MaxRegister \in Nat

\* What the network compiler generates: a loop stands for at least two
\* commands, fits its counters and is followed by its base command.
ASSUME ProgramAssumption ==
  /\ RegisterCommands \subseteq Command
  /\ \A p \in Programs :
       /\ p \in Seq(Struct) /\ Len(p) < WordMod
       /\ \A i \in 1 .. Len(p) : p[i].dir = "loop" =>
            /\ i < Len(p) /\ p[i + 1].dir = "dma"
            /\ p[i].loop.count > 1
            /\ p[i].loop.cluster_len + p[i].loop.unit_len + p[i].loop.inter_len > 0

NoStruct == <<>>   \* input_register.is_filled = false

VARIABLES
  state,      \* DMALooper::state
  busy,       \* DMALooper::busy
  input,      \* DMALooper::input_register
  loop,       \* DMALooper::dma_loop
  base,       \* DMALooper::base_lm_addr, base_unit_mask, ...
  cur,        \* DMALooper::mm_addr, lm_addr, unit_mask, cluster_mask
  ctr,        \* DMALooper::cluster, unit, inter_unit
  generated,  \* DMALooper::generated_commands
  block,      \* DMABlockExtractor::size_ff, addr_ff, busy
  syncMask,   \* architecture_state->sync_cluster_mask_global
  pc, io,     \* the program's access in progress, cycles before it happens
  arg,        \* argument of the call in progress: block size or cluster mask
  regs        \* register commands issued so far

looper == <<state, busy, input, loop, base, cur, ctr, generated>>
program == <<syncMask, pc, io, arg, regs>>
vars == <<prog, given, issued, queue, looper, block, program>>

NoCommand == [mm |-> 0, lm |-> 0, unit |-> {}, cluster |-> {}]
NoLoop == [cluster_len |-> 0, cluster_shift |-> 0, unit_len |-> 0, unit_shift |-> 0,
           inter_len |-> 0, lm_incr |-> 0, mm_incr |-> 0, count |-> 0]

Init ==
  /\ SInit
  /\ state = "IDLE" /\ busy = FALSE /\ input = NoStruct
  /\ loop = NoLoop /\ base = NoCommand /\ cur = NoCommand
  /\ ctr = [cluster |-> 0, unit |-> 0, inter |-> 0]
  /\ generated = 0
  /\ block = [size |-> 0, addr |-> 0, busy |-> FALSE]
  /\ syncMask = {} /\ pc = "idle" /\ io = 0 /\ arg = [n |-> 0, mask |-> {}] /\ regs = 0

-----------------------------------------------------------------------------
(* The looper.                                                             *)

\* ISS::run_dma_instruction with skip_tick.
Emit(cmd) == SendTo(cmd) /\ issued' = issued + 1

NoEmit == UNCHANGED <<queue, issued>>

\* The counters and registers of the next iteration.
NextIteration ==
  IF ctr.cluster > loop.cluster_len
  THEN [ctr |-> ctr, cur |-> cur]
  ELSE IF ctr.inter < loop.inter_len
  THEN [ctr |-> [ctr EXCEPT !.inter = @ + 1],
        cur |-> [cur EXCEPT !.lm = AddWord(@, SignExtend(loop.lm_incr))]]
  ELSE IF ctr.unit < loop.unit_len
  THEN [ctr |-> [ctr EXCEPT !.unit = @ + 1, !.inter = 0],
        cur |-> [cur EXCEPT !.lm = base.lm, !.unit = ShiftMask(@, loop.unit_shift)]]
  ELSE [ctr |-> [cluster |-> ctr.cluster + 1, unit |-> 0, inter |-> 0],
        cur |-> [cur EXCEPT !.lm = base.lm, !.unit = base.unit,
                            !.cluster = ShiftMask(@, loop.cluster_shift)]]

\* Mutants: the count of the loop is ignored, or reached one command early.
AtLoopEndByCounters(c, g) ==
  c = [cluster |-> loop.cluster_len, unit |-> loop.unit_len, inter |-> loop.inter_len]

AtLoopEndEarly(c, g) == g + 1 = loop.count \/ AtLoopEndByCounters(c, g)

AtLoopEnd(c, g) ==
  \/ g = loop.count
  \/ c = [cluster |-> loop.cluster_len, unit |-> loop.unit_len, inter |-> loop.inter_len]

\* All iterations are done but dma_cmd_count asks for more: "fsm error".
FsmError == ctr.cluster > loop.cluster_len /\ generated # loop.count

\* One loop iteration issues one command.
LoopIteration ==
  /\ state = "LOOPING"
  /\ \/ /\ FsmError
        /\ state' = "IDLE" /\ busy' = FALSE
        /\ NoEmit
        /\ UNCHANGED <<ctr, cur, generated>>
     \/ /\ ~ FsmError
        /\ ctr' = NextIteration.ctr
        /\ cur' = [NextIteration.cur EXCEPT !.mm = AddWord(@, loop.mm_incr)]
        /\ generated' = generated + 1
        /\ IF AtLoopEnd(ctr', generated')
           THEN state' = "IDLE" /\ busy' = FALSE
           ELSE UNCHANGED state /\ busy' = TRUE
        /\ Emit(cur')
  /\ UNCHANGED <<loop, base>>

\* The struct after a loop description is its base command.
AcceptBase ==
  /\ state = "WAIT_FOR_BASE" /\ input # NoStruct
  /\ state' = "LOOPING" /\ busy' = TRUE
  /\ base' = input.cmd /\ cur' = input.cmd
  /\ ctr' = [cluster |-> 0, unit |-> 0, inter |-> 0]
  /\ generated' = 1
  /\ Emit(input.cmd)
  /\ UNCHANGED loop

AcceptLoop ==
  /\ state = "IDLE" /\ input # NoStruct
  /\ input.dir = "loop"
  /\ loop' = input.loop
  /\ state' = "WAIT_FOR_BASE" /\ busy' = FALSE
  /\ NoEmit
  /\ UNCHANGED <<base, cur, ctr, generated>>

PassDirect ==
  /\ state = "IDLE" /\ input # NoStruct
  /\ input.dir = "dma"
  /\ busy' = FALSE
  /\ Emit(input.cmd)
  /\ UNCHANGED <<state, loop, base, cur, ctr, generated>>

LooperIdle ==
  /\ state # "LOOPING" /\ input = NoStruct
  /\ NoEmit
  /\ UNCHANGED <<state, busy, loop, base, cur, ctr, generated>>

\* DMALooper::tick up to the input register, see BlockTick.
LooperTick ==
  LoopIteration \/ AcceptBase \/ AcceptLoop \/ PassDirect \/ LooperIdle

\* Mutant: the looper does not mark its input as taken.
InputKept == input

InputAfterLooper == IF state = "LOOPING" THEN input ELSE NoStruct

\* Mutant: the extractor does not look at the looper.
BlockTickUnchecked ==
  IF block.busy
  THEN LET left == (block.size - 1) % WordMod
       IN  /\ input' = prog[block.addr]
           /\ block' = [size |-> left, addr |-> block.addr + 1, busy |-> left > 0]
  ELSE input' = InputAfterLooper /\ UNCHANGED block

\* DMABlockExtractor::tick, after the looper in the same cycle.
BlockTick ==
  IF block.busy /\ ~ busy'
  THEN LET left == (block.size - 1) % WordMod
       IN  /\ input' = prog[block.addr]
           /\ block' = [size |-> left, addr |-> block.addr + 1, busy |-> left > 0]
  ELSE input' = InputAfterLooper /\ UNCHANGED block

FrontEndTick == LooperTick /\ BlockTick /\ UNCHANGED <<prog, given>>

-----------------------------------------------------------------------------
(* The program.                                                            *)

\* A RISC cycle inside an access.
RiscTick ==
  /\ io > 0
  /\ io' = io - 1
  /\ FrontEndTick
  /\ UNCHANGED <<syncMask, pc, arg, regs>>

\* A RISC cycle of other work, or of waiting for room in a unit's queue.
OtherTick ==
  /\ pc \in {"idle", "reg"} /\ io = 0
  /\ FrontEndTick
  /\ UNCHANGED program

hardware == <<prog, given, issued, queue, looper, block>>

\* The access in progress is done; the next one needs `cycles`.
GoTo(p, cycles) == pc' = p /\ io' = cycles

\* dma_dcache_short_command
CallShort ==
  /\ pc = "idle" /\ given < Len(prog)
  /\ GoTo("cmd_poll", IoCycles)
  /\ arg' = [arg EXCEPT !.n = 1]
  /\ UNCHANGED <<hardware, syncMask, regs>>

\* dma_block_size and dma_block_addr_trigger
CallBlock ==
  /\ pc = "idle"
  /\ \E n \in 1 .. Len(prog) - given : arg' = [arg EXCEPT !.n = n]
  /\ GoTo("size_poll", 2 * IoCycles)
  /\ UNCHANGED <<hardware, syncMask, regs>>

\* dma_wait_to_finish
CallWait ==
  /\ pc = "idle"
  /\ \E m \in (SUBSET Clusters) \ {{}} : arg' = [arg EXCEPT !.mask = m]
  /\ GoTo("mask", IoCycles)
  /\ UNCHANGED <<hardware, syncMask, regs>>

\* dma_e2l_2d and its siblings, up to the trigger register
CallRegister ==
  /\ pc = "idle" /\ regs < MaxRegister
  /\ GoTo("reg", IoCycles + 1)
  /\ regs' = regs + 1
  /\ UNCHANGED <<hardware, syncMask, arg>>

\* Mutant: the FSM register does not show the block extractor.
FsmBusyLooperOnly == busy

\* IDMA_COMMAND_FSM_ADDR
FsmBusy == busy \/ block.busy

Polls == {"cmd_poll", "size_poll", "trig_poll"}

AfterPoll(p) ==
  CASE p = "cmd_poll"  -> "cmd_hi"
    [] p = "size_poll" -> "size"
    [] p = "trig_poll" -> "trig_hi"

\* The calls poll the FSM register before they write.
PollFsm ==
  /\ pc \in Polls /\ io = 0
  /\ IF FsmBusy THEN GoTo(pc, 2 * IoCycles) ELSE GoTo(AfterPoll(pc), IoCycles)
  /\ UNCHANGED <<hardware, syncMask, arg, regs>>

\* Upper address half: dmablock->newAddrTrigger(value, 32).  The short
\* command sets the size to one in the same access.
WriteHigh ==
  /\ pc \in {"cmd_hi", "trig_hi"} /\ io = 0
  /\ block' = [block EXCEPT !.addr = 0, !.size = IF pc = "cmd_hi" THEN 1 ELSE @]
  /\ GoTo(IF pc = "cmd_hi" THEN "cmd_lo" ELSE "trig_lo", IoCycles)
  /\ UNCHANGED <<prog, given, issued, queue, looper, syncMask, arg, regs>>

\* Lower half: newAddrTrigger(value, 0) starts the extractor.
WriteLow ==
  /\ pc \in {"cmd_lo", "trig_lo"} /\ io = 0
  /\ block' = [block EXCEPT !.addr = @ + given + 1, !.busy = TRUE]
  /\ given' = given + arg.n
  /\ GoTo("idle", 0)
  /\ UNCHANGED <<prog, issued, queue, looper, syncMask, arg, regs>>

WriteSize ==
  /\ pc = "size" /\ io = 0
  /\ block' = [block EXCEPT !.size = arg.n]
  /\ GoTo("trig_poll", 2 * IoCycles)
  /\ UNCHANGED <<prog, given, issued, queue, looper, syncMask, arg, regs>>

\* VPRO_BUSY_MASK_CL_ADDR
WriteMask ==
  /\ pc = "mask" /\ io = 0
  /\ syncMask' = arg.mask
  /\ GoTo("sync", IoCycles)
  /\ UNCHANGED <<hardware, arg, regs>>

\* Mutant: the register shows the DMAs and the looper only.
MaskedDmaBusyNoBlock == busy \/ \E c \in syncMask : queue[c] # <<>>

\* VPRO_BUSY_MASKED_DMA_ADDR
MaskedDmaBusy == FsmBusy \/ \E c \in syncMask : queue[c] # <<>>

\* Mutant: a poll takes no simulated time.
PollSyncNoTime ==
  /\ pc = "sync" /\ io = 0
  /\ IF MaskedDmaBusy THEN GoTo("sync", 0) ELSE GoTo("idle", 0)
  /\ UNCHANGED <<hardware, syncMask, arg, regs>>

PollSync ==
  /\ pc = "sync" /\ io = 0
  /\ IF MaskedDmaBusy THEN GoTo("sync", IoCycles) ELSE GoTo("idle", 0)
  /\ UNCHANGED <<hardware, syncMask, arg, regs>>

\* A command of the DMA registers goes straight to the clusters.
SendRegister ==
  /\ pc = "reg" /\ io = 0
  /\ \E cmd \in RegisterCommands : SendTo(cmd)
  /\ GoTo("idle", 0)
  /\ UNCHANGED <<prog, given, issued, looper, block, syncMask, arg, regs>>

\* The DMA of cluster c finishes a command.
DmaFinish(c) == Finish(c) /\ UNCHANGED <<looper, block, program>>

-----------------------------------------------------------------------------
ProgramStep ==
  \/ CallShort \/ CallBlock \/ CallWait \/ CallRegister
  \/ PollFsm \/ WriteHigh \/ WriteLow \/ WriteSize \/ WriteMask \/ PollSync
  \/ SendRegister

Next == ProgramStep \/ RiscTick \/ OtherTick \/ \E c \in Clusters : DmaFinish(c)

Spec == Init /\ [][Next]_vars

\* A call in progress goes on, and the clusters are clocked with it.
InCall == PollFsm \/ WriteHigh \/ WriteLow \/ WriteSize \/ WriteMask
          \/ PollSync \/ SendRegister

Fairness ==
  /\ WF_vars(RiscTick)
  /\ WF_vars(InCall)
  /\ \A c \in Clusters : WF_vars(DmaFinish(c))

FairSpec == Spec /\ Fairness

-----------------------------------------------------------------------------
(* Properties.                                                             *)

\* Types of all the registers.  cur and ctr keep the values of the last
\* loop iteration: the counters never pass the loop lengths.
TypeOK ==
  /\ prog \in Programs /\ given \in 0 .. Len(prog) /\ issued \in Nat
  /\ queue \in [Clusters -> Seq(Command)]
  /\ state \in {"IDLE", "WAIT_FOR_BASE", "LOOPING"}
  /\ busy \in BOOLEAN
  /\ input \in Struct \cup {NoStruct}
  /\ loop \in LoopDesc /\ base \in Command /\ cur \in Command
  /\ ctr \in [cluster : Nat, unit : Nat, inter : Nat]
  /\ generated \in Nat
  /\ block \in [size : Words, addr : Nat, busy : BOOLEAN]
  /\ syncMask \subseteq Clusters
  /\ pc \in Polls \cup {"idle", "cmd_hi", "cmd_lo", "size", "trig_hi", "trig_lo",
                        "mask", "sync", "reg"}
  /\ io \in Nat
  /\ arg \in [n : Nat, mask : SUBSET Clusters]
  /\ regs \in Nat

\* The input register of the looper is filled only when it is free: while
\* the looper is looping the register stays empty, so no struct the block
\* extractor pushes replaces one that has not been taken ("RISC-V should
\* wait!" in new_dcache_input is never printed).
InputFree ==
  /\ busy <=> state = "LOOPING"
  /\ state = "LOOPING" => input = NoStruct

\* While looping, the looper still owes commands and its counters have not
\* passed the end of the nest: the "fsm error" of DMALooper::tick is dead.
LoopOwesCommands ==
  state = "LOOPING" =>
    /\ generated \in 1 .. loop.count - 1
    /\ ctr.cluster <= loop.cluster_len /\ ctr.unit <= loop.unit_len
    /\ ctr.inter <= loop.inter_len
    /\ ~ AtLoopEnd(ctr, generated)

\* assert(!dmablock->isBusy()) in ISS::io_write: no call writes the size or
\* the address of a block that is still being fetched, because between the
\* poll that saw the FSM idle and the write nothing restarts it.  The
\* second poll, in dma_block_addr_trigger, still finds the block idle.
BlockNotRetriggered ==
  pc \in {"cmd_hi", "cmd_lo", "size", "trig_poll", "trig_hi", "trig_lo"} => ~ block.busy

\* The extractor fetches exactly the structs of the triggered block: while
\* it is busy its address and size span the end of what was given.
BlockInRange ==
  block.busy => /\ block.size > 0 /\ block.addr > 0
                /\ block.addr + block.size = given + 1

\* Index of the last struct the extractor has pushed to the looper.
Fetched == IF block.busy THEN given - block.size ELSE given

\* The looper sees the structs in program order: its input register holds
\* the struct fetched last, the one it waits with is the loop before it.
LooperInStep ==
  /\ input # NoStruct => Fetched > 0 /\ input = prog[Fetched]
  /\ state = "WAIT_FOR_BASE" =>
       LET i == IF input = NoStruct THEN Fetched ELSE Fetched - 1
       IN  i > 0 /\ prog[i].dir = "loop" /\ loop = prog[i].loop

\* What the call in progress has set up for the extractor.
CallInStep ==
  /\ pc \in Polls \cup {"cmd_hi", "cmd_lo", "size", "trig_hi", "trig_lo"} =>
       arg.n > 0 /\ given + arg.n <= Len(prog)
  /\ pc \in {"cmd_poll", "cmd_hi", "cmd_lo"} => arg.n = 1
  /\ pc \in {"trig_poll", "trig_hi"} => block.size = arg.n
  /\ pc \in {"cmd_lo", "trig_lo"} => block.size = arg.n /\ block.addr = 0

\* Registers, looper, block and call are in step.
ControlInv ==
  /\ TypeOK /\ InputFree /\ LoopOwesCommands
  /\ BlockNotRetriggered /\ BlockInRange /\ LooperInStep /\ CallInStep

\* Index of the last struct the looper has taken.
Taken == IF input = NoStruct THEN Fetched ELSE Fetched - 1

\* The commands of the first n structs.
Issues(n) == Len(Stream(SubSeq(prog, 1, n)))

\* The looper has issued the commands of the structs it has taken.  While
\* looping it is at command generated of the last of them: its counters are
\* the place of that command in the nest, its registers the command.
StreamInStep ==
  /\ state # "LOOPING" => issued = Issues(Taken)
  /\ state = "IDLE" => Taken = 0 \/ prog[Taken].dir = "dma"
  /\ state = "LOOPING" =>
       /\ Taken > 1
       /\ prog[Taken - 1].dir = "loop" /\ loop = prog[Taken - 1].loop
       /\ prog[Taken].dir = "dma" /\ base = prog[Taken].cmd
       /\ issued = Issues(Taken - 1) + generated
       /\ generated - 1 = (ctr.cluster * (loop.unit_len + 1) + ctr.unit) * (loop.inter_len + 1)
                            + ctr.inter
       /\ cur = LoopCommand(loop, base, generated - 1)

\* The inductive invariant behind all of the above.
IInv == ControlInv /\ StreamInStep

\* When everything is idle no struct has been lost or half expanded: all
\* the commands of the structs given so far have been issued.
NothingLost ==
  ~ FsmBusy /\ input = NoStruct =>
    issued = Len(Stream(SubSeq(prog, 1, given)))

SyncReturns == pc = "sync" /\ pc' = "idle"

\* What dma_wait_to_finish guarantees when it returns: the masked DMAs have
\* finished all that was sent to them, and of the stream at most the struct
\* in the looper's input register has not been sent.
SyncDrains ==
  [][SyncReturns =>
       /\ \A c \in syncMask : queue[c] = <<>>
       /\ LET stream == Stream(SubSeq(prog, 1, given))
          IN  issued < Len(stream) =>
                /\ input # NoStruct
                /\ state = "IDLE" => issued + 1 = Len(stream)]_vars

\* "Blocks until all DMA transactions in cluster are done" (vpro_aux.h):
\* no command given for a masked cluster is still to be issued when
\* dma_wait_to_finish returns.
SyncBlocksUntilDone ==
  [][SyncReturns =>
       LET stream == Stream(SubSeq(prog, 1, given))
       IN  \A k \in issued + 1 .. Len(stream) :
             stream[k].cluster \cap syncMask = {}]_vars

\* Every call returns: no poll of the FSM or of the masked DMAs spins for
\* ever, as the front end is clocked by the polls themselves.
CallsReturn == (pc # "idle") ~> (pc = "idle")
=============================================================================
