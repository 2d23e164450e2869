# V2PRO: TLA+ models, checks and proofs

This directory models V2PRO at two levels.  The control logic of the instruction
set simulator (`src/iss_lib`): the path a DMA command takes from the program on
the RISC-V core, through the looper and the block extractor, to the DMAs of the
clusters, and from there through the DCMA cache to the main memory; and the path
of a vector command through the queue of a vector unit and its chained lanes.
And the network compiler and runtime of `src/apps/yololite` above it: how a layer
is cut into segments, translated to a command list, rewritten by the compiler's
passes, and executed by the runtime with double buffering.  Arithmetic is
abstracted to terms; the user interface is left out.

Contents: [parts](#the-system), [plan](#plan), [modules](#modules),
[runs](#runs), [proofs](#proofs), [findings](#findings), [limits](#what-is-not-shown).

## The system

The simulator executes a RISC program natively.  Hardware time advances only
while the program accesses an io register (`ISS::io_read` / `ISS::io_write`),
waits for room in a queue or calls a wait function.  A clock tick runs, in this
order, every cluster (its DMA, then its vector units), the DCMA, and the main
memory (`simSim.cpp`, `clk_tick`).  Ticks of the RISC clock run the looper and
then the block extractor.  Nothing else is concurrent, so every hazard below is
about the *order of ticks, polls and register writes*, not about threads (the
thread per cluster, `THREAD_CLUSTER`, is compiled out).

| part | state | operations | talks to |
|---|---|---|---|
| Looper (`DMALooper`) | FSM state, busy flag, input register, loop description, base command, current addresses and masks, three counters | `new_dcache_input`, `tick` | receives structs from the extractor, sends commands to the clusters' DMA queues |
| Block extractor (`DMABlockExtractor`) | size, address, busy | `newSize`, `newAddrTrigger`, `tick` | reads the command memory, pushes to the looper when that is not busy |
| io registers (`ISS.cpp`) and calls (`iss_aux.cpp`) | sync mask, the access in progress | polls and writes of `dma_*`, `dcma_*`, `vpro_*` calls | looper, extractor, DMA busy flags, DCMA |
| DMA engine (`DMA`) | command queue, row and padding counters | `execute_cmd`, `tick` | requests words from the DCMA, reads and writes local memories |
| DCMA (`DCMA`, `Cache`, `Bram`) | tags, valid and dirty flags, brams, FIFO pointers, transfer on the bus, flush counters, requests of the DMAs, round-robin pointer | request, poll, read, write, `tick`, `flush`, `reset` | DMAs, main memory |
| Main memory (`NonBlockingMainMemory`) | contents, transfers with latency | `requestRead/WriteTransfer`, `tick` | DCMA |
| Vector unit (`VectorUnit`) | queue of vector commands | `trySendCMD`, `getNextCommandForLane`, `tick`, `update`, `isBusy` | the program, the lanes |
| Vector lane (`VectorLane`, `PipeObject`, `HFIFO`) | current command and element, ten pipeline stages, chaining FIFO of two entries, blocking flag | `tick`, `update`, `fetchCMD`, `processCMD` | neighbouring lanes, the load/store lane |
| Segmentation (`netgen/Base`, `Layer_Conv`, `Layer_Elwise`, `Layer_Concat`, `Layer_Pooling`, `Layer_Depth_To_Space`) | segment geometry, list of segments, one per lane and step | `setSegmentDimensions`, `generateSegments` | gives segments to the command generation |
| Command generation (`generateCommands`) | load, compute and store buffer, command list | `load`, `compute`, `store` | the passes |
| Passes (`netgen/DMACommandExtensions`) | the command list | `DmaMerger`, `DmaBlockExtension`, `DmaStoreSpliiter`, `DmaLoopExtension` | each rewrites the list of the one before; loops are read by the looper |
| Runtime (`calcLayer`) | position in the command list | trigger a block, issue a kernel, synchronise | block extractor, vector units |
| Inference loop (`runtime.cpp`, `calcCnn`) | position in the execution list | wait for an image, reset the DCMA, run the layers, flush, announce | the host through five registers and the main memory, DCMA, `calcLayer` |
| Kernels (`runtime/kernels`) | local memories, register files | convolution, elementwise, concatenation, pooling, depth to space, activation, store | run in the vector units on what the DMAs loaded |

The full list, with what is modelled of each part, is `components` in
`PROJECT.json`.

What is hard about each part, and the properties that make it correct:

* **Looper and extractor.** They share a one-entry register without a full
  flag that the sender checks; only the order of the two ticks and the busy flag
  protect it.  Correct means: no struct overwritten, lost or duplicated; a loop
  stands for exactly the commands of its nest, cut at `dma_cmd_count`; the
  command stream comes out in program order.
* **Program and registers.** Every write is preceded by a poll, and time passes
  between the two.  Correct means: what the poll saw still holds at the write;
  a block is never retriggered while it is fetched; a sync returns only when the
  DMAs are done; polls end.
* **DCMA.** Evictions, uploads, downloads, a flush that interrupts either, a
  reset, and DMAs that go on reading and writing in between.  Correct means: the
  DMAs see one memory; a flush leaves the main memory up to date; flushes end
  and requests are served.
* **DMA engine.** A walk over rows with a leap between them keeps five counters
  in step, cuts its bursts at the padding and at the end of a row, and shares
  one set of padding registers between all queued commands.  Correct means:
  every word of every block is copied once, to its place, in command order, and
  a busy DMA finishes.
* **Vector unit and lanes.** Lanes pass results to each other through FIFOs of two
  entries; each of them stalls for an address, for data or for room, and what
  it does meanwhile depends on the stage it waits in.  Lanes share one queue and
  fetch in an order of their own.  Correct means: every lane computes every
  element once, in order, from the results the program means; nothing is read
  that is not there or pushed where there is no room; lanes do not wait for each
  other for ever; a sync of the program waits for all of it.
* **Compiler.** A layer's shape, its padding and its hardware decide about
  segments that share loads, about addresses, and about what each lane does in
  each step; four passes then sort, join, group and move the commands of a list
  that only synchronisations keep in order.  Correct means: the list computes the
  layer before and after every pass; nothing crosses a synchronisation that
  others depend on; a block counts exactly its structs; a loop unrolls in the looper
  to what it replaced; the assertions in the code hold.
* **Runtime.** Blocks and kernels are started and not awaited until the next
  synchronisation.  Correct means: a buffer is not computed on before its loads are
  done nor overwritten while it is used; a synchronisation leaves nothing behind; the
  output is the layer's in every order of the hardware; the list comes to its end.

* **Inference loop.** The host writes the next image and reads the last result while
  layers run, and it sees the main memory where the RISC-V sees the cache.  Correct
  means: neither works on what the other uses; every image comes back once, in order
  and from that image alone; nobody waits for ever, and a stop ends every wait.

## Plan

1. `DmaCommandStream` (abstract), `DmaFrontEnd` (looper, extractor, io calls),
   proof that the invariant holds and that loops and blocks are in step. *Done.*
2. `WriteBackMemory` (abstract), `DcmaCache`, proofs of coherence, of the
   refinement and of the flush. *Done.*
3. `BlockCopy` (abstract), `DmaEngine`: rows, leaps, padding, word by word
   transfers; the command queue of a DMA and its busy flag; proofs of the
   invariant and of the refinement. *Done.*
4. `ChainProgram`, `Dataflow` (abstract), `VectorUnit`: the command queue of a
   vector unit, the fetch, blocking, and the lanes with their stalls and FIFOs in
   one module, because the fetch and the stalls depend on each other; proofs of
   the types, of the room in the FIFOs, of the operands, of the order of elements, of
   the sync and of the refinement. *Done.*
5. `CommandList` and a module per pass, `LayerSegments`, `LayerCommands`,
   `LayerKernels`, composed in `CommandPasses`: from a layer to its list, checked
   against the layer's definition and the looper (`DmaLoop`). *Done.*
6. `LayerSpec` (abstract), `LayerExecution`: the runtime's double buffering on top of
   5, with the DMAs and units as queues; proofs about the synchronisations, the
   buffers and the refinement. *Done.*
7. `ImageStream` (abstract), `NetLayout`, `Inference`: the loop over images with the
   host on the other side, and the layout of a network in the memory; proofs of the
   handshake. *Done.*
8. Further proofs: `SharedTheorems` (recursion and folds without operator parameters);
   with it that `DmaFrontEnd` implements `DmaCommandStream` and `Inference`
   implements `ImageStream`; the ports and the downloads of `DcmaCache`; that `VectorUnit`
   implements `Dataflow`. *Done.*  Left: programs of 4 that change the readers of a
   FIFO after they have waited for the unit.
9. Further models, left: other layers of the compiler, the mode of the DCMA
   without a cache.

## Modules

Constants are parameters with named assumptions; a `...MC` module gives them
values for TLC; a `..._proofs` module holds the theorems.

### DmaLoop, DmaCommandStream (abstract)

`DmaLoop` defines commands, loops and what they stand for, for the simulator and the
compiler alike: `Stream` gives the commands of a sequence of structs.  A direct
struct is one command, a loop description and its base command
are a nest of three loops, innermost inside a unit, then over units, then over
clusters, cut at `dma_cmd_count`.  Main memory addresses advance by `mm_incr`
with every command; local addresses restart in every unit.  Registers have
their width: masks lose shifted-out bits, addresses wrap, the 13-bit increment
is sign-extended.

In `DmaCommandStream` a program owns a command memory `prog` of structs and hands
over a growing prefix (`given`).  `Issue` sends the next command of the stream to every cluster
of its mask, `Bypass` is a command of the DMA registers, `Finish` a DMA.

### DmaFrontEnd

| definition | code |
|---|---|
| `LoopIteration`, `AcceptBase`, `AcceptLoop`, `PassDirect`, `LooperIdle` | the paths of `DMALooper::tick` |
| `NextIteration`, `AtLoopEnd`, `FsmError` | counters, end of a loop, the "fsm error" branch |
| `BlockTick` | `DMABlockExtractor::tick`, after the looper in the same cycle; the struct it pushes is the new `input` |
| `RiscTick`, `OtherTick` | RISC cycles inside an io access, and of other work |
| `Call...`, `Poll...`, `Write...` | the accesses of `dma_dcache_short_command`, `dma_block_size`, `dma_block_addr_trigger`, `dma_wait_to_finish`, and of the register commands |
| `DmaFinish` | a DMA finishes its oldest command, at any moment |

`pc` names the access in progress and `io` the RISC cycles before it takes
effect; an access that polls twice per round needs `2 * IoCycles`.  All command
structs of a program are in `prog`, struct *i* at address *i*, so that an address
identifies a struct and an address out of range is visible.

Assumed of the program (`ProgramAssumption`): a loop stands for at least two
commands and is followed by its base command.  The network compiler only emits
such loops; the looper itself, given a loop of one command or of length zero,
would send the base command, go on looping and then send a second command or
report "fsm error".

### WriteBackMemory (abstract)

Two arrays of lines: `cur`, what the DMAs see, and `mem`, what is in the main
memory.  A load returns `cur`, a store changes it, a line may be written back
at any time, and a reset drops what was not.

### DcmaCache

One cycle is a turn of every DMA, of the DCMA and of the main memory; io accesses
of the program happen between cycles.

| definition | code |
|---|---|
| `OpenRequest`, `PollLatency`, `PollNotReady`, `MoveWord` | the DMA's side: request, `isReadDataAvailable` / `isWriteDataReady`, `readData` / `writeData` |
| `StartMiss`, `NoMiss` | `DCMA::tick`: the round-robin pointer, `ReplaceLine` (free line first, then FIFO), upload of a dirty line or download |
| `BurstTick`, `BusWait` | `Cache::tick` without a flush |
| `FlushScan`, `FlushWait` | `Cache::tick` during a flush |
| `BusTick` | `NonBlockingMainMemory::tick` |
| `CallFlush`, `CallReset`, `PollBusy`, `WriteFlush`, `WriteReset` | `dcma_flush`, `dcma_reset` with their polls |

Modelled as the code has it, against what one may expect: a flush drops a
download in progress (it polls the write side, for which an unknown transfer
counts as done; the line stays invalid and the DMA misses again); flushed lines
stay dirty; the main memory takes the data of a write at its start and gives the
data of a read at its end; `burst_wait_counter` has no initialiser, so its first
value is a choice (`InitialBurst`).

`stored` is a history variable: a DMA has stored a word since the flush began.

### DmaBlock, BlockCopy (abstract)

`DmaBlock` is the geometry of a command: which words of its block are padding and
where the others lie in the external and the local memory, each computed from
column and row.  `BlockCopy` carries out commands one after the other, word by
word, by that geometry.  The padding registers may change only when nothing is
left to do.

### DmaEngine

| definition | code |
|---|---|
| `Pops`, `Cmd`, `Iter`, `TakeCommand` | `DMA::tick` takes the next command when done and the DCMA is not busy |
| `PadElement`, `RequestRow` | a tick without a request: a word of padding, or a request for the rest of the row |
| `MoveWord`, `PollNotReady` | a round of the polling loop, up to `PortWords` of them in a tick (`DCMA_DATA_WIDTH / DMA_DATA_WIDTH`) |
| `InPadding`, `BurstLength`, `Increment`, `WriteLocal` | `is_padding_region`, the length of a request, `increment_iteration`, `write_to_LM` |
| `ExecuteCmd`, `Busy`, `SetPads` | `execute_cmd`, `isBusy`, the padding registers of `DMA::io_write` |

Two positions exist at once: `increment_iteration` moves `it.x`, `it.y` and `it.ext` past the
row as soon as it is requested, while `it.loc` and the counters follow the
words.  `Column` and `Row` give the word that is moved next, and the refinement
mapping is made of them.  The DCMA is an external memory that answers each poll
with ready or not; `DcmaCache` shows that it is one.  Addresses count words of 16 bits.

Assumed of the program (`CommandAssumption`): a block with its padding fits into the
counters and memories, its padding is not wider than the block, and its leap is not
negative (`bif.h:224` makes it a `uint16_t`).  The padding registers are
written when the DMA is not busy: the runtime does so at the start of a layer
and, for deformable convolutions, after a synchronisation.

### ChainProgram, Dataflow (abstract)

`ChainProgram` holds the commands of a program and what chaining means: the *i*-th
element that reads lane *s* gets the *i*-th result that *s* chains (`Feeders`).
`Dataflow` is the promise of a vector unit: lanes finish their elements in
order, each after the results it is computed from, any number of lanes in a
step.

### VectorUnit

One step `Clock` is a cycle: all lanes tick, then all update (`VectorUnit::tick`,
`update`).  Between cycles the program gives commands and polls.

| definition | code |
|---|---|
| `SrcStall`, `DstStall`, `AdrStall` | `check_src_lane_stall`, `check_dst_lane_stall`, `check_adr_lane_stall`; from the state before the cycle, since FIFOs change in the update and each lane looks at its own pipeline |
| `RunsAll`, `RunsFromOffset`, `RunsFromData`, `Moved`, `Output` | the branches of `VectorLane::tick` with `process`, `processInStall` and the stages they run |
| `TakesOffsets`, `TakesData`, `Popped`, `Pushes`, `NewFifo` | stages 3, 4, 8 and 9 of `tick_pipeline`; `HFIFO::pop`, `push`, `update` |
| `After`, `Eligible`, `Fetches`, `FetchedQueue` | `processCMD`, `fetchCMD`, `getNextCommandForLane`: lanes update one after the other and see the flags of those before them |
| `Busy`, `QueueFull`, `WriteMask`, `Poll`, `Issue` | `isBusy`, `isCmdQueueFull`, `vpro_wait_busy`, `run_vpro_instruction` |

An element is a command and its number in it; a pipeline slot holds an element and
the elements whose results it has read, so that a wrong operand is visible.
`pop` by two lanes in a cycle takes one result out of the FIFO and gives it to
both, as the flag `poping` of `HFIFO` does; a `pop` of an empty FIFO throws (`thrown`).
`done` counts what each lane has put out.

Modelled as the code has it, against what one may expect: the check of the second source
overwrites that of the first; a lane that waits for an address shifts the last stage
without running it; a lane that waits for address and data does nothing at
all; the queue takes one command more than its size.  See [findings](#findings).

Assumed of the program (`ProgramAssumption`): the forms of commands that
`VPRO_3D.h` gives, no mix of address and data from one side
(`check_indirect_addressing` ends the simulation).  Left out: other ALU depths than 3
(only the constructor of a command sets its `pipelineALUDepth`), chains between two units, and the
two cycles after the start in which the lanes replace their first empty command.

### LayerSegments, LayerCases

A layer is a record: its kind, the hardware, its inputs and their places in the main
memory, kernel, stride, padding mode, pooling, groups.  `Segmentations` are the
geometries the code may choose for it; which one its heuristic takes does not
matter to correctness, so all that fit are checked.  `GenerateSegments` is
`Layer::generateSegments` and its variant for concatenations: blocks of segments by
position or by channel, sets of one segment per lane that `Compatible` allows to run
together, dummies for lanes without work, and the repetition over input channels.  `SquareSets` is the
variant of depth to space: every cluster moves squares of 2x2 words of the four channels
that become one.  Its input address (`SquareInput`) takes rows and channels to be as long as
the layer, `in_dim.x`, though it strides over them by `mm.x`: right for inputs that lie
without gaps, which is the only layout checked.
`LayerCases` holds the layers that are checked, on scaled down hardware.

### LayerCommands, LayerKernels

| definition | code |
|---|---|
| `DataLoad`, `KernelLoad`, `BiasLoad`, `Load`, `StartBroadcastLoad`, `JoinUnits` | the loads of a set of segments; a load for several units of a cluster is joined into one |
| `Compute`, `ConvVpro`, `ShiftStore`, `PostProcess`, `StoreBuffer` | the kernels of a set |
| `Store` | the stores of its results |
| `DoubleBuffered`, `OneByOne`, `Squares` | the frames of `generateCommands`: load the next set while one computes, and the plain ones of concatenations and of depth to space |
| `LoadUnit`, `Stored`, `RunVpro` | what the commands do to local memory and register files, with padding, strides and broadcasts |
| `VproReads`, `VproWrites` | the words of the local memory a kernel touches |
| `Output` | the layer's definition, from its kind and its parameters only |

Values are terms.  A word of the main memory is its address, a product sum is the
set of its factor pairs on top of the sum before it; two results are equal only when they
are computed from the same words.

### CommandList, DmaMerger, DmaBlockExtension, DmaStoreSplitter, DmaLoopExtension

One module for each pass of `Layer::compressCommands`, as functions on lists.  A
`COMMAND_SEGMENT` is a union and the passes read DMA fields of segments that hold
something else; `Vpro` gives a VPRO command the values its bytes have there.

Modelled as the code has it, against what one may expect: the merger's sort does not
include the last command of a run (`CloseRun`); the
store splitter looks only at the first command of a block to tell whether it stores
(`ContainsStore`), and its sort by address within a cluster works on a copy and has no effect; the loop pass keeps a
candidate whose check (`Verified`) fails as single commands.  Equal
synchronisations next to each other collapse in the merger, since it compares bytes.

### CommandPasses

Generation and the passes one after the other: `Generate`, `MergeIds`, `Extend`,
`MergeMasks`, `Split`, `Loops`, each optional one switched on or off (`config`).  The
order is the code's: merger, blocks, merger, store splitter, loops.  Segments
with elements to skip at the end of a line need the merger (`Needs`).  `Result` runs a
list command by command; `Effects` says what each phase loads, computes and stores.

### LayerSpec (abstract), LayerExecution

`LayerSpec` promises: words of the output appear in any order and with no other
value than the layer defines; when the layer is done all of them are there.

| definition | code |
|---|---|
| `TriggerBlock`, `IssueDma`, `IssueVpro`, `Synchronise` | the branches of `calcLayer`; a single command comes from lists that are not compressed |
| `BehindBlock` | `seg_cnt` skips the structs of a block |
| `Drained` | `vpro_dma_sync`, `vpro_lane_sync`, `vpro_sync` |
| `SendNext` | extractor and looper send a command to the clusters of its mask |
| `RunDma`, `RunUnit` | a DMA, a vector unit execute the head of their queues |

It stands on the models of the simulator: a DMA carries out a command as a whole
(`DmaEngine` implements `BlockCopy`), the looper sends the commands of the
stream (`SSpec`), a unit computes its program (`FlowSpec`).  That the head of a queue
is executed in one step loses nothing because commands that wait at the
same time touch different words, `NoBufferConflict`.  One thing is not carried over:
`Synchronise` waits for extractor and looper completely, so the struct in the input
register of the finding `front_end_sync` is not seen here.  A queue that is full only
delays the program and is left out.

What a list means is defined next to it, with no queues: `InOrder` executes segment after
segment and gives the units behind each (`UnitStates`: behind each command of a
block).  A list `ComputesInOrder` if every store then writes values of `Output` only, every
word of the output is stored, and the list ends with a synchronisation that waits for the
DMAs; it `UsesLocalMemory` if its commands read and write words of the local memory.
`InOrderAssumption` asks both of every program.  It is about lists only, not about the
execution: it is what `layer_passes` checks of the compiler (`ComputesLayer`), a little
stronger in that no word is stored with another value first, and TLC evaluates it for the
lists of `layer_execution`.

### ImageStream (abstract), NetLayout, Inference

`NetLayout` is what the compiler decides about a network as a whole: the execution
list, the places of the outputs in the main memory, one after the other and aligned,
and the two layers whose hooks talk to the host.  A reshape or a slice has no place of
its own: it is a piece of the output of its source, `offset` cells behind its begin.  `ImageStream` is what the host is
promised: results in the order of the images, at most three images on the way (one
written, one computed, one read).

| definition | code |
|---|---|
| `TestLoop`, `TakeInput`, `ResetCache`, `Announce` | the loop of `main`; compiled with `run_only_one_iteration` (`once`) it runs once, without the test |
| `PreLayer`, `ClaimOutput`, `PostLayer` | `pre_layer_hook` and `post_layer_hook` with the step to the next layer in `calcCnn` |
| `Compute`, `Evict`, `FlushLine` | `calcLayer` as the host may see it: cells are read and written in lines of the cache, a line may be written back at any time, a flush writes the rest |
| `StartImage` ... `TakeResult`, `Stop` | the host (ARM), external: the protocol in the comment of `main`; both ends work at the same time, and it may stop the board at any moment |

A cell holds the number of the image it was computed from.  That `calcLayer` computes
the layer is the claim of `LayerExecution`, that the cache is a memory with lines that
are written back whole the one of `DcmaCache`; here they are steps.  Of the host
it is assumed that it keeps the protocol and touches nothing after a stop.
`NetAssumption` is what `generateNet` warns about (some layer reads an input and some
layer writes a result) and what the compiler builds: a layer reads layers before
it, and a reshape or a slice lies in its one source.

## Runs

| run | question | bounds, and why they are enough |
|---|---|---|
| `front_end` | Is any struct lost, overwritten, fetched out of its block or expanded wrongly? What does a returned sync mean? Are the commands those of the abstract stream, in order? Do calls return? | Programs with every kind of loop: full nest, cut by count, negative shift, wrapping increment, direct commands between. 3 RISC cycles per access, so a poll and a write straddle every phase of the looper; one register command. Masks of 3 bits, addresses of 4 bits, increments of 3 bits: shifting out, wrapping and sign all happen. `SSpec` is a refinement, `CallsReturn` is checked under fairness. |
| `front_end_sync` | Does `dma_wait_to_finish` keep what `vpro_aux.h` says? | Violated, see [findings](#findings). |
| `dcma` | Coherence with evictions, and flush or reset in the middle of anything; do flushes end and are requests served? | Two DMAs, two ways and three blocks, so that every third block evicts; two values distinguish old from new. One set, lines of one word and short transfers on the bus: that coherence, refinement and flush hold for every number of sets, line and latency is proved, see [proofs](#proofs). |
| `dcma_burst` | Does a fetch end with its block in the line? | Violated, see [findings](#findings). |
| `dma_engine` | Are commands carried out as block copies, and completed? | Three commands in a row of five kinds: loads with padding on all sides, on two and none, with and without a leap, to one and to two units, stores of a row and of a block. Three padding configurations, among them empty rows and rows of padding only. Two polls a tick, so that a request begins and ends in any place of a tick. |
| `vector_unit` | Does the unit compute its programs, and come to their ends? | Two processing lanes and the load/store lane, FIFOs of 2 as in the code. All pairs of six pieces kernels are made of (load to both lanes, store, lane to lane, computed addresses, load-compute-store, blocking), the scatters of `apps/indirect_addressing`, a lane that waits for an address and data at once, and a command longer than the pipeline. Three elements fill a FIFO and one stage, twelve the pipeline; a queue limit of 1 (32 in the code) makes the program wait. |
| `vector_unit_offset_stall`, `vector_unit_two_sources` | Do the lanes keep what comments of the code say? | Violated, see [findings](#findings). |
| `layer_passes` | Does the list compute the layer after generation and after every pass? Does a pass change the effect of a phase? Are phases free of races, blocks counted exactly, and do the assertions hold? | Fifteen layers, each in every segmentation that fits, and every configuration of the passes (none for depth to space, whose `compressCommands` is empty), up to `MaxCommands` = 60 commands. Hardware of 1 or 2 clusters, 1 or 2 units, 2 lanes; a quarter of the local memory holds two register files, as in the hardware. The layers need several sets (so both buffers are used again), dummies, padding on all sides and of more than a row, stride with pooling, groups, lines with words to skip, broadcasts of an input, shifted concatenations, max pooling with padding, a square for one cluster only (depth to space), and runs of transfers that are loops or almost. |
| `layer_execution` | Does the runtime compute the layer whatever DMAs and units do when? | Nine of these layers in their coarsest segmentation, with all passes and with the blocks only; the list of depth to space has no blocks, its commands are handed over one by one. Every interleaving of the program, the looper, two DMAs and two units. |
| `inference` | Do host and RISC-V keep out of each other's way, does every image come back unmixed and in order, does everybody get on? | Three networks: a chain, a skip connection through a slice, two results. Three images, so that one is written, one computed and one read at once; lines of four cells and outputs of one and two, so that results share lines with other layers; both values of `run_only_one_iteration`; a stop at any moment. `IInv` is the inductive invariant of the proofs; the networks meet its condition `OwnLines`, so it speaks of the cells too. |
| `inference_shared_line` | Does the host's next image stay as written? | Violated, see [findings](#findings). |

The pairs of `vector_unit` keep a rule that the code needs and nothing enforces:
between two waits a FIFO keeps its readers, and two readers of one FIFO get
no work of their own (`Disciplined`); other pairs are separated by a wait, as
the runtime does.  Without it readers get out of step and take each other's
results.  No program of the run makes a processing lane wait for an address while an
element enters its last stage, or takes data from two lanes: the runs
that are violated show what happens then.

Every bound is a constant: `MaxRegister` and `MaxCalls` cap what a program
calls, `MaxCommands` what a DMA is given, and in `CommandPassesMC` the length of a list; `Programs`,
`Requests`, `Commands` and `Layers` are finite sets.  Deadlock checking is off in
`layer_passes`, `layer_execution` and `inference` only, which stop when the last pass is done,
the layer executed and the program ended (`Completes` and `HandshakeProgress` say that the latter do not stop earlier), and
in `vector_unit_two_sources`, where an exception ends the simulation.

Fairness.  `DmaFrontEnd`: `WF(RiscTick)` and `WF(InCall)` say that a call that
has begun goes on, which is the program's own loop; `WF(DmaFinish(c))` says that a DMA
finishes its command, which `runUntilRiscReadyForCmd` provides by clocking the
clusters inside every access (that a command ends is the DCMA's `RequestsServed`).
No fairness is put on calls.  `DcmaCache`: `WF(Cycle)` only, the clock runs; the
turn decides what a cycle does, so no choice of the scheduler is assumed fair.
`VectorUnit`: `WF(Clock)`, the clock runs, and `WF` of the program's accesses, which
execute one after the other; a poll that sees the unit busy is repeated.
`DmaEngine`: `WF(PadElement \/ RequestRow)`, the clock runs, and
`WF(MoveWord)`, the DCMA serves a request (`RequestsServed`).
`LayerExecution`: `WF(Next)`, something happens as long as something can; program and
hardware share one clock, and no queue needs more, because every list is
finite.  `Inference`: `WF(RiscV)`, and `WF` of each end of the host once it has begun an image or
a result; an eviction, a new image or a stop is never forced.  `CommandPasses` has no fairness.

`RequestsServed` depends on the geometry.  It holds for two DMAs and two ways; it fails
with fewer ways than DMAs that compete for a set (a direct-mapped cache and two
DMAs, two ways and three DMAs): a line is evicted again before the DMA that
asked for it polls, and since both sides are periodic this may repeat for ever.
The library's default is 4 ways (`CONF_DCMA_ASSOCIATIVITY`), `apps/yololite`
sets 8 clusters and 8 ways: the guarantee is tight there, and is not given when
its 8 clusters are built with the default of 4 ways (`runtime/Makefile`).

## Proofs

Checked by TLAPS for all values of the constants that meet the assumptions.

`SharedTheorems`.  The induction theorems of the library take an operator, which no
prover here instantiates; these lemmas do without.  `LeastElement` and `AllNumbers` are
induction over *sets* of numbers, `Iterates` says that a step given as a function can be
iterated, and `Recursion` that a recursive function definition has the solution it
describes (`Solves`).  From them come the recursions of `NetLayout` and what
`FlattenSeq` computes: its length, and which element lies where.

`DmaFrontEnd_proofs`.  `IInv` is inductive.  Its first half, `ControlInv`: the types, and
that the input register is free while looping, the looper owes commands, a block is not
retriggered and ends where it should, plus the two facts these need:
`LooperInStep` (which struct is in the input register or awaited as a base) and
`CallInStep` (what the call in progress has already written).  Without
`LooperInStep` a direct command could follow a loop description, and without
`CallInStep` the trigger could start a block of any size.  Its second half,
`StreamInStep`, ties the looper to the stream: outside a loop it has issued
the commands of the structs it has taken, and in a loop its three counters are the
digits of the number of the command, and its addresses and masks that command's
(`LoopCommand`).  The proof is mixed-radix arithmetic for the counters, the
same recurrence for masks and addresses, and how `Stream` grows by a
struct.  `ImplementsStream` (every step issues the next command of the stream or
stutters), `NothingIsLost` and `SyncDrainsQueues` follow.  Assumptions:
`MaskAssumption`, `WidthAssumption`, `IoAssumption`, `ProgramAssumption`.

`DcmaCache_proofs`.  `TypeOK` holds whatever `burst_wait_counter` starts with.
`CacheInv`, the refinement `MemorySpec` and `FlushCleans` hold if it starts at zero
(`burst = 0 /\ Spec`).  `CacheInv` is inductive:
a block is in one line at most, clean lines agree with the main memory, a line
being fetched is invisible (`FetchIsolated`), the phase of the bus transfer
matches the flags (`BusInStep`), and the lines a flush has passed are written back
(`FlushPassed`).  The refinement maps `cur` to `Current`, the lookup of the
cache with the main memory behind it: a step changes at most one of what is
seen and what is stored, word by word or block by block.  The flush follows
because its last step finds all lines passed.  The arithmetic of addresses (tag,
set, line, offset) is proved for every geometry, also for those that are not
powers of two.  `DownloadsComplete` (`DownloadFinished`) needs `burst = 0` too, and run
`dcma_burst` shows why.  `BramPortSafety` does not: a DMA gets a word only while the port
it would use has room, and only the clock empties the ports.

`DmaEngine_proofs`.  `EngineInv` is inductive; its core is `InStep`: local address,
external address, counters and request as functions of column and row, also in the
padding.  The proof has a lemma for each way the walk goes on (`PadWalk`,
`RequestWalk`, `MoveWalk`), which are integer arithmetic about one block, then one
lemma per action for the invariant and one for the refinement `CopySpec`: a request
is a stutter, a word of padding or of a request is `Move`.  Assumptions:
`EngineAssumption`, `CommandAssumption`.

`VectorUnit_proofs`.  `UnitInv` is inductive: the types, that a lane only has
elements of commands for it (`OwnCommands`), and that while the FIFO of the load/store
lane is full its output stage holds the load that filled it (`FullIsSeen`).
The last is why `ResultsFit` holds in that lane: its stall is decided by a stage that has
pushed already, and only because a full FIFO freezes the lane does the stage
still show it.  `OperandsThere` has the hypothesis `OneDataSource`, and
`vector_unit_two_sources` shows that it is needed.  Assumptions:
`ProgramAssumption`, `SizeAssumption`.

`VectorUnitFlow_proofs`.  What the lanes compute, from the same assumptions and in four
steps, each with an inductive invariant on top of the one before.
* *Order* (`LanesKeepOrder`).  `OrderInv`: the queue holds consecutive commands up to the
  last one given (`QueueInOrder`), and there is a numbering of the places of each lane, from
  what it has been given to what it has put out, that drops by one at every element
  and gives each its position in the program.  `ElementsInOrder` counts elements, so
  it is not inductive; the numbering shifts with the stages.  The hypothesis `NothingDropped`
  (a stall for an address finds no element before the last stage) is what
  `vector_unit_offset_stall` lacks; it is invariant when no processing command takes an
  address from another lane (`LanesKeepOrderOf`).
* *Sync* (`WaitFindsAllDone`).  `IdleInv`: a lane blocks only with a blocking command in it,
  a queue that a cycle leaves behind waits for a lane that works, and what the busy flag
  does not look at (the current elements) is empty when the rest is.  Between the write of the
  mask and the first poll a cycle passes, which is what makes the last part true.
* *Operands* (`OperandsAreMeant`, `ImplementsDataflow`).  `FlowInv`: the FIFO of a lane holds the
  results it has chained and its readers have not taken, and a slot that has read its
  operands has the results meant for it.  Hypotheses: the lanes that read a FIFO are the same in
  every command that reads it, all for data or all for addresses (`FixedReaders`); they take from
  it in the same cycle (`TakenTogether`); `OneDataSource`; `NothingDropped`.  Then every
  cycle is a step of `Dataflow`.
* *Lanes in step* (`ReadersStayTogether`, `ChainsAreExact`).  `TakenTogether` follows if two readers of
  one FIFO are given the same work (`ReadersInStep`): in every command they may still have in
  the unit then, that is, since the program last waited, both work or none does, with
  the same sources, no chaining and no blocking.  `RecentInv` says that the unit holds
  commands since the last wait only, in order along each lane; `TwinInv`, that the front
  stages of two such lanes hold the same elements and the front of the queue is for
  both or for neither.  Further back they may differ: a lane that waits for an
  address and for data at once stops stages that in the other move on.

`ChainsAreExact` has conditions on the programs only.  Of the 41 programs of
`vector_unit`, 31 have fixed readers, 30 of them in step, and 26 meet all
conditions, broadcasts of a load to both lanes among them.  The others stay with TLC:
four have a processing lane that takes an address, in one the readers of a FIFO have
different work besides, and ten change the readers of a FIFO after a wait.

`LayerExecution_proofs`.  `ExecInv` is inductive: the list is as the compiler makes it
(`GoodList`), the queues hold commands of the list (`QueuesOK`), and
`NothingOutlivesSync`, which is its core: what waits was handed over behind the
last synchronisation that waits for it.  The step that goes past a
synchronisation is the one that matters: it finds the queues empty; the step that
triggers a block needs that its structs hold no synchronisation, since it
jumps over them.  `DoubleBufferingSafe` follows: two commands that wait at the same
time have no synchronisation between them that orders them, and the list has no
conflict between such commands.  Without `NothingOutlivesSync` this does not
follow from the queues alone.  Assumption: `ProgramsAssumption`, which
states of lists what `layer_passes` checks of the compiler's (`BlocksExact`,
`PhasesRaceFree`); TLC evaluates it for the lists of `layer_execution`.
`ExecutionImplementsLayer` is the refinement: the execution implements `LayerSpec`.  `FlowInv` is inductive on
top of `ExecInv`: for some number of segments done in order, each unit gets to
the state that these give it when it executes all that waits, its own
commands first, then those of its DMA, then those of the block (`Flows`); what has been
written agrees with `Output`; and a word that is missing is stored by a command that waits or by
a later segment (`Covered`).  The order in `Flows` is a choice, the hardware has none, so each step
has to be shown to keep it.  A VPRO command is issued behind transfers that wait and
runs before them; a DMA runs before VPRO commands that wait in front of it.  Both
hold because a transfer and a VPRO command that do not conflict commute
(`TransferCommutes`), and they do not conflict by `NoBufferConflict`.  That is where the
frames of the kernels are needed (`VproFrame`): a VPRO command computes the same in two units
that differ only in words outside `VproReads`, and writes no word outside `VproWrites`,
for every kernel but the multiplication, which no modelled layer uses; for the convolution, which is a
fold over the pixels, from the existence of what the fold describes (`ConvPrefixesExist`).  When
`calcLayer` returns nothing waits (`NothingOutlivesSync`, at the last
synchronisation) and no segment is left, so `Covered` says that all is written.
`NoBufferConflict` is thus not only true but what makes the layer right.  Assumptions: these and
`InOrderAssumption`.

`Inference_proofs`.  `HandshakeInv` is inductive: while the host runs, the input has one
owner among `arm_input_ready`, `rv_input_parsed`, the host's writer and the RISC-V
(`NeedsInput`), and the results likewise.  The two layers with flags are what the proof is
about: after the last reader no layer ahead reads the input, and before the first
producer none wrote a result.  `NoRace` follows.
`IInv` adds `DataInv`, what is in the cells: the input is the image handed over for as
long as a layer needs it, in memory and cache; what has been computed is of the image taken
last; results announced stay until the host has read them; lines that are not dirty
agree with the memory.  It is inductive for networks with `OwnLines` only: no line of
the DCMA holds cells of the input and of a layer that computes, and results are
computed.  This is what the compiler does not see to (run
`inference_shared_line`), so it is a hypothesis of `InputStaysIntact` and
`ImplementsStream`, not an assumption.  Nothing is asked of lines shared by other outputs.
The step that computes a cell needs the layout: outputs of
layers that compute do not overlap, a reshape or slice lies in the output of a layer
before it, and a source is either of an input, and then the layer counts as a reader
(`is_transient_input_layer`), or computed earlier (`SourceCells`).  These lemmas follow
from the recursions of `End` and `Base` for every network.
Assumptions: `NetAssumption`, `LayoutAssumption`.

The theorems are listed under `theorems` in `PROJECT.json`.

Only model-checked: all liveness (`CallsReturn`, `FlushEnds`,
`RequestsServed`, `CommandsComplete`, `Finishes`, `Completes`, `HandshakeProgress`), which the
prover does not do; `OperandsMatch`, `ElementsInOrder`, `SyncWaits` and `FlowSpec` for programs
outside the hypotheses of `VectorUnitFlow_proofs`; and the properties of `CommandPasses`: what
a pass or a generator computes for every list is an induction over the list, with folds that the
provers cannot unfold.  What they make sure of is what `LayerExecution` assumes of a list.

## Findings

* `front_end_sync`: `vpro_aux.h` says of `dma_wait_to_finish` that it blocks until all
  DMA transactions in the cluster are done.  The register it polls shows the busy flags of
  looper, extractor and DMAs; a struct in the looper's input register sets none
  of them.  When the last struct of a block has just been pushed, is a direct
  command for a masked cluster, and that cluster's earlier commands are done, the sync
  returns with the command still to be issued.  `SyncDrains` (run `front_end`)
  says exactly how much can be missing: the struct in the input register.
* `dcma_burst`: `Cache::burst_wait_counter` is read before anything writes it.  If the
  memory held a value other than zero, the first fetch counts it down and ends
  as if downloaded, and the line becomes valid with what the brams held.

* `vector_unit_offset_stall`: a lane that waits for an address shifts its stages 3 to 9 but runs
  them to stage 8 only (`VectorLane.cpp:212-213`; the branch for data runs to 9).
  The element that enters stage 9 in such a cycle is neither written to the
  register file nor pushed, although `Pipeline.cpp:729` says the later half is processed.  The
  kernel of `pointpillars_kernel.h` has seven idle elements before its scatter,
  which hides it.
* `vector_unit_two_sources`: `check_src_lane_stall` keeps the result of its check for `src2`
  only.  With both sources chained the lane runs although the first FIFO is
  empty, and `deque::at(0)` throws.

* `inference_shared_line`: outputs are aligned to 16 bytes, lines of the DCMA are larger.  An
  input that does not fill its last line shares it with the output behind it; the layer that
  writes this output makes the line dirty, and when it is written back after
  `rv_input_parsed` it takes the old image with it, over what the host has written of the next.
  `runtime.cpp:71` allows the host to write from there on.  Run `inference` has inputs that fill their lines, and
  shows that lines shared by other outputs, results among them, do no harm.

## What is not shown

* Arithmetic: the lanes of `VectorUnit` compute nothing, the kernels of `LayerKernels` compute terms.
  Rounding, saturation, fixed-point shifts and activations other than ReLU are not modelled, nor
  are the nops that bridge the pipeline between kernels.
* Layers: transposed and deformable convolutions, average and global pooling, one-dimensional
  convolutions, PointPillars, upsampling, dilation, padding by zero points (`pre_zp`), convolutions without bias, the
  fixed block size of output channels and the option `pool_after_activation`.
* Passes: `DmaClusterMixer` and the interleaver, two options that are deprecated and off.
* `sim_stop`, which waits for the clusters only and not for looper, extractor or DCMA.
* In the cycle between the fetch of a command and its first stage a vector unit says it is not busy;
  `vpro_wait_busy` does not meet the gap (`SyncWaits`), `sim_stop`, which polls every cycle, may.
* The queue limit: `isCmdQueueFull` lets one command more into the queue than
  `UNITS_COMMAND_QUEUE_MAX_SIZE`; `TypeOK` has the bound as it is.
* A blocking command that chains more than its pipeline and FIFO hold, with its
  reader behind it in the queue, never ends; no kernel has one.
* The DCMA's LRU and LFU policies (not selected), and the mode without a cache.
* Queues of the DMAs are unbounded lists in the simulator; so are they here.
* Statistics, windows, logging, debug checks.
* Programs: the calls are those of `iss_aux.cpp`; a program that writes the registers
  without polling is out of the model, as is one with loops outside `ProgramAssumption`.
* Most of the repository's lines are no logic of V2PRO: register definitions of the RISC-V core,
  windows and statistics of the simulator, C library wrappers, instruction encodings, test data and
  example programs.  The models cover the share that decides what happens, not the share of all lines.
