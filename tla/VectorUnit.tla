----------------------------- MODULE VectorUnit -----------------------------
(***************************************************************************)
(* A vector unit: its command queue, its processing lanes in a ring and    *)
(* its load/store lane, each with a pipeline of ten stages and a FIFO that *)
(* other lanes read.  All lanes tick (VectorLane::tick) and then update    *)
(* (VectorLane::update) in one clock cycle; between the cycles the program *)
(* gives commands and polls the busy flag.                                 *)
(***************************************************************************)
EXTENDS ChainProgram, FiniteSets

CONSTANTS
  FifoSize,     \* capacity of a lane's FIFO, 2
  QueueMaxSize  \* UNITS_COMMAND_QUEUE_MAX_SIZE, 32

ASSUME SizeAssumption == FifoSize \in Nat \ {0} /\ QueueMaxSize \in Nat

AluDepth == 3
LastStage == 5 + AluDepth + 1  \* write-back and chaining output of a processing lane
LsOut == 8                     \* chaining output of the load/store lane
Stages == 0 .. LastStage

VARIABLES
  prog, pc,   \* the program of the RISC core and its next command
  phase,      \* what it does next: wait ("mask", "poll") or give the command ("issue")
  ran,        \* a cycle has passed since the last access of the program
  queue,      \* VectorUnit::cmd_queue: number of the command, lanes still to fetch it
  current,    \* VectorLane::current_cmd: the element that enters the pipeline next
  blocking,   \* VectorLane::blocking
  pipe,       \* PipeObject::data
  fifo,       \* VectorLane::fifo, elements whose results it holds
  thrown,     \* a FIFO was read at a place it does not have
  done        \* results each lane has put out (a history variable)

program == <<prog, pc, phase, ran>>
vars == <<program, queue, current, blocking, pipe, fifo, thrown, done>>

\* No command; commands are numbered from 1.
NoElement == [c |-> 0, k |-> 0]
Unread == [o \in Operands |-> NoElement]
NoSlot == [e |-> NoElement, in |-> Unread]

IsCmd(e) == e.c # 0

Init ==
  /\ prog \in Programs /\ pc = 1 /\ phase = "mask" /\ ran = FALSE
  /\ queue = <<>> /\ thrown = FALSE
  /\ current = [l \in Lanes |-> NoElement]
  /\ blocking = [l \in Lanes |-> FALSE]
  /\ pipe = [l \in Lanes |-> [s \in Stages |-> NoSlot]]
  /\ fifo = [l \in Lanes |-> <<>>]
  /\ done = [l \in Lanes |-> 0]

-----------------------------------------------------------------------------
(* Stall conditions, from the state before the cycle.                      *)

\* Operands of the element in stage s of lane l whose selector is in Sels.
Waits(l, s, Sels) ==
  LET e == pipe[l][s].e IN IF IsCmd(e) THEN {o \in Operands : prog[e.c][o] \in Sels} ELSE {}

SourceOf(l, s, o) == Source(l, prog[pipe[l][s].e.c], o)

Empty(l, s, o) == fifo[SourceOf(l, s, o)] = <<>>

\* Mutant: src2 is not checked.
SrcStallOfSrc1(l) ==
  LET W == Waits(l, 3, DataSel)
  IN IF l = LS THEN "dst" \in W /\ Empty(l, 3, "dst") ELSE "src1" \in W /\ Empty(l, 3, "src1")

\* The check for src2 overwrites the result of the check for src1.
SrcStall(l) ==
  LET W == Waits(l, 3, DataSel)
  IN IF l = LS THEN "dst" \in W /\ Empty(l, 3, "dst")
     ELSE IF "src2" \in W THEN Empty(l, 3, "src2")
     ELSE "src1" \in W /\ Empty(l, 3, "src1")

\* Mutant: off by one.
DstStallLate(l) ==
  LET e == pipe[l][5 + AluDepth].e IN IsCmd(e) /\ prog[e.c].chain /\ Len(fifo[l]) > FifoSize

DstStall(l) ==
  LET e == pipe[l][5 + AluDepth].e IN IsCmd(e) /\ prog[e.c].chain /\ Len(fifo[l]) >= FifoSize

AdrStall(l) == \E o \in Waits(l, 2, AddressSel) : Empty(l, 2, o)

\* What runs: everything, or the stages after the one that waits.
RunsAll(l) == ~ AdrStall(l) /\ ~ SrcStall(l) /\ ~ DstStall(l)
RunsFromOffset(l) == AdrStall(l) /\ ~ SrcStall(l) /\ ~ DstStall(l)
\* Mutant: a lane that waits for data does not run at all.
RunsFromDataNever(l) == FALSE

RunsFromData(l) == ~ AdrStall(l) /\ SrcStall(l) /\ ~ DstStall(l)
Runs(l) == RunsAll(l) \/ RunsFromOffset(l) \/ RunsFromData(l)

-----------------------------------------------------------------------------
(* VectorLane::tick.  A FIFO is read and written as it was before the      *)
(* cycle and changes in the update (HFIFO).                                *)

\* Operands read in stage 3, and in stage 4; the elements come from the stage before.
TakesOffsets(l) == IF RunsAll(l) THEN Waits(l, 2, AddressSel) ELSE {}
TakesData(l) == IF RunsAll(l) \/ RunsFromOffset(l) THEN Waits(l, 3, DataSel) ELSE {}

\* Mutant: reading an offset does not take it out.
PoppedData == UNION {{SourceOf(l, 3, o) : o \in TakesData(l)} : l \in Lanes}

Popped ==
  UNION {{SourceOf(l, 2, o) : o \in TakesOffsets(l)} \cup {SourceOf(l, 3, o) : o \in TakesData(l)} :
         l \in Lanes}

Top(s) == IF fifo[s] = <<>> THEN NoElement ELSE Head(fifo[s])

\* The slot of stage s with the operands in T read.
Read(l, s, T) ==
  [pipe[l][s] EXCEPT !.in = [o \in Operands |-> IF o \in T THEN Top(SourceOf(l, s, o)) ELSE @[o]]]

\* The first stage that runs.
From(l) == CASE RunsAll(l) -> 0
             [] RunsFromOffset(l) -> 3
             [] RunsFromData(l) -> 4
             [] OTHER -> LastStage + 1

\* process and processInStall: the stages that run shift.
Moved(l) ==
  LET first == From(l)
  IN [s \in Stages |->
        CASE s < first -> pipe[l][s]
          [] s = first /\ s = 0 -> [e |-> current[l], in |-> Unread]
          [] s = first /\ s # 0 -> NoSlot
          [] s > first /\ s = 3 -> Read(l, 2, TakesOffsets(l))
          [] s > first /\ s = 4 -> Read(l, 3, TakesData(l))
          [] OTHER -> pipe[l][s - 1]]

\* Mutant: waiting for data, the last stage does not run.
OutputUnlessStalled(l) ==
  IF l = LS /\ Runs(l) THEN pipe[l][LsOut - 1].e
  ELSE IF l # LS /\ RunsAll(l) THEN pipe[l][LastStage - 1].e
  ELSE NoElement

\* The element whose result is put out.  Waiting for an offset, the last
\* stage shifts but does not run.
Output(l) ==
  CASE l = LS /\ Runs(l) -> pipe[l][LsOut - 1].e
    [] l # LS /\ (RunsAll(l) \/ RunsFromData(l)) -> pipe[l][LastStage - 1].e
    [] OTHER -> NoElement

Pushes(l) ==
  /\ IsCmd(Output(l))
  /\ IF l = LS THEN prog[Output(l).c].type = "load" ELSE prog[Output(l).c].chain

-----------------------------------------------------------------------------
(* VectorLane::update, lane after lane.                                    *)

\* Mutant: one element too many.
AfterOneMore(l) ==
  LET e == current[l]
  IN IF ~ RunsAll(l) \/ ~ IsCmd(e) THEN e
     ELSE IF e.k <= prog[e.c].n THEN [e EXCEPT !.k = @ + 1]
     ELSE NoElement

\* processCMD
After(l) ==
  LET e == current[l]
  IN IF ~ RunsAll(l) \/ ~ IsCmd(e) THEN e
     ELSE IF e.k < prog[e.c].n THEN [e EXCEPT !.k = @ + 1]
     ELSE NoElement

Blocks(e) == IsCmd(e) /\ prog[e.c].blocking

PipeBlocks(l) == \E s \in 0 .. 5 + AluDepth - 1 - 3 : Blocks(Moved(l)[s].e)

\* getNextCommandForLane gives nothing while any lane is blocking; lanes
\* before l are updated already.
Eligible(l) ==
  /\ queue # <<>> /\ l \in Head(queue).lanes /\ ~ IsCmd(After(l))
  /\ \A m \in Lanes : IF m < l THEN ~ Blocks(After(m)) /\ ~ PipeBlocks(m) ELSE ~ blocking[m]

\* The first lane that fetches a blocking command keeps it from the others.
Fetches(l) ==
  /\ Eligible(l)
  /\ prog[Head(queue).c].blocking => \A m \in Lanes : m < l => ~ Eligible(m)

\* The front leaves the queue when the last of its lanes has fetched it.
FetchedQueue ==
  LET left == {l \in Head(queue).lanes : ~ Fetches(l)}
  IN IF queue = <<>> THEN queue
     ELSE IF left = {} THEN Tail(queue)
     ELSE [queue EXCEPT ![1].lanes = left]

NewFifo(l) ==
  LET kept == IF l \in Popped /\ fifo[l] # <<>> THEN Tail(fifo[l]) ELSE fifo[l]
  IN IF Pushes(l) /\ Len(kept) < FifoSize THEN Append(kept, Output(l)) ELSE kept

Clock ==
  /\ ~ thrown
  /\ thrown' = \E s \in Popped : fifo[s] = <<>>
  /\ pipe' = [l \in Lanes |-> Moved(l)]
  /\ current' = [l \in Lanes |-> IF Fetches(l) THEN [c |-> Head(queue).c, k |-> 1] ELSE After(l)]
  /\ blocking' = [l \in Lanes |-> Blocks(current'[l]) \/ PipeBlocks(l)]
  /\ queue' = FetchedQueue
  /\ fifo' = [l \in Lanes |-> NewFifo(l)]
  /\ done' = [l \in Lanes |-> IF IsCmd(Output(l)) THEN done[l] + 1 ELSE done[l]]
  /\ ran' = TRUE
  /\ UNCHANGED <<prog, pc, phase>>

-----------------------------------------------------------------------------
(* The program.                                                            *)

\* Mutant: the later stages do not count.
BusyBeforeAlu ==
  \/ queue # <<>>
  \/ \E l \in Lanes : blocking[l] \/ \E s \in 0 .. 5 : IsCmd(pipe[l][s].e)

\* VectorUnit::isBusy
Busy ==
  \/ queue # <<>>
  \/ \E l \in Lanes : blocking[l] \/ \E s \in 0 .. LastStage - 1 : IsCmd(pipe[l][s].e)

\* A cycle passes before every access.
Accesses(p) ==
  /\ ~ thrown /\ ran /\ ran' = FALSE
  /\ pc <= Len(prog) /\ (IF prog[pc].sync THEN phase ELSE "issue") = p
  /\ UNCHANGED <<prog, current, blocking, pipe, fifo, thrown, done>>

\* vpro_wait_busy: the mask is written, then the busy flag is polled.
WriteMask == Accesses("mask") /\ phase' = "poll" /\ UNCHANGED <<pc, queue>>

Poll ==
  /\ Accesses("poll")
  /\ phase' = IF Busy THEN "poll" ELSE "issue"
  /\ UNCHANGED <<pc, queue>>

\* Mutant: off by one.
QueueFullLate == Len(queue) > QueueMaxSize + 1

\* isCmdQueueFull
QueueFull == Len(queue) > QueueMaxSize

\* run_vpro_instruction, once no queue is full
Issue ==
  /\ Accesses("issue")
  /\ ~ QueueFull
  /\ queue' = Append(queue, [c |-> pc, lanes |-> prog[pc].lanes])
  /\ pc' = pc + 1 /\ phase' = "mask"

Next == Clock \/ WriteMask \/ Poll \/ Issue

Spec == Init /\ [][Next]_vars

\* The clock runs, and the program takes its next step.
FairSpec == Spec /\ WF_vars(Clock) /\ WF_vars(WriteMask \/ Poll \/ Issue)

-----------------------------------------------------------------------------
Working == {e \in [c : DOMAIN prog, k : Nat \ {0}] : e.k <= prog[e.c].n}
Element == Working \cup {NoElement}
Slot == [e : Element, in : [Operands -> Element]]

\* Type invariant: commands of the program only, a FIFO within its size,
\* the queue at most one command beyond QueueMaxSize.
TypeOK ==
  /\ prog \in Programs /\ pc \in 1 .. Len(prog) + 1
  /\ phase \in {"mask", "poll", "issue"} /\ ran \in BOOLEAN /\ thrown \in BOOLEAN
  /\ queue \in Seq([c : DOMAIN prog, lanes : (SUBSET Lanes) \ {{}}]) /\ Len(queue) <= QueueMaxSize + 1
  /\ current \in [Lanes -> Element] /\ blocking \in [Lanes -> BOOLEAN]
  /\ pipe \in [Lanes -> [Stages -> Slot]]
  /\ fifo \in [Lanes -> Seq(Working)] /\ \A l \in Lanes : Len(fifo[l]) <= FifoSize
  /\ done \in [Lanes -> Nat]

\* No result is lost because the FIFO it is pushed into is full
\* (VectorLane::check_dst_lane_stall looks at stage 8 before the stages
\* shift: the element that will be pushed, or in the load/store lane the one
\* that has been).
PushesFit == \A l \in Lanes : Pushes(l) => l \in Popped \/ Len(fifo[l]) < FifoSize

\* No lane reads a FIFO that has nothing: a lane stalls until all it needs
\* is there (VectorLane::check_src_lane_stall, check_adr_lane_stall).
NoEmptyRead == ~ thrown

\* Every operand is the result the program means: the pipelines, the stalls
\* and the FIFOs lose, repeat and reorder none (Pipeline.cpp, stages 3 and 4).
OperandsMatch ==
  \A l \in Lanes, s \in 3 .. LastStage : IsCmd(pipe[l][s].e) =>
    \A o \in Chained(prog[pipe[l][s].e.c]) :
      (s > 3 \/ prog[pipe[l][s].e.c][o] \in AddressSel) =>
        pipe[l][s].in[o] \in Feeders(prog, pipe[l][s].e, SourceOf(l, s, o))

\* The stages from s on whose element lane l still has to put out.
OutStage(l) == IF l = LS THEN LsOut ELSE LastStage
Ahead(l, s) == {t \in s .. OutStage(l) - 1 : IsCmd(pipe[l][t].e)}

\* A lane executes every element of its commands once, in program order:
\* what is in its pipeline continues what it has put out.
ElementsInOrder ==
  \A l \in Lanes :
    /\ \A s \in 0 .. OutStage(l) - 1 : IsCmd(pipe[l][s].e) =>
         Position(prog, l, pipe[l][s].e) = done[l] + Cardinality(Ahead(l, s))
    /\ IsCmd(current[l]) =>
         Position(prog, l, current[l]) = done[l] + Cardinality(Ahead(l, 0)) + 1

\* A program that has waited for the unit finds all its commands done
\* (vpro_wait_busy).
SyncWaits ==
  phase = "issue" => \A l \in Lanes : done[l] = Before(prog, CommandsOf(prog, l), pc)

\* The unit computes the program: results come in order and after what they
\* are computed from, whatever stalls.
Flow == INSTANCE Dataflow
FlowSpec == Flow!Spec

\* Lanes that wait for each other's FIFOs do not wait forever: every program
\* comes to its end.
Finishes == <>(pc > Len(prog) /\ \A l \in Lanes : done[l] = Total(prog, l))
=============================================================================
