----------------------------- MODULE DmaEngine -----------------------------
(***************************************************************************)
(* The DMA of a cluster: DMA::execute_cmd queues commands, DMA::tick works *)
(* on the first of them.  It walks over the block, writes padding itself,  *)
(* one word in a tick, and for the rest of a row makes one request to the  *)
(* DCMA, which it polls up to PortWords times in a tick.                   *)
(*                                                                         *)
(* The DCMA is abstracted to an external memory that answers a poll with   *)
(* "ready" or not.  Between the ticks the program gives commands and, when *)
(* the DMA is not busy, sets the padding registers.                        *)
(***************************************************************************)
EXTENDS Integers, Sequences

CONSTANTS
  Units, ExtWords, LocWords, Values,
  Commands,    \* what the program asks for
  PadConfigs,  \* what the program sets the padding registers to
  PortWords,   \* DCMA_DATA_WIDTH / DMA_DATA_WIDTH
  WordMod,     \* number of values of a uint32_t
  Memories,    \* contents of the memories at the start
  MaxCommands  \* bound: commands the program gives

Sides == {"top", "right", "bottom", "left"}
Words == 0 .. WordMod - 1

Command == [type : {"e2l1D", "e2l2D", "l2e1D", "l2e2D"}, ext : ExtWords, loc : LocWords,
            w : Words \ {0}, h : Words \ {0}, leap : Words, pad : SUBSET Sides,
            units : (SUBSET Units) \ {{}}]
PadConfig == [top : Words, right : Words, bottom : Words, left : Words, value : Values]

ASSUME EngineAssumption ==
  /\ Units \subseteq Nat /\ ExtWords \subseteq Int /\ LocWords \subseteq Int
  /\ Values # {} /\ ExtWords # {} /\ LocWords # {}
  /\ Memories \subseteq [ext : [ExtWords -> Values], lm : [Units -> [LocWords -> Values]]]
  /\ PortWords \in Nat \ {0} /\ WordMod \in Nat \ {0} /\ MaxCommands \in Nat

VARIABLES
  ext, lm,  \* the external memory, the local memories
  pads,     \* architecture_state->dma_pad_top, ... dma_pad_value
  queue,    \* DMA::cmd_queue
  command,  \* DMA::command
  done,     \* command->done
  it,       \* DMA::cur_iteration
  dcma,     \* the request in the DCMA: first word, length, words moved
  polls,    \* polls left in the tick; zero between ticks
  given     \* commands given so far

memory == <<ext, lm>>
vars == <<memory, pads, queue, command, done, it, dcma, polls, given>>

Ref == INSTANCE DmaBlock

\* A command, with its padding, stays inside the memories and counters.
ASSUME CommandAssumption ==
  /\ Commands \subseteq Command /\ PadConfigs \subseteq PadConfig
  /\ \A c \in Commands, p \in PadConfigs :
       /\ Ref!PadOf(c, p, "left") + Ref!PadOf(c, p, "right") <= c.w
       /\ Ref!PadOf(c, p, "top") + Ref!PadOf(c, p, "bottom") <= c.h
       /\ ("right" \in c.pad => p.right <= c.w) /\ ("bottom" \in c.pad => p.bottom <= c.h)
       /\ c.w * c.h < WordMod /\ c.w + c.leap < WordMod
       /\ \A row \in 0 .. c.h - 1, col \in 0 .. c.w - 1 :
            /\ Ref!LocAddr(c, col, row) \in LocWords
            /\ ~ Ref!Padded(c, p, col, row) => Ref!ExtAddr(c, p, col, row) \in ExtWords

\* Unsigned arithmetic.
Sub(a, b) == (a - b) % WordMod

Init ==
  /\ \E m \in Memories : ext = m.ext /\ lm = m.lm
  /\ pads \in PadConfigs
  /\ queue = <<>>
  /\ command = <<>> /\ done = TRUE
  /\ it = [x |-> 0, y |-> 0, loc |-> 0, ext |-> 0, req |-> 0, total |-> 0]
  /\ dcma = [word |-> 0, len |-> 0, iter |-> 0]
  /\ polls = 0
  /\ given = 0

-----------------------------------------------------------------------------
(* DMA::tick.                                                              *)

\* Mutant: off by one.
DcmaBusyOffByOne == dcma.iter + 1 # dcma.len

DcmaBusy == dcma.iter # dcma.len

\* A command is taken from the queue.
Pops == done /\ queue # <<>> /\ ~ DcmaBusy

\* The command and iteration of this tick.
Cmd == IF Pops THEN Head(queue) ELSE command
Iter ==
  IF Pops
  THEN [x |-> 0, y |-> 0, loc |-> Cmd.loc, ext |-> Cmd.ext, req |-> 0,
        total |-> (Cmd.w * Cmd.h) % WordMod]
  ELSE it
Working == Pops \/ ~ done

TakeCommand ==
  /\ queue' = IF Pops THEN Tail(queue) ELSE queue
  /\ command' = Cmd

IsLoad(c) == c.type \in {"e2l1D", "e2l2D"}

\* Mutant: the bottom is one row off.
InPaddingBottomOff(c, i) ==
  c.type = "e2l2D" /\
    \/ "top" \in c.pad /\ i.y < pads.top
    \/ "bottom" \in c.pad /\ i.y > Sub(c.h, pads.bottom)
    \/ "left" \in c.pad /\ i.x < pads.left
    \/ "right" \in c.pad /\ i.x >= Sub(c.w, pads.right)

\* is_padding_region
InPadding(c, i) ==
  c.type = "e2l2D" /\
    \/ "top" \in c.pad /\ i.y < pads.top
    \/ "bottom" \in c.pad /\ i.y >= Sub(c.h, pads.bottom)
    \/ "left" \in c.pad /\ i.x < pads.left
    \/ "right" \in c.pad /\ i.x >= Sub(c.w, pads.right)

\* Mutant: the right padding is requested too.
BurstLengthLeftOnly(c) ==
  Sub(c.w, IF c.type = "e2l2D" /\ "left" \in c.pad THEN pads.left ELSE 0)

BurstLength(c) ==
  Sub(c.w, IF c.type = "e2l2D"
           THEN (IF "left" \in c.pad THEN pads.left ELSE 0)
                + (IF "right" \in c.pad THEN pads.right ELSE 0)
           ELSE 0)

\* increment_iteration: columns and rows.
Increment(c, i, by) ==
  LET col == i.x + by
  IN  IF col > c.w - 1 /\ i.y # c.h - 1
      THEN [i EXCEPT !.x = 0, !.y = @ + 1]
      ELSE [i EXCEPT !.x = col]

\* write_to_LM
WriteLocal(c, loc, value) ==
  lm' = [u \in Units |-> IF u \in c.units THEN [lm[u] EXCEPT ![loc] = value] ELSE lm[u]]

FirstUnit(c) == CHOOSE u \in c.units : \A v \in c.units : u <= v

\* A word of padding.
PadElement ==
  /\ polls = 0 /\ it.req = 0 /\ Working
  /\ InPadding(Cmd, Iter)
  /\ TakeCommand
  /\ WriteLocal(Cmd, Iter.loc, pads.value)
  /\ it' = [Increment(Cmd, Iter, 1) EXCEPT !.loc = @ + 1, !.total = Sub(@, 1)]
  /\ done' = (it'.total = 0)
  /\ UNCHANGED <<ext, pads, dcma, polls, given>>

\* The rest of a row is requested from the DCMA.
RequestRow ==
  LET n == BurstLength(Cmd)
  IN  /\ polls = 0 /\ it.req = 0 /\ Working
      /\ ~ InPadding(Cmd, Iter)
      /\ TakeCommand
      /\ dcma' = [word |-> Iter.ext, len |-> n, iter |-> 0]
      /\ it' = [Increment(Cmd, Iter, n) EXCEPT !.ext = @ + Sub(n + Cmd.leap, 1),
                                               !.req = n]
      /\ done' = FALSE
      /\ UNCHANGED <<memory, pads, polls, given>>

\* Polls a tick still has.
PollsLeft == IF polls = 0 THEN PortWords ELSE polls

\* Mutant: the next word is taken from the last place again.
MoveWordSameIter ==
  /\ it.req > 0
  /\ \/ /\ IsLoad(command)
        /\ WriteLocal(command, it.loc, ext[dcma.word + dcma.iter])
        /\ UNCHANGED ext
     \/ /\ ~ IsLoad(command)
        /\ ext' = [ext EXCEPT ![dcma.word + dcma.iter] = lm[FirstUnit(command)][it.loc]]
        /\ UNCHANGED lm
  /\ dcma' = [dcma EXCEPT !.iter = IF it.req = 1 THEN dcma.len ELSE @]
  /\ it' = [it EXCEPT !.loc = @ + 1, !.req = @ - 1, !.total = Sub(@, 1)]
  /\ done' = (it'.req = 0 /\ it'.total = 0)
  /\ polls' = IF it'.req = 0 THEN 0 ELSE PollsLeft - 1
  /\ UNCHANGED <<pads, queue, command, given>>

\* The data word moved by a poll that is ready.
MoveWord ==
  /\ it.req > 0
  /\ \/ /\ IsLoad(command)
        /\ WriteLocal(command, it.loc, ext[dcma.word + dcma.iter])
        /\ UNCHANGED ext
     \/ /\ ~ IsLoad(command)
        /\ ext' = [ext EXCEPT ![dcma.word + dcma.iter] = lm[FirstUnit(command)][it.loc]]
        /\ UNCHANGED lm
  /\ dcma' = [dcma EXCEPT !.iter = @ + 1]
  /\ it' = [it EXCEPT !.loc = @ + 1, !.req = @ - 1, !.total = Sub(@, 1)]
  /\ done' = (it'.req = 0 /\ it'.total = 0)
  /\ polls' = IF it'.req = 0 THEN 0 ELSE PollsLeft - 1
  /\ UNCHANGED <<pads, queue, command, given>>

\* Mutant: polls are not counted.
PollNotReadyUncounted ==
  /\ it.req > 0
  /\ polls' = PollsLeft
  /\ UNCHANGED <<memory, pads, queue, command, done, it, dcma, given>>

PollNotReady ==
  /\ it.req > 0
  /\ polls' = PollsLeft - 1
  /\ UNCHANGED <<memory, pads, queue, command, done, it, dcma, given>>

\* A tick with nothing to do.
IdleTick ==
  /\ polls = 0 /\ it.req = 0 /\ ~ Working
  /\ UNCHANGED vars

Tick == PadElement \/ RequestRow \/ MoveWord \/ PollNotReady \/ IdleTick

-----------------------------------------------------------------------------
(* The program.                                                            *)

\* DMA::isBusy
Busy == ~ done \/ queue # <<>> \/ DcmaBusy

\* DMA::execute_cmd
ExecuteCmd ==
  /\ polls = 0 /\ given < MaxCommands
  /\ \E c \in Commands : queue' = Append(queue, c)
  /\ given' = given + 1
  /\ UNCHANGED <<memory, pads, command, done, it, dcma, polls>>

\* DMA::io_write for dma_set_pad_widths and dma_set_pad_value, which a program
\* calls after a synchronisation.
SetPads ==
  /\ polls = 0 /\ ~ Busy
  /\ pads' \in PadConfigs
  /\ UNCHANGED <<memory, queue, command, done, it, dcma, polls, given>>

Next == Tick \/ ExecuteCmd \/ SetPads

Spec == Init /\ [][Next]_vars

\* The clock runs, and the DCMA serves a request.
FairSpec == Spec /\ WF_vars(PadElement \/ RequestRow) /\ WF_vars(MoveWord)

-----------------------------------------------------------------------------
(* Properties.                                                             *)

TypeOK ==
  /\ ext \in [ExtWords -> Values] /\ lm \in [Units -> [LocWords -> Values]]
  /\ pads \in PadConfigs
  /\ queue \in Seq(Commands)
  /\ done \in BOOLEAN
  /\ command \in Commands \cup {<<>>}
  /\ it \in [x : Nat, y : Nat, loc : Int, ext : Int, req : Nat, total : Nat]
  /\ dcma \in [word : Int, len : Nat, iter : Nat]
  /\ polls \in 0 .. PortWords - 1
  /\ given \in 0 .. MaxCommands

\* The DMA and the DCMA agree on how much of a request is left, so that no
\* request is replaced before it is complete and none is polled too often.
RequestsAgree == dcma.len - dcma.iter = it.req /\ (polls > 0 => it.req > 0)

\* The word a command moves next: the request in progress belongs to the row
\* the iteration has already left.
Column(c, i) ==
  IF i.req = 0 THEN i.x ELSE (IF i.x = 0 THEN c.w ELSE i.x) - i.req
Row(c, i) == IF i.req > 0 /\ i.x = 0 THEN i.y - 1 ELSE i.y

\* Rows of the external memory that lie before the next request.
RowsDone(c, p, i) ==
  i.y - Ref!PadOf(c, p, "top") + (IF i.x > Ref!PadOf(c, p, "left") THEN 1 ELSE 0)

\* The iteration i of command c has the addresses and the counters that
\* belong to its column and row, if the padding registers are p.
InStep(c, p, i) ==
  LET col  == Column(c, i)
      row  == Row(c, i)
      left == Ref!PadOf(c, p, "left")
  IN  /\ col \in 0 .. c.w - 1 /\ row \in 0 .. c.h - 1 /\ i.y \in 0 .. c.h - 1
      /\ i.loc = Ref!LocAddr(c, col, row)
      /\ i.total = c.w * c.h - (row * c.w + col)
      /\ i.req > 0 => /\ col + i.req = c.w - Ref!PadOf(c, p, "right")
                      /\ \/ i.x = 0
                         \/ i.x = col + i.req /\ (i.x = c.w => row = c.h - 1)
                      /\ col >= left
                      /\ ~ Ref!Padded(c, p, col, row)
      /\ i.req = 0 /\ ~ Ref!Padded(c, p, col, row) => col = left
      /\ i.y < Ref!PadOf(c, p, "top") => i.ext = c.ext
      /\ ~ Ref!Padded(c, p, left, i.y) =>
           i.ext = c.ext + RowsDone(c, p, i) * (Ref!RowLen(c, p) + c.leap - 1)

\* The walk over the block keeps its addresses in step, also across the
\* padding, and the request in the DCMA is for the words that come next.
IterationInStep ==
  ~ done =>
    /\ command \in Commands /\ InStep(command, pads, it)
    /\ it.req > 0 =>
         dcma.word + dcma.iter =
           Ref!ExtAddr(command, pads, Column(command, it), Row(command, it))

EngineInv == TypeOK /\ RequestsAgree /\ IterationInStep /\ (done => it.req = 0)

\* Every command is carried out as the abstract block copy, in the order in
\* which the commands were given and with the padding they were given with.
Copy == INSTANCE BlockCopy
          WITH todo <- (IF done THEN <<>> ELSE <<command>>) \o queue,
               x <- IF done THEN 0 ELSE Column(command, it),
               y <- IF done THEN 0 ELSE Row(command, it)
CopySpec == Copy!CSpec

\* Every command is completed.
CommandsComplete == Busy ~> ~ Busy
=============================================================================
