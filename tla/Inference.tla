----------------------------- MODULE Inference -----------------------------
(***************************************************************************)
(* The main loop of the runtime (runtime.cpp, calc_cnn.cpp): the RISC-V    *)
(* runs the network on one image after the other, while the host (the ARM) *)
(* writes the next image and reads the last result.  They share the main   *)
(* memory and five registers, and the layers reach the memory through the  *)
(* write-back cache of the DCMA, line by line.                             *)
(*                                                                         *)
(* A layer computes its output cell by cell; a cell holds the number of    *)
(* the image it was computed from, and None if there is no such image: a   *)
(* mixture of images, or nothing so far.                                   *)
(***************************************************************************)
EXTENDS NetLayout

CONSTANTS
  Nets,       \* networks
  MaxImages   \* bound: images the host has

None == 0

\* A layer reads layers instantiated before it, a reshape or slice one of
\* them, of whose output it is a part; an input is not computed; generateNet
\* warns that the handshake fails unless a layer reads an input and one writes
\* a result.
ASSUME NetAssumption ==
  /\ MaxImages \in Nat \ {0}
  /\ \A n \in Nets :
       /\ n \in Seq([src : SUBSET Nat, is_input_layer : BOOLEAN, produces_binary_data : BOOLEAN,
                     out_is_result : BOOLEAN, size : Nat \ {0}, offset : Nat])
       /\ \A i \in DOMAIN n :
            /\ n[i].src \subseteq 1 .. i - 1
            /\ n[i].is_input_layer => ~ n[i].produces_binary_data
            /\ ~ n[i].is_input_layer => n[i].src # {}
            /\ Transparent(n[i]) =>
                 \E s \in n[i].src : n[i].src = {s} /\ n[i].offset + n[i].size <= n[s].size
       /\ \E x \in Executed(n) : ReadsInput(n, x)
       /\ \E x \in Executed(n) : WritesResult(n, x)

VARIABLES
  net,                         \* the network on the board
  once,                        \* run_only_one_iteration
  running,                     \* register rv_running
  inputReady, inputParsed,     \* registers arm_input_ready, rv_input_parsed
  outputReady, outputParsed,   \* registers rv_output_ready, arm_output_parsed
  mem,                         \* the main memory
  copy, held, dirty,           \* the cache: its cells, its lines, those not written back
  pc, xli,                     \* what the RISC-V does, index into the execution list
  todo,                        \* cells the layer has yet to compute
  feeding, toWrite, given,     \* the host writes an image; images handed over
  parsing, toRead, seen, results

host == <<running, feeding, toWrite, given, parsing, toRead, seen, results>>
inputs == <<inputReady, inputParsed>>
outputs == <<outputReady, outputParsed>>
cache == <<copy, held, dirty>>
board == <<pc, xli, todo>>
config == <<net, once>>
vars == <<config, inputs, outputs, mem, cache, board, host>>

\* The loop tests rv_running before the first image too; compiled to run
\* once there is no loop.  The host allows the first image and result.
Init ==
  /\ net \in Nets /\ once \in BOOLEAN
  /\ running = TRUE
  /\ inputReady = FALSE /\ inputParsed = TRUE
  /\ outputReady = FALSE /\ outputParsed = TRUE
  /\ mem = [c \in Cells(net) |-> None] /\ copy = mem
  /\ held = {} /\ dirty = {}
  /\ pc = (IF once THEN "await" ELSE "loop") /\ xli = 1 /\ todo = {}
  /\ feeding = FALSE /\ toWrite = {} /\ given = 0
  /\ parsing = FALSE /\ toRead = {} /\ seen = {} /\ results = <<>>

-----------------------------------------------------------------------------
(* The cache.                                                              *)

\* The cells of the cache once the lines ls are in it.
Filled(ls) ==
  [c \in Cells(net) |-> IF LineOf(c) \in ls \ held THEN mem[c] ELSE copy[c]]

\* Mutant: a line is written back though no layer has written it.
WrittenBackClean(l) ==
  [c \in Cells(net) |-> IF LineOf(c) = l THEN copy[c] ELSE mem[c]]

WrittenBack(l) ==
  [c \in Cells(net) |-> IF LineOf(c) = l /\ l \in dirty THEN copy[c] ELSE mem[c]]

-----------------------------------------------------------------------------
(* The RISC-V: main and calcCnn.                                           *)

TestLoop ==
  /\ pc = "loop"
  /\ pc' = IF running THEN "await" ELSE "exit"
  /\ UNCHANGED <<xli, todo, config, inputs, outputs, mem, cache, host>>

\* Mutant: a stop does not end the wait.
TakeInputOnly ==
  /\ pc = "await" /\ inputReady
  /\ inputReady' = FALSE /\ pc' = "reset"
  /\ UNCHANGED <<xli, todo, config, inputParsed, outputs, mem, cache, host>>

TakeInput ==
  /\ pc = "await" /\ (inputReady \/ ~ running)
  /\ inputReady' = FALSE /\ pc' = "reset"
  /\ UNCHANGED <<xli, todo, config, inputParsed, outputs, mem, cache, host>>

\* Mutant: the lines of the last image stay in the cache.
KeepCache ==
  /\ pc = "reset"
  /\ pc' = "pre" /\ xli' = 1
  /\ UNCHANGED <<todo, config, inputs, outputs, mem, cache, host>>

\* dcma_reset
ResetCache ==
  /\ pc = "reset"
  /\ held' = {} /\ dirty' = {}
  /\ pc' = "pre" /\ xli' = 1
  /\ UNCHANGED <<todo, config, inputs, outputs, mem, copy, host>>

StartLayer ==
  /\ pc' = "layer"
  /\ todo' = CellsOf(net, LayerExecList(net)[xli])
  /\ UNCHANGED <<xli, config, inputs, outputReady, mem, cache, host>>

\* pre_layer_hook
PreLayer ==
  /\ pc = "pre" /\ ~ FirstProducingOutput(net, xli)
  /\ StartLayer /\ UNCHANGED outputParsed

\* Mutant: the last result is overwritten before the host has read it.
ClaimAtOnce ==
  /\ pc = "pre" /\ FirstProducingOutput(net, xli)
  /\ outputParsed' = FALSE
  /\ StartLayer

\* ... which waits for the host before the results are overwritten.
ClaimOutput ==
  /\ pc = "pre" /\ FirstProducingOutput(net, xli)
  /\ outputParsed \/ ~ running
  /\ outputParsed' = FALSE
  /\ StartLayer

\* calcLayer: the DMAs load and store whole lines.
Compute(c) ==
  LET src == UNION {CellsOf(net, s) : s \in net[LayerExecList(net)[xli]].src}
      ls == {LineOf(d) : d \in src \cup {c}}
      tags == {Filled(ls)[d] : d \in src}
  IN  /\ pc = "layer" /\ c \in todo
      /\ copy' = [Filled(ls) EXCEPT ![c] = IF Cardinality(tags) = 1 THEN CHOOSE t \in tags : TRUE
                                           ELSE None]
      /\ held' = held \cup ls /\ dirty' = dirty \cup {LineOf(c)}
      /\ todo' = todo \ {c}
      /\ UNCHANGED <<pc, xli, config, inputs, outputs, mem, host>>

\* Another line takes the place of this one.
Evict(l) ==
  /\ pc = "layer" /\ l \in held
  /\ mem' = WrittenBack(l)
  /\ held' = held \ {l} /\ dirty' = dirty \ {l}
  /\ UNCHANGED <<copy, board, config, inputs, outputs, host>>

\* post_layer_hook, after vpro_sync
PostLayer ==
  /\ pc = "layer" /\ todo = {}
  /\ inputParsed' = (inputParsed \/ LastUsingInput(net, xli))
  /\ IF xli + 1 \in Executed(net)
     THEN pc' = "pre" /\ xli' = xli + 1
     ELSE pc' = "flush" /\ UNCHANGED xli
  /\ UNCHANGED <<todo, config, inputReady, outputs, mem, cache, host>>

\* dcma_flush, a line at a time
FlushLine(l) ==
  /\ pc = "flush" /\ l \in dirty
  /\ mem' = WrittenBack(l) /\ dirty' = dirty \ {l}
  /\ UNCHANGED <<copy, held, board, config, inputs, outputs, host>>

Announce ==
  /\ pc = "flush" /\ dirty = {}
  /\ outputReady' = TRUE
  /\ pc' = IF once THEN "exit" ELSE "loop"
  /\ UNCHANGED <<xli, todo, config, inputs, outputParsed, mem, cache, host>>

RiscV ==
  \/ TestLoop \/ TakeInput \/ ResetCache \/ PreLayer \/ ClaimOutput
  \/ \E c \in Cells(net) : Compute(c) \/ FlushLine(LineOf(c))
  \/ PostLayer \/ Announce

-----------------------------------------------------------------------------
(* The host, by the protocol that main states.                             *)

Images == IF once THEN 1 ELSE MaxImages

StartImage ==
  /\ running /\ ~ feeding /\ inputParsed /\ given < Images
  /\ inputParsed' = FALSE
  /\ feeding' = TRUE /\ toWrite' = InputCells(net)
  /\ UNCHANGED <<config, inputReady, outputs, mem, cache, board, running, given, parsing, toRead,
                 seen, results>>

WriteCell(c) ==
  /\ running /\ c \in toWrite
  /\ mem' = [mem EXCEPT ![c] = given + 1] /\ toWrite' = toWrite \ {c}
  /\ UNCHANGED <<config, inputs, outputs, cache, board, running, feeding, given, parsing, toRead,
                 seen, results>>

HandOver ==
  /\ running /\ feeding /\ toWrite = {}
  /\ inputReady' = TRUE /\ feeding' = FALSE /\ given' = given + 1
  /\ UNCHANGED <<config, inputParsed, outputs, mem, cache, board, running, toWrite, parsing, toRead,
                 seen, results>>

StartResult ==
  /\ running /\ ~ parsing /\ outputReady
  /\ outputReady' = FALSE
  /\ parsing' = TRUE /\ toRead' = ResultCells(net) /\ seen' = {}
  /\ UNCHANGED <<config, inputs, outputParsed, mem, cache, board, running, feeding, toWrite, given,
                 results>>

ReadCell(c) ==
  /\ running /\ c \in toRead
  /\ seen' = seen \cup {mem[c]} /\ toRead' = toRead \ {c}
  /\ UNCHANGED <<config, inputs, outputs, mem, cache, board, running, feeding, toWrite, given,
                 parsing, results>>

TakeResult ==
  /\ running /\ parsing /\ toRead = {}
  /\ outputParsed' = TRUE /\ parsing' = FALSE /\ seen' = {}
  /\ results' = Append(results, IF Cardinality(seen) = 1 THEN CHOOSE t \in seen : TRUE ELSE None)
  /\ UNCHANGED <<config, inputs, outputReady, mem, cache, board, running, feeding, toWrite, given,
                 toRead>>

\* The host stops the board, whatever it does, and leaves its memory alone.
Stop ==
  /\ running /\ running' = FALSE
  /\ UNCHANGED <<config, inputs, outputs, mem, cache, board, feeding, toWrite, given, parsing,
                 toRead, seen, results>>

Host ==
  \/ HandOver \/ StartResult \/ TakeResult
  \/ \E c \in Cells(net) : WriteCell(c) \/ ReadCell(c)

Next == RiscV \/ (\E c \in Cells(net) : Evict(LineOf(c))) \/ Host \/ StartImage \/ Stop

Spec == Init /\ [][Next]_vars

\* The RISC-V runs, and so do the two ends of the host once they have begun.
FairSpec ==
  /\ Spec /\ WF_vars(RiscV)
  /\ WF_vars(HandOver \/ \E c \in Cells(net) : WriteCell(c))
  /\ WF_vars(StartResult \/ TakeResult \/ \E c \in Cells(net) : ReadCell(c))

-----------------------------------------------------------------------------
(* Properties.                                                             *)

TypeOK ==
  /\ net \in Nets /\ once \in BOOLEAN /\ running \in BOOLEAN
  /\ inputReady \in BOOLEAN /\ inputParsed \in BOOLEAN
  /\ outputReady \in BOOLEAN /\ outputParsed \in BOOLEAN
  /\ feeding \in BOOLEAN /\ parsing \in BOOLEAN
  /\ pc \in {"loop", "await", "reset", "pre", "layer", "flush", "exit"}
  /\ pc \in {"pre", "layer"} => xli \in Executed(net)

\* The RISC-V still needs the input: it has taken an image and a layer that
\* reads it is ahead.
NeedsInput ==
  \/ pc = "reset"
  \/ pc \in {"pre", "layer"} /\ \E y \in Executed(net) : y >= xli /\ ReadsInput(net, y)

\* The RISC-V has claimed the results and not announced them.
HoldsResult ==
  \/ pc = "flush"
  \/ pc = "layer" /\ \E y \in Executed(net) : y <= xli /\ WritesResult(net, y)
  \/ pc = "pre" /\ \E y \in Executed(net) : y < xli /\ WritesResult(net, y)

\* Until the host stops the board, input and results have one owner at a
\* time: the register that offers them, the end of the host that works on
\* them, or the RISC-V.
OneOwner ==
  running =>
    /\ inputReady => ~ inputParsed
    /\ feeding => ~ inputParsed /\ ~ inputReady
    /\ NeedsInput => ~ inputParsed /\ ~ inputReady /\ ~ feeding
    /\ outputReady => ~ outputParsed
    /\ parsing => ~ outputParsed /\ ~ outputReady
    /\ HoldsResult => ~ outputParsed /\ ~ outputReady /\ ~ parsing

HandshakeInv == TypeOK /\ OneOwner

\* The layout that streaming relies on: results are computed, and no line of
\* the cache holds cells of the input and of a layer that computes.
OwnLines(n) ==
  /\ \A i \in DOMAIN n : n[i].out_is_result => n[i].produces_binary_data
  /\ \A c \in InputCells(n), x \in Executed(n) :
       \A d \in CellsOf(n, LayerExecList(n)[x]) : LineOf(c) # LineOf(d)

\* The image the RISC-V has taken last, and the one it has announced last.
Taken == IF inputReady THEN given - 1 ELSE given
Finished == IF pc \in {"reset", "pre", "layer", "flush"} THEN Taken - 1 ELSE Taken

\* A cell as the layers see it.
View(c) == IF LineOf(c) \in held THEN copy[c] ELSE mem[c]

\* The cells that hold outputs of the image taken last.
Computed ==
  {c \in Cells(net) :
     \/ pc = "layer" /\ c \in CellsOf(net, LayerExecList(net)[xli]) \ todo
     \/ /\ pc \in {"pre", "layer", "flush"}
        /\ \E y \in Executed(net) : /\ y < xli \/ pc = "flush"
                                    /\ c \in CellsOf(net, LayerExecList(net)[y])}

\* No image is lost or announced twice, and a result waits for the host.
ImagesCounted ==
  /\ given \in 0 .. Images /\ (feeding => given < Images)
  /\ results \in Seq(Nat)
  /\ Len(results) = Finished - IF outputReady \/ parsing THEN 1 ELSE 0

\* Only lines that layers have written are dirty; the others are those of the
\* memory, or of an input that the host has since replaced.
CacheInStep ==
  /\ mem \in [Cells(net) -> Nat] /\ copy \in [Cells(net) -> Nat]
  /\ dirty \subseteq held
  /\ \A c \in InputCells(net) : LineOf(c) \notin dirty
  /\ \A c \in Cells(net) \ InputCells(net) : LineOf(c) \in held \ dirty => copy[c] = mem[c]

\* The input is the image handed over for as long as a layer needs it.
InputThere ==
  /\ toWrite \subseteq InputCells(net) /\ (toWrite # {} => feeding)
  /\ \A c \in InputCells(net) :
       /\ inputReady \/ NeedsInput => mem[c] = given
       /\ feeding /\ c \notin toWrite => mem[c] = given + 1
       /\ NeedsInput /\ pc # "reset" => View(c) = given

\* What has been computed is of the image taken last.
OutputsThere ==
  /\ pc = "layer" => todo \subseteq CellsOf(net, LayerExecList(net)[xli])
  /\ \A c \in Computed : View(c) = Taken

\* The results announced stay in the memory until the host has read them.
ResultsThere ==
  /\ outputReady \/ parsing =>
       \A c \in ResultCells(net) : mem[c] = Finished /\ View(c) = Finished
  /\ parsing => /\ seen \subseteq {Finished} /\ toRead \subseteq ResultCells(net)
                /\ (seen # {} \/ toRead = ResultCells(net))

DataInv == ImagesCounted /\ CacheInStep /\ InputThere /\ OutputsThere /\ ResultsThere

\* Who owns the input and the results, and what is in them: behind the
\* handshake every image stays apart from the next.
IInv == HandshakeInv /\ (running /\ OwnLines(net) => DataInv)

\* No layer reads the input while the host writes the next image, and none
\* writes a result while the host reads the last one (pre_layer_hook and
\* post_layer_hook): across three actors and the flags of two layers.
NoRace ==
  running /\ pc = "layer" =>
    /\ ReadsInput(net, xli) => ~ feeding
    /\ WritesResult(net, xli) => ~ parsing

\* Every image comes back as one result, in order and computed from that
\* image alone, with at most three images on the way.
Stream == INSTANCE ImageStream WITH MaxImages <- MaxImages, Capacity <- 3
StreamSpec == Stream!ISpec

\* Every image handed over comes back unless the host stops the board, and
\* a stop ends the program, wherever it waits.
HandshakeProgress ==
  /\ \A k \in 1 .. MaxImages : given >= k ~> Len(results) >= k \/ ~ running
  /\ ~ running ~> pc = "exit"

\* "allow overwriting of input data" (runtime.cpp:71): what the host writes
\* after rv_input_parsed is the image it hands over.
InputIntact == running /\ inputReady => \A c \in InputCells(net) : mem[c] = given
=============================================================================
