----------------------------- MODULE DcmaCache -----------------------------
(***************************************************************************)
(* The DCMA: a set-associative write-back cache between the DMAs of the    *)
(* clusters and the main memory (DCMA, Cache, Bram and                     *)
(* NonBlockingMainMemory), with the program that flushes and resets it.    *)
(*                                                                         *)
(* A clock cycle is a turn of every DMA in the order of the clusters, then *)
(* of the DCMA, then of the main memory; io accesses happen between the    *)
(* cycles.  In its turn a DMA with an open request polls the DCMA up to    *)
(* PortWords times and moves a word whenever its line is in the cache and  *)
(* the port of its bram is free; without one it may open the next request. *)
(*                                                                         *)
(* Addresses count DMA words.  A word belongs to a block (an aligned line  *)
(* of the main memory), a block to a set and to a tag.                     *)
(***************************************************************************)
EXTENDS Integers, FiniteSets

CONSTANTS
  NClusters,     \* number of clusters
  NTags,         \* size of the main memory in tags
  NSets, Assoc,  \* Cache::config.nr_sets, associativity
  LineWords,     \* DMA words of a cache line
  NBrams,        \* Cache::config.nr_brams
  PortWords,     \* DMA words of a bram word, and polls of a DMA in a cycle
  Values,        \* contents of a word
  Images,        \* contents of the main memory at the start
  Requests,      \* what the DMAs transfer: first word, length, direction
  Latency,       \* DCMA latency of a new request, in polls
  Burst,         \* bus words of a line
  BusLatency,    \* cycles the main memory needs for a transfer
  InitialBurst,  \* contents of burst_wait_counter, which no one initialises
  MaxCalls       \* bound: flushes and resets the program calls

ASSUME GeometryAssumption ==
  /\ NClusters \in Nat \ {0} /\ NTags \in Nat \ {0}
  /\ NSets \in Nat \ {0} /\ Assoc \in Nat \ {0} /\ LineWords \in Nat \ {0}
  /\ NBrams \in Nat \ {0} /\ PortWords \in Nat \ {0}

ASSUME TimingAssumption ==
  /\ Latency \in Nat /\ Burst \in Nat \ {0} /\ BusLatency \in Nat
  /\ InitialBurst \subseteq Nat /\ MaxCalls \in Nat

Ids == 0 .. NClusters - 1
Blocks == 0 .. NTags * NSets - 1
Sets == 0 .. NSets - 1
Ways == 0 .. Assoc - 1
Lines == 0 .. NSets * Assoc - 1
Offsets == 0 .. LineWords - 1
MemWords == 0 .. NTags * NSets * LineWords - 1
Line == [Offsets -> Values]

ASSUME ValuesAssumption == 0 \in Values /\ Images \subseteq [Blocks -> Line]

\* A burst stays inside the main memory.
ASSUME RequestAssumption ==
  \A r \in Requests :
    /\ r \in [word : MemWords, len : Nat \ {0}, write : BOOLEAN]
    /\ r.word + r.len - 1 \in MemWords

\* Every bram holds a part of every line, so that the bram of a word is the
\* same for its memory address and for its place in the cache.
ASSUME BramAssumption == LineWords % (NBrams * PortWords) = 0

DcmaTurn == NClusters      \* the turns after those of the DMAs
BusTurn == NClusters + 1

VARIABLES
  mem,                      \* NonBlockingMainMemory::memory
  tag, valid, dirty, bram,  \* the lines of the cache
  fifo,                     \* Cache::replacement_memory
  fetch,                    \* Cache::cur_bus_request
  burst,                    \* Cache::burst_wait_counter
  flush,                    \* Cache::flush_flag, flush_last, flush_counter
  port,                     \* Bram::accessed_this_cycle
  incoming,                 \* incomingReadTransfers, incomingWriteTransfers
  req,                      \* DCMA::dmaRequests
  pointer,                  \* DCMA::pointer_nxt_dma_miss
  data,                     \* the word a DMA moved last
  turn, polls,              \* whose turn it is, polls left in a DMA's turn
  pc, calls,                \* the program's call in progress, calls so far
  stored                    \* history: a word was stored since the flush began

lines == <<tag, valid, dirty, bram, fifo>>
bus == <<fetch, burst, incoming>>
dmas == <<req, data>>
clock == <<turn, polls>>
program == <<pc, calls>>
vars == <<mem, lines, bus, flush, port, dmas, pointer, clock, program, stored>>

-----------------------------------------------------------------------------
(* Addresses and lookup.                                                   *)

BlockOf(w) == w \div LineWords
OffsetOf(w) == w % LineWords

\* Cache::splitAddr, and back from a line and its tag.
TagOf(b) == b \div NSets
SetOf(b) == b % NSets
SetOfLine(l) == l \div Assoc
Held(l) == tag[l] * NSets + SetOfLine(l)

LinesOf(s) == {s * Assoc + i : i \in Ways}

\* Mutant: the lookup ignores the valid flags.
MatchesTagOnly(b) == {l \in LinesOf(SetOf(b)) : tag[l] = TagOf(b)}

\* Cache::isHit
Matches(b) == {l \in LinesOf(SetOf(b)) : valid[l] /\ tag[l] = TagOf(b)}
Hit(b) == Matches(b) # {}

FirstOf(S) == CHOOSE l \in S : \A m \in S : l <= m

\* Cache::getBramIdx, of an address in the memory or in the cache.
BramOf(a) == (a \div PortWords) % NBrams
CacheAddr(l, o) == l * LineWords + o

\* Mutant: an access does not look at the port of the bram.
AccessReadyAlways(w) == Hit(BlockOf(w))

\* Cache::isAccessReady
AccessReady(w) == Hit(BlockOf(w)) /\ port[BramOf(w)] < PortWords

Done(c) == ~ req[c].open
CurrentWord(c) == req[c].word + req[c].iter

NoTransfer == [block |-> 0, age |-> BusLatency + 1]

\* A transfer the main memory does not know counts as done.
TransferDone(t) == t.age > BusLatency

-----------------------------------------------------------------------------
Init ==
  /\ mem \in Images
  /\ tag = [l \in Lines |-> 0]
  /\ valid = [l \in Lines |-> FALSE]
  /\ dirty = [l \in Lines |-> FALSE]
  /\ bram = [l \in Lines |-> [o \in Offsets |-> 0]]
  /\ fifo = [s \in Sets |-> 0]
  /\ fetch = [block |-> 0, line |-> 0, busy |-> FALSE, onBus |-> FALSE, wdata |-> FALSE]
  /\ burst \in InitialBurst
  /\ flush = [on |-> FALSE, last |-> FALSE, next |-> 0]
  /\ port = [i \in 0 .. NBrams - 1 |-> 0]
  /\ incoming = [read |-> NoTransfer, write |-> NoTransfer]
  /\ req = [c \in Ids |-> [word |-> 0, len |-> 1, write |-> FALSE,
                           iter |-> 0, wait |-> 0, open |-> FALSE]]
  /\ pointer = 0
  /\ data = [c \in Ids |-> 0]
  /\ turn = 0 /\ polls = PortWords
  /\ pc = "idle" /\ calls = 0
  /\ stored = FALSE

-----------------------------------------------------------------------------
(* The DMAs.                                                               *)

EndTurn == turn' = turn + 1 /\ polls' = PortWords

\* A poll ends the turn when it is the last one or ends the request.
AfterPoll(last) ==
  IF last \/ polls = 1 THEN EndTurn ELSE UNCHANGED turn /\ polls' = polls - 1

cacheSide == <<mem, fifo, tag, valid, bus, flush, pointer, program>>

\* DCMA::requestDmaReadTransfer, DCMA::requestDmaWriteTransfer
OpenRequest(c) ==
  /\ turn = c /\ Done(c)
  /\ \E r \in Requests :
       req' = [req EXCEPT ![c] = [word |-> r.word, len |-> r.len, write |-> r.write,
                                  iter |-> 0, wait |-> Latency, open |-> TRUE]]
  /\ EndTurn
  /\ UNCHANGED <<cacheSide, bram, dirty, port, data, stored>>

\* A DMA with nothing to do, or that writes padding.
SkipTurn(c) ==
  /\ turn = c /\ Done(c)
  /\ EndTurn
  /\ UNCHANGED <<cacheSide, bram, dirty, port, dmas, stored>>

\* isReadDataAvailable and isWriteDataReady while the latency runs.
PollLatency(c) ==
  /\ turn = c /\ ~ Done(c) /\ req[c].wait > 0
  /\ req' = [req EXCEPT ![c].wait = @ - 1]
  /\ AfterPoll(FALSE)
  /\ UNCHANGED <<cacheSide, bram, dirty, port, data, stored>>

PollNotReady(c) ==
  /\ turn = c /\ ~ Done(c) /\ req[c].wait = 0
  /\ ~ AccessReady(CurrentWord(c))
  /\ AfterPoll(FALSE)
  /\ UNCHANGED <<cacheSide, bram, dirty, port, dmas, stored>>

\* The poll finds the word ready and the DMA moves it; DCMA::readData and
\* DCMA::writeData close the request with its last word.
MoveWord(c) ==
  LET w == CurrentWord(c)
      o == OffsetOf(w)
      l == FirstOf(Matches(BlockOf(w)))
      i == BramOf(CacheAddr(l, o))
      last == req[c].iter + 1 = req[c].len
  IN  /\ turn = c /\ ~ Done(c) /\ req[c].wait = 0
      /\ AccessReady(w)
      /\ \/ /\ ~ req[c].write
            /\ data' = [data EXCEPT ![c] = bram[l][o]]
            /\ UNCHANGED <<bram, dirty, stored>>
         \/ /\ req[c].write
            /\ \E v \in Values :
                 /\ bram' = [bram EXCEPT ![l][o] = v]
                 /\ data' = [data EXCEPT ![c] = v]
            /\ dirty' = [dirty EXCEPT ![l] = TRUE]
            /\ stored' = flush.on
      /\ port' = [port EXCEPT ![i] = @ + 1]
      /\ req' = [req EXCEPT ![c].iter = @ + 1, ![c].open = ~ last]
      /\ AfterPoll(last)
      /\ UNCHANGED cacheSide

DmaStep(c) ==
  OpenRequest(c) \/ SkipTurn(c) \/ PollLatency(c) \/ PollNotReady(c) \/ MoveWord(c)

-----------------------------------------------------------------------------
(* The DCMA.  DCMA::tick looks for a miss when the cache is idle and then  *)
(* runs Cache::tick.                                                       *)

\* Mutant: the data is taken from the line of the request before.
StartWriteOldLine(l) ==
  /\ mem' = [mem EXCEPT ![Held(l)] = bram[fetch.line]]
  /\ incoming' = [incoming EXCEPT !.write = [block |-> Held(l), age |-> 0]]

\* NonBlockingMainMemory takes the data of a write at once.
StartWrite(l) ==
  /\ mem' = [mem EXCEPT ![Held(l)] = bram[l]]
  /\ incoming' = [incoming EXCEPT !.write = [block |-> Held(l), age |-> 0]]

StartRead(b) ==
  incoming' = [incoming EXCEPT !.read = [block |-> b, age |-> 0]]

\* Cache::getReplaceLine with the FIFO policy.
FreeLines(s) == {l \in LinesOf(s) : ~ valid[l]}
ReplaceLine(s) ==
  IF FreeLines(s) # {} THEN FirstOf(FreeLines(s)) ELSE s * Assoc + fifo[s]
\* Mutant: the pointer of the replacement does not wrap.
NextFifoNoWrap(s) ==
  IF FreeLines(s) # {} THEN fifo[s] ELSE fifo[s] + 1

NextFifo(s) ==
  IF FreeLines(s) # {} THEN fifo[s] ELSE (fifo[s] + 1) % Assoc

\* Mutant: always the same DMA.
SamePointer == pointer

NextPointer == (pointer + 1) % NClusters

PendingMiss == ~ Done(pointer) /\ ~ Hit(BlockOf(CurrentWord(pointer)))

\* The pointed DMA waits for a line that is not there: replace a line.
StartMiss ==
  LET b == BlockOf(CurrentWord(pointer))
      s == SetOf(b)
      l == ReplaceLine(s)
  IN  /\ ~ fetch.busy /\ PendingMiss
      /\ pointer' = NextPointer
      /\ valid' = [valid EXCEPT ![l] = FALSE]
      /\ dirty' = [dirty EXCEPT ![l] = FALSE]
      /\ fifo' = [fifo EXCEPT ![s] = NextFifo(s)]
      /\ fetch' = [block |-> b, line |-> l, busy |-> TRUE, onBus |-> TRUE,
                   wdata |-> dirty[l]]
      /\ \/ dirty[l] /\ StartWrite(l)
         \/ ~ dirty[l] /\ StartRead(b) /\ UNCHANGED mem
      /\ UNCHANGED <<tag, bram, burst, flush>>

NoMiss ==
  /\ ~ fetch.busy /\ ~ PendingMiss
  /\ pointer' = NextPointer
  /\ UNCHANGED <<mem, lines, bus, flush>>

\* A burst on the bus goes on; its last word ends the upload or the download.
BurstTick ==
  /\ fetch.busy /\ ~ flush.on /\ fetch.onBus /\ burst > 0
  /\ burst' = burst - 1
  /\ \/ burst > 1 /\ UNCHANGED <<lines, fetch, incoming>>
     \/ /\ burst = 1 /\ ~ fetch.wdata
        /\ fetch' = [fetch EXCEPT !.busy = FALSE, !.onBus = FALSE]
        /\ valid' = [valid EXCEPT ![fetch.line] = TRUE]
        /\ tag' = [tag EXCEPT ![fetch.line] = TagOf(fetch.block)]
        /\ UNCHANGED <<dirty, bram, fifo, incoming>>
     \/ /\ burst = 1 /\ fetch.wdata
        /\ fetch' = [fetch EXCEPT !.wdata = FALSE]
        /\ dirty' = [dirty EXCEPT ![fetch.line] = FALSE]
        /\ StartRead(fetch.block)
        /\ UNCHANGED <<tag, valid, bram, fifo>>
  /\ UNCHANGED <<mem, flush, pointer>>

\* The cache waits for the main memory.
BusWait ==
  /\ fetch.busy /\ ~ flush.on /\ fetch.onBus /\ burst = 0
  /\ \/ /\ ~ fetch.wdata /\ TransferDone(incoming.read)
        /\ bram' = [bram EXCEPT ![fetch.line] = mem[incoming.read.block]]
        /\ incoming' = [incoming EXCEPT !.read = NoTransfer]
        /\ burst' = Burst
     \/ /\ fetch.wdata /\ TransferDone(incoming.write)
        /\ incoming' = [incoming EXCEPT !.write = NoTransfer]
        /\ burst' = Burst
        /\ UNCHANGED bram
     \/ /\ ~ TransferDone(IF fetch.wdata THEN incoming.write ELSE incoming.read)
        /\ UNCHANGED <<bram, burst, incoming>>
  /\ UNCHANGED <<mem, tag, valid, dirty, fifo, fetch, flush, pointer>>

\* Mutants: the scan skips a line, or starts over with every line.
DirtyAfter(n) == {l \in Lines : l > n /\ dirty[l]}
DirtyAny(n) == {l \in Lines : dirty[l]}

DirtyFrom(n) == {l \in Lines : l >= n /\ dirty[l]}

\* The flush looks for the next dirty line and uploads it; the line stays
\* valid and dirty.
FlushScan ==
  /\ flush.on /\ ~ fetch.onBus
  /\ \/ /\ ~ flush.last /\ DirtyFrom(flush.next) # {}
        /\ LET l == FirstOf(DirtyFrom(flush.next))
           IN  /\ flush' = [flush EXCEPT !.next = l + 1,
                                         !.last = (l + 1 = NSets * Assoc)]
               /\ StartWrite(l)
        /\ fetch' = [fetch EXCEPT !.onBus = TRUE, !.wdata = TRUE]
     \/ /\ ~ flush.last /\ DirtyFrom(flush.next) = {}
        /\ flush' = [on |-> FALSE, last |-> TRUE, next |-> NSets * Assoc]
        /\ fetch' = [fetch EXCEPT !.busy = FALSE]
        /\ UNCHANGED <<mem, incoming>>
     \/ flush.last /\ UNCHANGED <<mem, fetch, flush, incoming>>
  /\ UNCHANGED <<lines, burst, pointer>>

\* The flush waits for its upload, or for the transfer it interrupted: of a
\* download it polls the write side, which counts as done.
FlushWait ==
  /\ flush.on /\ fetch.onBus
  /\ \/ /\ burst > 0
        /\ burst' = burst - 1
        /\ \/ burst > 1 /\ UNCHANGED <<fetch, flush>>
           \/ burst = 1 /\ flush.last
              /\ flush' = [flush EXCEPT !.on = FALSE]
              /\ fetch' = [fetch EXCEPT !.onBus = FALSE, !.busy = FALSE]
           \/ burst = 1 /\ ~ flush.last
              /\ fetch' = [fetch EXCEPT !.onBus = FALSE]
              /\ UNCHANGED flush
        /\ UNCHANGED incoming
     \/ /\ burst = 0 /\ TransferDone(incoming.write)
        /\ burst' = Burst
        /\ incoming' = [incoming EXCEPT !.write = NoTransfer]
        /\ UNCHANGED <<fetch, flush>>
     \/ /\ burst = 0 /\ ~ TransferDone(incoming.write)
        /\ UNCHANGED <<burst, incoming, fetch, flush>>
  /\ UNCHANGED <<mem, lines, pointer>>

DcmaTick ==
  /\ turn = DcmaTurn
  /\ StartMiss \/ NoMiss \/ BurstTick \/ BusWait \/ FlushScan \/ FlushWait
  /\ port' = [i \in 0 .. NBrams - 1 |-> 0]
  /\ EndTurn
  /\ UNCHANGED <<dmas, program, stored>>

-----------------------------------------------------------------------------
(* The main memory and the program.                                        *)

Older(t) == [t EXCEPT !.age = IF @ > BusLatency THEN @ ELSE @ + 1]

\* NonBlockingMainMemory::tick
BusTick ==
  /\ turn = BusTurn
  /\ incoming' = [read |-> Older(incoming.read), write |-> Older(incoming.write)]
  /\ turn' = 0
  /\ UNCHANGED <<mem, lines, fetch, burst, flush, port, dmas, pointer, polls, program,
                 stored>>

\* io accesses happen between two cycles.
Between == turn = 0 /\ polls = PortWords

allButIo == <<mem, lines, bus, port, dmas, pointer, clock>>

CallFlush ==
  /\ Between /\ pc = "idle" /\ calls < MaxCalls
  /\ pc' = "flush_poll" /\ calls' = calls + 1
  /\ UNCHANGED <<allButIo, flush, stored>>

CallReset ==
  /\ Between /\ pc = "idle" /\ calls < MaxCalls
  /\ pc' = "reset_poll" /\ calls' = calls + 1
  /\ UNCHANGED <<allButIo, flush, stored>>

AfterIdle(p) ==
  CASE p = "flush_poll" -> "flush_write"
    [] p = "reset_poll" -> "reset_write"
    [] p = "flush_wait" -> "idle"

\* while (io_read(DCMA_WAIT_BUSY_ADDR)) {}
PollBusy ==
  /\ Between /\ pc \in {"flush_poll", "reset_poll", "flush_wait"}
  /\ ~ fetch.busy
  /\ pc' = AfterIdle(pc)
  /\ UNCHANGED <<allButIo, flush, calls, stored>>

\* Cache::flush
WriteFlush ==
  /\ Between /\ pc = "flush_write"
  /\ flush' = [on |-> TRUE, last |-> FALSE, next |-> 0]
  /\ fetch' = [fetch EXCEPT !.busy = TRUE]
  /\ stored' = FALSE
  /\ pc' = "flush_wait"
  /\ UNCHANGED <<mem, lines, burst, incoming, port, dmas, pointer, clock, calls>>

\* Cache::reset
WriteReset ==
  /\ Between /\ pc = "reset_write"
  /\ tag' = [l \in Lines |-> 0]
  /\ valid' = [l \in Lines |-> FALSE]
  /\ dirty' = [l \in Lines |-> FALSE]
  /\ fifo' = [s \in Sets |-> 0]
  /\ pc' = "idle"
  /\ UNCHANGED <<mem, bram, bus, flush, port, dmas, pointer, clock, calls, stored>>

ProgramStep == CallFlush \/ CallReset \/ PollBusy \/ WriteFlush \/ WriteReset

-----------------------------------------------------------------------------
Cycle == (\E c \in Ids : DmaStep(c)) \/ DcmaTick \/ BusTick

Next == Cycle \/ ProgramStep

Spec == Init /\ [][Next]_vars

\* The clock runs.
FairSpec == Spec /\ WF_vars(Cycle)

-----------------------------------------------------------------------------
(* Properties.                                                             *)

TypeOK ==
  /\ mem \in [Blocks -> Line]
  /\ tag \in [Lines -> 0 .. NTags - 1]
  /\ valid \in [Lines -> BOOLEAN] /\ dirty \in [Lines -> BOOLEAN]
  /\ bram \in [Lines -> Line]
  /\ fifo \in [Sets -> Ways]
  /\ fetch \in [block : Blocks, line : Lines, busy : BOOLEAN, onBus : BOOLEAN,
                wdata : BOOLEAN]
  /\ burst \in Nat
  /\ flush \in [on : BOOLEAN, last : BOOLEAN, next : 0 .. NSets * Assoc]
  /\ port \in [0 .. NBrams - 1 -> Nat]
  /\ incoming \in [read : [block : Blocks, age : Nat], write : [block : Blocks, age : Nat]]
  /\ req \in [Ids -> [word : MemWords, len : Nat \ {0}, write : BOOLEAN,
                      iter : Nat, wait : Nat, open : BOOLEAN]]
  /\ \A c \in Ids : req[c].open =>
       req[c].iter < req[c].len /\ req[c].word + req[c].len - 1 \in MemWords
  /\ pointer \in Ids
  /\ data \in [Ids -> Values]
  /\ turn \in 0 .. BusTurn /\ polls \in 1 .. PortWords
  /\ pc \in {"idle", "flush_poll", "flush_write", "flush_wait", "reset_poll",
             "reset_write"}
  /\ calls \in Nat /\ stored \in BOOLEAN

\* No block is in two lines of the cache, and no dirty line is invalid.
OneLinePerBlock ==
  /\ \A l, m \in Lines : valid[l] /\ valid[m] /\ Held(l) = Held(m) => l = m
  /\ \A l \in Lines : dirty[l] => valid[l]

\* What the DMAs see of the memory.
Current == [b \in Blocks |-> IF Hit(b) THEN bram[FirstOf(Matches(b))] ELSE mem[b]]

\* A clean line holds what the main memory holds.
CleanLinesMatch ==
  \A l \in Lines : valid[l] /\ ~ dirty[l] => bram[l] = mem[Held(l)]

\* A line is fetched into an invalid line of its own set, for a block that
\* is in no other line; once its burst runs it has the block's contents.
FetchIsolated ==
  fetch.busy /\ ~ flush.on =>
    /\ fetch.onBus /\ ~ valid[fetch.line] /\ ~ Hit(fetch.block)
    /\ fetch.line \in LinesOf(SetOf(fetch.block))
    /\ ~ fetch.wdata =>
         IF burst = 0 THEN incoming.read.block = fetch.block
                      ELSE bram[fetch.line] = mem[fetch.block]

\* The states of the cache's bus transfer.
BusInStep ==
  /\ ~ fetch.busy => ~ fetch.onBus /\ ~ flush.on
  /\ ~ fetch.onBus => burst = 0
  /\ flush.on => (flush.last <=> flush.next = NSets * Assoc)
  /\ flush.on /\ flush.last => fetch.onBus

\* The flush leaves nothing behind it: as long as no DMA stores, the lines
\* it has passed agree with the main memory.
FlushPassed ==
  flush.on /\ ~ stored =>
    \A l \in Lines : l < flush.next /\ valid[l] => bram[l] = mem[Held(l)]

CacheInv ==
  /\ TypeOK /\ OneLinePerBlock /\ CleanLinesMatch /\ FetchIsolated /\ BusInStep
  /\ FlushPassed

\* Behind the DCMA the DMAs see one memory: every load returns the last
\* value stored to its word or, after a reset, what had been written back.
Memory == INSTANCE WriteBackMemory WITH cur <- Current
MemorySpec == Memory!MSpec

\* A flush during which no DMA stores leaves the main memory up to date,
\* whatever fetch it interrupts.
FlushCleans == [][flush.on /\ ~ flush'.on /\ ~ stored' => Current' = mem']_vars

\* "download finished" (Cache.cpp:374): when a fetch ends, its line holds the
\* block it was asked for.
DownloadFinished ==
  [][fetch.busy /\ ~ fetch'.busy /\ ~ flush.on => bram[fetch.line] = mem[fetch.block]]_vars

\* A bram serves no more words in a cycle than fit in one of its words.
BramPortLimit == \A i \in 0 .. NBrams - 1 : port[i] <= PortWords

\* A flush ends, even when it interrupts a fetch and the DMAs go on.
FlushEnds == flush.on ~> ~ flush.on

\* Every request of a DMA is served, however the others evict its lines.
RequestsServed == \A c \in Ids : ~ Done(c) ~> Done(c)
=============================================================================
