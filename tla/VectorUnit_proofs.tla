------------------------- MODULE VectorUnit_proofs -------------------------
(* Proofs about the vector unit, for every number of lanes, every size of  *)
(* the queue and the FIFOs and every set of programs.                      *)
EXTENDS VectorUnit, SequenceTheorems, TLAPS

USE ProgramAssumption, SizeAssumption

-----------------------------------------------------------------------------
(* Commands and lanes.                                                     *)

\* The remainder of a division by the number of lanes is a lane.
LEMMA Remainder ==
  ASSUME NEW n \in Int
  PROVE  n % LANES \in 0 .. LANES - 1
  BY SMT

\* The commands of a program are commands, and well formed.
LEMMA ProgramCommands ==
  ASSUME NEW p \in Programs, NEW c \in DOMAIN p
  PROVE  /\ p \in Seq(Command) /\ p[c] \in Command /\ WellFormed(p[c])
         /\ DOMAIN p = 1 .. Len(p) /\ Len(p) \in Nat /\ c \in Nat \ {0}
  <1>1. p \in Seq(Command) /\ WellFormed(p[c])
    BY ProgramAssumption
  <1>2. DOMAIN p = 1 .. Len(p) /\ Len(p) \in Nat /\ p[c] \in Command
    BY <1>1
  <1> QED BY <1>1, <1>2

\* Whatever an operand comes from is a lane.
LEMMA SourceIsLane ==
  ASSUME NEW cmd \in Command, NEW l \in Lanes, NEW o \in Operands
  PROVE  Source(l, cmd, o) \in Lanes
  <1>1. l \in Int /\ LANES \in Nat /\ LANES >= 2 /\ cmd.gamma \in 0 .. LANES - 1
    BY ProgramAssumption DEF Lanes, Command
  <1>2. l + LANES - 1 \in Int /\ l + 1 \in Int
    BY <1>1
  <1> DEFINE a == (l + LANES - 1) % LANES
             b == (l + 1) % LANES
  <1>3. a \in 0 .. LANES - 1 /\ b \in 0 .. LANES - 1
    BY <1>2, Remainder, Zenon
  <1>4. Source(l, cmd, o) \in {cmd.gamma, 0, a, LANES - 1, b, LS}
    BY DEF Source
  <1> HIDE DEF a, b
  <1> QED BY <1>1, <1>3, <1>4 DEF Lanes, LS

-----------------------------------------------------------------------------
(* Types.                                                                  *)

\* NoElement is the only element that is no command's.
LEMMA CommandElement ==
  ASSUME prog \in Programs, NEW e \in Element
  PROVE  /\ IsCmd(e) <=> e \in Working
         /\ IsCmd(e) => /\ e.c \in DOMAIN prog /\ e.k \in Nat \ {0} /\ e.k <= prog[e.c].n
                        /\ prog[e.c] \in Command /\ WellFormed(prog[e.c])
  <1>1. CASE e \in Working
    <2>1. e.c \in DOMAIN prog /\ e.k \in Nat \ {0} /\ e.k <= prog[e.c].n
      BY <1>1 DEF Working
    <2>2. prog[e.c] \in Command /\ WellFormed(prog[e.c]) /\ e.c # 0
      BY <2>1, ProgramCommands
    <2> QED BY <1>1, <2>1, <2>2 DEF IsCmd
  <1>2. CASE e = NoElement
    <2>1. e \notin Working
      <3> SUFFICES ASSUME e \in Working PROVE FALSE
        OBVIOUS
      <3>1. e.c \in DOMAIN prog
        BY DEF Working
      <3>2. e.c # 0
        BY <3>1, ProgramCommands
      <3> QED BY <1>2, <3>2 DEF NoElement
    <2> QED BY <1>2, <2>1 DEF IsCmd, NoElement
  <1> QED BY <1>1, <1>2 DEF Element

\* What stays the same in every step.
LEMMA ElementOfSlot ==
  ASSUME NEW sl \in Slot
  PROVE  sl.e \in Element /\ sl.in \in [Operands -> Element]
  BY DEF Slot

\* The stages of a lane are slots.
LEMMA StageElement ==
  ASSUME TypeOK, NEW l \in Lanes, NEW s \in Stages
  PROVE  pipe[l][s] \in Slot /\ pipe[l][s].e \in Element
  BY DEF TypeOK, Slot

\* What waits in a stage are operands of a command.
LEMMA WaitingOperand ==
  ASSUME TypeOK, NEW l \in Lanes, NEW s \in Stages, NEW Sels, NEW o \in Waits(l, s, Sels)
  PROVE  /\ o \in Operands /\ IsCmd(pipe[l][s].e) /\ prog[pipe[l][s].e.c][o] \in Sels
         /\ SourceOf(l, s, o) \in Lanes
  <1>1. o \in Operands /\ IsCmd(pipe[l][s].e) /\ prog[pipe[l][s].e.c][o] \in Sels
    BY DEF Waits
  <1>2. prog[pipe[l][s].e.c] \in Command
    BY <1>1, StageElement, CommandElement DEF TypeOK
  <1>3. SourceOf(l, s, o) \in Lanes
    BY <1>1, <1>2, SourceIsLane DEF SourceOf
  <1> QED BY <1>1, <1>3

\* A FIFO yields elements.
LEMMA TopElement ==
  ASSUME TypeOK, NEW l \in Lanes
  PROVE  Top(l) \in Element
  <1>1. fifo[l] \in Seq(Working)
    BY DEF TypeOK
  <1>2. fifo[l] # <<>> => Head(fifo[l]) \in Working
    BY <1>1
  <1> QED BY <1>2 DEF Top, Element

\* Reading operands gives a slot.
LEMMA ReadSlot ==
  ASSUME TypeOK, NEW l \in Lanes, NEW s \in Stages, NEW Sels, NEW T, T \subseteq Waits(l, s, Sels)
  PROVE  Read(l, s, T) \in Slot /\ Read(l, s, T).e = pipe[l][s].e
  <1> DEFINE ins == [o \in Operands |-> IF o \in T THEN Top(SourceOf(l, s, o)) ELSE pipe[l][s].in[o]]
  <1>1. pipe[l][s] \in Slot /\ pipe[l][s].in \in [Operands -> Element]
    BY StageElement, ElementOfSlot
  <1>2. \A o \in Operands : o \in T => Top(SourceOf(l, s, o)) \in Element
    BY WaitingOperand, TopElement
  <1>3. ins \in [Operands -> Element]
    BY <1>1, <1>2
  <1>4. Read(l, s, T) = [pipe[l][s] EXCEPT !.in = ins]
    BY <1>1 DEF Read
  <1> HIDE DEF ins
  <1> QED BY <1>1, <1>3, <1>4 DEF Slot

\* The pipeline of a lane holds slots after a cycle, each with the element of
\* the stage before, of its own, or none; the first stage takes the current
\* element.
LEMMA MovedSlots ==
  ASSUME TypeOK, NEW l \in Lanes
  PROVE  /\ Moved(l) \in [Stages -> Slot]
         /\ \A s \in Stages :
              Moved(l)[s].e \in {NoElement, current[l]} \cup {pipe[l][t].e : t \in Stages}
  <1> SUFFICES ASSUME NEW s \in Stages
               PROVE  /\ Moved(l)[s] \in Slot
                      /\ Moved(l)[s].e \in {NoElement, current[l]} \cup {pipe[l][t].e : t \in Stages}
    BY DEF Moved
  <1>1. s \in Int /\ 0 <= s /\ s <= LastStage /\ 2 \in Stages /\ 3 \in Stages /\ (s # 0 => s - 1 \in Stages)
    BY DEF Stages, LastStage, AluDepth
  <1>2. TakesOffsets(l) \subseteq Waits(l, 2, AddressSel) /\ TakesData(l) \subseteq Waits(l, 3, DataSel)
    BY DEF TakesOffsets, TakesData
  <1>3. /\ Read(l, 2, TakesOffsets(l)) \in Slot /\ Read(l, 2, TakesOffsets(l)).e = pipe[l][2].e
        /\ Read(l, 3, TakesData(l)) \in Slot /\ Read(l, 3, TakesData(l)).e = pipe[l][3].e
    <2>1. Read(l, 2, TakesOffsets(l)) \in Slot /\ Read(l, 2, TakesOffsets(l)).e = pipe[l][2].e
      BY <1>1, <1>2, ReadSlot
    <2>2. Read(l, 3, TakesData(l)) \in Slot /\ Read(l, 3, TakesData(l)).e = pipe[l][3].e
      BY <1>1, <1>2, ReadSlot
    <2> QED BY <2>1, <2>2
  <1>4. Unread \in [Operands -> Element] /\ NoElement \in Element
    BY DEF Unread, Element
  <1>5. NoSlot \in Slot /\ NoSlot.e = NoElement
    BY <1>4 DEF NoSlot, Slot
  <1>6. current[l] \in Element
    BY DEF TypeOK
  <1>7. [e |-> current[l], in |-> Unread] \in Slot
    BY <1>4, <1>6 DEF Slot
  <1>8. pipe[l][s] \in Slot /\ (s # 0 => pipe[l][s - 1] \in Slot)
    BY <1>1, StageElement
  <1>9. From(l) \in {0, 3, 4, LastStage + 1}
    BY DEF From
  <1>10. Moved(l)[s] \in {pipe[l][s], [e |-> current[l], in |-> Unread], NoSlot,
                          Read(l, 2, TakesOffsets(l)), Read(l, 3, TakesData(l))}
         \/ (s # 0 /\ Moved(l)[s] = pipe[l][s - 1])
    BY <1>1, <1>9 DEF Moved, LastStage, AluDepth
  <1> QED BY <1>1, <1>3, <1>5, <1>7, <1>8, <1>10

\* What a lane puts out is an element it has had in a stage.
LEMMA OutputElement ==
  ASSUME TypeOK, NEW l \in Lanes
  PROVE  /\ Output(l) \in Element
         /\ IsCmd(Output(l)) =>
              /\ Runs(l) /\ Output(l) = pipe[l][IF l = LS THEN LsOut - 1 ELSE LastStage - 1].e
              /\ l = LS \/ RunsAll(l) \/ RunsFromData(l)
  <1>1. LsOut - 1 \in Stages /\ LastStage - 1 \in Stages
    BY DEF Stages, LsOut, LastStage, AluDepth
  <1>2. pipe[l][LsOut - 1].e \in Element /\ pipe[l][LastStage - 1].e \in Element
    BY <1>1, StageElement
  <1>3. NoElement \in Element /\ ~ IsCmd(NoElement)
    BY DEF Element, IsCmd, NoElement
  <1> QED BY <1>2, <1>3 DEF Output, Runs

\* The element a lane works on next is one it has, or none.
LEMMA AfterElement ==
  ASSUME TypeOK, NEW l \in Lanes
  PROVE  /\ After(l) \in Element
         /\ IsCmd(After(l)) => IsCmd(current[l]) /\ After(l).c = current[l].c
  <1> DEFINE e == current[l]
             next == [e EXCEPT !.k = @ + 1]
  <1>1. e \in Element /\ prog \in Programs /\ NoElement \in Element /\ ~ IsCmd(NoElement)
    BY DEF TypeOK, Element, IsCmd, NoElement
  <1>2. After(l) \in {e, NoElement} \/ (IsCmd(e) /\ e.k < prog[e.c].n /\ After(l) = next)
    BY DEF After
  <1>3. ASSUME IsCmd(e), e.k < prog[e.c].n
        PROVE  next \in Working /\ next.c = e.c
    <2>1. /\ e \in Working /\ e.c \in DOMAIN prog /\ e.k \in Nat \ {0}
          /\ prog[e.c] \in Command
      BY <1>1, <1>3, CommandElement
    <2>2. prog[e.c].n \in Nat \ {0}
      BY <2>1 DEF Command
    <2>3. e \in [c : DOMAIN prog, k : Nat \ {0}]
      BY <2>1 DEF Working
    <2>4. next \in [c : DOMAIN prog, k : Nat \ {0}] /\ next.k = e.k + 1 /\ next.c = e.c
      BY <2>1, <2>3
    <2>5. next.k <= prog[next.c].n
      BY <1>3, <2>1, <2>2, <2>4
    <2> HIDE DEF next
    <2> QED BY <2>4, <2>5 DEF Working
  <1> HIDE DEF next
  <1> QED BY <1>1, <1>2, <1>3 DEF Element

\* A fetched command is the front of the queue, and the lane is one it is for.
LEMMA FetchedElement ==
  ASSUME TypeOK, NEW l \in Lanes, Fetches(l)
  PROVE  /\ queue # <<>> /\ l \in Head(queue).lanes
         /\ [c |-> Head(queue).c, k |-> 1] \in Working
  <1>1. queue # <<>> /\ l \in Head(queue).lanes
    BY DEF Fetches, Eligible
  <1>2. Head(queue) \in [c : DOMAIN prog, lanes : (SUBSET Lanes) \ {{}}]
    BY <1>1, HeadTailProperties DEF TypeOK
  <1>3. prog[Head(queue).c] \in Command
    BY <1>2, ProgramCommands DEF TypeOK
  <1>4. prog[Head(queue).c].n \in Nat \ {0}
    BY <1>3 DEF Command
  <1> DEFINE e == [c |-> Head(queue).c, k |-> 1]
  <1>5. e \in [c : DOMAIN prog, k : Nat \ {0}] /\ e.k = 1 /\ e.c = Head(queue).c
    BY <1>2
  <1> HIDE DEF e
  <1>6. e \in Working
    BY <1>4, <1>5 DEF Working
  <1> QED BY <1>1, <1>6 DEF e

\* The FIFO of a lane stays within its size.
LEMMA NewFifoType ==
  ASSUME TypeOK, NEW l \in Lanes
  PROVE  NewFifo(l) \in Seq(Working) /\ Len(NewFifo(l)) <= FifoSize
  <1> DEFINE kept == IF l \in Popped /\ fifo[l] # <<>> THEN Tail(fifo[l]) ELSE fifo[l]
  <1>1. fifo[l] \in Seq(Working) /\ Len(fifo[l]) <= FifoSize
    BY DEF TypeOK
  <1>2. kept \in Seq(Working) /\ Len(kept) <= FifoSize
    BY <1>1
  <1>3. Pushes(l) => Output(l) \in Working
    BY OutputElement, CommandElement DEF Pushes, TypeOK
  <1>4. NewFifo(l) \in {kept, Append(kept, Output(l))}
        /\ (NewFifo(l) # kept => Pushes(l) /\ Len(kept) < FifoSize /\ NewFifo(l) = Append(kept, Output(l)))
    BY DEF NewFifo
  <1> HIDE DEF kept
  <1>5. CASE NewFifo(l) = kept
    BY <1>2, <1>5
  <1>6. CASE NewFifo(l) # kept
    <2>1. Len(kept) \in Nat /\ Output(l) \in Working /\ Len(kept) < FifoSize
      BY <1>2, <1>3, <1>4, <1>6
    <2>2. Append(kept, Output(l)) \in Seq(Working) /\ Len(Append(kept, Output(l))) = Len(kept) + 1
      BY <1>2, <2>1
    <2> QED BY <1>4, <1>6, <2>1, <2>2
  <1> QED BY <1>5, <1>6

\* Fetching takes a command from the queue or leaves it to fewer lanes.
LEMMA FetchedQueueType ==
  ASSUME TypeOK
  PROVE  /\ FetchedQueue \in Seq([c : DOMAIN prog, lanes : (SUBSET Lanes) \ {{}}])
         /\ Len(FetchedQueue) <= Len(queue)
         /\ \A i \in DOMAIN FetchedQueue : \E j \in DOMAIN queue :
              FetchedQueue[i].c = queue[j].c /\ FetchedQueue[i].lanes \subseteq queue[j].lanes
  <1> DEFINE Entry == [c : DOMAIN prog, lanes : (SUBSET Lanes) \ {{}}]
             left == {l \in Head(queue).lanes : ~ Fetches(l)}
             rest == [queue EXCEPT ![1].lanes = left]
  <1>1. queue \in Seq(Entry)
    BY DEF TypeOK
  <1>2. CASE queue = <<>>
    <2>1. FetchedQueue = queue
      BY <1>2 DEF FetchedQueue
    <2> QED BY <1>1, <2>1
  <1>3. CASE queue # <<>> /\ left = {}
    <2>1. FetchedQueue = Tail(queue)
      BY <1>3 DEF FetchedQueue
    <2>2. Tail(queue) \in Seq(Entry) /\ Len(Tail(queue)) = Len(queue) - 1
          /\ \A i \in 1 .. Len(queue) - 1 : Tail(queue)[i] = queue[i + 1] /\ i + 1 \in 1 .. Len(queue)
      BY <1>1, <1>3
    <2>3. Len(queue) \in Nat /\ DOMAIN queue = 1 .. Len(queue) /\ DOMAIN Tail(queue) = 1 .. Len(queue) - 1
      BY <1>1, <1>3, <2>2
    <2> QED BY <2>1, <2>2, <2>3
  <1>4. CASE queue # <<>> /\ left # {}
    <2>1. FetchedQueue = rest
      BY <1>4 DEF FetchedQueue
    <2>2. Head(queue) = queue[1] /\ Len(queue) \in Nat \ {0} /\ DOMAIN queue = 1 .. Len(queue)
      BY <1>1, <1>4, LenProperties, HeadTailProperties, EmptySeq
    <2>3. 1 \in 1 .. Len(queue)
      BY <2>2
    <2>4. queue[1] \in Entry
      BY <1>1, <2>3, ElementOfSeq
    <2>5. left \in (SUBSET Lanes) \ {{}} /\ left \subseteq queue[1].lanes
      BY <1>4, <2>2, <2>4
    <2> HIDE DEF left
    <2> DEFINE first == [queue[1] EXCEPT !.lanes = left]
    <2>6. first \in Entry /\ first.c = queue[1].c /\ first.lanes = left
      BY <2>4, <2>5
    <2>7. rest = [queue EXCEPT ![1] = first]
      OBVIOUS
    <2> HIDE DEF rest, first, Entry
    <2>8. /\ rest \in Seq(Entry) /\ Len(rest) = Len(queue)
          /\ \A i \in 1 .. Len(queue) : rest[i] = IF i = 1 THEN first ELSE queue[i]
      BY <1>1, <2>3, <2>6, <2>7, ExceptSeq
    <2>9. DOMAIN rest = 1 .. Len(queue)
      BY <2>8, LenProperties
    <2>10. Len(rest) <= Len(queue)
      BY <2>2, <2>8
    <2>11. \A i \in DOMAIN rest : \E j \in DOMAIN queue :
             rest[i].c = queue[j].c /\ rest[i].lanes \subseteq queue[j].lanes
      <3> SUFFICES ASSUME NEW i \in DOMAIN rest
                   PROVE  rest[i].c = queue[i].c /\ rest[i].lanes \subseteq queue[i].lanes
        BY <2>2, <2>9
      <3> QED BY <2>5, <2>6, <2>8, <2>9
    <2> QED BY <2>1, <2>8, <2>10, <2>11 DEF Entry
  <1> QED BY <1>2, <1>3, <1>4

-----------------------------------------------------------------------------
(* The type invariant.                                                     *)

LEMMA TypeInit == Init => TypeOK
  <1> SUFFICES ASSUME Init PROVE TypeOK
    OBVIOUS
  <1> USE DEF Init, program
  <1>1. prog \in Programs /\ pc \in 1 .. Len(prog) + 1
    <2>1. prog \in Seq(Command)
      BY ProgramAssumption
    <2>2. Len(prog) \in Nat
      BY <2>1
    <2> QED BY <2>2
  <1>2. NoElement \in Element /\ Unread \in [Operands -> Element]
    BY DEF Element, Unread
  <1>3. NoSlot \in Slot
    BY <1>2 DEF Slot, NoSlot
  <1>4. pipe \in [Lanes -> [Stages -> Slot]] /\ current \in [Lanes -> Element]
    BY <1>2, <1>3
  <1>5. queue \in Seq([c : DOMAIN prog, lanes : (SUBSET Lanes) \ {{}}]) /\ Len(queue) <= QueueMaxSize + 1
    BY EmptySeq
  <1>6. fifo \in [Lanes -> Seq(Working)] /\ \A l \in Lanes : Len(fifo[l]) <= FifoSize
    BY EmptySeq
  <1>7. blocking \in [Lanes -> BOOLEAN] /\ done \in [Lanes -> Nat]
    OBVIOUS
  <1> QED BY <1>1, <1>4, <1>5, <1>6, <1>7 DEF TypeOK

\* Giving a command adds an entry to the queue.
LEMMA IssuedQueue ==
  ASSUME TypeOK, Issue
  PROVE  /\ queue' \in Seq([c : DOMAIN prog, lanes : (SUBSET Lanes) \ {{}}])
         /\ Len(queue') <= QueueMaxSize + 1 /\ pc \in DOMAIN prog /\ pc' \in 1 .. Len(prog) + 1
         /\ Len(queue') = Len(queue) + 1
         /\ \A i \in DOMAIN queue' :
              queue'[i] = IF i \in DOMAIN queue THEN queue[i] ELSE [c |-> pc, lanes |-> prog[pc].lanes]
  <1> DEFINE Entry == [c : DOMAIN prog, lanes : (SUBSET Lanes) \ {{}}]
             x == [c |-> pc, lanes |-> prog[pc].lanes]
  <1>1. prog \in Seq(Command) /\ pc \in Nat /\ 1 <= pc
    BY ProgramAssumption DEF TypeOK
  <1>2. pc <= Len(prog) /\ queue' = Append(queue, x) /\ pc' = pc + 1 /\ Len(queue) <= QueueMaxSize
    BY <1>1 DEF Issue, Accesses, QueueFull, TypeOK
  <1>3. pc \in DOMAIN prog /\ Len(prog) \in Nat
    BY <1>1, <1>2
  <1>4. prog[pc].lanes \in (SUBSET Lanes) \ {{}}
    <2>1. prog[pc] \in Command
      BY <1>3, ProgramCommands DEF TypeOK
    <2> QED BY <2>1 DEF Command
  <1>5. x \in Entry /\ queue \in Seq(Entry)
    BY <1>3, <1>4 DEF TypeOK
  <1> HIDE DEF x, Entry
  <1>6. /\ queue' \in Seq(Entry) /\ Len(queue') = Len(queue) + 1 /\ Len(queue) \in Nat
        /\ DOMAIN queue' = 1 .. Len(queue) + 1 /\ DOMAIN queue = 1 .. Len(queue)
        /\ \A i \in 1 .. Len(queue) : queue'[i] = queue[i]
        /\ queue'[Len(queue) + 1] = x
    BY <1>2, <1>5
  <1>7. pc' \in 1 .. Len(prog) + 1 /\ Len(queue') <= QueueMaxSize + 1
    BY <1>1, <1>2, <1>3, <1>6
  <1>8. \A i \in DOMAIN queue' : queue'[i] = IF i \in DOMAIN queue THEN queue[i] ELSE x
    BY <1>6
  <1> QED BY <1>3, <1>6, <1>7, <1>8 DEF x, Entry

LEMMA TypeStep == TypeOK /\ [Next]_vars => TypeOK'
  <1> SUFFICES ASSUME TypeOK, [Next]_vars PROVE TypeOK'
    OBVIOUS
  <1>0. prog' = prog => Element' = Element /\ Slot' = Slot /\ Working' = Working
    BY DEF Element, Slot, Working
  <1>1. CASE Clock
    <2>1. UNCHANGED <<prog, pc, phase>> /\ ran' = TRUE /\ thrown' \in BOOLEAN
      BY <1>1 DEF Clock
    <2>2. queue' = FetchedQueue
      BY <1>1 DEF Clock
    <2>3. queue' \in Seq([c : DOMAIN prog, lanes : (SUBSET Lanes) \ {{}}]) /\ Len(queue') <= QueueMaxSize + 1
      <3>1. Len(queue') \in Nat /\ Len(queue) \in Nat /\ Len(queue) <= QueueMaxSize + 1
        BY <2>2, FetchedQueueType, LenProperties DEF TypeOK
      <3>2. Len(queue') <= Len(queue)
        BY <2>2, FetchedQueueType
      <3> QED BY <2>2, <3>1, <3>2, FetchedQueueType
    <2>4. current' \in [Lanes -> Element]
      <3>1. current' = [l \in Lanes |-> IF Fetches(l) THEN [c |-> Head(queue).c, k |-> 1] ELSE After(l)]
        BY <1>1 DEF Clock
      <3>2. \A l \in Lanes : Fetches(l) => [c |-> Head(queue).c, k |-> 1] \in Element
        BY FetchedElement DEF Element
      <3>3. \A l \in Lanes : After(l) \in Element
        BY AfterElement
      <3> QED BY <3>1, <3>2, <3>3
    <2>5. blocking' \in [Lanes -> BOOLEAN]
      <3>1. blocking' = [l \in Lanes |-> Blocks(current'[l]) \/ PipeBlocks(l)]
        BY <1>1 DEF Clock
      <3> QED BY <3>1, Zenon
    <2>6. pipe' \in [Lanes -> [Stages -> Slot]]
      <3>1. pipe' = [l \in Lanes |-> Moved(l)]
        BY <1>1 DEF Clock
      <3> QED BY <3>1, MovedSlots
    <2>7. fifo' \in [Lanes -> Seq(Working)] /\ \A l \in Lanes : Len(fifo'[l]) <= FifoSize
      <3>1. fifo' = [l \in Lanes |-> NewFifo(l)]
        BY <1>1 DEF Clock
      <3> QED BY <3>1, NewFifoType
    <2>8. done' \in [Lanes -> Nat]
      <3>1. done' = [l \in Lanes |-> IF IsCmd(Output(l)) THEN done[l] + 1 ELSE done[l]]
        BY <1>1 DEF Clock
      <3>2. \A l \in Lanes : done[l] \in Nat
        BY DEF TypeOK
      <3> QED BY <3>1, <3>2
    <2>9. prog \in Programs /\ pc \in 1 .. Len(prog) + 1 /\ phase \in {"mask", "poll", "issue"}
      BY DEF TypeOK
    <2> QED BY <1>0, <2>1, <2>3, <2>4, <2>5, <2>6, <2>7, <2>8, <2>9 DEF TypeOK
  <1>2. CASE WriteMask \/ Poll
    <2>1. UNCHANGED <<prog, pc, queue, current, blocking, pipe, fifo, thrown, done>> /\ ran' = FALSE
      BY <1>2 DEF WriteMask, Poll, Accesses
    <2>2. phase' \in {"mask", "poll", "issue"}
      BY <1>2 DEF WriteMask, Poll
    <2> QED BY <1>0, <2>1, <2>2 DEF TypeOK
  <1>3. CASE Issue
    <2>1. UNCHANGED <<prog, current, blocking, pipe, fifo, thrown, done>> /\ ran' = FALSE /\ phase' = "mask"
      BY <1>3 DEF Issue, Accesses
    <2> QED BY <1>0, <1>3, <2>1, IssuedQueue DEF TypeOK
  <1>4. CASE UNCHANGED vars
    BY <1>0, <1>4 DEF TypeOK, vars, program
  <1> QED BY <1>1, <1>2, <1>3, <1>4 DEF Next

\* Whatever the program, elements and slots keep their form, the FIFOs their
\* size, and the queue is at most one command beyond QueueMaxSize: a command
\* is only given once VectorUnit::isCmdQueueFull says no.
THEOREM TypeCorrect == Spec => []TypeOK
  <1>1. Init => TypeOK
    BY TypeInit
  <1>2. TypeOK /\ [Next]_vars => TypeOK'
    BY TypeStep
  <1> QED BY <1>1, <1>2, PTL DEF Spec

-----------------------------------------------------------------------------
(* Commands stay in their lanes; a full FIFO of the load/store lane is     *)
(* seen in the stage that filled it.                                       *)

Owned(l, e) == IsCmd(e) => l \in prog[e.c].lanes

\* A lane only has elements of commands that are for it.
OwnCommands ==
  /\ \A l \in Lanes : Owned(l, current[l]) /\ \A s \in Stages : Owned(l, pipe[l][s].e)
  /\ \A i \in DOMAIN queue : queue[i].lanes \subseteq prog[queue[i].c].lanes

ChainsInOut == LET e == pipe[LS][LsOut].e IN IsCmd(e) /\ prog[e.c].chain

\* While the FIFO of the load/store lane is full, its output stage holds the
\* load that filled it: that is what makes the lane stall in time.
FullIsSeen == Len(fifo[LS]) >= FifoSize => ChainsInOut

UnitInv == TypeOK /\ OwnCommands /\ FullIsSeen

LEMMA InvInit == Init => UnitInv
  <1> SUFFICES ASSUME Init PROVE OwnCommands /\ FullIsSeen
    BY TypeInit DEF UnitInv
  <1>1. LS \in Lanes /\ FifoSize \in Nat \ {0}
    BY ProgramAssumption, SizeAssumption DEF Lanes, LS
  <1>2. OwnCommands
    BY DEF Init, OwnCommands, Owned, IsCmd, NoElement, NoSlot
  <1>3. FullIsSeen
    BY <1>1, EmptySeq DEF Init, FullIsSeen
  <1> QED BY <1>2, <1>3

\* The load/store lane stalls while its FIFO is full.
LEMMA FullStalls ==
  ASSUME UnitInv, Len(fifo[LS]) >= FifoSize
  PROVE  DstStall(LS) /\ ~ Runs(LS)
  <1>1. 5 + AluDepth = LsOut
    BY DEF AluDepth, LsOut
  <1>2. DstStall(LS)
    BY <1>1 DEF UnitInv, FullIsSeen, ChainsInOut, DstStall
  <1> QED BY <1>2 DEF Runs, RunsAll, RunsFromOffset, RunsFromData

\* What is pushed finds room.
LEMMA PushFinds ==
  ASSUME UnitInv, NEW l \in Lanes, Pushes(l)
  PROVE  Len(fifo[l]) < FifoSize
  <1> USE DEF UnitInv
  <1>1. IsCmd(Output(l)) /\ Runs(l) /\ Len(fifo[l]) \in Nat /\ FifoSize \in Nat
    BY OutputElement, LenProperties, SizeAssumption DEF Pushes, TypeOK
  <1>2. CASE l = LS
    BY <1>1, <1>2, FullStalls
  <1>3. CASE l # LS
    <2>1. Output(l) = pipe[l][5 + AluDepth].e /\ prog[Output(l).c].chain
      BY <1>1, <1>3, OutputElement DEF Pushes, LastStage, AluDepth
    <2>2. ~ DstStall(l)
      BY <1>1 DEF Runs, RunsAll, RunsFromOffset, RunsFromData
    <2> QED BY <1>1, <2>1, <2>2 DEF DstStall
  <1> QED BY <1>2, <1>3

\* A cycle moves elements within their lanes.
LEMMA OwnStep ==
  ASSUME UnitInv, Clock
  PROVE  OwnCommands'
  <1> USE DEF UnitInv
  <1>1. UNCHANGED prog
    BY DEF Clock
  <1>2. ~ IsCmd(NoElement)
    BY DEF IsCmd, NoElement
  <1>3. \A l \in Lanes, s \in Stages : Owned(l, pipe[l][s].e)'
    <2> SUFFICES ASSUME NEW l \in Lanes, NEW s \in Stages
                 PROVE  Owned(l, Moved(l)[s].e)
      <3>1. pipe' = [l \in Lanes |-> Moved(l)]
        BY DEF Clock
      <3> QED BY <1>1, <3>1 DEF Owned, IsCmd
    <2>1. Moved(l)[s].e \in {NoElement, current[l]} \cup {pipe[l][t].e : t \in Stages}
      BY MovedSlots
    <2> QED BY <1>2, <2>1 DEF OwnCommands, Owned
  <1>4. \A l \in Lanes : Owned(l, current[l])'
    <2> SUFFICES ASSUME NEW l \in Lanes
                 PROVE  Owned(l, IF Fetches(l) THEN [c |-> Head(queue).c, k |-> 1] ELSE After(l))
      <3>1. current' = [l \in Lanes |-> IF Fetches(l) THEN [c |-> Head(queue).c, k |-> 1] ELSE After(l)]
        BY DEF Clock
      <3> QED BY <1>1, <3>1 DEF Owned, IsCmd
    <2>1. ASSUME Fetches(l) PROVE l \in prog[Head(queue).c].lanes
      <3>1. queue # <<>> /\ l \in Head(queue).lanes
        BY <2>1, FetchedElement
      <3>2. 1 \in DOMAIN queue /\ Head(queue) = queue[1]
        <4>1. Len(queue) \in Nat \ {0} /\ DOMAIN queue = 1 .. Len(queue)
          BY <3>1, EmptySeq, LenProperties DEF TypeOK
        <4> QED BY <3>1, <4>1 DEF TypeOK
      <3> QED BY <3>1, <3>2 DEF OwnCommands
    <2>2. Owned(l, After(l))
      BY AfterElement DEF OwnCommands, Owned
    <2> QED BY <2>1, <2>2 DEF Owned
  <1>5. \A i \in DOMAIN queue' : queue'[i].lanes \subseteq prog'[queue'[i].c].lanes
    <2>1. queue' = FetchedQueue
      BY DEF Clock
    <2> QED BY <1>1, <2>1, FetchedQueueType DEF OwnCommands
  <1> QED BY <1>3, <1>4, <1>5 DEF OwnCommands

\* A cycle that fills the FIFO of the load/store lane leaves the load in the
\* output stage; one that finds it full changes nothing or takes something.
LEMMA FullStep ==
  ASSUME UnitInv, Clock
  PROVE  FullIsSeen'
  <1> USE DEF UnitInv
  <1> SUFFICES ASSUME Len(NewFifo(LS)) >= FifoSize
               PROVE  LET e == Moved(LS)[LsOut].e IN IsCmd(e) /\ prog[e.c].chain
    <2>1. LS \in Lanes
      BY ProgramAssumption DEF LS, Lanes
    <2>2. fifo'[LS] = NewFifo(LS) /\ pipe'[LS] = Moved(LS) /\ prog' = prog
      BY <2>1 DEF Clock
    <2> QED BY <2>2 DEF FullIsSeen, ChainsInOut, IsCmd
  <1>1. LS \in Lanes /\ LsOut \in Stages /\ LsOut = 8 /\ LsOut - 1 \in Stages
    BY ProgramAssumption DEF LS, Lanes, LsOut, Stages, LastStage, AluDepth
  <1>2. fifo[LS] \in Seq(Working) /\ Len(fifo[LS]) \in Nat /\ FifoSize \in Nat \ {0}
    BY <1>1, LenProperties, SizeAssumption DEF TypeOK
  <1>3. CASE Pushes(LS)
    <2>1. Output(LS) = pipe[LS][LsOut - 1].e /\ Runs(LS) /\ IsCmd(Output(LS)) /\ Output(LS) \in Element
          /\ prog[Output(LS).c].type = "load"
      BY <1>1, <1>3, OutputElement DEF Pushes
    <2>2. Moved(LS)[LsOut] = pipe[LS][LsOut - 1]
      BY <1>1, <2>1 DEF Moved, From, Runs, LastStage, AluDepth
    <2>3. prog[Output(LS).c].chain
      <3>1. prog[Output(LS).c] \in Command /\ WellFormed(prog[Output(LS).c])
        BY <2>1, CommandElement DEF TypeOK
      <3> QED BY <2>1, <3>1 DEF WellFormed
    <2> QED BY <2>1, <2>2, <2>3
  <1>4. CASE ~ Pushes(LS)
    <2>1. NewFifo(LS) = IF LS \in Popped /\ fifo[LS] # <<>> THEN Tail(fifo[LS]) ELSE fifo[LS]
      BY <1>4 DEF NewFifo
    <2>2. Len(fifo[LS]) >= FifoSize
      BY <1>2, <2>1, HeadTailProperties
    <2>3. ~ Runs(LS) /\ ChainsInOut
      BY <2>2, FullStalls DEF FullIsSeen
    <2>4. Moved(LS)[LsOut] = pipe[LS][LsOut]
      BY <1>1, <2>3 DEF Moved, From, Runs, LastStage, AluDepth
    <2> QED BY <2>3, <2>4 DEF ChainsInOut
  <1> QED BY <1>3, <1>4

LEMMA InvStep == UnitInv /\ [Next]_vars => UnitInv'
  <1> SUFFICES ASSUME UnitInv, [Next]_vars PROVE OwnCommands' /\ FullIsSeen'
    BY TypeStep DEF UnitInv
  <1>1. CASE Clock
    BY <1>1, OwnStep, FullStep
  <1>2. CASE WriteMask \/ Poll
    <2>1. UNCHANGED <<prog, queue, current, pipe, fifo>>
      BY <1>2 DEF WriteMask, Poll, Accesses
    <2> QED BY <2>1 DEF UnitInv, OwnCommands, Owned, FullIsSeen, ChainsInOut, IsCmd
  <1>3. CASE Issue
    <2>1. UNCHANGED <<prog, current, pipe, fifo>>
      BY <1>3 DEF Issue, Accesses
    <2>2. \A i \in DOMAIN queue' :
            queue'[i] = IF i \in DOMAIN queue THEN queue[i] ELSE [c |-> pc, lanes |-> prog[pc].lanes]
      BY <1>3, IssuedQueue DEF UnitInv
    <2>3. \A i \in DOMAIN queue' : queue'[i].lanes \subseteq prog[queue'[i].c].lanes
      BY <2>2 DEF UnitInv, OwnCommands
    <2> QED BY <2>1, <2>3 DEF UnitInv, OwnCommands, Owned, FullIsSeen, ChainsInOut, IsCmd
  <1>4. CASE UNCHANGED vars
    BY <1>4 DEF vars, program, UnitInv, OwnCommands, Owned, FullIsSeen, ChainsInOut, IsCmd
  <1> QED BY <1>1, <1>2, <1>3, <1>4 DEF Next

LEMMA InvHolds == Spec => []UnitInv
  BY InvInit, InvStep, PTL DEF Spec

\* Whatever the program, no lane loses a result at its FIFO: the stall that
\* VectorLane::check_dst_lane_stall derives from stage 8 comes in time, in
\* the processing lanes, where it sees the result before it is pushed, and
\* in the load/store lane, where it sees it after.
THEOREM ResultsFit == Spec => []PushesFit
  <1>1. UnitInv => PushesFit
    BY PushFinds DEF PushesFit
  <1> QED BY <1>1, InvHolds, PTL

-----------------------------------------------------------------------------
(* Nothing is read from an empty FIFO.                                     *)

\* No command takes data from two different lanes.
OneDataSource ==
  \A p \in Programs : \A c \in DOMAIN p :
    p[c].src1 \in DataSel /\ p[c].src2 \in DataSel => p[c].src1 = p[c].src2

\* What is taken from a FIFO is there.
LEMMA PoppedIsThere ==
  ASSUME OneDataSource, UnitInv, NEW s \in Popped
  PROVE  fifo[s] # <<>>
  <1> USE DEF UnitInv
  <1>1. PICK l \in Lanes : s \in {SourceOf(l, 2, o) : o \in TakesOffsets(l)}
                               \cup {SourceOf(l, 3, o) : o \in TakesData(l)}
    BY DEF Popped
  <1>2. CASE s \in {SourceOf(l, 2, o) : o \in TakesOffsets(l)}
    <2>1. PICK o \in TakesOffsets(l) : s = SourceOf(l, 2, o)
      BY <1>2
    <2>2. o \in Waits(l, 2, AddressSel) /\ ~ AdrStall(l)
      BY <2>1 DEF TakesOffsets, RunsAll
    <2> QED BY <2>1, <2>2 DEF AdrStall, Empty
  <1>3. CASE s \in {SourceOf(l, 3, o) : o \in TakesData(l)}
    <2>1. PICK o \in TakesData(l) : s = SourceOf(l, 3, o)
      BY <1>3
    <2>2. o \in Waits(l, 3, DataSel) /\ ~ SrcStall(l)
      BY <2>1 DEF TakesData, RunsAll, RunsFromOffset
    <2> DEFINE e == pipe[l][3].e
               cmd == prog[e.c]
    <2>3. 3 \in Stages
      BY DEF Stages, LastStage, AluDepth
    <2>4. o \in Operands /\ IsCmd(e) /\ cmd[o] \in DataSel
      BY <2>2, <2>3, WaitingOperand
    <2>5. cmd \in Command /\ WellFormed(cmd) /\ e.c \in DOMAIN prog /\ l \in cmd.lanes
      BY <2>3, <2>4, StageElement, CommandElement DEF TypeOK, OwnCommands, Owned
    <2>6. cmd.src1 \in DataSel /\ cmd.src2 \in DataSel => cmd.src1 = cmd.src2
      BY <2>5 DEF OneDataSource, TypeOK
    <2>7. "none" \notin DataSel /\ DataSel \cap AddressSel = {}
      BY DEF DataSel, AddressSel
    <2>8. CASE l = LS
      <3>1. o = "dst"
        <4>1. cmd.type \in {"load", "store"}
          BY <2>5, <2>8 DEF WellFormed, Command
        <4> QED BY <2>4, <2>5, <2>7, <4>1 DEF WellFormed, Operands, DataSel
      <3> QED BY <2>1, <2>2, <2>8, <3>1 DEF SrcStall, Empty
    <2>9. CASE l # LS
      <3>1. cmd.type = "proc" /\ cmd.dst \notin DataSel
        BY <2>5, <2>9 DEF WellFormed, Command
      <3>2. o \in {"src1", "src2"}
        BY <2>4, <3>1 DEF Operands
      <3>3. "src2" \in Waits(l, 3, DataSel) => ~ Empty(l, 3, "src2")
        BY <2>2, <2>9 DEF SrcStall
      <3>4. "src1" \in Waits(l, 3, DataSel) /\ "src2" \notin Waits(l, 3, DataSel) => ~ Empty(l, 3, "src1")
        BY <2>2, <2>9 DEF SrcStall
      <3>5. "src1" \in Waits(l, 3, DataSel) /\ "src2" \in Waits(l, 3, DataSel)
            => SourceOf(l, 3, "src1") = SourceOf(l, 3, "src2")
        <4> SUFFICES ASSUME "src1" \in Waits(l, 3, DataSel), "src2" \in Waits(l, 3, DataSel)
                     PROVE  SourceOf(l, 3, "src1") = SourceOf(l, 3, "src2")
          OBVIOUS
        <4>1. cmd["src1"] = cmd["src2"] /\ cmd["src1"] \in DataSel
          BY <2>6 DEF Waits
        <4> QED BY <2>9, <4>1 DEF SourceOf, Source
      <3> QED BY <2>1, <2>2, <3>2, <3>3, <3>4, <3>5 DEF Empty
    <2> QED BY <2>8, <2>9
  <1> QED BY <1>1, <1>2, <1>3

\* A lane never reads a FIFO that has nothing, if no command takes data from
\* two lanes: VectorLane::check_src_lane_stall keeps the result of one of its
\* two checks only, and this is the condition under which one is enough.
THEOREM OperandsThere == OneDataSource => (Spec => []NoEmptyRead)
  <1> SUFFICES ASSUME OneDataSource PROVE Spec => []NoEmptyRead
    OBVIOUS
  <1>1. Init => NoEmptyRead
    BY DEF Init, NoEmptyRead
  <1>2. UnitInv /\ NoEmptyRead /\ [Next]_vars => NoEmptyRead'
    <2> SUFFICES ASSUME UnitInv, NoEmptyRead, [Next]_vars PROVE NoEmptyRead'
      OBVIOUS
    <2>1. CASE Clock
      <3>1. thrown' = (\E s \in Popped : fifo[s] = <<>>)
        BY <2>1 DEF Clock
      <3> QED BY <3>1, PoppedIsThere DEF NoEmptyRead
    <2>2. CASE WriteMask \/ Poll \/ Issue
      BY <2>2 DEF WriteMask, Poll, Issue, Accesses, NoEmptyRead
    <2>3. CASE UNCHANGED vars
      BY <2>3 DEF vars, NoEmptyRead
    <2> QED BY <2>1, <2>2, <2>3 DEF Next
  <1> QED BY <1>1, <1>2, InvHolds, PTL DEF Spec

=============================================================================
