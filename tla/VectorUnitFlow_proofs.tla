----------------------- MODULE VectorUnitFlow_proofs ------------------------
(* What the lanes of a vector unit compute, for every number of lanes,     *)
(* every size of the queue and the FIFOs and every set of programs: the    *)
(* lanes keep the order of their elements, a program that waits finds all  *)
(* done, operands are the results that are meant, and the unit implements  *)
(* its dataflow.                                                           *)
EXTENDS VectorUnit_proofs, SharedTheorems, FiniteSetTheorems

-----------------------------------------------------------------------------
(* Elements of a program in order.                                         *)

\* The sums that Before is defined by.
Sums(p, C) ==
  CHOOSE f : f = [i \in 0 .. Len(p) |-> IF i = 0 THEN 0 ELSE f[i - 1] + IF i \in C THEN p[i].n ELSE 0]

\* The recursion in Before has a solution: the sums of the first commands.
LEMMA SumsOfPrefixes ==
  ASSUME NEW p \in Seq(Command), NEW C
  PROVE  /\ Sums(p, C) \in [0 .. Len(p) -> Nat] /\ Sums(p, C)[0] = 0
         /\ \A c \in 1 .. Len(p) : Sums(p, C)[c] = Sums(p, C)[c - 1] + IF c \in C THEN p[c].n ELSE 0
  <1> DEFINE N == Len(p)
             E(f) == [i \in 0 .. Len(p) |-> IF i = 0 THEN 0 ELSE f[i - 1] + IF i \in C THEN p[i].n ELSE 0]
             m(i) == IF i \in 1 .. N /\ i \in C THEN p[i].n ELSE 0
             step == [n \in Nat |-> [x \in Nat |-> x + m(n + 1)]]
  <1>1. N \in Nat
    BY LenProperties
  <1>2. \A i \in Nat : m(i) \in Nat
    <2> SUFFICES ASSUME NEW i \in 1 .. N PROVE p[i].n \in Nat
      OBVIOUS
    <2>1. p[i] \in Command
      BY ElementOfSeq
    <2> QED BY <2>1 DEF Command
  <1>3. \A i \in 1 .. N : m(i) = IF i \in C THEN p[i].n ELSE 0
    OBVIOUS
  <1> HIDE DEF m
  <1>4. step \in [Nat -> [Nat -> Nat]]
    BY <1>2
  <1>5. \A n, x \in Nat : step[n][x] = x + m(n + 1)
    OBVIOUS
  <1> HIDE DEF step
  <1>6. PICK g \in [Nat -> Nat] : Iterates(g, 0, step)
    <2>1. 0 \in Nat
      OBVIOUS
    <2> QED BY <1>4, <2>1, Iterate
  <1>7. g[0] = 0 /\ \A n \in Nat : g[n + 1] = g[n] + m(n + 1)
    BY <1>5, <1>6 DEF Iterates
  <1> DEFINE h == [i \in 0 .. N |-> g[i]]
  <1>8. h = E(h)
    <2> SUFFICES ASSUME NEW i \in 0 .. N PROVE h[i] = E(h)[i]
      OBVIOUS
    <2>1. CASE i = 0
      BY <1>7, <2>1
    <2>2. CASE i # 0
      <3>1. i - 1 \in Nat /\ i - 1 \in 0 .. N /\ i \in 1 .. N /\ (i - 1) + 1 = i
        BY <1>1, <2>2
      <3>2. g[i] = g[i - 1] + m(i)
        BY <1>7, <3>1
      <3>3. E(h)[i] = g[i - 1] + IF i \in C THEN p[i].n ELSE 0
        BY <2>2, <3>1
      <3> QED BY <1>3, <3>1, <3>2, <3>3
    <2> QED BY <2>1, <2>2
  <1>9. Sums(p, C) = E(Sums(p, C))
    <2>1. \E f : f = E(f)
      BY <1>8
    <2> QED BY <2>1, Zenon DEF Sums
  <1> DEFINE f == Sums(p, C)
  <1> HIDE DEF f, h
  <1>10. f = E(f)
    BY <1>9 DEF f
  <1>11. f[0] = 0 /\ \A c \in 1 .. N : f[c] = f[c - 1] + m(c)
    <2>1. f[0] = 0
      BY <1>1, <1>10
    <2>2. \A c \in 1 .. N : f[c] = f[c - 1] + IF c \in C THEN p[c].n ELSE 0
      <3> SUFFICES ASSUME NEW c \in 1 .. N PROVE f[c] = f[c - 1] + IF c \in C THEN p[c].n ELSE 0
        OBVIOUS
      <3>1. c \in 0 .. Len(p) /\ c # 0
        OBVIOUS
      <3>2. E(f)[c] = f[c - 1] + IF c \in C THEN p[c].n ELSE 0
        BY <3>1
      <3> HIDE DEF E
      <3> QED BY <1>10, <3>2
    <2> QED BY <1>3, <2>1, <2>2
  <1>12. \A i \in 0 .. N : f[i] \in Nat
    <2> DEFINE T == {i \in Nat : i <= N => f[i] \in Nat}
    <2>1. 0 \in T
      BY <1>11
    <2>2. \A n \in Nat : n \in T => n + 1 \in T
      <3> SUFFICES ASSUME NEW n \in Nat, n \in T, n + 1 <= N PROVE f[n + 1] \in Nat
        OBVIOUS
      <3>1. n + 1 \in 1 .. N /\ (n + 1) - 1 = n /\ f[n] \in Nat
        BY <1>1
      <3>2. f[n + 1] = f[n] + m(n + 1)
        BY <1>11, <3>1
      <3>3. m(n + 1) \in Nat
        BY <1>2
      <3>4. \A a, b \in Nat : a + b \in Nat
        OBVIOUS
      <3>5. f[n] + m(n + 1) \in Nat
        BY <3>1, <3>3, <3>4, Zenon
      <3> QED BY <3>2, <3>5, Zenon
    <2> HIDE DEF T
    <2>3. Nat \subseteq T
      BY <2>1, <2>2, AllNumbers
    <2> QED BY <1>1, <2>3 DEF T
  <1>13. f = [i \in 0 .. N |-> f[i]]
    BY <1>10
  <1>14. f \in [0 .. N -> Nat]
    BY <1>12, <1>13
  <1> QED BY <1>3, <1>11, <1>14 DEF f

\* No element is before the first command.
LEMMA BeforeFirst ==
  ASSUME NEW p \in Seq(Command), NEW C
  PROVE  Before(p, C, 1) = 0
  <1>1. Before(p, C, 1) = Sums(p, C)[1 - 1]
    BY DEF Before, Sums
  <1>2. Sums(p, C)[0] = 0 /\ 1 - 1 = 0
    BY SumsOfPrefixes
  <1> QED BY <1>1, <1>2

\* Before counts the elements command after command.
LEMMA BeforeNext ==
  ASSUME NEW p \in Seq(Command), NEW C \in SUBSET Nat, NEW c \in 1 .. Len(p)
  PROVE  /\ Before(p, C, c) \in Nat /\ Before(p, C, c + 1) \in Nat
         /\ c \in C => Before(p, C, c + 1) = Before(p, C, c) + p[c].n
         /\ c \notin C => Before(p, C, c + 1) = Before(p, C, c)
  <1>1. \A i : Before(p, C, i) = Sums(p, C)[i - 1]
    BY DEF Before, Sums
  <1> DEFINE f == Sums(p, C)
  <1>2. /\ f \in [0 .. Len(p) -> Nat] /\ f[0] = 0
        /\ \A i \in 1 .. Len(p) : f[i] = f[i - 1] + IF i \in C THEN p[i].n ELSE 0
    BY SumsOfPrefixes
  <1> HIDE DEF f
  <1>3. \A i : Before(p, C, i) = f[i - 1]
    BY <1>1 DEF f
  <1>4. (c + 1) - 1 = c /\ c - 1 \in 0 .. Len(p) /\ c \in 0 .. Len(p)
    BY LenProperties
  <1>5. Before(p, C, c + 1) = f[c] /\ Before(p, C, c) = f[c - 1]
    BY <1>3, <1>4
  <1>6. f[c] \in Nat /\ f[c - 1] \in Nat
    BY <1>2, <1>4
  <1>7. f[c] = f[c - 1] + IF c \in C THEN p[c].n ELSE 0
    BY <1>2
  <1> QED BY <1>2, <1>5, <1>6, <1>7

-----------------------------------------------------------------------------
(* The elements of a lane in order.                                        *)

\* No result is in the last stage when it does not run: the lane waits for
\* an address and its last stage shifts all the same.
NothingDropped ==
  \A l \in Lanes \ {LS} : RunsFromOffset(l) => ~ IsCmd(pipe[l][LastStage - 1].e)

\* Elements of the commands in C given to lane l, before the front of queue q
\* if the lane has not fetched it and with it if it has.
GivenBy(q, l, C) ==
  Before(prog, C,
         IF q = <<>> THEN pc ELSE IF l \in Head(q).lanes THEN Head(q).c ELSE Head(q).c + 1)

Given(l, C) == GivenBy(queue, l, C)

\* P[s] numbers the last element of C that has left stage s - 1 of lane l:
\* elements follow each other from the output to the current element.
InOrder(l, C, P) ==
  /\ P \in [0 .. OutStage(l) -> Nat]
  /\ \A s \in 0 .. OutStage(l) - 1 :
       LET e == pipe[l][s].e
       IN  IF e.c \in C THEN P[s] = P[s + 1] + 1 /\ Before(prog, C, e.c) + e.k = P[s]
                        ELSE P[s] = P[s + 1]
  /\ LET e == current[l]
     IN  IF e.c \in C THEN /\ Before(prog, C, e.c) + e.k = P[0] + 1
                           /\ Before(prog, C, e.c + 1) = Given(l, C)
                      ELSE P[0] = Given(l, C)

\* The queue holds the commands given last; only its front has been fetched.
QueueInOrder ==
  \A i \in DOMAIN queue :
    /\ queue[i].c = pc - Len(queue) - 1 + i
    /\ i > 1 => queue[i].lanes = prog[queue[i].c].lanes

OrderInv ==
  /\ QueueInOrder
  /\ \A l \in Lanes : \E P : InOrder(l, CommandsOf(prog, l), P) /\ P[OutStage(l)] = done[l]

\* An element of a lane belongs to one of its commands.
LEMMA OwnElement ==
  ASSUME UnitInv, NEW l \in Lanes
  PROVE  /\ CommandsOf(prog, l) \in SUBSET Nat /\ 0 \notin CommandsOf(prog, l)
         /\ IsCmd(current[l]) <=> current[l].c \in CommandsOf(prog, l)
         /\ \A s \in Stages : IsCmd(pipe[l][s].e) <=> pipe[l][s].e.c \in CommandsOf(prog, l)
  <1>1. prog \in Programs
    BY DEF UnitInv, TypeOK
  <1>2. CommandsOf(prog, l) \in SUBSET Nat /\ 0 \notin CommandsOf(prog, l)
    BY <1>1, ProgramCommands DEF CommandsOf
  <1>3. ASSUME NEW e \in Element, Owned(l, e)
        PROVE  IsCmd(e) <=> e.c \in CommandsOf(prog, l)
    <2>1. IsCmd(e) => e.c \in DOMAIN prog /\ l \in prog[e.c].lanes
      BY <1>1, <1>3, CommandElement DEF Owned
    <2> QED BY <1>2, <2>1 DEF CommandsOf, IsCmd
  <1>4. current[l] \in Element /\ Owned(l, current[l])
    BY DEF UnitInv, TypeOK, OwnCommands
  <1>5. \A s \in Stages : pipe[l][s].e \in Element /\ Owned(l, pipe[l][s].e)
    BY StageElement DEF UnitInv, OwnCommands
  <1> QED BY <1>2, <1>3, <1>4, <1>5

\* The elements ahead are counted stage by stage.
LEMMA AheadCounts ==
  ASSUME NEW l \in Lanes, NEW s \in 0 .. OutStage(l) - 1
  PROVE  /\ IsFiniteSet(Ahead(l, s)) /\ Cardinality(Ahead(l, s)) \in Nat
         /\ Ahead(l, OutStage(l)) = {}
         /\ Cardinality(Ahead(l, s)) =
              Cardinality(Ahead(l, s + 1)) + IF IsCmd(pipe[l][s].e) THEN 1 ELSE 0
         /\ Cardinality(Ahead(l, s + 1)) \in Nat
  <1> DEFINE n == OutStage(l)
  <1>1. n \in Int
    BY DEF OutStage, LsOut, LastStage, AluDepth
  <1> HIDE DEF n
  <1>2. \A t \in Int : IsFiniteSet(Ahead(l, t)) /\ Cardinality(Ahead(l, t)) \in Nat
    <2> SUFFICES ASSUME NEW t \in Int PROVE IsFiniteSet(Ahead(l, t)) /\ Cardinality(Ahead(l, t)) \in Nat
      OBVIOUS
    <2>1. IsFiniteSet(t .. n - 1)
      BY <1>1, FS_Interval
    <2>2. Ahead(l, t) \subseteq t .. n - 1
      BY DEF Ahead, n
    <2>3. IsFiniteSet(Ahead(l, t))
      BY <2>1, <2>2, FS_Subset
    <2> QED BY <2>3, FS_CardinalityType
  <1>3. Ahead(l, n) = {}
    BY <1>1 DEF Ahead, n
  <1>4. s \in Int /\ s + 1 \in Int
    BY <1>1
  <1>5. CASE IsCmd(pipe[l][s].e)
    <2>1. Ahead(l, s) = Ahead(l, s + 1) \cup {s} /\ s \notin Ahead(l, s + 1)
      BY <1>1, <1>5 DEF Ahead, n
    <2>2. Cardinality(Ahead(l, s + 1) \cup {s}) = Cardinality(Ahead(l, s + 1)) + 1
      BY <1>2, <1>4, <2>1, FS_AddElement
    <2> QED BY <1>2, <1>3, <1>4, <1>5, <2>1, <2>2 DEF n
  <1>6. CASE ~ IsCmd(pipe[l][s].e)
    <2>1. Ahead(l, s) = Ahead(l, s + 1)
      BY <1>1, <1>6 DEF Ahead, n
    <2> QED BY <1>2, <1>3, <1>4, <1>6, <2>1 DEF n
  <1> QED BY <1>5, <1>6

\* The order gives each element its position.
LEMMA OrderCounts ==
  ASSUME UnitInv, NEW l \in Lanes, NEW P, InOrder(l, CommandsOf(prog, l), P), P[OutStage(l)] = done[l]
  PROVE  \A s \in 0 .. OutStage(l) : P[s] = done[l] + Cardinality(Ahead(l, s))
  <1> DEFINE n == OutStage(l)
             A(s) == Cardinality(Ahead(l, s))
             T == {k \in Nat : k <= n => P[n - k] = done[l] + A(n - k)}
  <1>1. n \in Nat /\ n - 1 \in Nat
    BY DEF OutStage, LsOut, LastStage, AluDepth
  <1>2. /\ P \in [0 .. n -> Nat] /\ P[n] = done[l]
        /\ \A s \in 0 .. n - 1 : P[s] = P[s + 1] + IF IsCmd(pipe[l][s].e) THEN 1 ELSE 0
        /\ done[l] \in Nat
    <2>1. P \in [0 .. n -> Nat] /\ P[n] = done[l]
      BY DEF InOrder
    <2>2. ASSUME NEW s \in 0 .. n - 1
          PROVE  P[s] = P[s + 1] + IF IsCmd(pipe[l][s].e) THEN 1 ELSE 0
      <3>1. s + 1 \in 0 .. n
        BY <1>1
      <3>2. P[s + 1] \in Nat
        BY <2>1, <3>1
      <3>3. s \in Stages
        BY DEF OutStage, LsOut, LastStage, AluDepth, Stages
      <3>4. IsCmd(pipe[l][s].e) <=> pipe[l][s].e.c \in CommandsOf(prog, l)
        BY <3>3, OwnElement
      <3>5. P[s] = IF IsCmd(pipe[l][s].e) THEN P[s + 1] + 1 ELSE P[s + 1]
        BY <3>4 DEF InOrder
      <3> QED BY <3>2, <3>5
    <2>3. done[l] \in Nat
      BY DEF UnitInv, TypeOK
    <2> QED BY <2>1, <2>2, <2>3
  <1>3. A(n) = 0
    <2>1. n - 1 \in 0 .. n - 1
      BY <1>1
    <2>2. Ahead(l, n) = {}
      BY <2>1, AheadCounts
    <2> QED BY <2>2, FS_EmptySet
  <1>4. \A s \in 0 .. n - 1 : /\ A(s) \in Nat /\ A(s + 1) \in Nat
                              /\ A(s) = A(s + 1) + IF IsCmd(pipe[l][s].e) THEN 1 ELSE 0
    BY AheadCounts
  <1> HIDE DEF n, A
  <1>5. 0 \in T
    <2>1. n - 0 = n
      BY <1>1
    <2> QED BY <1>2, <1>3, <2>1
  <1>6. \A k \in Nat : k \in T => k + 1 \in T
    <2> SUFFICES ASSUME NEW k \in Nat, k \in T, k + 1 <= n
                 PROVE  P[n - (k + 1)] = done[l] + A(n - (k + 1))
      OBVIOUS
    <2> DEFINE s == n - (k + 1)
    <2>1. s \in 0 .. n - 1 /\ s + 1 = n - k
      BY <1>1
    <2>2. P[s + 1] = done[l] + A(s + 1)
      BY <1>1, <2>1
    <2> HIDE DEF s
    <2> DEFINE a == A(s)
               b == A(s + 1)
               d == done[l]
               i == IF IsCmd(pipe[l][s].e) THEN 1 ELSE 0
    <2>3. a \in Nat /\ b \in Nat /\ a = b + i
      BY <1>4, <2>1
    <2>4. P[s] = P[s + 1] + i
      BY <1>2, <2>1
    <2>5. P[s + 1] = d + b
      BY <2>2
    <2>6. i \in Int /\ d \in Nat
      BY <1>2
    <2> HIDE DEF a, b, i, d
    <2>7. P[s] = d + a
      BY <2>3, <2>4, <2>5, <2>6
    <2> QED BY <2>7 DEF a, s, d
  <1> HIDE DEF T
  <1>7. Nat \subseteq T
    BY <1>5, <1>6, AllNumbers
  <1> SUFFICES ASSUME NEW s \in 0 .. n PROVE P[s] = done[l] + A(s)
    BY DEF A, n
  <1>8. n - s \in Nat /\ n - s <= n /\ n - (n - s) = s
    BY <1>1
  <1>9. n - s \in T
    BY <1>7, <1>8
  <1>10. P[n - (n - s)] = done[l] + A(n - (n - s))
    BY <1>8, <1>9 DEF T
  <1> QED BY <1>8, <1>10

\* The order of every lane is the property.
LEMMA OrderSuffices ==
  ASSUME UnitInv, OrderInv
  PROVE  ElementsInOrder
  <1> SUFFICES ASSUME NEW l \in Lanes
               PROVE  /\ \A s \in 0 .. OutStage(l) - 1 : IsCmd(pipe[l][s].e) =>
                           Position(prog, l, pipe[l][s].e) = done[l] + Cardinality(Ahead(l, s))
                      /\ IsCmd(current[l]) =>
                           Position(prog, l, current[l]) = done[l] + Cardinality(Ahead(l, 0)) + 1
    BY DEF ElementsInOrder
  <1> DEFINE C == CommandsOf(prog, l)
  <1>1. PICK P : InOrder(l, C, P) /\ P[OutStage(l)] = done[l]
    BY DEF OrderInv
  <1>2. \A s \in 0 .. OutStage(l) : P[s] = done[l] + Cardinality(Ahead(l, s))
    BY <1>1, OrderCounts
  <1>3. 0 \in 0 .. OutStage(l) /\ \A s \in 0 .. OutStage(l) - 1 : s \in 0 .. OutStage(l) /\ s \in Stages
    BY DEF OutStage, LsOut, LastStage, AluDepth, Stages
  <1>4. \A s \in 0 .. OutStage(l) - 1 : IsCmd(pipe[l][s].e) => Position(prog, l, pipe[l][s].e) = P[s]
    BY <1>1, <1>3, OwnElement DEF InOrder, Position
  <1>5. IsCmd(current[l]) => Position(prog, l, current[l]) = P[0] + 1
    BY <1>1, OwnElement DEF InOrder, Position
  <1> QED BY <1>2, <1>3, <1>4, <1>5

\* The front of the queue and what is behind it.
LEMMA FrontOfQueue ==
  ASSUME TypeOK, QueueInOrder, queue # <<>>
  PROVE  /\ Head(queue) = queue[1] /\ Len(queue) \in Nat \ {0} /\ DOMAIN queue = 1 .. Len(queue)
         /\ Head(queue).c \in 1 .. Len(prog) /\ Head(queue).c + 1 = pc - Len(queue) + 1
         /\ Len(Tail(queue)) = Len(queue) - 1 /\ DOMAIN Tail(queue) = 1 .. Len(queue) - 1
         /\ \A i \in 1 .. Len(queue) - 1 : Tail(queue)[i] = queue[i + 1] /\ i + 1 \in DOMAIN queue
         /\ Tail(queue) = <<>> => Head(queue).c + 1 = pc
         /\ Tail(queue) # <<>> =>
              /\ Head(Tail(queue)).c = Head(queue).c + 1 /\ Head(queue).c + 1 \in 1 .. Len(prog)
              /\ Head(Tail(queue)).lanes = prog[Head(queue).c + 1].lanes
         /\ pc \in Int /\ prog \in Seq(Command) /\ Len(prog) \in Nat
  <1> DEFINE Entry == [c : DOMAIN prog, lanes : (SUBSET Lanes) \ {{}}]
  <1>1. prog \in Seq(Command) /\ queue \in Seq(Entry) /\ pc \in 1 .. Len(prog) + 1
    BY ProgramAssumption DEF TypeOK
  <1>2. /\ Len(prog) \in Nat /\ DOMAIN prog = 1 .. Len(prog) /\ pc \in Int
        /\ Len(queue) \in Nat \ {0} /\ DOMAIN queue = 1 .. Len(queue)
    BY <1>1, LenProperties, EmptySeq
  <1>3. Head(queue) = queue[1] /\ Len(Tail(queue)) = Len(queue) - 1
        /\ DOMAIN Tail(queue) = 1 .. Len(queue) - 1
        /\ \A i \in 1 .. Len(queue) - 1 : Tail(queue)[i] = queue[i + 1]
    BY <1>1, <1>2
  <1>4. \A i \in 1 .. Len(queue) : queue[i].c \in 1 .. Len(prog)
    <2> SUFFICES ASSUME NEW i \in 1 .. Len(queue) PROVE queue[i].c \in 1 .. Len(prog)
      OBVIOUS
    <2> HIDE DEF Entry
    <2>1. queue[i] \in Entry
      BY <1>1, ElementOfSeq
    <2> QED BY <1>2, <2>1 DEF Entry
  <1>5. 1 \in DOMAIN queue /\ \A i \in 1 .. Len(queue) - 1 : i + 1 \in DOMAIN queue
    BY <1>2
  <1>6. \A i \in DOMAIN queue : queue[i].c = pc - Len(queue) - 1 + i
    BY DEF QueueInOrder
  <1>7. queue[1].c = pc - Len(queue)
    BY <1>2, <1>5, <1>6
  <1>8. Tail(queue) = <<>> => Head(queue).c + 1 = pc
    <2> SUFFICES ASSUME Tail(queue) = <<>> PROVE Head(queue).c + 1 = pc
      OBVIOUS
    <2>1. Len(queue) = 1
      BY <1>2, <1>3
    <2> QED BY <1>2, <1>3, <1>7, <2>1
  <1>9. ASSUME Tail(queue) # <<>>
        PROVE  /\ Head(Tail(queue)).c = Head(queue).c + 1 /\ Head(queue).c + 1 \in 1 .. Len(prog)
               /\ Head(Tail(queue)).lanes = prog[Head(queue).c + 1].lanes
    <2>1. Tail(queue) \in Seq(Entry)
      BY <1>1, <1>2
    <2>2. Len(Tail(queue)) # 0
      BY <1>9, <2>1, EmptySeq
    <2>3. 2 \in DOMAIN queue /\ 2 \in 1 .. Len(queue) /\ Len(queue) >= 2 /\ 1 \in 1 .. Len(queue) - 1
      BY <1>2, <1>3, <2>2
    <2>4. Head(Tail(queue)) = queue[2]
      BY <1>3, <1>9, <2>1, <2>3
    <2>5. queue[2].c = pc - Len(queue) - 1 + 2 /\ queue[2].lanes = prog[queue[2].c].lanes
      BY <2>3 DEF QueueInOrder
    <2>6. queue[2].c = queue[1].c + 1
      BY <1>2, <1>7, <2>5
    <2> QED BY <1>3, <1>4, <2>3, <2>4, <2>5, <2>6
  <1> QED BY <1>1, <1>2, <1>3, <1>4, <1>5, <1>7, <1>8, <1>9

\* What is given before the second command is what is given up to the front.
LEMMA GivenBehindFront ==
  ASSUME TypeOK, QueueInOrder, queue # <<>>, NEW l \in Lanes, NEW C \in SUBSET CommandsOf(prog, l)
  PROVE  GivenBy(Tail(queue), l, C) = Before(prog, C, Head(queue).c + 1)
  <1> DEFINE h == Head(queue).c
             q == Tail(queue)
  <1>0. /\ q = <<>> => h + 1 = pc
        /\ q # <<>> => Head(q).c = h + 1 /\ h + 1 \in 1 .. Len(prog) /\ Head(q).lanes = prog[h + 1].lanes
        /\ prog \in Seq(Command) /\ DOMAIN prog = 1 .. Len(prog) /\ h \in Int
    <2>1. prog \in Seq(Command) => DOMAIN prog = 1 .. Len(prog)
      BY LenProperties
    <2>2. h \in 1 .. Len(prog) /\ Len(prog) \in Nat
      BY FrontOfQueue
    <2>3. h \in Int
      BY <2>2
    <2> QED BY <2>1, <2>3, FrontOfQueue
  <1> HIDE DEF h, q
  <1>1. CASE q = <<>>
    BY <1>0, <1>1 DEF GivenBy, q, h
  <1>2. CASE q # <<>> /\ l \in Head(q).lanes
    <2>1. GivenBy(q, l, C) = Before(prog, C, h + 1)
      BY <1>0, <1>2 DEF GivenBy
    <2> QED BY <2>1 DEF h, q
  <1>3. CASE q # <<>> /\ l \notin Head(q).lanes
    <2>1. GivenBy(q, l, C) = Before(prog, C, (h + 1) + 1)
      BY <1>0, <1>3 DEF GivenBy
    <2>2. h + 1 \notin C
      BY <1>0, <1>3 DEF CommandsOf
    <2>3. Before(prog, C, (h + 1) + 1) = Before(prog, C, h + 1)
      <3>1. h + 1 \in 1 .. Len(prog) /\ prog \in Seq(Command)
        BY <1>0, <1>3
      <3>2. C \in SUBSET Nat
        BY <1>0 DEF CommandsOf
      <3> QED BY <2>2, <3>1, <3>2, BeforeNext
    <2> QED BY <2>1, <2>3 DEF h, q
  <1> QED BY <1>1, <1>2, <1>3

\* A lane that fetches the front goes on behind it; for the others nothing
\* changes.
LEMMA GivenStep ==
  ASSUME TypeOK, QueueInOrder, NEW l \in Lanes, NEW C \in SUBSET CommandsOf(prog, l)
  PROVE  IF Fetches(l)
         THEN /\ queue # <<>> /\ Given(l, C) = Before(prog, C, Head(queue).c)
              /\ GivenBy(FetchedQueue, l, C) = Before(prog, C, Head(queue).c + 1)
         ELSE GivenBy(FetchedQueue, l, C) = Given(l, C)
  <1> DEFINE left == {m \in Head(queue).lanes : ~ Fetches(m)}
  <1>1. Fetches(l) => queue # <<>> /\ l \in Head(queue).lanes
    BY DEF Fetches, Eligible
  <1>2. CASE queue = <<>>
    <2>1. FetchedQueue = queue
      BY <1>2 DEF FetchedQueue
    <2> QED BY <1>1, <1>2, <2>1 DEF Given, GivenBy
  <1>3. CASE queue # <<>> /\ left = {}
    <2>1. FetchedQueue = Tail(queue)
      BY <1>3 DEF FetchedQueue
    <2>2. GivenBy(Tail(queue), l, C) = Before(prog, C, Head(queue).c + 1)
      BY <1>3, GivenBehindFront
    <2>3. l \in Head(queue).lanes => Fetches(l)
      BY <1>3
    <2> HIDE DEF left
    <2>4. Given(l, C) = Before(prog, C, IF l \in Head(queue).lanes THEN Head(queue).c ELSE Head(queue).c + 1)
      BY <1>3 DEF Given, GivenBy
    <2> QED BY <1>1, <1>3, <2>1, <2>2, <2>3, <2>4
  <1>4. CASE queue # <<>> /\ left # {}
    <2> DEFINE q == [queue EXCEPT ![1].lanes = left]
    <2>1. FetchedQueue = q
      BY <1>4 DEF FetchedQueue
    <2>2. l \in left <=> l \in Head(queue).lanes /\ ~ Fetches(l)
      OBVIOUS
    <2>3. Head(queue) = queue[1] /\ Len(queue) \in Nat \ {0} /\ DOMAIN queue = 1 .. Len(queue)
      BY <1>4, FrontOfQueue
    <2> DEFINE Entry == [c : DOMAIN prog, lanes : (SUBSET Lanes) \ {{}}]
               first == [queue[1] EXCEPT !.lanes = left]
    <2>4. left \in (SUBSET Lanes) \ {{}} /\ queue[1] \in Entry /\ queue \in Seq(Entry) /\ 1 \in 1 .. Len(queue)
      <3>1. queue \in Seq(Entry) /\ 1 \in 1 .. Len(queue)
        BY <2>3 DEF TypeOK
      <3>2. queue[1] \in Entry
        <4> HIDE DEF Entry
        <4> QED BY <3>1, ElementOfSeq
      <3> QED BY <1>4, <2>3, <3>1, <3>2
    <2> HIDE DEF left
    <2>5. q # <<>> /\ q[1].c = queue[1].c /\ q[1].lanes = left /\ Head(q) = q[1]
      <3>1. first \in Entry /\ first.c = queue[1].c /\ first.lanes = left
        BY <2>4
      <3>2. q = [queue EXCEPT ![1] = first]
        OBVIOUS
      <3> HIDE DEF q, first, Entry
      <3>3. /\ q \in Seq(Entry) /\ Len(q) = Len(queue)
            /\ \A i \in 1 .. Len(queue) : q[i] = IF i = 1 THEN first ELSE queue[i]
        BY <2>4, <3>1, <3>2, ExceptSeq
      <3>4. q # <<>>
        BY <2>3, <3>3, EmptySeq
      <3> QED BY <2>4, <3>1, <3>3, <3>4
    <2> HIDE DEF q
    <2>6. GivenBy(q, l, C) = Before(prog, C, IF l \in left THEN Head(queue).c ELSE Head(queue).c + 1)
      BY <2>3, <2>5 DEF GivenBy
    <2>7. Given(l, C) = Before(prog, C, IF l \in Head(queue).lanes THEN Head(queue).c ELSE Head(queue).c + 1)
      BY <1>4 DEF Given, GivenBy
    <2> QED BY <1>1, <1>4, <2>1, <2>2, <2>6, <2>7
  <1> QED BY <1>2, <1>3, <1>4

-----------------------------------------------------------------------------
(* A cycle keeps the order.                                                *)

\* Where the elements of a lane are after a cycle.
LEMMA MovedElement ==
  ASSUME TypeOK, NEW l \in Lanes, NEW s \in Stages
  PROVE  /\ s < From(l) => Moved(l)[s].e = pipe[l][s].e
         /\ s = From(l) => Moved(l)[s].e = IF s = 0 THEN current[l] ELSE NoElement
         /\ s > From(l) => Moved(l)[s].e = pipe[l][s - 1].e
  <1>1. s \in Int /\ 0 <= s /\ s <= LastStage /\ 2 \in Stages /\ 3 \in Stages /\ LastStage = 9
    BY DEF Stages, LastStage, AluDepth
  <1>2. TakesOffsets(l) \subseteq Waits(l, 2, AddressSel) /\ TakesData(l) \subseteq Waits(l, 3, DataSel)
    BY DEF TakesOffsets, TakesData
  <1>3. Read(l, 2, TakesOffsets(l)).e = pipe[l][2].e
    BY <1>1, <1>2, ReadSlot
  <1>4. Read(l, 3, TakesData(l)).e = pipe[l][3].e
    BY <1>1, <1>2, ReadSlot
  <1>5. From(l) \in {0, 3, 4, 10}
    BY <1>1 DEF From
  <1>6. CASE s < From(l)
    <2>1. Moved(l)[s] = pipe[l][s]
      BY <1>5, <1>6 DEF Moved
    <2> QED BY <1>1, <1>5, <1>6, <2>1
  <1>7. CASE s = From(l)
    <2>1. CASE s = 0
      <3>1. Moved(l)[s] = [e |-> current[l], in |-> Unread]
        BY <1>7, <2>1 DEF Moved
      <3> QED BY <1>1, <1>5, <1>7, <2>1, <3>1
    <2>2. CASE s # 0
      <3>1. Moved(l)[s] = NoSlot
        BY <1>7, <2>2 DEF Moved
      <3> QED BY <1>1, <1>5, <1>7, <2>2, <3>1 DEF NoSlot
    <2> QED BY <2>1, <2>2
  <1>8. CASE s > From(l)
    <2>1. CASE s = 3
      <3>1. Moved(l)[s] = Read(l, 2, TakesOffsets(l))
        BY <1>1, <1>5, <1>8, <2>1 DEF Moved
      <3> QED BY <1>3, <1>5, <1>8, <2>1, <3>1
    <2>2. CASE s = 4
      <3>1. Moved(l)[s] = Read(l, 3, TakesData(l))
        BY <1>1, <1>5, <1>8, <2>2 DEF Moved
      <3> QED BY <1>4, <1>5, <1>8, <2>2, <3>1
    <2>3. CASE s # 3 /\ s # 4
      <3>1. Moved(l)[s] = pipe[l][s - 1]
        BY <1>1, <1>5, <1>8, <2>3 DEF Moved
      <3> QED BY <1>1, <1>5, <1>8, <3>1
    <2> QED BY <2>1, <2>2, <2>3
  <1> QED BY <1>1, <1>5, <1>6, <1>7, <1>8

\* A result is put out when the stage before the output shifts.
LEMMA OutputShifts ==
  ASSUME TypeOK, NothingDropped, NEW l \in Lanes
  PROVE  /\ From(l) \in {0, 3, 4, LastStage + 1} /\ (From(l) = 0 <=> RunsAll(l))
         /\ From(l) = 3 <=> RunsFromOffset(l)
         /\ From(l) = LastStage + 1 => Output(l) = NoElement
         /\ From(l) # LastStage + 1 => Output(l).c = pipe[l][OutStage(l) - 1].e.c
         /\ IsCmd(Output(l)) => Output(l) = pipe[l][OutStage(l) - 1].e
  <1>1. LastStage = 9
    BY DEF LastStage, AluDepth
  <1>2. NoElement.c = 0
    BY DEF NoElement
  <1>3. From(l) \in {0, 3, 4, LastStage + 1} /\ (From(l) = 0 <=> RunsAll(l)) /\ (From(l) = 3 <=> RunsFromOffset(l))
    BY <1>1 DEF From, RunsAll, RunsFromOffset, RunsFromData
  <1>4. From(l) # LastStage + 1 <=> Runs(l)
    BY <1>1 DEF From, Runs, RunsAll, RunsFromOffset, RunsFromData
  <1>5. CASE l = LS
    BY <1>2, <1>3, <1>4, <1>5 DEF Output, OutStage, IsCmd
  <1>6. CASE l # LS
    <2>1. ~ Runs(l) => Output(l) = NoElement
      BY <1>6 DEF Runs, Output
    <2>2. RunsAll(l) \/ RunsFromData(l) => Output(l) = pipe[l][LastStage - 1].e
      BY <1>6 DEF Output
    <2>3. RunsFromOffset(l) => Output(l) = NoElement /\ ~ IsCmd(pipe[l][LastStage - 1].e)
      BY <1>6 DEF NothingDropped, Output, RunsFromOffset, RunsAll, RunsFromData
    <2> QED BY <1>2, <1>3, <1>4, <1>6, <2>1, <2>2, <2>3 DEF Runs, OutStage, IsCmd
  <1> QED BY <1>5, <1>6

\* The order after a cycle: what shifts keeps its number.
Shifted(l, C, P) ==
  [s \in 0 .. OutStage(l) |->
     IF s > From(l) THEN P[s - 1]
     ELSE IF s = 0 /\ From(l) = 0 /\ current[l].c \in C THEN P[0] + 1
     ELSE P[s]]

LEMMA OrderShifts ==
  ASSUME TypeOK, NothingDropped, NEW l \in Lanes, NEW C \in SUBSET CommandsOf(prog, l), 0 \notin C,
         NEW P, InOrder(l, C, P)
  PROVE  LET Q == Shifted(l, C, P)
             n == OutStage(l)
         IN  /\ Q \in [0 .. n -> Nat]
             /\ Q[n] = IF Output(l).c \in C THEN P[n] + 1 ELSE P[n]
             /\ \A s \in 0 .. n - 1 :
                  LET e == Moved(l)[s].e
                  IN  IF e.c \in C THEN Q[s] = Q[s + 1] + 1 /\ Before(prog, C, e.c) + e.k = Q[s]
                                   ELSE Q[s] = Q[s + 1]
             /\ Q[0] = IF RunsAll(l) /\ current[l].c \in C THEN P[0] + 1 ELSE P[0]
  <1> DEFINE Q == Shifted(l, C, P)
             n == OutStage(l)
             f == From(l)
             new == current[l].c \in C
             At(e) == Before(prog, C, e.c) + e.k
  <1>1. n \in {8, 9} /\ LastStage = 9 /\ \A s \in 0 .. n : s \in Stages
    BY DEF OutStage, LsOut, LastStage, AluDepth, Stages
  <1>2. f \in {0, 3, 4, 10} /\ (f = 0 <=> RunsAll(l))
    BY <1>1, OutputShifts
  <1>3. /\ P \in [0 .. n -> Nat]
        /\ \A s \in 0 .. n - 1 :
             IF pipe[l][s].e.c \in C THEN P[s] = P[s + 1] + 1 /\ At(pipe[l][s].e) = P[s]
                                     ELSE P[s] = P[s + 1]
        /\ new => At(current[l]) = P[0] + 1
    BY DEF InOrder
  <1>5. Q = [s \in 0 .. n |-> IF s > f THEN P[s - 1]
                              ELSE IF s = 0 /\ f = 0 /\ new THEN P[0] + 1 ELSE P[s]]
    BY DEF Shifted
  <1>6. \A s \in Stages : /\ s < f => Moved(l)[s].e = pipe[l][s].e
                          /\ s = f => Moved(l)[s].e = IF s = 0 THEN current[l] ELSE NoElement
                          /\ s > f => Moved(l)[s].e = pipe[l][s - 1].e
    BY MovedElement
  <1>8. NoElement.c \notin C
    BY DEF NoElement
  <1>7. /\ f = 10 => Output(l).c \notin C
        /\ f # 10 => Output(l).c = pipe[l][n - 1].e.c
    BY <1>1, <1>8, OutputShifts
  <1> HIDE DEF Q, n, f, new, At
  <1>9. Q \in [0 .. n -> Nat]
    <2> SUFFICES ASSUME NEW s \in 0 .. n PROVE Q[s] \in Nat
      BY <1>5
    <2>1. s > f => s - 1 \in 0 .. n
      BY <1>1, <1>2
    <2> QED BY <1>1, <1>2, <1>3, <1>5, <2>1
  <1>10. Q[n] = IF Output(l).c \in C THEN P[n] + 1 ELSE P[n]
    <2>1. n \in 0 .. n /\ n - 1 \in 0 .. n - 1 /\ n - 1 + 1 = n
      BY <1>1
    <2>2. CASE f = 10
      <3>1. Q[n] = P[n]
        BY <1>1, <1>5, <2>1, <2>2
      <3> QED BY <1>3, <1>7, <2>2, <3>1
    <2>3. CASE f # 10
      <3>1. Q[n] = P[n - 1]
        BY <1>1, <1>2, <1>5, <2>1, <2>3
      <3>2. P[n - 1] = IF pipe[l][n - 1].e.c \in C THEN P[n] + 1 ELSE P[n]
        BY <1>3, <2>1
      <3> QED BY <1>3, <1>7, <2>3, <3>1, <3>2
    <2> QED BY <2>2, <2>3
  <1>11. Q[0] = IF RunsAll(l) /\ new THEN P[0] + 1 ELSE P[0]
    <2>1. 0 \in 0 .. n /\ P[0] \in Nat
      BY <1>1, <1>3
    <2> QED BY <1>2, <1>5, <2>1
  <1>12. ASSUME NEW s \in 0 .. n - 1
         PROVE  IF Moved(l)[s].e.c \in C
                THEN Q[s] = Q[s + 1] + 1 /\ At(Moved(l)[s].e) = Q[s]
                ELSE Q[s] = Q[s + 1]
    <2>1. s \in 0 .. n /\ s + 1 \in 0 .. n /\ s \in Int /\ s \in Stages /\ (s + 1) - 1 = s
      BY <1>1
    <2>2. CASE s < f
      <3>1. Moved(l)[s].e = pipe[l][s].e
        BY <1>6, <2>1, <2>2
      <3>2. Q[s] = P[s] /\ Q[s + 1] = P[s + 1]
        BY <1>2, <1>5, <2>1, <2>2
      <3>3. IF pipe[l][s].e.c \in C THEN P[s] = P[s + 1] + 1 /\ At(pipe[l][s].e) = P[s]
                                    ELSE P[s] = P[s + 1]
        BY <1>3
      <3> QED BY <3>1, <3>2, <3>3
    <2>3. CASE s = f /\ s # 0
      <3>1. Moved(l)[s].e = NoElement
        BY <1>6, <2>1, <2>3
      <3>2. Q[s] = P[s] /\ Q[s + 1] = P[s]
        BY <1>2, <1>5, <2>1, <2>3
      <3> QED BY <1>8, <3>1, <3>2
    <2>4. CASE s = f /\ s = 0
      <3>1. Moved(l)[s].e = current[l]
        BY <1>6, <2>1, <2>4
      <3>2. Q[s] = (IF new THEN P[0] + 1 ELSE P[0]) /\ Q[s + 1] = P[0]
        BY <1>2, <1>5, <2>1, <2>4
      <3>3. P[0] \in Nat /\ (current[l].c \in C <=> new)
        BY <1>1, <1>3 DEF new
      <3> QED BY <1>3, <3>1, <3>2, <3>3
    <2>5. CASE s > f
      <3>1. Moved(l)[s].e = pipe[l][s - 1].e
        BY <1>6, <2>1, <2>5
      <3>2. s - 1 \in 0 .. n - 1 /\ s - 1 + 1 = s
        BY <1>1, <1>2, <2>5
      <3>3. Q[s] = P[s - 1] /\ Q[s + 1] = P[s]
        BY <1>2, <1>5, <2>1, <2>5
      <3>4. IF pipe[l][s - 1].e.c \in C
            THEN P[s - 1] = P[s] + 1 /\ At(pipe[l][s - 1].e) = P[s - 1]
            ELSE P[s - 1] = P[s]
        BY <1>3, <3>2
      <3> QED BY <3>1, <3>3, <3>4
    <2> QED BY <1>2, <2>1, <2>2, <2>3, <2>4, <2>5
  <1> QED BY <1>9, <1>10, <1>11, <1>12 DEF Q, n, new, At

\* The current element after the pipeline has taken it, before a new command
\* is fetched: the next of its command, or none when the command is done.
LEMMA AfterInOrder ==
  ASSUME UnitInv, NEW l \in Lanes, NEW C \in SUBSET CommandsOf(prog, l), NEW P, InOrder(l, C, P),
         NEW q, q = IF RunsAll(l) /\ current[l].c \in C THEN P[0] + 1 ELSE P[0]
  PROVE  IF After(l).c \in C
         THEN /\ Before(prog, C, After(l).c) + After(l).k = q + 1
              /\ Before(prog, C, After(l).c + 1) = Given(l, C)
         ELSE q = Given(l, C)
  <1> DEFINE e == current[l]
  <1>0. C \in SUBSET Nat /\ 0 \notin C
    BY OwnElement
  <1>1. /\ e.c \in C => Before(prog, C, e.c) + e.k = P[0] + 1 /\ Before(prog, C, e.c + 1) = Given(l, C)
        /\ e.c \notin C => P[0] = Given(l, C)
    BY DEF InOrder
  <1>2. 0 \in 0 .. OutStage(l)
    BY DEF OutStage, LsOut, LastStage, AluDepth
  <1>3. P[0] \in Nat
    BY <1>2 DEF InOrder
  <1>4. CASE ~ RunsAll(l)
    <2>1. After(l) = e /\ q = P[0]
      BY <1>4 DEF After
    <2> QED BY <1>1, <2>1
  <1>5. CASE RunsAll(l) /\ e.c \notin C
    <2>1. After(l).c \notin C
      <3>1. IsCmd(After(l)) => After(l).c = e.c
        BY AfterElement DEF UnitInv
      <3> QED BY <1>0, <1>5, <3>1 DEF IsCmd
    <2> QED BY <1>1, <1>5, <2>1
  <1>6. CASE RunsAll(l) /\ e.c \in C
    <2>0. IsCmd(e)
      BY <1>0, <1>6 DEF IsCmd
    <2>1. e \in Element /\ prog \in Programs
      BY DEF UnitInv, TypeOK
    <2>2. /\ e.c \in DOMAIN prog /\ e.k \in Nat \ {0} /\ e.k <= prog[e.c].n /\ e \in Working
          /\ prog[e.c] \in Command
      BY <2>0, <2>1, CommandElement
    <2>3. prog \in Seq(Command) /\ e.c \in 1 .. Len(prog) /\ prog[e.c].n \in Nat
      BY <2>1, <2>2, ProgramCommands DEF Command
    <2>5. /\ Before(prog, C, e.c) \in Nat
          /\ Before(prog, C, e.c + 1) = Before(prog, C, e.c) + prog[e.c].n
      <3> HIDE DEF e
      <3> QED BY <1>0, <1>6, <2>3, BeforeNext
    <2>7. q = P[0] + 1
      BY <1>6
    <2>8. CASE e.k < prog[e.c].n
      <3> DEFINE x == [e EXCEPT !.k = @ + 1]
      <3>1. After(l) = x
        BY <1>6, <2>0, <2>8 DEF After
      <3>2. e \in [c : DOMAIN prog, k : Nat \ {0}]
        BY <2>2 DEF Working
      <3>3. x.c = e.c /\ x.k = e.k + 1
        BY <3>2
      <3> HIDE DEF x
      <3>4. Before(prog, C, x.c) + x.k = q + 1
        <4> DEFINE b == Before(prog, C, e.c)
        <4>1. b \in Nat /\ b + e.k = P[0] + 1 /\ Before(prog, C, x.c) + x.k = b + (e.k + 1)
          BY <1>1, <1>6, <2>5, <3>3
        <4> HIDE DEF b
        <4> QED BY <1>3, <2>2, <2>7, <4>1
      <3> QED BY <1>1, <1>6, <3>1, <3>3, <3>4
    <2>9. CASE ~ (e.k < prog[e.c].n)
      <3>1. After(l) = NoElement
        BY <1>6, <2>0, <2>9 DEF After
      <3>2. e.k = prog[e.c].n
        BY <2>2, <2>3, <2>9
      <3>3. After(l).c \notin C
        BY <1>0, <3>1 DEF NoElement
      <3>4. q = Given(l, C)
        BY <1>1, <1>6, <2>5, <2>7, <3>2
      <3> QED BY <3>3, <3>4
    <2> QED BY <2>8, <2>9
  <1> QED BY <1>4, <1>5, <1>6

\* A cycle keeps the order of a lane.
LEMMA LaneStep ==
  ASSUME UnitInv, NothingDropped, QueueInOrder, Clock,
         NEW l \in Lanes, NEW C \in SUBSET CommandsOf(prog, l), NEW P, InOrder(l, C, P),
         NEW Q, Q = Shifted(l, C, P)
  PROVE  InOrder(l, C, Q)' /\ Q[OutStage(l)] = IF Output(l).c \in C THEN P[OutStage(l)] + 1 ELSE P[OutStage(l)]
  <1> USE DEF UnitInv
  <1> DEFINE n == OutStage(l)
             h == Head(queue).c
             new == [c |-> Head(queue).c, k |-> 1]
  <1>0. C \in SUBSET Nat /\ 0 \notin C
    BY OwnElement
  <1>1. /\ Q \in [0 .. n -> Nat]
        /\ Q[n] = IF Output(l).c \in C THEN P[n] + 1 ELSE P[n]
        /\ \A s \in 0 .. n - 1 :
             LET e == Moved(l)[s].e
             IN  IF e.c \in C THEN Q[s] = Q[s + 1] + 1 /\ Before(prog, C, e.c) + e.k = Q[s]
                              ELSE Q[s] = Q[s + 1]
        /\ Q[0] = IF RunsAll(l) /\ current[l].c \in C THEN P[0] + 1 ELSE P[0]
    BY <1>0, OrderShifts
  <1>2. /\ prog' = prog /\ pc' = pc /\ queue' = FetchedQueue /\ pipe'[l] = Moved(l)
        /\ current'[l] = IF Fetches(l) THEN new ELSE After(l)
    BY DEF Clock
  <1>3. IF After(l).c \in C
        THEN /\ Before(prog, C, After(l).c) + After(l).k = Q[0] + 1
             /\ Before(prog, C, After(l).c + 1) = Given(l, C)
        ELSE Q[0] = Given(l, C)
    BY <1>1, AfterInOrder
  <1>4. IF Fetches(l)
        THEN /\ queue # <<>> /\ Given(l, C) = Before(prog, C, h)
             /\ GivenBy(FetchedQueue, l, C) = Before(prog, C, h + 1)
        ELSE GivenBy(FetchedQueue, l, C) = Given(l, C)
    BY GivenStep
  <1>5. Given(l, C)' = GivenBy(FetchedQueue, l, C)
    BY <1>2 DEF Given, GivenBy
  <1>6. IF current'[l].c \in C
        THEN /\ Before(prog, C, current'[l].c) + current'[l].k = Q[0] + 1
             /\ Before(prog, C, current'[l].c + 1) = Given(l, C)'
        ELSE Q[0] = Given(l, C)'
    <2>1. CASE Fetches(l)
      <3>1. After(l).c \notin C
        BY <1>0, <2>1 DEF Fetches, Eligible, IsCmd
      <3>2. current'[l] = new /\ new.c = h /\ new.k = 1
        BY <1>2, <2>1
      <3>3. Q[0] = Before(prog, C, h)
        BY <1>3, <1>4, <2>1, <3>1
      <3>4. h \notin C => Before(prog, C, h + 1) = Before(prog, C, h)
        <4>1. queue # <<>>
          BY <1>4, <2>1
        <4>2. h \in 1 .. Len(prog) /\ prog \in Seq(Command)
          BY <4>1, FrontOfQueue
        <4> HIDE DEF h
        <4> QED BY <1>0, <4>2, BeforeNext
      <3> HIDE DEF new, h
      <3> QED BY <1>4, <1>5, <2>1, <3>2, <3>3, <3>4
    <2>2. CASE ~ Fetches(l)
      <3>1. current'[l] = After(l) /\ Given(l, C)' = Given(l, C)
        BY <1>2, <1>4, <1>5, <2>2
      <3> QED BY <1>3, <3>1
    <2> QED BY <2>1, <2>2
  <1>7. \A s \in 0 .. n - 1 :
          LET e == pipe'[l][s].e
          IN  IF e.c \in C THEN Q[s] = Q[s + 1] + 1 /\ Before(prog', C, e.c) + e.k = Q[s]
                           ELSE Q[s] = Q[s + 1]
    BY <1>1, <1>2
  <1>8. InOrder(l, C, Q)'
    <2> HIDE DEF n
    <2> QED BY <1>1, <1>2, <1>6, <1>7 DEF InOrder, n
  <1> QED BY <1>1, <1>8

\* Nothing is in the lanes at first.
LEMMA FirstInOrder ==
  ASSUME Init, NEW l \in Lanes, NEW C, 0 \notin C,
         NEW P, P = [s \in 0 .. OutStage(l) |-> 0]
  PROVE  InOrder(l, C, P)
  <1> USE DEF Init, program
  <1> DEFINE n == OutStage(l)
  <1>1. n \in {8, 9} /\ \A s \in 0 .. n - 1 : s \in Stages /\ s + 1 \in 0 .. n
    BY DEF OutStage, LsOut, LastStage, AluDepth, Stages
  <1>2. current[l].c \notin C
    BY DEF NoElement
  <1>3. \A s \in Stages : pipe[l][s].e.c \notin C
    BY DEF NoSlot, NoElement
  <1>4. Given(l, C) = 0
    <2>1. prog \in Seq(Command)
      BY ProgramAssumption
    <2>2. Given(l, C) = Before(prog, C, 1)
      BY DEF Given, GivenBy
    <2> QED BY <2>1, <2>2, BeforeFirst
  <1>5. P \in [0 .. n -> Nat] /\ P[0] = Given(l, C)
    BY <1>1, <1>4
  <1>6. \A s \in 0 .. n - 1 : pipe[l][s].e.c \notin C /\ P[s] = P[s + 1]
    BY <1>1, <1>3
  <1> QED BY <1>2, <1>5, <1>6 DEF InOrder

\* Fetching keeps the queue in order.
LEMMA FetchedInOrder ==
  ASSUME TypeOK, QueueInOrder
  PROVE  \A i \in DOMAIN FetchedQueue :
           /\ FetchedQueue[i].c = pc - Len(FetchedQueue) - 1 + i
           /\ i > 1 => FetchedQueue[i].lanes = prog[FetchedQueue[i].c].lanes
  <1> DEFINE left == {m \in Head(queue).lanes : ~ Fetches(m)}
  <1>1. CASE queue = <<>>
    <2>1. FetchedQueue = queue
      BY <1>1 DEF FetchedQueue
    <2> QED BY <2>1 DEF QueueInOrder
  <1>2. CASE queue # <<>> /\ left = {}
    <2>1. FetchedQueue = Tail(queue)
      BY <1>2 DEF FetchedQueue
    <2> SUFFICES ASSUME NEW i \in DOMAIN Tail(queue)
                 PROVE  /\ Tail(queue)[i].c = pc - Len(Tail(queue)) - 1 + i
                        /\ i > 1 => Tail(queue)[i].lanes = prog[Tail(queue)[i].c].lanes
      BY <2>1
    <2>2. /\ Len(queue) \in Nat \ {0} /\ pc \in Int /\ Len(Tail(queue)) = Len(queue) - 1
          /\ i \in 1 .. Len(queue) - 1 /\ Tail(queue)[i] = queue[i + 1] /\ i + 1 \in DOMAIN queue
      <3>1. /\ Len(queue) \in Nat \ {0} /\ pc \in Int /\ Len(Tail(queue)) = Len(queue) - 1
            /\ DOMAIN Tail(queue) = 1 .. Len(queue) - 1
        BY <1>2, FrontOfQueue
      <3>2. \A j \in 1 .. Len(queue) - 1 : Tail(queue)[j] = queue[j + 1] /\ j + 1 \in DOMAIN queue
        BY <1>2, FrontOfQueue
      <3> QED BY <3>1, <3>2
    <2>3. queue[i + 1].c = pc - Len(queue) - 1 + (i + 1)
      BY <2>2 DEF QueueInOrder
    <2>4. i + 1 > 1 => queue[i + 1].lanes = prog[queue[i + 1].c].lanes
      BY <2>2 DEF QueueInOrder
    <2> QED BY <2>2, <2>3, <2>4
  <1>3. CASE queue # <<>> /\ left # {}
    <2> DEFINE Entry == [c : DOMAIN prog, lanes : (SUBSET Lanes) \ {{}}]
               q == [queue EXCEPT ![1].lanes = left]
               first == [queue[1] EXCEPT !.lanes = left]
    <2>1. FetchedQueue = q
      BY <1>3 DEF FetchedQueue
    <2>2. Head(queue) = queue[1] /\ Len(queue) \in Nat \ {0} /\ DOMAIN queue = 1 .. Len(queue)
      BY <1>3, FrontOfQueue
    <2>3. left \in (SUBSET Lanes) \ {{}} /\ queue[1] \in Entry /\ queue \in Seq(Entry) /\ 1 \in 1 .. Len(queue)
      <3>1. queue \in Seq(Entry) /\ 1 \in 1 .. Len(queue)
        BY <2>2 DEF TypeOK
      <3>2. queue[1] \in Entry
        <4> HIDE DEF Entry
        <4> QED BY <3>1, ElementOfSeq
      <3> QED BY <1>3, <2>2, <3>1, <3>2
    <2> HIDE DEF left
    <2>4. first \in Entry /\ first.c = queue[1].c
      BY <2>3
    <2>5. q = [queue EXCEPT ![1] = first]
      OBVIOUS
    <2> HIDE DEF q, first, Entry
    <2>6. /\ q \in Seq(Entry) /\ Len(q) = Len(queue)
          /\ \A i \in 1 .. Len(queue) : q[i] = IF i = 1 THEN first ELSE queue[i]
      BY <2>3, <2>4, <2>5, ExceptSeq
    <2>7. DOMAIN q = 1 .. Len(queue)
      BY <2>6, LenProperties
    <2>8. \A i \in 1 .. Len(queue) : queue[i].c = pc - Len(queue) - 1 + i
                                     /\ (i > 1 => queue[i].lanes = prog[queue[i].c].lanes)
      BY <2>2 DEF QueueInOrder
    <2>9. ASSUME NEW i \in DOMAIN q
          PROVE  q[i].c = pc - Len(q) - 1 + i /\ (i > 1 => q[i].lanes = prog[q[i].c].lanes)
      <3>1. i \in 1 .. Len(queue) /\ i \in Int
        BY <2>7
      <3>2. q[i].c = queue[i].c /\ (i > 1 => q[i] = queue[i])
        BY <2>4, <2>6, <3>1
      <3> QED BY <2>6, <2>8, <3>1, <3>2
    <2> QED BY <2>1, <2>9
  <1> QED BY <1>1, <1>2, <1>3

\* Giving a command keeps what is given before the front.
LEMMA IssueInOrder ==
  ASSUME TypeOK, QueueInOrder, Issue
  PROVE  /\ QueueInOrder'
         /\ \A l \in Lanes : \A C \in SUBSET CommandsOf(prog, l) : Given(l, C)' = Given(l, C)
  <1> DEFINE Entry == [c : DOMAIN prog, lanes : (SUBSET Lanes) \ {{}}]
             x == [c |-> pc, lanes |-> prog[pc].lanes]
  <1>1. /\ prog' = prog /\ pc' = pc + 1 /\ queue' = Append(queue, x) /\ pc \in DOMAIN prog
        /\ prog \in Seq(Command) /\ queue \in Seq(Entry)
    BY ProgramAssumption, IssuedQueue DEF Issue, Accesses, TypeOK
  <1>2. Len(queue) \in Nat /\ DOMAIN queue = 1 .. Len(queue) /\ pc \in 1 .. Len(prog) /\ Len(prog) \in Nat
    BY <1>1, LenProperties
  <1>3. /\ Len(queue') = Len(queue) + 1 /\ DOMAIN queue' = 1 .. Len(queue) + 1
        /\ \A i \in 1 .. Len(queue) : queue'[i] = queue[i]
        /\ queue'[Len(queue) + 1] = x /\ Head(queue') = queue'[1] /\ queue' # <<>>
    BY <1>1, <1>2, AppendProperties
  <1>4. QueueInOrder'
    <2> SUFFICES ASSUME NEW i \in 1 .. Len(queue) + 1
                 PROVE  /\ queue'[i].c = pc' - Len(queue') - 1 + i
                        /\ i > 1 => queue'[i].lanes = prog[queue'[i].c].lanes
      BY <1>1, <1>3 DEF QueueInOrder
    <2>1. CASE i \in 1 .. Len(queue)
      <3>1. queue[i].c = pc - Len(queue) - 1 + i /\ (i > 1 => queue[i].lanes = prog[queue[i].c].lanes)
        BY <1>2, <2>1 DEF QueueInOrder
      <3>2. pc' - Len(queue') - 1 + i = pc - Len(queue) - 1 + i
        BY <1>1, <1>2, <1>3
      <3> QED BY <1>3, <2>1, <3>1, <3>2
    <2>2. CASE i = Len(queue) + 1
      <3>1. pc' - Len(queue') - 1 + i = pc
        BY <1>1, <1>2, <1>3, <2>2
      <3> QED BY <1>3, <2>2, <3>1
    <2> QED BY <1>2, <2>1, <2>2
  <1>5. ASSUME NEW l \in Lanes, NEW C \in SUBSET CommandsOf(prog, l)
        PROVE  Given(l, C)' = Given(l, C)
    <2>1. Given(l, C)' = Before(prog, C, IF l \in queue'[1].lanes THEN queue'[1].c ELSE queue'[1].c + 1)
      BY <1>1, <1>3 DEF Given, GivenBy
    <2>2. CASE queue = <<>>
      <3>1. Len(queue) = 0
        BY <2>2
      <3>2. queue'[1] = x
        BY <1>3, <3>1
      <3>3. Given(l, C) = Before(prog, C, pc)
        BY <2>2 DEF Given, GivenBy
      <3>4. C \in SUBSET Nat /\ (pc \in C => l \in prog[pc].lanes)
        BY <1>1, <1>2, LenProperties DEF CommandsOf
      <3>5. pc \notin C => Before(prog, C, pc + 1) = Before(prog, C, pc)
        BY <1>1, <1>2, <3>4, BeforeNext
      <3> QED BY <2>1, <3>2, <3>3, <3>4, <3>5
    <2>3. CASE queue # <<>>
      <3>1. Head(queue) = queue[1] /\ Len(queue) \in Nat \ {0}
        BY <2>3, FrontOfQueue
      <3>2. queue'[1] = queue[1]
        BY <1>3, <3>1
      <3> QED BY <2>1, <2>3, <3>1, <3>2 DEF Given, GivenBy
    <2> QED BY <2>2, <2>3
  <1> QED BY <1>4, <1>5

\* The order of a lane is kept by what does not touch it.
LEMMA OrderUntouched ==
  ASSUME TypeOK, QueueInOrder, Issue \/ WriteMask \/ Poll \/ UNCHANGED vars,
         NEW l \in Lanes, NEW C \in SUBSET CommandsOf(prog, l), NEW P, InOrder(l, C, P)
  PROVE  InOrder(l, C, P)'
  <1>1. UNCHANGED <<prog, pipe, current>>
    BY DEF Issue, WriteMask, Poll, Accesses, vars, program
  <1>2. Given(l, C)' = Given(l, C)
    <2>1. CASE Issue
      BY <2>1, IssueInOrder
    <2>2. CASE WriteMask \/ Poll \/ UNCHANGED vars
      BY <2>2 DEF WriteMask, Poll, Accesses, vars, program, Given, GivenBy
    <2> QED BY <2>1, <2>2
  <1> QED BY <1>1, <1>2 DEF InOrder

LEMMA OrderInit == Init => OrderInv
  <1> SUFFICES ASSUME Init PROVE OrderInv
    OBVIOUS
  <1>1. QueueInOrder
    BY DEF QueueInOrder, Init
  <1>2. ASSUME NEW l \in Lanes
        PROVE  \E P : InOrder(l, CommandsOf(prog, l), P) /\ P[OutStage(l)] = done[l]
    <2> DEFINE P == [s \in 0 .. OutStage(l) |-> 0]
    <2>1. InOrder(l, CommandsOf(prog, l), P)
      <3>1. 0 \notin CommandsOf(prog, l)
        BY InvInit, OwnElement
      <3> HIDE DEF P
      <3> QED BY <3>1, FirstInOrder DEF P
    <2>2. P[OutStage(l)] = done[l]
      BY DEF Init, OutStage, LsOut, LastStage, AluDepth
    <2> QED BY <2>1, <2>2
  <1> QED BY <1>1, <1>2 DEF OrderInv

LEMMA OrderStep ==
  UnitInv /\ NothingDropped /\ OrderInv /\ [Next]_vars => OrderInv'
  <1> SUFFICES ASSUME UnitInv, NothingDropped, OrderInv, [Next]_vars PROVE OrderInv'
    OBVIOUS
  <1>0. TypeOK /\ QueueInOrder
    BY DEF UnitInv, OrderInv
  <1>1. CASE Clock
    <2>1. QueueInOrder'
      <3>1. queue' = FetchedQueue /\ prog' = prog /\ pc' = pc
        BY <1>1 DEF Clock
      <3> QED BY <1>0, <3>1, FetchedInOrder DEF QueueInOrder
    <2>2. ASSUME NEW l \in Lanes
          PROVE  (\E P : InOrder(l, CommandsOf(prog, l), P) /\ P[OutStage(l)] = done[l])'
      <3> DEFINE C == CommandsOf(prog, l)
      <3>1. PICK P : InOrder(l, C, P) /\ P[OutStage(l)] = done[l]
        BY DEF OrderInv
      <3>2. PICK Q : Q = Shifted(l, C, P)
        OBVIOUS
      <3>3. /\ prog' = prog
            /\ done'[l] = IF IsCmd(Output(l)) THEN done[l] + 1 ELSE done[l]
        BY <1>1 DEF Clock
      <3>4. IsCmd(Output(l)) <=> Output(l).c \in C
        <4>1. OutStage(l) - 1 \in Stages
          BY DEF OutStage, LsOut, LastStage, AluDepth, Stages
        <4>2. Output(l) = NoElement \/ Output(l).c = pipe[l][OutStage(l) - 1].e.c
          BY <1>0, OutputShifts
        <4> QED BY <4>1, <4>2, OwnElement DEF IsCmd, NoElement
      <3>5. PICK D : D = C
        OBVIOUS
      <3>6. D \in SUBSET CommandsOf(prog, l) /\ InOrder(l, D, P) /\ Q = Shifted(l, D, P)
        BY <3>1, <3>2, <3>5
      <3>7. InOrder(l, D, Q)' /\ Q[OutStage(l)] = IF Output(l).c \in D THEN P[OutStage(l)] + 1 ELSE P[OutStage(l)]
        BY <1>0, <1>1, <3>6, LaneStep
      <3>8. (InOrder(l, CommandsOf(prog, l), Q) /\ Q[OutStage(l)] = done[l])'
        <4>1. OutStage(l)' = OutStage(l) /\ CommandsOf(prog, l)' = D
          BY <3>3, <3>5 DEF OutStage, CommandsOf
        <4>2. Q[OutStage(l)] = done'[l]
          BY <3>1, <3>3, <3>4, <3>5, <3>7
        <4> QED BY <3>7, <4>1, <4>2
      <3> QED BY <3>8
    <2> QED BY <2>1, <2>2 DEF OrderInv
  <1>2. CASE Issue \/ WriteMask \/ Poll \/ UNCHANGED vars
    <2>1. UNCHANGED <<prog, done>>
      BY <1>2 DEF Issue, WriteMask, Poll, Accesses, vars, program
    <2>2. QueueInOrder'
      <3>1. CASE Issue
        BY <1>0, <3>1, IssueInOrder
      <3>2. CASE WriteMask \/ Poll \/ UNCHANGED vars
        BY <1>0, <3>2 DEF WriteMask, Poll, Accesses, vars, program, QueueInOrder
      <3> QED BY <1>2, <3>1, <3>2
    <2>3. ASSUME NEW l \in Lanes
          PROVE  (\E P : InOrder(l, CommandsOf(prog, l), P) /\ P[OutStage(l)] = done[l])'
      <3>1. PICK P : InOrder(l, CommandsOf(prog, l), P) /\ P[OutStage(l)] = done[l]
        BY DEF OrderInv
      <3>2. PICK D : D = CommandsOf(prog, l)
        OBVIOUS
      <3>3. InOrder(l, D, P)'
        BY <1>0, <1>2, <3>1, <3>2, OrderUntouched
      <3>4. OutStage(l)' = OutStage(l) /\ CommandsOf(prog, l)' = D
        BY <2>1, <3>2 DEF OutStage, CommandsOf
      <3>5. (InOrder(l, CommandsOf(prog, l), P) /\ P[OutStage(l)] = done[l])'
        BY <2>1, <3>1, <3>3, <3>4
      <3> QED BY <3>5
    <2> QED BY <2>2, <2>3 DEF OrderInv
  <1> QED BY <1>1, <1>2 DEF Next

LEMMA OrderHolds == Spec /\ []NothingDropped => []OrderInv
  BY OrderInit, OrderStep, InvHolds, PTL DEF Spec

\* Whatever the program, as long as no result is dropped, every lane executes
\* every element of its commands once and in program order, through all
\* stalls of the pipeline (VectorLane::tick, PipeObject::processInStall).
THEOREM LanesKeepOrder == Spec /\ []NothingDropped => []ElementsInOrder
  <1>1. UnitInv /\ OrderInv => ElementsInOrder
    BY OrderSuffices
  <1> QED BY <1>1, OrderHolds, InvHolds, PTL

\* No processing lane takes an address from another lane.
OwnAddresses ==
  \A p \in Programs : \A c \in DOMAIN p :
    p[c].type = "proc" => \A o \in Operands : p[c][o] \notin AddressSel

\* Then it never waits for an address and drops nothing.
LEMMA NothingToDrop == OwnAddresses /\ UnitInv => NothingDropped
  <1> SUFFICES ASSUME OwnAddresses, UnitInv, NEW l \in Lanes \ {LS}, AdrStall(l)
               PROVE  FALSE
    BY DEF NothingDropped, RunsFromOffset
  <1> USE DEF UnitInv
  <1>1. PICK o \in Waits(l, 2, AddressSel) : TRUE
    BY DEF AdrStall
  <1>2. 2 \in Stages
    BY DEF Stages, LastStage, AluDepth
  <1> DEFINE e == pipe[l][2].e
  <1>3. o \in Operands /\ IsCmd(e) /\ prog[e.c][o] \in AddressSel
    BY <1>2, WaitingOperand
  <1>4. e.c \in DOMAIN prog /\ prog[e.c] \in Command /\ WellFormed(prog[e.c]) /\ l \in prog[e.c].lanes
    BY <1>2, <1>3, StageElement, CommandElement DEF TypeOK, OwnCommands, Owned
  <1>5. prog[e.c].type = "proc"
    BY <1>4 DEF WellFormed, Command
  <1> QED BY <1>3, <1>4, <1>5 DEF OwnAddresses, TypeOK

\* Lanes keep the order of every program whose processing commands take no
\* address from another lane.
THEOREM LanesKeepOrderOf == OwnAddresses => (Spec => []ElementsInOrder)
  <1> SUFFICES ASSUME OwnAddresses PROVE Spec => []ElementsInOrder
    OBVIOUS
  <1>1. UnitInv => NothingDropped
    BY NothingToDrop
  <1> QED BY <1>1, LanesKeepOrder, InvHolds, PTL

-----------------------------------------------------------------------------
(* The program waits for the unit.                                         *)

StagesEmpty == \A l \in Lanes : \A s \in 0 .. LastStage - 1 : ~ IsCmd(pipe[l][s].e)

CurrentEmpty == \A l \in Lanes : ~ IsCmd(current[l])

Active == \E l \in Lanes : IsCmd(current[l]) \/ \E s \in 0 .. LastStage - 2 : IsCmd(pipe[l][s].e)

\* A lane that blocks has the command it blocks for.
BlockingSeen ==
  \A l \in Lanes : blocking[l] => Blocks(current[l]) \/ \E s \in 0 .. 5 : Blocks(pipe[l][s].e)

\* A queue that a cycle leaves behind waits for a lane that works.
QueueWaits == (ran \/ phase = "poll") /\ queue # <<>> => Active

\* What the busy flag does not look at is empty when the rest is.
FlagComplete == phase = "poll" /\ ran /\ queue = <<>> /\ StagesEmpty => CurrentEmpty

\* The program goes on when the unit is empty.
Drained == phase = "issue" => queue = <<>> /\ StagesEmpty /\ CurrentEmpty

IdleInv == BlockingSeen /\ QueueWaits /\ FlagComplete /\ Drained

\* A current element is in the pipeline after a cycle.
LEMMA CurrentMoves ==
  ASSUME TypeOK, NEW l \in Lanes, IsCmd(current[l])
  PROVE  /\ \E s \in 0 .. LastStage - 1 : IsCmd(Moved(l)[s].e)
         /\ Blocks(current[l]) => Blocks(After(l)) \/ Blocks(Moved(l)[0].e)
  <1>1. LastStage = 9 /\ \A s \in 0 .. 9 : s \in Stages
    BY DEF LastStage, AluDepth, Stages
  <1>2. From(l) \in {0, 3, 4, 10}
    BY <1>1 DEF From
  <1>3. CASE RunsAll(l)
    <2>1. From(l) = 0 /\ 0 \in Stages
      BY <1>1, <1>3 DEF From, RunsAll, RunsFromOffset, RunsFromData
    <2>2. Moved(l)[0].e = current[l]
      BY <2>1, MovedElement
    <2> QED BY <1>1, <2>2
  <1>4. CASE ~ RunsAll(l)
    <2>1. After(l) = current[l]
      BY <1>4 DEF After
    <2>2. CASE DstStall(l)
      <3>1. IsCmd(pipe[l][8].e)
        BY <2>2 DEF DstStall, AluDepth
      <3>2. From(l) = 10
        BY <1>1, <2>2 DEF From, RunsAll, RunsFromOffset, RunsFromData
      <3>3. Moved(l)[8].e = pipe[l][8].e
        BY <1>1, <3>2, MovedElement
      <3> QED BY <1>1, <2>1, <3>1, <3>3
    <2>3. CASE ~ DstStall(l) /\ SrcStall(l)
      <3>1. IsCmd(pipe[l][3].e)
        BY <2>3 DEF SrcStall, Waits
      <3>2. From(l) # 0 /\ From(l) # 3
        BY <1>1, <2>3 DEF From, RunsAll, RunsFromOffset, RunsFromData
      <3>3. Moved(l)[3].e = pipe[l][3].e
        BY <1>1, <1>2, <3>2, MovedElement
      <3> QED BY <1>1, <2>1, <3>1, <3>3
    <2>4. CASE ~ DstStall(l) /\ ~ SrcStall(l) /\ AdrStall(l)
      <3>1. IsCmd(pipe[l][2].e)
        BY <2>4 DEF AdrStall, Waits
      <3>2. From(l) # 0
        BY <1>1, <2>4 DEF From, RunsAll, RunsFromOffset, RunsFromData
      <3>3. Moved(l)[2].e = pipe[l][2].e
        BY <1>1, <1>2, <3>2, MovedElement
      <3> QED BY <1>1, <2>1, <3>1, <3>3
    <2> QED BY <1>4, <2>2, <2>3, <2>4 DEF RunsAll
  <1> QED BY <1>3, <1>4

\* An element moves by at most one stage.
LEMMA StageMoves ==
  ASSUME TypeOK, NEW l \in Lanes, NEW s \in 0 .. LastStage - 1
  PROVE  \E t \in {s, s + 1} : t \in Stages /\ Moved(l)[t].e = pipe[l][s].e
  <1>1. LastStage = 9 /\ s \in Stages /\ s + 1 \in Stages /\ (s + 1) - 1 = s /\ s \in Int
    BY DEF LastStage, AluDepth, Stages
  <1>2. From(l) \in {0, 3, 4, 10}
    BY <1>1 DEF From
  <1>3. CASE s < From(l)
    <2>1. Moved(l)[s].e = pipe[l][s].e
      BY <1>1, <1>3, MovedElement
    <2> QED BY <1>1, <2>1
  <1>4. CASE ~ (s < From(l))
    <2>1. s + 1 > From(l)
      BY <1>1, <1>2, <1>4
    <2>2. Moved(l)[s + 1].e = pipe[l][s].e
      BY <1>1, <2>1, MovedElement
    <2> QED BY <1>1, <2>2
  <1> QED BY <1>3, <1>4

\* An empty pipeline stays empty.
LEMMA NothingMoves ==
  ASSUME TypeOK, StagesEmpty, CurrentEmpty, NEW l \in Lanes
  PROVE  ~ IsCmd(After(l)) /\ \A s \in 0 .. LastStage - 1 : ~ IsCmd(Moved(l)[s].e)
  <1>1. LastStage = 9 /\ \A s \in 0 .. 9 : s \in Stages
    BY DEF LastStage, AluDepth, Stages
  <1>2. From(l) \in {0, 3, 4, 10}
    BY <1>1 DEF From
  <1>3. ~ IsCmd(NoElement) /\ ~ IsCmd(current[l])
    BY DEF IsCmd, NoElement, CurrentEmpty
  <1>4. ~ IsCmd(After(l))
    BY <1>3 DEF After
  <1>5. ASSUME NEW s \in 0 .. LastStage - 1 PROVE ~ IsCmd(Moved(l)[s].e)
    <2>1. s \in Stages /\ s \in Int /\ 0 <= s /\ (s > 0 => s - 1 \in 0 .. LastStage - 1)
      BY <1>1
    <2>2. CASE s < From(l)
      <3>1. Moved(l)[s].e = pipe[l][s].e
        BY <2>1, <2>2, MovedElement
      <3> QED BY <3>1 DEF StagesEmpty
    <2>3. CASE s = From(l)
      <3>1. Moved(l)[s].e \in {current[l], NoElement}
        BY <2>1, <2>3, MovedElement
      <3> QED BY <1>3, <3>1
    <2>4. CASE s > From(l)
      <3>1. Moved(l)[s].e = pipe[l][s - 1].e
        BY <2>1, <2>4, MovedElement
      <3>2. s - 1 \in 0 .. LastStage - 1
        BY <1>2, <2>1, <2>4
      <3> QED BY <3>1, <3>2 DEF StagesEmpty
    <2> QED BY <1>2, <2>1, <2>2, <2>3, <2>4
  <1> QED BY <1>4, <1>5

LEMMA IdleInit == Init => IdleInv
  <1> SUFFICES ASSUME Init PROVE IdleInv
    OBVIOUS
  <1>1. phase = "mask" /\ queue = <<>> /\ \A l \in Lanes : ~ blocking[l]
    BY DEF Init
  <1> QED BY <1>1 DEF IdleInv, BlockingSeen, QueueWaits, FlagComplete, Drained

\* What a lane has after a cycle is active.
LEMMA ActiveAfter ==
  ASSUME UnitInv, Clock, NEW l \in Lanes
  PROVE  /\ Fetches(l) \/ IsCmd(After(l)) => Active'
         /\ \A s \in 0 .. LastStage - 2 : IsCmd(Moved(l)[s].e) => Active'
         /\ current'[l] = IF Fetches(l) THEN [c |-> Head(queue).c, k |-> 1] ELSE After(l)
         /\ pipe'[l] = Moved(l)
  <1>1. /\ current'[l] = IF Fetches(l) THEN [c |-> Head(queue).c, k |-> 1] ELSE After(l)
        /\ pipe'[l] = Moved(l)
    BY DEF Clock
  <1>2. ASSUME Fetches(l) PROVE IsCmd(current'[l])
    <2>1. [c |-> Head(queue).c, k |-> 1] \in Working
      BY <1>2, FetchedElement DEF UnitInv
    <2>2. IsCmd([c |-> Head(queue).c, k |-> 1])
      BY <2>1, CommandElement DEF UnitInv, TypeOK, Element
    <2> QED BY <1>1, <1>2, <2>2
  <1>3. Fetches(l) \/ IsCmd(After(l)) => IsCmd(current'[l])
    BY <1>1, <1>2
  <1>4. IsCmd(current'[l]) => Active'
    BY DEF Active, IsCmd
  <1>5. \A s \in 0 .. LastStage - 2 : IsCmd(Moved(l)[s].e) => Active'
    BY <1>1 DEF Active, IsCmd
  <1> QED BY <1>1, <1>3, <1>4, <1>5

\* A lane that blocks is active after the cycle too.
LEMMA BlockedStaysActive ==
  ASSUME UnitInv, IdleInv, Clock, NEW l \in Lanes, blocking[l]
  PROVE  Active'
  <1>1. TypeOK
    BY DEF UnitInv
  <1>2. LastStage = 9
    BY DEF LastStage, AluDepth
  <1>3. CASE Blocks(current[l])
    <2>1. Blocks(After(l)) \/ Blocks(Moved(l)[0].e)
      BY <1>1, <1>3, CurrentMoves DEF Blocks
    <2>2. IsCmd(After(l)) \/ IsCmd(Moved(l)[0].e)
      BY <2>1 DEF Blocks
    <2>3. 0 \in 0 .. LastStage - 2
      BY <1>2
    <2> QED BY <2>2, <2>3, ActiveAfter
  <1>4. ASSUME NEW s \in 0 .. 5, Blocks(pipe[l][s].e) PROVE Active'
    <2>1. s \in 0 .. LastStage - 1 /\ \A t \in {s, s + 1} : t \in 0 .. LastStage - 2
      BY <1>2
    <2>2. PICK t \in {s, s + 1} : Moved(l)[t].e = pipe[l][s].e
      BY <1>1, <2>1, StageMoves
    <2>3. IsCmd(Moved(l)[t].e)
      BY <1>4, <2>2 DEF Blocks
    <2> QED BY <2>1, <2>3, ActiveAfter
  <1> QED BY <1>3, <1>4 DEF IdleInv, BlockingSeen

\* If a lane could fetch, one does.
LEMMA FirstFetches ==
  ASSUME NEW l \in Lanes, Eligible(l)
  PROVE  \E m \in Lanes : Fetches(m)
  <1> DEFINE T == {m \in Lanes : Eligible(m)}
  <1>1. T \in SUBSET Nat /\ T # {}
    BY ProgramAssumption DEF Lanes
  <1>2. PICK m \in T : \A k \in T : m <= k
    BY <1>1, LeastElement
  <1>3. \A k \in Lanes : k < m => ~ Eligible(k)
    BY <1>2, ProgramAssumption DEF Lanes
  <1> QED BY <1>2, <1>3 DEF Fetches

\* The queue that a cycle leaves waits for a lane that works.
LEMMA QueueStep ==
  ASSUME UnitInv, IdleInv, Clock, queue # <<>>
  PROVE  Active'
  <1>1. CASE \E m \in Lanes : Fetches(m)
    BY <1>1, ActiveAfter
  <1>2. CASE \A m \in Lanes : ~ Fetches(m)
    <2>1. Head(queue) \in [c : DOMAIN prog, lanes : (SUBSET Lanes) \ {{}}]
      BY HeadTailProperties DEF UnitInv, TypeOK
    <2>2. PICK l \in Head(queue).lanes : l \in Lanes
      BY <2>1
    <2>3. ~ Eligible(l)
      BY <1>2, <2>2, FirstFetches
    <2>4. CASE IsCmd(After(l))
      BY <2>2, <2>4, ActiveAfter
    <2>5. CASE ~ IsCmd(After(l))
      <3>1. PICK m \in Lanes : IF m < l THEN Blocks(After(m)) \/ PipeBlocks(m) ELSE blocking[m]
        BY <2>2, <2>3, <2>5 DEF Eligible
      <3>2. CASE Blocks(After(m))
        BY <3>2, ActiveAfter DEF Blocks
      <3>3. CASE PipeBlocks(m)
        <4>1. \E s \in 0 .. LastStage - 2 : IsCmd(Moved(m)[s].e)
          BY <3>3 DEF PipeBlocks, Blocks, LastStage, AluDepth
        <4> QED BY <4>1, ActiveAfter
      <3>4. CASE blocking[m]
        BY <3>4, BlockedStaysActive
      <3> QED BY <3>1, <3>2, <3>3, <3>4
    <2> QED BY <2>4, <2>5
  <1> QED BY <1>1, <1>2

\* What is active is in the pipeline after the cycle.
LEMMA ActiveMoves ==
  ASSUME UnitInv, Clock, Active
  PROVE  ~ StagesEmpty'
  <1>1. TypeOK /\ LastStage = 9
    BY DEF UnitInv, LastStage, AluDepth
  <1>2. PICK l \in Lanes : IsCmd(current[l]) \/ \E s \in 0 .. LastStage - 2 : IsCmd(pipe[l][s].e)
    BY DEF Active
  <1>3. \E t \in 0 .. LastStage - 1 : IsCmd(Moved(l)[t].e)
    <2>1. CASE IsCmd(current[l])
      BY <1>1, <2>1, CurrentMoves
    <2>2. ASSUME NEW s \in 0 .. LastStage - 2, IsCmd(pipe[l][s].e)
          PROVE  \E t \in 0 .. LastStage - 1 : IsCmd(Moved(l)[t].e)
      <3>1. s \in 0 .. LastStage - 1 /\ s + 1 \in 0 .. LastStage - 1
        BY <1>1
      <3>2. PICK t \in {s, s + 1} : Moved(l)[t].e = pipe[l][s].e
        BY <1>1, <3>1, StageMoves
      <3> QED BY <2>2, <3>1, <3>2
    <2> QED BY <1>2, <2>1, <2>2
  <1>4. pipe'[l] = Moved(l)
    BY ActiveAfter
  <1> QED BY <1>3, <1>4 DEF StagesEmpty, IsCmd

LEMMA IdleClock ==
  ASSUME UnitInv, IdleInv, Clock
  PROVE  IdleInv'
  <1>0. TypeOK /\ LastStage = 9 /\ prog' = prog /\ phase' = phase /\ ran' = TRUE /\ queue' = FetchedQueue
    BY DEF UnitInv, LastStage, AluDepth, Clock
  <1>1. BlockingSeen'
    <2> SUFFICES ASSUME NEW l \in Lanes, blocking'[l]
                 PROVE  (Blocks(current[l]) \/ \E s \in 0 .. 5 : Blocks(pipe[l][s].e))'
      BY DEF BlockingSeen
    <2>1. blocking'[l] <=> Blocks(current'[l]) \/ PipeBlocks(l)
      BY DEF Clock
    <2>2. pipe'[l] = Moved(l)
      BY ActiveAfter
    <2>3. PipeBlocks(l) => \E s \in 0 .. 5 : Blocks(pipe'[l][s].e)
      BY <2>2 DEF PipeBlocks, AluDepth
    <2>4. \A e : Blocks(e)' <=> Blocks(e')
      BY <1>0 DEF Blocks, IsCmd
    <2> QED BY <1>0, <2>1, <2>3 DEF Blocks, IsCmd
  <1>2. QueueWaits'
    <2>1. queue' # <<>> => queue # <<>>
      BY <1>0 DEF FetchedQueue
    <2> QED BY <2>1, QueueStep DEF QueueWaits
  <1>3. FlagComplete'
    <2> SUFFICES ASSUME phase = "poll", StagesEmpty', NEW l \in Lanes, IsCmd(current'[l])
                 PROVE  FALSE
      BY <1>0 DEF FlagComplete, CurrentEmpty, IsCmd
    <2>1. ~ Active
      BY ActiveMoves
    <2>2. CASE Fetches(l)
      <3>1. queue # <<>>
        BY <2>2 DEF Fetches, Eligible
      <3> QED BY <2>1, <3>1 DEF IdleInv, QueueWaits
    <2>3. CASE ~ Fetches(l)
      <3>1. current'[l] = After(l)
        BY <2>3, ActiveAfter
      <3>2. IsCmd(current[l])
        BY <1>0, <3>1, AfterElement
      <3> QED BY <2>1, <3>2 DEF Active
    <2> QED BY <2>2, <2>3
  <1>4. Drained'
    <2> SUFFICES ASSUME phase = "issue" PROVE (queue = <<>> /\ StagesEmpty /\ CurrentEmpty)'
      BY <1>0 DEF Drained
    <2>1. queue = <<>> /\ StagesEmpty /\ CurrentEmpty
      BY DEF IdleInv, Drained
    <2>2. queue' = <<>>
      BY <1>0, <2>1 DEF FetchedQueue
    <2>3. ASSUME NEW l \in Lanes
          PROVE  ~ IsCmd(current'[l]) /\ \A s \in 0 .. LastStage - 1 : ~ IsCmd(pipe'[l][s].e)
      <3>1. ~ Fetches(l)
        BY <2>1 DEF Fetches, Eligible
      <3>2. current'[l] = After(l) /\ pipe'[l] = Moved(l)
        BY <3>1, ActiveAfter
      <3>3. ~ IsCmd(After(l)) /\ \A s \in 0 .. LastStage - 1 : ~ IsCmd(Moved(l)[s].e)
        BY <1>0, <2>1, NothingMoves
      <3> QED BY <3>2, <3>3
    <2> QED BY <2>2, <2>3 DEF StagesEmpty, CurrentEmpty, IsCmd
  <1> QED BY <1>1, <1>2, <1>3, <1>4 DEF IdleInv

LEMMA IdleStep == UnitInv /\ IdleInv /\ [Next]_vars => IdleInv'
  <1> SUFFICES ASSUME UnitInv, IdleInv, [Next]_vars PROVE IdleInv'
    OBVIOUS
  <1> USE DEF IdleInv
  <1>1. CASE Clock
    BY <1>1, IdleClock
  <1>2. ASSUME UNCHANGED <<prog, queue, current, blocking, pipe>>
        PROVE  /\ BlockingSeen' /\ (Active' <=> Active) /\ (StagesEmpty' <=> StagesEmpty)
               /\ (CurrentEmpty' <=> CurrentEmpty)
    BY <1>2 DEF BlockingSeen, Blocks, Active, StagesEmpty, CurrentEmpty, IsCmd
  <1>3. CASE WriteMask
    <2>1. /\ UNCHANGED <<prog, queue, current, blocking, pipe>> /\ ran /\ ran' = FALSE /\ phase' = "poll"
      BY <1>3 DEF WriteMask, Accesses
    <2> QED BY <1>2, <2>1 DEF QueueWaits, FlagComplete, Drained
  <1>4. CASE Poll
    <2>1. /\ UNCHANGED <<prog, queue, current, blocking, pipe>> /\ ran /\ ran' = FALSE /\ phase = "poll"
          /\ phase' = IF Busy THEN "poll" ELSE "issue"
      BY <1>4 DEF Poll, Accesses
    <2>2. ~ Busy => queue = <<>> /\ StagesEmpty
      BY DEF Busy, StagesEmpty
    <2>3. ~ Busy => CurrentEmpty
      BY <2>1, <2>2 DEF FlagComplete
    <2>4. QueueWaits'
      BY <1>2, <2>1 DEF QueueWaits
    <2>5. FlagComplete'
      BY <2>1 DEF FlagComplete
    <2>6. Drained'
      BY <1>2, <2>1, <2>2, <2>3 DEF Drained
    <2> QED BY <1>2, <2>1, <2>4, <2>5, <2>6
  <1>5. CASE Issue
    <2>1. /\ UNCHANGED <<prog, current, blocking, pipe>> /\ ran' = FALSE /\ phase' = "mask"
      BY <1>5 DEF Issue, Accesses
    <2>2. BlockingSeen'
      BY <2>1 DEF BlockingSeen, Blocks, IsCmd
    <2> QED BY <2>1, <2>2 DEF QueueWaits, FlagComplete, Drained
  <1>6. CASE UNCHANGED vars
    <2>1. UNCHANGED <<prog, queue, current, blocking, pipe, ran, phase>>
      BY <1>6 DEF vars, program
    <2> QED BY <1>2, <2>1 DEF QueueWaits, FlagComplete, Drained
  <1> QED BY <1>1, <1>3, <1>4, <1>5, <1>6 DEF Next

LEMMA IdleHolds == Spec => []IdleInv
  BY IdleInit, IdleStep, InvHolds, PTL DEF Spec

\* When the program goes on, every lane has put out all it has been given.
LEMMA DrainedIsDone == UnitInv /\ OrderInv /\ IdleInv => SyncWaits
  <1> SUFFICES ASSUME UnitInv, OrderInv, IdleInv, phase = "issue", NEW l \in Lanes
               PROVE  done[l] = Before(prog, CommandsOf(prog, l), pc)
    BY DEF SyncWaits
  <1> DEFINE C == CommandsOf(prog, l)
  <1>1. queue = <<>> /\ StagesEmpty /\ CurrentEmpty
    BY DEF IdleInv, Drained
  <1>2. PICK P : InOrder(l, C, P) /\ P[OutStage(l)] = done[l]
    BY DEF OrderInv
  <1>3. done[l] \in Nat /\ 0 \in 0 .. OutStage(l)
    BY DEF UnitInv, TypeOK, OutStage, LsOut, LastStage, AluDepth
  <1>4. P[0] = done[l] + Cardinality(Ahead(l, 0))
    BY <1>2, <1>3, OrderCounts
  <1>5. Ahead(l, 0) = {}
    <2>1. \A t \in 0 .. OutStage(l) - 1 : t \in 0 .. LastStage - 1
      BY DEF OutStage, LsOut, LastStage, AluDepth
    <2> QED BY <1>1, <2>1 DEF Ahead, StagesEmpty
  <1>6. P[0] = Given(l, C)
    <2>1. current[l].c \notin C
      BY <1>1, OwnElement DEF CurrentEmpty
    <2> QED BY <1>2, <2>1 DEF InOrder
  <1>7. Given(l, C) = Before(prog, C, pc)
    BY <1>1 DEF Given, GivenBy
  <1> QED BY <1>3, <1>4, <1>5, <1>6, <1>7, FS_EmptySet

\* Whatever the program, as long as no result is dropped, a program that has
\* waited for the unit finds all its commands done, although the busy flag
\* does not look at the current elements (VectorUnit::isBusy).
THEOREM WaitFindsAllDone == Spec /\ []NothingDropped => []SyncWaits
  BY DrainedIsDone, InvHolds, OrderHolds, IdleHolds, PTL

-----------------------------------------------------------------------------
(* Results reach the elements they are for.                                *)

\* Lane l reads lane s when it works on cmd.
ReadsIn(cmd, l, s) == l \in cmd.lanes /\ \E o \in Chained(cmd) : Source(l, cmd, o) = s

ReaderLanes(p, s) == {l \in Lanes : \E c \in DOMAIN p : ReadsIn(p[c], l, s)}

\* All that is read from lane s is of the kind in Sels.
OnlyFor(p, s, Sels) ==
  \A c \in DOMAIN p, l \in Lanes, o \in Operands :
    l \in p[c].lanes /\ o \in Chained(p[c]) /\ Source(l, p[c], o) = s => p[c][o] \in Sels

\* The same lanes read a lane in every command that reads it, and all for
\* data or all for addresses.
FixedReaders ==
  \A p \in Programs, s \in Lanes :
    /\ \A c \in Reading(p, s), l \in ReaderLanes(p, s) : ReadsIn(p[c], l, s)
    /\ OnlyFor(p, s, DataSel) \/ OnlyFor(p, s, AddressSel)

TakesFrom(l, s) ==
  s \in {SourceOf(l, 2, o) : o \in TakesOffsets(l)} \cup {SourceOf(l, 3, o) : o \in TakesData(l)}

\* The lanes that read a FIFO take from it in the same cycle.
TakenTogether ==
  \A s, l, m \in Lanes : TakesFrom(l, s) /\ m \in ReaderLanes(prog, s) => TakesFrom(m, s)

\* The stage in which an element has what it reads from lane s.
TakeStage(s) == IF OnlyFor(prog, s, DataSel) THEN 4 ELSE 3

\* f is the i-th result that lane s chains, and has been put out.
Result(s, f, i) ==
  /\ f \in Elements(prog, s) /\ prog[f.c].chain
  /\ Before(prog, Chaining(prog, s), f.c) + f.k = i
  /\ Position(prog, s, f) <= done[s]

\* The FIFO of lane s holds what the lane has chained and its readers have
\* not taken yet.
FifoInOrder(s, K, t) ==
  /\ InOrder(s, Chaining(prog, s), K) /\ t \in Nat
  /\ \A r \in ReaderLanes(prog, s) : \E R : InOrder(r, Reading(prog, s), R) /\ R[TakeStage(s)] = t
  /\ Len(fifo[s]) = K[OutStage(s)] - t
  /\ \A i \in 1 .. Len(fifo[s]) : Result(s, fifo[s][i], t + i)

\* The element of slot x in stage s of lane l has read the results it is for.
SlotFed(l, x, s) ==
  IsCmd(x.e) =>
    \A o \in Chained(prog[x.e.c]) : (s > 3 \/ prog[x.e.c][o] \in AddressSel) =>
      LET f == Source(l, prog[x.e.c], o)
      IN  Result(f, x.in[o], Before(prog, Reading(prog, f), x.e.c) + x.e.k)

FlowInv ==
  /\ \A s \in Lanes : \E K, t : FifoInOrder(s, K, t)
  /\ \A l \in Lanes, s \in 3 .. LastStage : SlotFed(l, pipe[l][s], s)

\* What an element reads makes its command one that reads and its lane a
\* reader.
LEMMA ReadByCommand ==
  ASSUME UnitInv, NEW l \in Lanes, NEW s \in Stages, IsCmd(pipe[l][s].e),
         NEW o \in Chained(prog[pipe[l][s].e.c])
  PROVE  LET c == pipe[l][s].e.c
             f == SourceOf(l, s, o)
         IN  /\ f \in Lanes /\ c \in Reading(prog, f) /\ l \in ReaderLanes(prog, f)
             /\ c \in DOMAIN prog /\ l \in prog[c].lanes /\ Source(l, prog[c], o) = f
             /\ prog[c][o] \in DataSel \cup AddressSel /\ o \in Operands
  <1> DEFINE e == pipe[l][s].e
  <1>1. e \in Element /\ prog \in Programs /\ Owned(l, e)
    BY StageElement DEF UnitInv, TypeOK, OwnCommands
  <1>2. e.c \in DOMAIN prog /\ prog[e.c] \in Command /\ l \in prog[e.c].lanes
    BY <1>1, CommandElement DEF Owned
  <1>3. o \in Operands /\ prog[e.c][o] # "none"
    BY DEF Chained
  <1>4. SourceOf(l, s, o) \in Lanes
    BY <1>2, <1>3, SourceIsLane DEF SourceOf
  <1>5. prog[e.c][o] \in Sel
    BY <1>2, <1>3 DEF Command, Operands
  <1>6. prog[e.c][o] \in DataSel \cup AddressSel
    BY <1>3, <1>5 DEF Sel
  <1>7. e.c \in Reading(prog, SourceOf(l, s, o))
    BY <1>2, <1>3 DEF Reading, Reads, SourceOf
  <1>8. l \in ReaderLanes(prog, SourceOf(l, s, o))
    BY <1>2, <1>3 DEF ReaderLanes, ReadsIn, SourceOf
  <1> QED BY <1>2, <1>3, <1>4, <1>6, <1>7, <1>8 DEF SourceOf

\* The commands that chain and those that read are commands of the lanes.
LEMMA ChainCommands ==
  ASSUME FixedReaders, UnitInv, NEW s \in Lanes
  PROVE  /\ Chaining(prog, s) \in SUBSET CommandsOf(prog, s) /\ 0 \notin Chaining(prog, s)
         /\ \A r \in ReaderLanes(prog, s) :
              r \in Lanes /\ Reading(prog, s) \in SUBSET CommandsOf(prog, r) /\ 0 \notin Reading(prog, s)
  <1>1. prog \in Programs
    BY DEF UnitInv, TypeOK
  <1>2. 0 \notin DOMAIN prog
    BY <1>1, ProgramCommands
  <1>3. Chaining(prog, s) \in SUBSET CommandsOf(prog, s) /\ 0 \notin Chaining(prog, s)
    BY <1>2 DEF Chaining, Chains, CommandsOf
  <1>4. ASSUME NEW r \in ReaderLanes(prog, s)
        PROVE  r \in Lanes /\ Reading(prog, s) \in SUBSET CommandsOf(prog, r) /\ 0 \notin Reading(prog, s)
    <2>1. \A c \in Reading(prog, s) : ReadsIn(prog[c], r, s)
      BY <1>1 DEF FixedReaders
    <2>2. \A c \in Reading(prog, s) : c \in DOMAIN prog
      BY DEF Reading
    <2>3. r \in Lanes
      BY DEF ReaderLanes
    <2> QED BY <1>2, <2>1, <2>2, <2>3 DEF ReadsIn, CommandsOf
  <1> QED BY <1>3, <1>4

\* An operand tells in which stage its lane is read.
LEMMA PurposeStage ==
  ASSUME FixedReaders, UnitInv, NEW s \in Lanes, NEW c \in DOMAIN prog, NEW l \in Lanes, NEW o \in Operands,
         l \in prog[c].lanes, o \in Chained(prog[c]), Source(l, prog[c], o) = s
  PROVE  /\ prog[c][o] \in DataSel <=> TakeStage(s) = 4
         /\ prog[c][o] \in AddressSel <=> TakeStage(s) = 3
  <1>1. DataSel \cap AddressSel = {}
    BY DEF DataSel, AddressSel
  <1>2. prog \in Programs
    BY DEF UnitInv, TypeOK
  <1>3. OnlyFor(prog, s, DataSel) \/ OnlyFor(prog, s, AddressSel)
    BY <1>2 DEF FixedReaders
  <1>4. OnlyFor(prog, s, DataSel) => prog[c][o] \in DataSel
    BY DEF OnlyFor
  <1>5. OnlyFor(prog, s, AddressSel) => prog[c][o] \in AddressSel
    BY DEF OnlyFor
  <1> QED BY <1>1, <1>3, <1>4, <1>5 DEF TakeStage

\* A lane takes from a FIFO when an element that reads it leaves the stage
\* before.
LEMMA TakenByElement ==
  ASSUME FixedReaders, UnitInv, NothingDropped, NEW s \in Lanes, NEW r \in ReaderLanes(prog, s)
  PROVE  TakesFrom(r, s) <=>
           From(r) < TakeStage(s) /\ pipe[r][TakeStage(s) - 1].e.c \in Reading(prog, s)
  <1>0. r \in Lanes /\ 2 \in Stages /\ 3 \in Stages /\ LastStage = 9
    BY DEF ReaderLanes, Stages, LastStage, AluDepth
  <1>1. From(r) \in {0, 3, 4, 10} /\ (From(r) = 0 <=> RunsAll(r)) /\ (From(r) = 3 <=> RunsFromOffset(r))
    BY <1>0, OutputShifts DEF UnitInv
  <1>2. ASSUME NEW g \in {2, 3}, NEW Sels \in {DataSel, AddressSel}, NEW o \in Waits(r, g, Sels),
               SourceOf(r, g, o) = s
        PROVE  /\ pipe[r][g].e.c \in Reading(prog, s)
               /\ TakeStage(s) = IF Sels = DataSel THEN 4 ELSE 3
    <2>1. g \in Stages
      BY <1>0
    <2>2. o \in Operands /\ IsCmd(pipe[r][g].e) /\ prog[pipe[r][g].e.c][o] \in Sels
      BY DEF Waits
    <2>3. o \in Chained(prog[pipe[r][g].e.c])
      BY <2>2 DEF Chained, DataSel, AddressSel
    <2>4. /\ pipe[r][g].e.c \in Reading(prog, s) /\ pipe[r][g].e.c \in DOMAIN prog
          /\ r \in prog[pipe[r][g].e.c].lanes /\ Source(r, prog[pipe[r][g].e.c], o) = s
      BY <1>0, <1>2, <2>1, <2>2, <2>3, ReadByCommand
    <2>5. /\ prog[pipe[r][g].e.c][o] \in DataSel <=> TakeStage(s) = 4
          /\ prog[pipe[r][g].e.c][o] \in AddressSel <=> TakeStage(s) = 3
      BY <1>0, <2>2, <2>3, <2>4, PurposeStage
    <2>6. DataSel # AddressSel
      BY DEF DataSel, AddressSel
    <2> QED BY <2>2, <2>4, <2>5, <2>6
  <1>3. ASSUME TakesFrom(r, s)
        PROVE  From(r) < TakeStage(s) /\ pipe[r][TakeStage(s) - 1].e.c \in Reading(prog, s)
    <2>1. CASE s \in {SourceOf(r, 2, o) : o \in TakesOffsets(r)}
      <3>1. PICK o \in TakesOffsets(r) : s = SourceOf(r, 2, o)
        BY <2>1
      <3>2. o \in Waits(r, 2, AddressSel) /\ RunsAll(r)
        BY <3>1 DEF TakesOffsets
      <3>3. DataSel # AddressSel
        BY DEF DataSel, AddressSel
      <3>4. pipe[r][2].e.c \in Reading(prog, s) /\ TakeStage(s) = 3
        BY <1>2, <3>1, <3>2, <3>3
      <3> QED BY <1>1, <3>2, <3>4
    <2>2. CASE s \in {SourceOf(r, 3, o) : o \in TakesData(r)}
      <3>1. PICK o \in TakesData(r) : s = SourceOf(r, 3, o)
        BY <2>2
      <3>2. o \in Waits(r, 3, DataSel) /\ (RunsAll(r) \/ RunsFromOffset(r))
        BY <3>1 DEF TakesData
      <3>4. pipe[r][3].e.c \in Reading(prog, s) /\ TakeStage(s) = 4
        BY <1>2, <3>1, <3>2
      <3> QED BY <1>1, <3>2, <3>4
    <2> QED BY <1>3, <2>1, <2>2 DEF TakesFrom
  <1>4. ASSUME From(r) < TakeStage(s), pipe[r][TakeStage(s) - 1].e.c \in Reading(prog, s)
        PROVE  TakesFrom(r, s)
    <2> DEFINE c == pipe[r][TakeStage(s) - 1].e.c
    <2>1. TakeStage(s) \in {3, 4}
      BY DEF TakeStage
    <2>2. prog \in Programs /\ c # 0 /\ c \in DOMAIN prog
      <3>1. prog \in Programs
        BY DEF UnitInv, TypeOK
      <3>2. 0 \notin Reading(prog, s)
        BY ChainCommands
      <3> QED BY <1>4, <3>1, <3>2 DEF Reading
    <2>3. ReadsIn(prog[c], r, s)
      BY <1>4, <2>2 DEF FixedReaders
    <2>4. PICK o \in Chained(prog[c]) : r \in prog[c].lanes /\ Source(r, prog[c], o) = s
      BY <2>3 DEF ReadsIn
    <2>5. o \in Operands
      BY DEF Chained
    <2>6. /\ prog[c][o] \in DataSel <=> TakeStage(s) = 4
          /\ prog[c][o] \in AddressSel <=> TakeStage(s) = 3
      BY <1>0, <2>2, <2>4, <2>5, PurposeStage
    <2>7. CASE TakeStage(s) = 3
      <3>1. TakeStage(s) - 1 = 2 /\ c = pipe[r][2].e.c
        BY <2>7
      <3>2. o \in Waits(r, 2, AddressSel) /\ SourceOf(r, 2, o) = s
        BY <2>2, <2>4, <2>5, <2>6, <2>7, <3>1 DEF Waits, IsCmd, SourceOf
      <3>3. RunsAll(r)
        BY <1>1, <1>4, <2>7
      <3> QED BY <3>2, <3>3 DEF TakesFrom, TakesOffsets
    <2>8. CASE TakeStage(s) = 4
      <3>1. TakeStage(s) - 1 = 3 /\ c = pipe[r][3].e.c
        BY <2>8
      <3>2. o \in Waits(r, 3, DataSel) /\ SourceOf(r, 3, o) = s
        BY <2>2, <2>4, <2>5, <2>6, <2>8, <3>1 DEF Waits, IsCmd, SourceOf
      <3>3. RunsAll(r) \/ RunsFromOffset(r)
        BY <1>1, <1>4, <2>8
      <3> QED BY <3>2, <3>3 DEF TakesFrom, TakesData
    <2> QED BY <2>1, <2>7, <2>8
  <1> QED BY <1>3, <1>4

\* A lane that takes from a FIFO is one of its readers.
LEMMA TakersRead ==
  ASSUME UnitInv, NEW s \in Lanes, NEW l \in Lanes, TakesFrom(l, s)
  PROVE  l \in ReaderLanes(prog, s)
  <1>1. PICK g \in {2, 3} : \E o \in Waits(l, g, DataSel \cup AddressSel) : s = SourceOf(l, g, o)
    BY DEF TakesFrom, TakesOffsets, TakesData, Waits
  <1>2. PICK o \in Waits(l, g, DataSel \cup AddressSel) : s = SourceOf(l, g, o)
    BY <1>1
  <1>3. g \in Stages
    BY DEF Stages, LastStage, AluDepth
  <1>4. o \in Chained(prog[pipe[l][g].e.c]) /\ IsCmd(pipe[l][g].e)
    BY DEF Waits, Chained, DataSel, AddressSel
  <1> QED BY <1>2, <1>3, <1>4, ReadByCommand

\* When the readers of a FIFO take from it together, each takes whenever
\* something is taken.
LEMMA PoppedByReaders ==
  ASSUME UnitInv, TakenTogether, NEW s \in Lanes, NEW r \in ReaderLanes(prog, s)
  PROVE  TakesFrom(r, s) <=> s \in Popped
  <1>1. s \in Popped <=> \E l \in Lanes : TakesFrom(l, s)
    BY DEF Popped, TakesFrom
  <1>2. r \in Lanes
    BY DEF ReaderLanes
  <1> QED BY <1>1, <1>2 DEF TakenTogether

\* A result stays one.
LEMMA ResultStays ==
  ASSUME UnitInv, [Next]_vars, NEW s \in Lanes, NEW f, NEW i, Result(s, f, i)
  PROVE  Result(s, f, i)'
  <1>1. prog' = prog /\ done[s] \in Nat /\ prog \in Programs
    BY DEF Next, Clock, WriteMask, Poll, Issue, Accesses, vars, program, UnitInv, TypeOK
  <1>2. done'[s] \in Nat /\ done'[s] >= done[s]
    <2>1. CASE Clock
      <3>1. done'[s] = IF IsCmd(Output(s)) THEN done[s] + 1 ELSE done[s]
        BY <2>1 DEF Clock
      <3> QED BY <1>1, <3>1
    <2>2. CASE UNCHANGED done
      BY <1>1, <2>2
    <2> QED BY <2>1, <2>2 DEF Next, WriteMask, Poll, Issue, Accesses, vars
  <1>3. Position(prog, s, f) \in Nat
    <2>1. f \in Elements(prog, s)
      BY DEF Result
    <2>2. PICK c \in CommandsOf(prog, s) : \E k \in 1 .. prog[c].n : f = [c |-> c, k |-> k]
      BY <2>1 DEF Elements
    <2>3. f.c = c /\ f.k \in Nat /\ c \in DOMAIN prog
      BY <2>2 DEF CommandsOf
    <2>4. c \in 1 .. Len(prog) /\ prog \in Seq(Command)
      BY <1>1, <2>3, ProgramCommands
    <2>5. Before(prog, CommandsOf(prog, s), c) \in Nat
      <3>1. CommandsOf(prog, s) \in SUBSET Nat
        BY OwnElement
      <3> QED BY <2>4, <3>1, BeforeNext
    <2> QED BY <2>3, <2>5 DEF Position
  <1> QED BY <1>1, <1>2, <1>3 DEF Result

\* The element that is put out is the next result.
LEMMA OutputIsResult ==
  ASSUME FixedReaders, UnitInv, NothingDropped, OrderInv, Clock, NEW s \in Lanes,
         NEW K, InOrder(s, Chaining(prog, s), K), NEW e, e = Output(s)
  PROVE  /\ IsCmd(e) => /\ Position(prog, s, e) = done[s] + 1 /\ e \in Elements(prog, s)
                         /\ e = pipe[s][OutStage(s) - 1].e
         /\ Pushes(s) <=> e.c \in Chaining(prog, s)
         /\ Pushes(s) => Result(s, e, K[OutStage(s)] + 1)'
  <1> DEFINE n == OutStage(s)
             C == CommandsOf(prog, s)
             D == Chaining(prog, s)
  <1>1. e \in Element /\ prog \in Programs /\ prog' = prog /\ TypeOK
    BY OutputElement DEF UnitInv, TypeOK, Clock
  <1>2. IsCmd(e) => e = pipe[s][n - 1].e
    BY <1>1, OutputShifts
  <1>3. n - 1 \in Stages /\ n - 1 \in 0 .. n - 1 /\ (n - 1) + 1 = n /\ n \in 0 .. n
    BY DEF OutStage, LsOut, LastStage, AluDepth, Stages
  <1>4. IsCmd(e) => e.c \in C
    BY <1>2, <1>3, OwnElement
  <1>5. IsCmd(e) => /\ e.c \in DOMAIN prog /\ e.k \in Nat \ {0} /\ e.k <= prog[e.c].n /\ s \in prog[e.c].lanes
                    /\ prog[e.c] \in Command /\ WellFormed(prog[e.c]) /\ e \in Working
    BY <1>1, <1>4, CommandElement DEF CommandsOf
  <1>6. IsCmd(e) => e \in Elements(prog, s)
    <2> SUFFICES ASSUME IsCmd(e) PROVE e \in Elements(prog, s)
      OBVIOUS
    <2>1. e.k \in 1 .. prog[e.c].n
      <3>1. prog[e.c].n \in Nat
        BY <1>5 DEF Command
      <3> QED BY <1>5, <3>1
    <2>2. e = [c |-> e.c, k |-> e.k]
      BY <1>5 DEF Working
    <2>3. e \in {[c |-> e.c, k |-> k] : k \in 1 .. prog[e.c].n}
      BY <2>1, <2>2
    <2> QED BY <1>4, <2>3 DEF Elements
  <1>7. IsCmd(e) => Position(prog, s, e) = done[s] + 1
    <2>1. PICK P : InOrder(s, C, P) /\ P[n] = done[s]
      BY DEF OrderInv
    <2>2. IsCmd(e) => P[n - 1] = P[n] + 1 /\ Before(prog, C, e.c) + e.k = P[n - 1]
      <3> QED BY <1>2, <1>3, <1>4, <2>1 DEF InOrder
    <2> QED BY <2>1, <2>2 DEF Position
  <1>8. Pushes(s) <=> e.c \in D
    <2>1. e.c \in D => IsCmd(e)
      <3>1. 0 \notin D
        BY ChainCommands
      <3> QED BY <3>1 DEF IsCmd
    <2>2. IsCmd(e) => (e.c \in D <=> prog[e.c].chain)
      BY <1>5 DEF Chaining, Chains
    <2>3. IsCmd(e) /\ s = LS => (prog[e.c].type = "load" <=> prog[e.c].chain)
      <3> SUFFICES ASSUME IsCmd(e), s = LS PROVE prog[e.c].type = "load" <=> prog[e.c].chain
        OBVIOUS
      <3>1. prog[e.c].type \in {"proc", "load", "store"}
        BY <1>5 DEF Command
      <3> QED BY <1>5, <3>1 DEF WellFormed
    <2> QED BY <2>1, <2>2, <2>3 DEF Pushes
  <1>9. Pushes(s) => Result(s, e, K[n] + 1)'
    <2> SUFFICES ASSUME Pushes(s) PROVE Result(s, e, K[n] + 1)'
      OBVIOUS
    <2>1. IsCmd(e) /\ e.c \in D
      BY <1>8 DEF Pushes
    <2>2. K[n - 1] = K[n] + 1 /\ Before(prog, D, e.c) + e.k = K[n - 1]
      <3> QED BY <1>2, <1>3, <2>1 DEF InOrder
    <2>3. done'[s] = done[s] + 1
      BY <2>1 DEF Clock
    <2>4. prog[e.c].chain
      BY <2>1 DEF Chaining, Chains
    <2>5. done[s] + 1 <= done[s] + 1
      BY DEF UnitInv, TypeOK
    <2>6. PICK j : j = K[n] + 1
      OBVIOUS
    <2>8. Result(s, e, j)'
      BY <1>1, <1>6, <1>7, <2>1, <2>2, <2>3, <2>4, <2>5, <2>6 DEF Result
    <2> QED BY <2>6, <2>8
  <1> QED BY <1>2, <1>6, <1>7, <1>8, <1>9

-----------------------------------------------------------------------------
(* A cycle keeps the results where they are needed.                        *)

\* What a lane has read stays a result.
LEMMA FedStays ==
  ASSUME UnitInv, [Next]_vars, NEW l \in Lanes, NEW s \in Stages, NEW x \in Slot,
         IsCmd(x.e) => x.e.c \in DOMAIN prog, SlotFed(l, x, s)
  PROVE  SlotFed(l, x, s)'
  <1>1. prog' = prog /\ prog \in Programs
    BY DEF Next, Clock, WriteMask, Poll, Issue, Accesses, vars, program, UnitInv, TypeOK
  <1> SUFFICES ASSUME IsCmd(x.e), NEW o \in Chained(prog[x.e.c]), s > 3 \/ prog[x.e.c][o] \in AddressSel,
                      NEW f, f = Source(l, prog[x.e.c], o),
                      NEW i, i = Before(prog, Reading(prog, f), x.e.c) + x.e.k,
                      NEW y, y = x.in[o]
               PROVE  Result(f, y, i)'
    BY <1>1 DEF SlotFed, Reading, IsCmd
  <1>2. prog[x.e.c] \in Command /\ o \in Operands
    BY <1>1, ProgramCommands DEF Chained
  <1>3. f \in Lanes
    BY <1>2, SourceIsLane
  <1>4. Result(f, y, i)
    BY DEF SlotFed
  <1> QED BY <1>3, <1>4, ResultStays

\* What is taken from the front of a FIFO is the result that the element it
\* is taken for needs.
LEMMA TakenResult ==
  ASSUME FixedReaders, OneDataSource, UnitInv, NEW s \in Popped, NEW K, NEW t, FifoInOrder(s, K, t),
         NEW l \in Lanes, NEW g \in {2, 3}, NEW e, e = pipe[l][g].e, IsCmd(e),
         NEW o \in Chained(prog[e.c]), s = SourceOf(l, g, o), TakeStage(s) = g + 1
  PROVE  Result(s, Top(s), Before(prog, Reading(prog, s), e.c) + e.k)
  <1>1. g \in Stages /\ g \in 0 .. OutStage(l) - 1
    BY DEF Stages, OutStage, LsOut, LastStage, AluDepth
  <1>2. s \in Lanes /\ e.c \in Reading(prog, s) /\ l \in ReaderLanes(prog, s)
    BY <1>1, ReadByCommand
  <1>3. PICK R : InOrder(l, Reading(prog, s), R) /\ R[TakeStage(s)] = t
    BY <1>2 DEF FifoInOrder
  <1>4. R[g] = R[g + 1] + 1 /\ Before(prog, Reading(prog, s), e.c) + e.k = R[g]
    BY <1>1, <1>2, <1>3 DEF InOrder
  <1>5. Before(prog, Reading(prog, s), e.c) + e.k = t + 1
    BY <1>3, <1>4
  <1>6. fifo[s] # <<>> /\ fifo[s] \in Seq(Working)
    BY <1>2, PoppedIsThere DEF UnitInv, TypeOK
  <1>7. Top(s) = fifo[s][1] /\ 1 \in 1 .. Len(fifo[s])
    BY <1>6, EmptySeq, LenProperties DEF Top
  <1>8. Result(s, fifo[s][1], t + 1)
    BY <1>7 DEF FifoInOrder
  <1> QED BY <1>5, <1>7, <1>8

\* A cycle leaves every lane fed.
LEMMA MovedFed ==
  ASSUME FixedReaders, OneDataSource, UnitInv, FlowInv, NEW l \in Lanes, NEW s \in 3 .. LastStage
  PROVE  SlotFed(l, Moved(l)[s], s)
  <1>1. LastStage = 9 /\ s \in Stages /\ s - 1 \in Stages /\ 2 \in Stages /\ 3 \in Stages /\ s \in Int
    BY DEF Stages, LastStage, AluDepth
  <1>2. From(l) \in {0, 3, 4, 10} /\ (From(l) = 0 <=> RunsAll(l)) /\ (From(l) = 3 <=> RunsFromOffset(l))
    BY <1>1 DEF From, RunsAll, RunsFromOffset, RunsFromData
  <1>3. DataSel \cap AddressSel = {}
    BY DEF DataSel, AddressSel
  <1>4. \A r \in 3 .. LastStage : SlotFed(l, pipe[l][r], r)
    BY DEF FlowInv
  \* An operand read from a FIFO.
  <1>5. ASSUME NEW g \in {2, 3}, NEW Sels \in {DataSel, AddressSel}, g = 3 <=> Sels = DataSel,
               NEW o \in Waits(l, g, Sels), SourceOf(l, g, o) \in Popped
        PROVE  LET e == pipe[l][g].e
                   f == Source(l, prog[e.c], o)
               IN  Result(f, Top(f), Before(prog, Reading(prog, f), e.c) + e.k)
    <2> DEFINE e == pipe[l][g].e
    <2>1. g \in Stages
      BY <1>1
    <2>2. o \in Operands /\ IsCmd(e) /\ prog[e.c][o] \in Sels
      BY DEF Waits
    <2>3. o \in Chained(prog[e.c])
      BY <2>2 DEF Chained, DataSel, AddressSel
    <2>4. PICK f : f = SourceOf(l, g, o)
      OBVIOUS
    <2>5. f \in Lanes /\ e.c \in DOMAIN prog /\ l \in prog[e.c].lanes /\ f = Source(l, prog[e.c], o)
      BY <2>1, <2>2, <2>3, <2>4, ReadByCommand
    <2>6. TakeStage(f) = g + 1
      <3>1. /\ prog[e.c][o] \in DataSel <=> TakeStage(f) = 4
            /\ prog[e.c][o] \in AddressSel <=> TakeStage(f) = 3
        BY <2>2, <2>3, <2>5, PurposeStage
      <3> QED BY <1>5, <2>2, <3>1
    <2>7. PICK K, t : FifoInOrder(f, K, t)
      BY <2>5 DEF FlowInv
    <2>8. Result(f, Top(f), Before(prog, Reading(prog, f), e.c) + e.k)
      <3>1. f \in Popped
        BY <1>5, <2>4
      <3> QED BY <2>2, <2>3, <2>4, <2>6, <2>7, <3>1, TakenResult
    <2> QED BY <2>5, <2>8
  <1>6. CASE s < From(l)
    <2>1. Moved(l)[s] = pipe[l][s]
      BY <1>1, <1>2, <1>6 DEF Moved
    <2> QED BY <1>4, <2>1
  <1>7. CASE s = From(l)
    <2>1. Moved(l)[s] = NoSlot
      BY <1>1, <1>2, <1>7 DEF Moved
    <2> QED BY <2>1 DEF SlotFed, NoSlot, NoElement, IsCmd
  <1>8. CASE s > From(l) /\ s = 3
    <2> DEFINE x == pipe[l][2]
               y == Read(l, 2, TakesOffsets(l))
    <2>1. Moved(l)[s] = y /\ From(l) = 0
      BY <1>1, <1>2, <1>8 DEF Moved
    <2>2. TakesOffsets(l) = Waits(l, 2, AddressSel)
      BY <1>2, <2>1 DEF TakesOffsets
    <2>3. x \in Slot /\ y.e = x.e
      BY <1>1, <2>2, StageElement, ReadSlot DEF UnitInv
    <2> SUFFICES ASSUME IsCmd(x.e), NEW o \in Chained(prog[x.e.c]), prog[x.e.c][o] \in AddressSel
                 PROVE  LET f == Source(l, prog[x.e.c], o)
                        IN  Result(f, y.in[o], Before(prog, Reading(prog, f), x.e.c) + x.e.k)
      BY <1>8, <2>1, <2>3 DEF SlotFed
    <2>4. o \in Waits(l, 2, AddressSel) /\ o \in Operands
      BY DEF Waits, Chained
    <2>5. y.in[o] = Top(SourceOf(l, 2, o))
      BY <2>2, <2>3, <2>4 DEF Read, Slot
    <2>6. SourceOf(l, 2, o) \in Popped
      BY <2>2, <2>4 DEF Popped
    <2>7. 2 \in {2, 3} /\ (2 = 3 <=> AddressSel = DataSel)
      BY <1>3 DEF AddressSel
    <2>8. LET f == Source(l, prog[x.e.c], o)
          IN  Result(f, Top(f), Before(prog, Reading(prog, f), x.e.c) + x.e.k)
      BY <1>5, <2>4, <2>6, <2>7
    <2> QED BY <2>5, <2>8 DEF SourceOf
  <1>9. CASE s > From(l) /\ s = 4
    <2> DEFINE x == pipe[l][3]
               y == Read(l, 3, TakesData(l))
    <2>1. Moved(l)[s] = y /\ From(l) \in {0, 3}
      BY <1>1, <1>2, <1>9 DEF Moved
    <2>2. TakesData(l) = Waits(l, 3, DataSel)
      BY <1>2, <2>1 DEF TakesData
    <2>3. x \in Slot /\ y.e = x.e
      BY <1>1, <2>2, StageElement, ReadSlot DEF UnitInv
    <2> SUFFICES ASSUME IsCmd(x.e), NEW o \in Chained(prog[x.e.c])
                 PROVE  LET f == Source(l, prog[x.e.c], o)
                        IN  Result(f, y.in[o], Before(prog, Reading(prog, f), x.e.c) + x.e.k)
      BY <1>9, <2>1, <2>3 DEF SlotFed
    <2>4. o \in Operands /\ prog[x.e.c][o] \in DataSel \cup AddressSel
      BY <1>1, ReadByCommand
    <2>5. CASE prog[x.e.c][o] \in DataSel
      <3>1. o \in Waits(l, 3, DataSel)
        BY <2>4, <2>5 DEF Waits
      <3>2. y.in[o] = Top(SourceOf(l, 3, o))
        BY <2>2, <2>3, <2>4, <3>1 DEF Read, Slot
      <3>3. SourceOf(l, 3, o) \in Popped
        BY <2>2, <3>1 DEF Popped
      <3>4. LET f == Source(l, prog[x.e.c], o)
            IN  Result(f, Top(f), Before(prog, Reading(prog, f), x.e.c) + x.e.k)
        BY <1>5, <3>1, <3>3
      <3> QED BY <3>2, <3>4 DEF SourceOf
    <2>6. CASE prog[x.e.c][o] \in AddressSel
      <3>1. o \notin Waits(l, 3, DataSel)
        BY <1>3, <2>6 DEF Waits
      <3>2. y.in[o] = x.in[o]
        BY <2>2, <2>3, <2>4, <3>1 DEF Read, Slot
      <3>3. SlotFed(l, x, 3)
        BY <1>1, <1>4
      <3> QED BY <2>6, <3>2, <3>3 DEF SlotFed
    <2> QED BY <2>4, <2>5, <2>6
  <1>10. CASE s > From(l) /\ s # 3 /\ s # 4
    <2>1. Moved(l)[s] = pipe[l][s - 1] /\ s - 1 \in 3 .. LastStage /\ s - 1 > 3
      BY <1>1, <1>2, <1>10 DEF Moved
    <2>2. SlotFed(l, pipe[l][s - 1], s - 1)
      BY <1>4, <2>1
    <2> QED BY <2>1, <2>2 DEF SlotFed
  <1> QED BY <1>1, <1>2, <1>6, <1>7, <1>8, <1>9, <1>10

\* A reader goes on by one element when it takes from the FIFO.
LEMMA ReaderStep ==
  ASSUME FixedReaders, UnitInv, NothingDropped, TakenTogether, QueueInOrder, Clock,
         NEW s \in Lanes, NEW r \in ReaderLanes(prog, s), NEW t \in Nat,
         NEW C, C = Reading(prog, s),
         NEW R, InOrder(r, C, R), R[TakeStage(s)] = t
  PROVE  \E Q : InOrder(r, C, Q)' /\ Q[TakeStage(s)] = IF s \in Popped THEN t + 1 ELSE t
  <1> DEFINE h == TakeStage(s)
             n == OutStage(r)
  <1>1. PICK Q : Q = Shifted(r, C, R)
    OBVIOUS
  <1>2. r \in Lanes /\ C \in SUBSET CommandsOf(prog, r) /\ 0 \notin C
    BY ChainCommands
  <1>3. InOrder(r, C, Q)'
    BY <1>1, <1>2, LaneStep
  <1>4. h \in {3, 4} /\ h \in 0 .. n /\ h - 1 \in 0 .. n - 1 /\ (h - 1) + 1 = h /\ h # 0
    BY DEF TakeStage, OutStage, LsOut, LastStage, AluDepth
  <1>5. From(r) \in {0, 3, 4, 10}
    BY DEF From, LastStage, AluDepth
  <1>6. Q[h] = IF h > From(r) THEN R[h - 1] ELSE R[h]
    BY <1>1, <1>4 DEF Shifted
  <1>7. R[h - 1] = IF pipe[r][h - 1].e.c \in C THEN t + 1 ELSE t
    BY <1>4 DEF InOrder
  <1>8. s \in Popped <=> From(r) < h /\ pipe[r][h - 1].e.c \in C
    BY TakenByElement, PoppedByReaders
  <1>9. Q[h] = IF s \in Popped THEN t + 1 ELSE t
    <2> HIDE DEF h
    <2> QED BY <1>4, <1>5, <1>6, <1>7, <1>8 DEF h
  <1> QED BY <1>3, <1>9

\* The FIFO of a lane after a cycle.
LEMMA FifoStep ==
  ASSUME FixedReaders, OneDataSource, UnitInv, NothingDropped, TakenTogether, OrderInv, Clock,
         NEW s \in Lanes, NEW K, NEW t, FifoInOrder(s, K, t)
  PROVE  (\E k, i : FifoInOrder(s, k, i))'
  <1> DEFINE n == OutStage(s)
             kept == IF s \in Popped /\ fifo[s] # <<>> THEN Tail(fifo[s]) ELSE fifo[s]
             held(f, i) == /\ f \in Elements(prog, s) /\ prog[f.c].chain
                           /\ Before(prog, Chaining(prog, s), f.c) + f.k = i
                           /\ Position(prog, s, f) <= done'[s]
  <1>0. \A f, i : Result(s, f, i) => held(f, i)
    <2> SUFFICES ASSUME NEW f, NEW i, Result(s, f, i) PROVE held(f, i)
      OBVIOUS
    <2>1. Result(s, f, i)'
      BY ResultStays DEF Next
    <2> QED BY <2>1 DEF Result, Clock
  <1> HIDE DEF held
  <1>1. PICK C, D, e, u, Q : /\ C = Chaining(prog, s) /\ D = Reading(prog, s) /\ e = Output(s)
                             /\ u = (IF s \in Popped THEN t + 1 ELSE t) /\ Q = Shifted(s, C, K)
    OBVIOUS
  <1>2. /\ prog' = prog /\ fifo'[s] = NewFifo(s) /\ QueueInOrder
        /\ t \in Nat /\ u \in Nat /\ InOrder(s, C, K) /\ C \in SUBSET CommandsOf(prog, s)
    BY <1>1, ChainCommands DEF Clock, OrderInv, FifoInOrder
  <1>3. InOrder(s, C, Q)' /\ Q[n] = IF e.c \in C THEN K[n] + 1 ELSE K[n]
    BY <1>1, <1>2, LaneStep
  <1>4. ASSUME NEW r \in ReaderLanes(prog, s)
        PROVE  \E R : InOrder(r, D, R)' /\ R[TakeStage(s)] = u
    <2>1. PICK P : InOrder(r, D, P) /\ P[TakeStage(s)] = t
      BY <1>1 DEF FifoInOrder
    <2> QED BY <1>1, <1>2, <2>1, ReaderStep
  <1>5. /\ fifo[s] \in Seq(Working) /\ Len(fifo[s]) \in Nat /\ FifoSize \in Nat
        /\ Len(fifo[s]) = K[n] - t /\ n \in 0 .. n /\ K[n] \in Nat /\ e \in Element
    <2>1. n \in 0 .. n
      BY DEF OutStage, LsOut, LastStage, AluDepth
    <2>2. fifo[s] \in Seq(Working)
      BY DEF UnitInv, TypeOK
    <2>3. e \in Element
      BY <1>1, OutputElement DEF UnitInv
    <2>4. Len(fifo[s]) = K[n] - t /\ K[n] \in Nat
      BY <1>2, <2>1 DEF FifoInOrder, InOrder
    <2> HIDE DEF n
    <2> QED BY <2>1, <2>2, <2>3, <2>4, LenProperties, SizeAssumption
  <1>6. s \in Popped => fifo[s] # <<>>
    BY PoppedIsThere
  \* What is kept.
  <1>7. /\ kept \in Seq(Working) /\ Len(kept) \in Nat /\ Len(kept) = K[n] - u
        /\ \A i \in 1 .. Len(kept) : Result(s, kept[i], u + i)
        /\ Len(kept) <= Len(fifo[s])
    <2>1. \A i \in 1 .. Len(fifo[s]) : Result(s, fifo[s][i], t + i)
      BY DEF FifoInOrder
    <2>2. CASE s \in Popped
      <3>1. kept = Tail(fifo[s]) /\ u = t + 1
        BY <1>1, <1>6, <2>2
      <3>2. kept \in Seq(Working) /\ Len(kept) = Len(fifo[s]) - 1 /\ Len(kept) \in Nat
            /\ \A i \in 1 .. Len(kept) : kept[i] = fifo[s][i + 1]
        BY <1>5, <1>6, <2>2, <3>1, HeadTailProperties
      <3> HIDE DEF kept, n
      <3>3. ASSUME NEW i \in 1 .. Len(kept) PROVE Result(s, kept[i], u + i)
        <4>1. i + 1 \in 1 .. Len(fifo[s]) /\ t + (i + 1) = u + i
          BY <1>2, <1>5, <3>1, <3>2
        <4> QED BY <2>1, <3>2, <4>1
      <3> QED BY <1>2, <1>5, <3>1, <3>2, <3>3
    <2>3. CASE s \notin Popped
      <3>1. kept = fifo[s] /\ u = t
        BY <1>1, <2>3
      <3> HIDE DEF kept
      <3> QED BY <1>5, <2>1, <3>1
    <2> QED BY <2>2, <2>3
  \* What is pushed.
  <1>8. /\ Pushes(s) <=> e.c \in C
        /\ Pushes(s) => held(e, K[n] + 1) /\ Len(kept) < FifoSize /\ e \in Working
    <2>1. Pushes(s) <=> e.c \in C
      BY <1>1, <1>2, OutputIsResult
    <2>2. Pushes(s) => held(e, K[n] + 1)
      <3>1. Pushes(s) => Result(s, e, K[n] + 1)'
        BY <1>1, <1>2, OutputIsResult
      <3>2. OutStage(s)' = OutStage(s)
        BY DEF OutStage
      <3> QED BY <1>2, <3>1, <3>2 DEF Result, held
    <2>3. Pushes(s) => e \in Working
      BY <1>1, <1>5, CommandElement DEF Pushes, UnitInv, TypeOK
    <2>4. Pushes(s) => Len(kept) < FifoSize
      <3> HIDE DEF kept
      <3> QED BY <1>5, <1>7, PushFinds
    <2> QED BY <2>1, <2>2, <2>3, <2>4
  <1>9. NewFifo(s) = IF Pushes(s) THEN Append(kept, e) ELSE kept
    BY <1>1, <1>8 DEF NewFifo
  <1> HIDE DEF kept
  <1>11. /\ Len(fifo'[s]) = Q[n] - u
         /\ \A i \in 1 .. Len(fifo'[s]) : held(fifo'[s][i], u + i)
    <2>1. \A i \in 1 .. Len(kept) : held(kept[i], u + i)
      BY <1>0, <1>7
    <2>2. CASE Pushes(s)
      <3>1. fifo'[s] = Append(kept, e)
        BY <1>2, <1>9, <2>2
      <3>2. /\ Len(fifo'[s]) = Len(kept) + 1
            /\ \A i \in 1 .. Len(kept) : fifo'[s][i] = kept[i]
            /\ fifo'[s][Len(kept) + 1] = e
        BY <1>7, <1>8, <2>2, <3>1, AppendProperties
      <3>3. u + (Len(kept) + 1) = K[n] + 1 /\ Q[n] = K[n] + 1
        BY <1>2, <1>3, <1>5, <1>7, <1>8, <2>2
      <3>4. Len(fifo'[s]) = Q[n] - u
        BY <1>2, <1>5, <1>7, <3>2, <3>3
      <3>5. ASSUME NEW i \in 1 .. Len(fifo'[s]) PROVE held(fifo'[s][i], u + i)
        <4>1. CASE i \in 1 .. Len(kept)
          BY <2>1, <3>2, <4>1
        <4>2. CASE i = Len(kept) + 1
          <5>1. held(e, K[n] + 1)
            BY <1>8, <2>2
          <5> QED BY <3>2, <3>3, <4>2, <5>1
        <4> QED BY <1>7, <3>2, <4>1, <4>2
      <3> QED BY <3>4, <3>5
    <2>3. CASE ~ Pushes(s)
      <3>1. fifo'[s] = kept
        BY <1>2, <1>9, <2>3
      <3>2. Q[n] = K[n]
        BY <1>3, <1>8, <2>3
      <3> QED BY <1>7, <2>1, <3>1, <3>2
    <2> QED BY <2>2, <2>3
  <1>12. /\ Chaining(prog, s)' = C /\ Reading(prog, s)' = D /\ ReaderLanes(prog, s)' = ReaderLanes(prog, s)
         /\ TakeStage(s)' = TakeStage(s) /\ OutStage(s)' = OutStage(s)
    BY <1>1, <1>2 DEF Chaining, Reading, ReaderLanes, TakeStage, OutStage
  <1>13. \A i \in 1 .. Len(fifo'[s]) : Result(s, fifo[s][i], u + i)'
    BY <1>2, <1>11 DEF Result, held
  <1>14. FifoInOrder(s, Q, u)'
    <2>1. \A r \in ReaderLanes(prog, s) : \E R : InOrder(r, D, R)' /\ R[TakeStage(s)] = u
      BY <1>4
    <2> QED BY <1>2, <1>3, <1>11, <1>12, <1>13, <2>1 DEF FifoInOrder
  <1> QED BY <1>14

LEMMA FlowInit == FixedReaders /\ Init => FlowInv
  <1> SUFFICES ASSUME FixedReaders, Init PROVE FlowInv
    OBVIOUS
  <1>1. UnitInv
    BY InvInit
  <1>2. ASSUME NEW s \in Lanes PROVE \E K, t : FifoInOrder(s, K, t)
    <2>1. PICK K : K = [i \in 0 .. OutStage(s) |-> 0]
      OBVIOUS
    <2>2. Chaining(prog, s) \in SUBSET CommandsOf(prog, s) /\ 0 \notin Chaining(prog, s)
      BY <1>1, ChainCommands
    <2>3. InOrder(s, Chaining(prog, s), K)
      BY <2>1, <2>2, FirstInOrder
    <2>4. ASSUME NEW r \in ReaderLanes(prog, s)
          PROVE  \E R : InOrder(r, Reading(prog, s), R) /\ R[TakeStage(s)] = 0
      <3>1. PICK R : R = [i \in 0 .. OutStage(r) |-> 0]
        OBVIOUS
      <3>2. r \in Lanes /\ 0 \notin Reading(prog, s)
        BY <1>1, ChainCommands
      <3>3. InOrder(r, Reading(prog, s), R)
        BY <3>1, <3>2, FirstInOrder
      <3>4. R[TakeStage(s)] = 0
        BY <3>1 DEF TakeStage, OutStage, LsOut, LastStage, AluDepth
      <3> QED BY <3>3, <3>4
    <2>5. Len(fifo[s]) = 0 /\ K[OutStage(s)] = 0
      BY <2>1 DEF Init, OutStage, LsOut, LastStage, AluDepth
    <2>6. FifoInOrder(s, K, 0)
      BY <2>3, <2>4, <2>5 DEF FifoInOrder
    <2> QED BY <2>6
  <1>3. ASSUME NEW l \in Lanes, NEW s \in 3 .. LastStage PROVE SlotFed(l, pipe[l][s], s)
    <2>1. s \in Stages
      BY DEF Stages, LastStage, AluDepth
    <2>2. pipe[l][s] = NoSlot
      BY <2>1 DEF Init
    <2> QED BY <2>2 DEF SlotFed, NoSlot, NoElement, IsCmd
  <1> QED BY <1>2, <1>3 DEF FlowInv

\* What does not touch the lanes leaves the FIFOs in order.
LEMMA FifoUntouched ==
  ASSUME FixedReaders, UnitInv, OrderInv, Issue \/ WriteMask \/ Poll \/ UNCHANGED vars,
         NEW s \in Lanes, NEW K, NEW t, FifoInOrder(s, K, t)
  PROVE  FifoInOrder(s, K, t)'
  <1>1. UNCHANGED <<prog, fifo, done>>
    BY DEF Issue, WriteMask, Poll, Accesses, vars, program
  <1>2. PICK C, D : C = Chaining(prog, s) /\ D = Reading(prog, s)
    OBVIOUS
  <1>3. /\ C \in SUBSET CommandsOf(prog, s) /\ InOrder(s, C, K)
        /\ \A r \in ReaderLanes(prog, s) : r \in Lanes /\ D \in SUBSET CommandsOf(prog, r)
    BY <1>2, ChainCommands DEF FifoInOrder
  <1>4. TypeOK /\ QueueInOrder
    BY DEF UnitInv, OrderInv
  <1>5. InOrder(s, C, K)'
    BY <1>3, <1>4, OrderUntouched
  <1>6. ASSUME NEW r \in ReaderLanes(prog, s)
        PROVE  \E R : InOrder(r, D, R)' /\ R[TakeStage(s)] = t
    <2>1. PICK R : InOrder(r, D, R) /\ R[TakeStage(s)] = t
      BY <1>2 DEF FifoInOrder
    <2>2. InOrder(r, D, R)'
      BY <1>3, <1>4, <2>1, OrderUntouched
    <2> QED BY <2>1, <2>2
  <1>7. /\ Chaining(prog, s)' = C /\ Reading(prog, s)' = D /\ ReaderLanes(prog, s)' = ReaderLanes(prog, s)
        /\ TakeStage(s)' = TakeStage(s) /\ OutStage(s)' = OutStage(s)
    BY <1>1, <1>2 DEF Chaining, Reading, ReaderLanes, TakeStage, OutStage
  <1>8. /\ t \in Nat /\ Len(fifo'[s]) = K[OutStage(s)] - t
        /\ \A i \in 1 .. Len(fifo'[s]) : Result(s, fifo[s][i], t + i)'
    BY <1>1 DEF FifoInOrder, Result
  <1>9. \A r \in ReaderLanes(prog, s) : \E R : InOrder(r, D, R)' /\ R[TakeStage(s)] = t
    BY <1>6
  <1> QED BY <1>5, <1>7, <1>8, <1>9 DEF FifoInOrder

LEMMA FlowStep ==
  ASSUME FixedReaders, OneDataSource, UnitInv, NothingDropped, TakenTogether, OrderInv, FlowInv, [Next]_vars
  PROVE  FlowInv'
  <1>1. ASSUME NEW s \in Lanes PROVE (\E K, t : FifoInOrder(s, K, t))'
    <2>1. PICK K, t : FifoInOrder(s, K, t)
      BY DEF FlowInv
    <2>2. CASE Clock
      BY <2>1, <2>2, FifoStep
    <2>3. CASE Issue \/ WriteMask \/ Poll \/ UNCHANGED vars
      <3>1. FifoInOrder(s, K, t)'
        BY <2>1, <2>3, FifoUntouched
      <3> QED BY <3>1
    <2> QED BY <2>2, <2>3 DEF Next
  <1>2. ASSUME NEW l \in Lanes, NEW s \in 3 .. LastStage PROVE SlotFed(l, pipe[l][s], s)'
    <2>1. PICK x : x = pipe'[l][s]
      OBVIOUS
    <2>2. s \in Stages
      BY DEF Stages, LastStage, AluDepth
    <2>3. UnitInv' /\ prog' = prog
      BY InvStep DEF Next, Clock, WriteMask, Poll, Issue, Accesses, vars, program
    <2>4. x \in Slot /\ (IsCmd(x.e) => x.e.c \in DOMAIN prog)
      <3>1. pipe \in [Lanes -> [Stages -> Slot]] /\ Slot' = Slot
        BY <2>3 DEF UnitInv, TypeOK, Slot, Element, Working
      <3>2. pipe' \in [Lanes -> [Stages -> Slot]]
        BY <2>3, <3>1 DEF UnitInv, TypeOK
      <3>3. x \in Slot
        BY <2>1, <2>2, <3>2
      <3>4. x.e \in Element /\ prog \in Programs
        BY <3>3, ElementOfSlot DEF UnitInv, TypeOK
      <3> QED BY <3>3, <3>4, CommandElement
    <2>5. SlotFed(l, x, s)
      <3>1. CASE Clock
        <4>1. x = Moved(l)[s]
          BY <2>1, <3>1 DEF Clock
        <4> QED BY <4>1, MovedFed
      <3>2. CASE UNCHANGED pipe
        <4>1. x = pipe[l][s]
          BY <2>1, <3>2
        <4> QED BY <4>1 DEF FlowInv
      <3> QED BY <3>1, <3>2 DEF Next, WriteMask, Poll, Issue, Accesses, vars
    <2>6. SlotFed(l, x, s)'
      BY <2>2, <2>4, <2>5, FedStays
    <2> QED BY <2>1, <2>6 DEF SlotFed
  <1> QED BY <1>1, <1>2 DEF FlowInv

LEMMA FlowHolds ==
  ASSUME FixedReaders, OneDataSource
  PROVE  Spec /\ []NothingDropped /\ []TakenTogether => []FlowInv
  <1>1. Init => FlowInv
    BY FlowInit
  <1>2. UnitInv /\ NothingDropped /\ TakenTogether /\ OrderInv /\ FlowInv /\ [Next]_vars => FlowInv'
    BY FlowStep
  <1> QED BY <1>1, <1>2, OrderHolds, InvHolds, PTL DEF Spec

\* If the lanes that read a lane are the same in every command that reads
\* it and take from its FIFO together, every operand is the result that the
\* program means: stalls, shifts and FIFOs lose, repeat and reorder none.
THEOREM OperandsAreMeant ==
  FixedReaders /\ OneDataSource => (Spec /\ []NothingDropped /\ []TakenTogether => []OperandsMatch)
  <1> SUFFICES ASSUME FixedReaders, OneDataSource
               PROVE  Spec /\ []NothingDropped /\ []TakenTogether => []OperandsMatch
    OBVIOUS
  <1>1. ASSUME UnitInv, FlowInv PROVE OperandsMatch
    <2> SUFFICES ASSUME NEW l \in Lanes, NEW s \in 3 .. LastStage, IsCmd(pipe[l][s].e),
                        NEW o \in Chained(prog[pipe[l][s].e.c]),
                        s > 3 \/ prog[pipe[l][s].e.c][o] \in AddressSel
                 PROVE  pipe[l][s].in[o] \in Feeders(prog, pipe[l][s].e, SourceOf(l, s, o))
      BY DEF OperandsMatch
    <2>1. SlotFed(l, pipe[l][s], s)
      BY <1>1 DEF FlowInv
    <2>2. LET f == SourceOf(l, s, o)
          IN  Result(f, pipe[l][s].in[o],
                     Before(prog, Reading(prog, f), pipe[l][s].e.c) + pipe[l][s].e.k)
      BY <2>1 DEF SlotFed, SourceOf
    <2> QED BY <2>2 DEF Result, Feeders
  <1>2. UnitInv /\ FlowInv => OperandsMatch
    BY <1>1
  <1> QED BY <1>2, FlowHolds, InvHolds, PTL

\* The dataflow is about the same commands and elements.
LEMMA SameProgram ==
  /\ Flow!Lanes = Lanes
  /\ \A p, l : Flow!Elements(p, l) = Elements(p, l)
  /\ \A p, l, e : Flow!Position(p, l, e) = Position(p, l, e)
  /\ \A c : Flow!Chained(c) = Chained(c)
  /\ \A l, c, o : Flow!Source(l, c, o) = Source(l, c, o)
  /\ \A p, e, s : Flow!Feeders(p, e, s) = Feeders(p, e, s)
  <1>1. Flow!Lanes = Lanes /\ Flow!LS = LS
    BY DEF Flow!Lanes, Lanes, Flow!LS, LS
  <1>2. \A p, l : Flow!CommandsOf(p, l) = CommandsOf(p, l)
    BY DEF Flow!CommandsOf, CommandsOf
  <1>3. \A p, l : Flow!Elements(p, l) = Elements(p, l)
    BY <1>2 DEF Flow!Elements, Elements
  <1>4. \A p, C, c : Flow!Before(p, C, c) = Before(p, C, c)
    BY DEF Flow!Before, Before
  <1>5. \A c : Flow!Chained(c) = Chained(c)
    BY DEF Flow!Chained, Chained, Flow!Operands, Operands
  <1>6. \A l, c, o : Flow!Source(l, c, o) = Source(l, c, o)
    BY DEF Flow!Source, Source, Flow!LS, LS, Flow!DataSel, DataSel
  <1>7. \A p, l : Flow!Chaining(p, l) = Chaining(p, l) /\ Flow!Reading(p, l) = Reading(p, l)
    BY <1>5, <1>6 DEF Flow!Chaining, Chaining, Flow!Chains, Chains, Flow!Reading, Reading, Flow!Reads, Reads
  <1>8. \A p, l, e : Flow!Position(p, l, e) = Position(p, l, e)
    BY <1>2, <1>4 DEF Flow!Position, Position
  <1>9. \A p, e, s : Flow!Feeders(p, e, s) = Feeders(p, e, s)
    BY <1>3, <1>4, <1>7 DEF Flow!Feeders, Feeders
  <1> QED BY <1>1, <1>3, <1>5, <1>6, <1>8, <1>9

\* Whatever stalls, a cycle of the unit is a step of the dataflow: each lane
\* that puts out a result has it computed from results put out before.
LEMMA CycleRuns ==
  ASSUME FixedReaders, UnitInv, NothingDropped, OrderInv, FlowInv, Clock
  PROVE  Flow!Run
  <1> DEFINE L == {l \in Lanes : IsCmd(Output(l))}
  <1>1. prog' = prog /\ done' = [l \in Lanes |-> IF l \in L THEN done[l] + 1 ELSE done[l]]
    BY DEF Clock
  <1>2. ASSUME NEW l \in L
        PROVE  Flow!CanRun(l)
    <2>1. l \in Lanes
      OBVIOUS
    <2>2. PICK e : e = Output(l)
      OBVIOUS
    <2>3. PICK K, t : FifoInOrder(l, K, t)
      BY <2>1 DEF FlowInv
    <2>4. Position(prog, l, e) = done[l] + 1 /\ e \in Elements(prog, l) /\ e = pipe[l][OutStage(l) - 1].e
      BY <2>1, <2>2, <2>3, OutputIsResult DEF FifoInOrder
    <2>5. PICK g : g = OutStage(l) - 1
      OBVIOUS
    <2>6. g \in 3 .. LastStage /\ g > 3
      BY <2>5 DEF OutStage, LsOut, LastStage, AluDepth
    <2>7. SlotFed(l, pipe[l][g], g) /\ IsCmd(e) /\ pipe[l][g].e = e
      BY <2>1, <2>2, <2>4, <2>5, <2>6 DEF FlowInv
    <2>8. ASSUME NEW o \in Chained(prog[e.c])
          PROVE  LET s == Source(l, prog[e.c], o)
                 IN  \E f \in Feeders(prog, e, s) : Position(prog, s, f) <= done[s]
      <3> DEFINE s == Source(l, prog[e.c], o)
                 f == pipe[l][g].in[o]
      <3>1. Result(s, f, Before(prog, Reading(prog, s), e.c) + e.k)
        BY <2>6, <2>7 DEF SlotFed
      <3>2. f \in Feeders(prog, e, s) /\ Position(prog, s, f) <= done[s]
        BY <3>1 DEF Result, Feeders
      <3> QED BY <3>2
    <2>9. \E x \in Elements(prog, l) :
            /\ Position(prog, l, x) = done[l] + 1
            /\ \A o \in Chained(prog[x.c]) :
                 LET s == Source(l, prog[x.c], o)
                 IN  \E f \in Feeders(prog, x, s) : Position(prog, s, f) <= done[s]
      BY <2>4, <2>8
    <2> QED BY <2>9, SameProgram DEF Flow!CanRun
  <1> QED BY <1>1, <1>2 DEF Flow!Run, Flow!Lanes, Lanes

\* Under the same conditions the vector unit, with all its stages, stalls
\* and FIFOs, implements the dataflow that its program describes.
THEOREM ImplementsDataflow ==
  FixedReaders /\ OneDataSource => (Spec /\ []NothingDropped /\ []TakenTogether => FlowSpec)
  <1> SUFFICES ASSUME FixedReaders, OneDataSource
               PROVE  Spec /\ []NothingDropped /\ []TakenTogether => FlowSpec
    OBVIOUS
  <1>1. Init => Flow!Init
    BY DEF Init, program, Flow!Init, Flow!Lanes, Lanes
  <1>2. UnitInv /\ NothingDropped /\ OrderInv /\ FlowInv /\ [Next]_vars => [Flow!Run]_Flow!vars
    <2> SUFFICES ASSUME UnitInv, NothingDropped, OrderInv, FlowInv, [Next]_vars
                 PROVE  [Flow!Run]_Flow!vars
      OBVIOUS
    <2>1. CASE Clock
      BY <2>1, CycleRuns
    <2>2. CASE UNCHANGED <<prog, done>>
      BY <2>2 DEF Flow!vars
    <2> QED BY <2>1, <2>2 DEF Next, WriteMask, Poll, Issue, Accesses, vars, program
  <1> QED BY <1>1, <1>2, FlowHolds, OrderHolds, InvHolds, PTL DEF Spec, FlowSpec, Flow!Spec

-----------------------------------------------------------------------------
(* Lanes that work together.                                               *)

\* A lane as a line: its current element, then its stages.
Line(l, i) == IF i = 0 THEN current[l] ELSE pipe[l][i - 1].e
Places == 0 .. LastStage

\* The program has given no command after c that waits for the unit.
Unsynced(c) == \A d \in c + 1 .. pc - 1 : ~ prog[d].sync

\* No lane is beyond the front of the queue.
Newest == IF queue = <<>> THEN pc - 1 ELSE Head(queue).c

\* What is in the unit has been given since the program last waited, and the
\* commands are in order in every lane.
RecentInv ==
  /\ \A l \in Lanes : \A i \in Places : IsCmd(Line(l, i)) =>
       /\ Line(l, i).c <= Newest /\ Unsynced(Line(l, i).c)
       /\ \A j \in 0 .. i : IsCmd(Line(l, j)) => Line(l, i).c <= Line(l, j).c
  /\ queue # <<>> => Unsynced(Head(queue).c)

\* The place in the line from which the element comes that is at place i
\* after a cycle.
Origin(l, i) == IF i = 0 \/ i - 1 < From(l) THEN i ELSE i - 1

\* The line after a cycle, before a new command is fetched.
LineAfter(l, i) == IF i = 0 THEN After(l) ELSE Moved(l)[i - 1].e

\* The elements of a line are elements of the lane.
LEMMA LineElement ==
  ASSUME UnitInv, NEW l \in Lanes, NEW i \in Places
  PROVE  /\ Line(l, i) \in Element /\ Owned(l, Line(l, i))
         /\ IsCmd(Line(l, i)) => Line(l, i).c \in DOMAIN prog /\ l \in prog[Line(l, i).c].lanes
                                 /\ Line(l, i).c \in Int /\ prog[Line(l, i).c] \in Command
         /\ ~ IsCmd(Line(l, i)) => Line(l, i) = NoElement
  <1>1. i # 0 => i - 1 \in Stages
    BY DEF Places, Stages, LastStage, AluDepth
  <1>2. Line(l, i) \in Element /\ Owned(l, Line(l, i))
    BY <1>1, StageElement DEF Line, UnitInv, TypeOK, OwnCommands
  <1>3. prog \in Programs
    BY DEF UnitInv, TypeOK
  <1>4. IsCmd(Line(l, i)) <=> Line(l, i) \in Working
    BY <1>2, <1>3, CommandElement
  <1>5. IsCmd(Line(l, i)) => Line(l, i).c \in DOMAIN prog /\ prog[Line(l, i).c] \in Command
    BY <1>2, <1>3, CommandElement
  <1>6. \A c \in DOMAIN prog : c \in Int
    BY <1>3, ProgramCommands
  <1> QED BY <1>2, <1>4, <1>5, <1>6 DEF Owned, Element

\* Elements move by at most one place, in order.
LEMMA LineMoves ==
  ASSUME UnitInv, NEW l \in Lanes, NEW i \in Places
  PROVE  /\ Origin(l, i) \in Places /\ Origin(l, i) \in {i, i - 1}
         /\ \A j \in 0 .. i : Origin(l, j) \in 0 .. Origin(l, i)
         /\ IsCmd(LineAfter(l, i)) => /\ IsCmd(Line(l, Origin(l, i)))
                                      /\ LineAfter(l, i).c = Line(l, Origin(l, i)).c
                                      /\ i > 0 => LineAfter(l, i) = Line(l, Origin(l, i))
  <1>1. i \in Int /\ 0 <= i /\ i <= 9 /\ LastStage = 9 /\ (i # 0 => i - 1 \in Stages)
    BY DEF Places, Stages, LastStage, AluDepth
  <1>2. From(l) \in {0, 3, 4, 10}
    BY <1>1 DEF From
  <1>3. Origin(l, i) \in Places /\ Origin(l, i) \in {i, i - 1} /\ \A j \in 0 .. i : Origin(l, j) \in 0 .. Origin(l, i)
    BY <1>1, <1>2 DEF Origin, Places
  <1>4. ASSUME IsCmd(LineAfter(l, i))
        PROVE  /\ IsCmd(Line(l, Origin(l, i))) /\ LineAfter(l, i).c = Line(l, Origin(l, i)).c
               /\ i > 0 => LineAfter(l, i) = Line(l, Origin(l, i))
    <2>1. CASE i = 0
      <3>1. IsCmd(After(l))
        BY <1>4, <2>1 DEF LineAfter
      <3>2. IsCmd(current[l]) /\ After(l).c = current[l].c
        BY <3>1, AfterElement DEF UnitInv
      <3> QED BY <2>1, <3>2 DEF LineAfter, Line, Origin
    <2>2. CASE i # 0
      <3>1. /\ i - 1 < From(l) => Moved(l)[i - 1].e = pipe[l][i - 1].e
            /\ i - 1 = From(l) => Moved(l)[i - 1].e = IF i - 1 = 0 THEN current[l] ELSE NoElement
            /\ i - 1 > From(l) => Moved(l)[i - 1].e = pipe[l][i - 1 - 1].e
        BY <1>1, <2>2, MovedElement DEF UnitInv
      <3>2. ~ IsCmd(NoElement)
        BY DEF IsCmd, NoElement
      <3>3. LineAfter(l, i) = Moved(l)[i - 1].e
        BY <2>2 DEF LineAfter
      <3>4. CASE i - 1 < From(l)
        BY <1>4, <2>2, <3>1, <3>3, <3>4 DEF Line, Origin
      <3>5. CASE i - 1 = From(l)
        <4>1. i - 1 = 0
          BY <1>4, <3>1, <3>2, <3>3, <3>5
        <4>2. Origin(l, i) = 0 /\ LineAfter(l, i) = current[l]
          BY <1>1, <2>2, <3>1, <3>3, <3>5, <4>1 DEF Origin
        <4> QED BY <1>4, <4>2 DEF Line
      <3>6. CASE i - 1 > From(l)
        <4>1. Origin(l, i) = i - 1 /\ i - 1 # 0
          BY <1>1, <1>2, <2>2, <3>6 DEF Origin
        <4> QED BY <1>4, <3>1, <3>3, <3>6, <4>1 DEF Line
      <3> QED BY <1>1, <1>2, <3>4, <3>5, <3>6
    <2> QED BY <2>1, <2>2
  <1> QED BY <1>3, <1>4

\* The line after a cycle, with what is fetched.
LEMMA LineStep ==
  ASSUME Clock, NEW l \in Lanes, NEW i \in Places
  PROVE  Line(l, i)' = IF i = 0 /\ Fetches(l) THEN [c |-> Head(queue).c, k |-> 1] ELSE LineAfter(l, i)
  <1>1. /\ current'[l] = IF Fetches(l) THEN [c |-> Head(queue).c, k |-> 1] ELSE After(l)
        /\ pipe'[l] = Moved(l)
    BY DEF Clock
  <1> QED BY <1>1 DEF Line, LineAfter

LEMMA RecentInit == Init => RecentInv
  <1> SUFFICES ASSUME Init PROVE RecentInv
    OBVIOUS
  <1>1. queue = <<>>
    BY DEF Init
  <1>2. \A l \in Lanes : \A i \in Places : ~ IsCmd(Line(l, i))
    <2> SUFFICES ASSUME NEW l \in Lanes, NEW i \in Places PROVE ~ IsCmd(Line(l, i))
      OBVIOUS
    <2>1. i # 0 => i - 1 \in Stages
      BY DEF Places, Stages, LastStage, AluDepth
    <2> QED BY <2>1 DEF Init, Line, NoSlot, NoElement, IsCmd
  <1> QED BY <1>1, <1>2 DEF RecentInv

\* The front of the queue with fewer lanes.
LEMMA FetchedFront ==
  ASSUME TypeOK, QueueInOrder, queue # <<>>, NEW L \in (SUBSET Lanes) \ {{}}
  PROVE  LET q == [queue EXCEPT ![1].lanes = L]
         IN  q # <<>> /\ Head(q).c = Head(queue).c /\ Head(q).lanes = L
  <1> DEFINE Entry == [c : DOMAIN prog, lanes : (SUBSET Lanes) \ {{}}]
             q == [queue EXCEPT ![1].lanes = L]
             first == [queue[1] EXCEPT !.lanes = L]
  <1>1. /\ queue \in Seq(Entry) /\ 1 \in 1 .. Len(queue) /\ Len(queue) \in Nat \ {0}
        /\ Head(queue) = queue[1]
    BY FrontOfQueue DEF TypeOK
  <1>2. queue[1] \in Entry
    <2> HIDE DEF Entry
    <2> QED BY <1>1, ElementOfSeq
  <1>3. first \in Entry /\ first.c = queue[1].c /\ first.lanes = L
    BY <1>2
  <1>4. q = [queue EXCEPT ![1] = first]
    OBVIOUS
  <1> HIDE DEF q, first, Entry
  <1>5. /\ q \in Seq(Entry) /\ Len(q) = Len(queue)
        /\ \A i \in 1 .. Len(queue) : q[i] = IF i = 1 THEN first ELSE queue[i]
    BY <1>1, <1>3, <1>4, ExceptSeq
  <1>6. q # <<>>
    BY <1>1, <1>5, EmptySeq
  <1> QED BY <1>1, <1>3, <1>5, <1>6 DEF q

\* The front of the queue after a cycle is not before the front now.
LEMMA NewestGrows ==
  ASSUME TypeOK, QueueInOrder, Clock
  PROVE  /\ Newest' \in Int /\ Newest \in Int /\ Newest <= Newest' /\ pc' = pc /\ prog' = prog
         /\ queue' # <<>> => /\ queue # <<>> /\ Head(queue').c >= Head(queue).c
                             /\ \/ Head(queue').lanes = prog[Head(queue').c].lanes
                                \/ /\ Head(queue').c = Head(queue).c
                                   /\ Head(queue').lanes = {l \in Head(queue).lanes : ~ Fetches(l)}
         /\ queue # <<>> => Newest = Head(queue).c /\ Head(queue).c \in DOMAIN prog
  <1> DEFINE left == {l \in Head(queue).lanes : ~ Fetches(l)}
  <1>1. pc' = pc /\ prog' = prog /\ queue' = FetchedQueue /\ pc \in Int
    <2>1. prog \in Seq(Command)
      BY ProgramAssumption DEF TypeOK
    <2>2. Len(prog) \in Nat
      BY <2>1, LenProperties
    <2> QED BY <2>2 DEF Clock, TypeOK
  <1>2. CASE queue = <<>>
    <2>1. queue' = <<>>
      BY <1>1, <1>2 DEF FetchedQueue
    <2> QED BY <1>1, <1>2, <2>1 DEF Newest
  <1>3. ASSUME queue # <<>>
        PROVE  /\ Head(queue).c \in Int /\ Head(queue).c <= pc - 1 /\ Head(queue).c \in DOMAIN prog
               /\ Tail(queue) = <<>> => Head(queue).c = pc - 1
               /\ Tail(queue) # <<>> => /\ Head(Tail(queue)).c = Head(queue).c + 1
                                        /\ Head(Tail(queue)).lanes = prog[Head(Tail(queue)).c].lanes
    <2>1. /\ Head(queue).c \in 1 .. Len(prog) /\ Len(prog) \in Nat /\ prog \in Seq(Command)
          /\ Len(queue) \in Nat \ {0} /\ Head(queue).c + 1 = pc - Len(queue) + 1
          /\ Tail(queue) = <<>> => Head(queue).c + 1 = pc
          /\ Tail(queue) # <<>> =>
               /\ Head(Tail(queue)).c = Head(queue).c + 1
               /\ Head(Tail(queue)).lanes = prog[Head(queue).c + 1].lanes
      BY <1>3, FrontOfQueue
    <2>2. DOMAIN prog = 1 .. Len(prog)
      BY <2>1, LenProperties
    <2> QED BY <1>1, <2>1, <2>2
  <1>4. CASE queue # <<>> /\ left = {}
    <2>1. queue' = Tail(queue)
      BY <1>1, <1>4 DEF FetchedQueue
    <2> HIDE DEF left
    <2>2. Newest = Head(queue).c
      BY <1>4 DEF Newest
    <2>3. CASE Tail(queue) = <<>>
      <3>1. Newest' = pc - 1 /\ queue' = <<>>
        BY <1>1, <2>1, <2>3 DEF Newest
      <3> QED BY <1>1, <1>3, <1>4, <2>2, <3>1
    <2>4. CASE Tail(queue) # <<>>
      <3>1. Newest' = Head(queue').c /\ Head(queue').c = Head(queue).c + 1
        BY <1>3, <1>4, <2>1, <2>4 DEF Newest
      <3>2. Head(queue').lanes = prog[Head(queue').c].lanes
        BY <1>3, <1>4, <2>1, <2>4
      <3> QED BY <1>1, <1>3, <1>4, <2>1, <2>2, <2>4, <3>1, <3>2
    <2> QED BY <2>3, <2>4
  <1>5. CASE queue # <<>> /\ left # {}
    <2>1. queue' = [queue EXCEPT ![1].lanes = left]
      BY <1>1, <1>5 DEF FetchedQueue
    <2>2. left \in (SUBSET Lanes) \ {{}}
      <3>1. Head(queue) \in [c : DOMAIN prog, lanes : (SUBSET Lanes) \ {{}}]
        BY <1>5, HeadTailProperties DEF TypeOK
      <3> QED BY <1>5, <3>1
    <2> HIDE DEF left
    <2>3. queue' # <<>> /\ Head(queue').c = Head(queue).c /\ Head(queue').lanes = left
      BY <1>5, <2>1, <2>2, FetchedFront
    <2> QED BY <1>1, <1>3, <1>5, <2>3 DEF Newest, left
  <1> QED BY <1>2, <1>4, <1>5

\* A cycle keeps the commands of the unit recent and in order.
LEMMA RecentClock ==
  ASSUME UnitInv, QueueInOrder, RecentInv, Clock
  PROVE  RecentInv'
  <1>1. /\ Newest' \in Int /\ Newest \in Int /\ Newest <= Newest' /\ pc' = pc /\ prog' = prog
        /\ queue' # <<>> => queue # <<>> /\ Head(queue').c >= Head(queue).c
        /\ queue # <<>> => Newest = Head(queue).c /\ Head(queue).c \in DOMAIN prog
    BY NewestGrows DEF UnitInv
  <1>2. \A c \in DOMAIN prog : c \in Int
    BY ProgramCommands DEF UnitInv, TypeOK
  <1>3. ASSUME NEW l \in Lanes, NEW i \in Places, IsCmd(Line(l, i)')
        PROVE  /\ (Line(l, i)').c \in Int /\ (Line(l, i)').c <= Newest /\ Unsynced((Line(l, i)').c)
               /\ \A j \in 0 .. i : IsCmd(Line(l, j)') => (Line(l, i)').c <= (Line(l, j)').c
    <2> DEFINE new == [c |-> Head(queue).c, k |-> 1]
    <2>0. \A j \in 0 .. i : j \in Places /\ 0 \in 0 .. i
      BY DEF Places, LastStage, AluDepth
    <2>1. \A j \in Places : Line(l, j)' = IF j = 0 /\ Fetches(l) THEN new ELSE LineAfter(l, j)
      BY LineStep
    <2>2. Fetches(l) => queue # <<>>
      BY DEF Fetches, Eligible
    <2>3. CASE i = 0 /\ Fetches(l)
      <3>1. (Line(l, i)').c = Head(queue).c
        BY <2>1, <2>3
      <3>2. \A j \in 0 .. i : (Line(l, j)').c = (Line(l, i)').c
        BY <2>3
      <3>3. Unsynced(Head(queue).c) /\ Newest = Head(queue).c /\ Head(queue).c \in Int
        BY <1>1, <1>2, <2>2, <2>3 DEF RecentInv
      <3> QED BY <1>1, <3>1, <3>2, <3>3
    <2>4. CASE ~ (i = 0 /\ Fetches(l))
      <3>1. Line(l, i)' = LineAfter(l, i)
        BY <2>1, <2>4
      <3>2. PICK x \in Places : x = Origin(l, i)
        BY LineMoves
      <3>3. IsCmd(LineAfter(l, i))
        BY <1>3, <3>1 DEF IsCmd
      <3>4. IsCmd(Line(l, x)) /\ (Line(l, i)').c = Line(l, x).c
        BY <3>1, <3>2, <3>3, LineMoves
      <3>5. Line(l, x).c \in Int /\ Line(l, x).c <= Newest /\ Unsynced(Line(l, x).c)
        BY <3>4, LineElement DEF RecentInv
      <3>6. ASSUME NEW j \in 0 .. i, IsCmd(Line(l, j)') PROVE (Line(l, i)').c <= (Line(l, j)').c
        <4>1. CASE j = 0 /\ Fetches(l)
          <5>1. (Line(l, j)').c = Head(queue).c /\ Newest = Head(queue).c
            BY <1>1, <2>0, <2>1, <2>2, <4>1
          <5> QED BY <3>4, <3>5, <5>1
        <4>2. CASE ~ (j = 0 /\ Fetches(l))
          <5>1. Line(l, j)' = LineAfter(l, j) /\ j \in Places
            BY <2>0, <2>1, <4>2
          <5>2. IsCmd(LineAfter(l, j))
            BY <3>6, <5>1 DEF IsCmd
          <5>3. IsCmd(Line(l, Origin(l, j))) /\ (Line(l, j)').c = Line(l, Origin(l, j)).c
            BY <5>1, <5>2, LineMoves
          <5>4. Origin(l, j) \in 0 .. x
            BY <3>2, LineMoves
          <5>5. Line(l, x).c <= Line(l, Origin(l, j)).c
            BY <3>4, <5>3, <5>4 DEF RecentInv
          <5> QED BY <3>4, <5>3, <5>5
        <4> QED BY <4>1, <4>2
      <3> QED BY <3>4, <3>5, <3>6
    <2> QED BY <2>3, <2>4
  <1>4. ASSUME NEW c PROVE Unsynced(c)' <=> Unsynced(c)
    BY <1>1 DEF Unsynced
  <1>5. queue' # <<>> => Unsynced(Head(queue').c)
    <2> SUFFICES ASSUME queue' # <<>>, NEW d \in Head(queue').c + 1 .. pc - 1 PROVE ~ prog[d].sync
      BY DEF Unsynced
    <2>1. queue # <<>> /\ Head(queue').c >= Head(queue).c
      BY <1>1
    <2>2. Head(queue).c \in Int /\ Head(queue').c \in Int
      <3>1. queue' # <<>> => Newest' = Head(queue').c
        BY DEF Newest
      <3> QED BY <1>1, <1>2, <3>1
    <2>3. d \in Head(queue).c + 1 .. pc - 1
      BY <2>1, <2>2
    <2> QED BY <2>1, <2>3 DEF RecentInv, Unsynced
  <1>6. ASSUME NEW l \in Lanes, NEW i \in Places, IsCmd(Line(l, i))'
        PROVE  (/\ Line(l, i).c <= Newest /\ Unsynced(Line(l, i).c)
                /\ \A j \in 0 .. i : IsCmd(Line(l, j)) => Line(l, i).c <= Line(l, j).c)'
    <2>1. IsCmd(Line(l, i)')
      BY <1>6 DEF IsCmd
    <2>2. (Line(l, i)').c <= Newest'
      BY <1>1, <1>3, <2>1
    <2>3. Unsynced(Line(l, i).c)'
      BY <1>1, <1>3, <2>1 DEF Unsynced
    <2>4. \A j \in 0 .. i : IsCmd(Line(l, j))' => (Line(l, i)').c <= (Line(l, j)').c
      BY <1>3, <2>1 DEF IsCmd
    <2> QED BY <2>2, <2>3, <2>4
  <1>7. queue' # <<>> => Unsynced(Head(queue).c)'
    BY <1>1, <1>5 DEF Unsynced
  <1> QED BY <1>6, <1>7 DEF RecentInv

\* A command that is given is at the front if the queue was empty.
LEMMA IssuedFront ==
  ASSUME UnitInv, Issue
  PROVE  /\ queue' # <<>>
         /\ Head(queue') = IF queue = <<>> THEN [c |-> pc, lanes |-> prog[pc].lanes] ELSE Head(queue)
  <1> DEFINE x == [c |-> pc, lanes |-> prog[pc].lanes]
             Entry == [c : DOMAIN prog, lanes : (SUBSET Lanes) \ {{}}]
  <1>1. queue' = Append(queue, x) /\ queue \in Seq(Entry)
    BY DEF Issue, UnitInv, TypeOK
  <1>2. x \in Entry
    <2>1. pc \in DOMAIN prog /\ prog \in Programs
      BY IssuedQueue DEF UnitInv, TypeOK
    <2>2. prog[pc] \in Command
      BY <2>1, ProgramCommands
    <2> QED BY <2>1, <2>2 DEF Command
  <1> HIDE DEF x, Entry
  <1>3. queue = <<>> => queue' = <<x>>
    BY <1>1
  <1>4. queue # <<>> => Head(queue') = Head(queue) /\ queue' # <<>>
    BY <1>1, <1>2, AppendProperties, HeadTailProperties
  <1> QED BY <1>3, <1>4 DEF x

\* A command that is given is behind those in the unit; if the program has
\* waited for the unit before it there are none.
LEMMA RecentIssue ==
  ASSUME UnitInv, QueueInOrder, IdleInv, RecentInv, Issue
  PROVE  RecentInv'
  <1> DEFINE x == [c |-> pc, lanes |-> prog[pc].lanes]
  <1>1. /\ UNCHANGED <<prog, current, pipe>> /\ pc' = pc + 1 /\ queue' = Append(queue, x)
        /\ pc \in Nat
        /\ prog[pc].sync => phase = "issue"
    <2>1. pc \in DOMAIN prog /\ prog \in Programs
      BY IssuedQueue DEF UnitInv, TypeOK
    <2>2. pc \in Nat
      BY <2>1, ProgramCommands
    <2> QED BY <2>2 DEF Issue, Accesses, UnitInv, TypeOK
  <1>2. \A l \in Lanes : \A i \in Places : Line(l, i)' = Line(l, i)
    BY <1>1 DEF Line
  <1>3. queue' # <<>> /\ Head(queue') = IF queue = <<>> THEN x ELSE Head(queue)
    BY IssuedFront
  <1>4. CASE prog[pc].sync
    <2>1. queue = <<>> /\ StagesEmpty /\ CurrentEmpty
      BY <1>1, <1>4 DEF IdleInv, Drained
    <2>2. Head(queue').c = pc
      BY <1>3, <2>1
    <2>3. Unsynced(pc)'
      BY <1>1 DEF Unsynced
    <2>4. PICK c : c = Head(queue').c
      OBVIOUS
    <2>5. Unsynced(Head(queue).c)'
      BY <1>1, <2>2 DEF Unsynced
    <2>6. ASSUME NEW l \in Lanes, NEW i \in Places, IsCmd(Line(l, i))'
          PROVE  (/\ Line(l, i).c <= Newest /\ Unsynced(Line(l, i).c)
                  /\ \A j \in 0 .. i : IsCmd(Line(l, j)) => Line(l, i).c <= Line(l, j).c)'
      <3>1. IsCmd(Line(l, i))
        BY <1>2, <2>6 DEF IsCmd
      <3>2. i # LastStage => i = 0 \/ i - 1 \in 0 .. LastStage - 1
        BY DEF Places, LastStage, AluDepth
      <3>3. i = LastStage /\ i - 1 \in 0 .. LastStage - 1
        BY <2>1, <3>1, <3>2 DEF Line, StagesEmpty, CurrentEmpty, LastStage, AluDepth
      <3> QED BY <2>1, <3>1, <3>3 DEF Line, StagesEmpty, LastStage, AluDepth
    <2> QED BY <2>5, <2>6 DEF RecentInv
  <1>5. CASE ~ prog[pc].sync
    <2>1. \A c \in Int : Unsynced(c) => Unsynced(c)'
      <3> SUFFICES ASSUME NEW c \in Int, Unsynced(c), NEW d \in c + 1 .. pc PROVE ~ prog[d].sync
        BY <1>1 DEF Unsynced
      <3>1. d \in c + 1 .. pc - 1 \/ d = pc
        BY <1>1
      <3> QED BY <1>5, <3>1 DEF Unsynced
    <2>2. PICK h : h = Head(queue').c
      OBVIOUS
    <2> HIDE DEF x
    <2>3. /\ Newest' = h /\ h \in Int /\ Unsynced(h)' /\ Newest <= h /\ Newest \in Int
      <3>1. CASE queue = <<>>
        <4>1. h = pc /\ Newest = pc - 1
          BY <1>3, <2>2, <3>1 DEF Newest, x
        <4>2. Unsynced(h)'
          BY <1>1, <4>1 DEF Unsynced
        <4> QED BY <1>1, <1>3, <2>2, <4>1, <4>2 DEF Newest
      <3>2. CASE queue # <<>>
        <4>1. h = Head(queue).c /\ Newest = h
          BY <1>3, <2>2, <3>2 DEF Newest
        <4>2. Head(queue).c \in 1 .. Len(prog) /\ Len(prog) \in Nat
          BY <3>2, FrontOfQueue DEF UnitInv
        <4>3. h \in Int
          BY <4>1, <4>2
        <4>4. Unsynced(h)'
          BY <2>1, <3>2, <4>1, <4>3 DEF RecentInv
        <4> QED BY <1>3, <2>2, <4>1, <4>3, <4>4 DEF Newest
      <3> QED BY <3>1, <3>2
    <2>4. ASSUME NEW l \in Lanes, NEW i \in Places, IsCmd(Line(l, i))'
          PROVE  (/\ Line(l, i).c <= Newest /\ Unsynced(Line(l, i).c)
                  /\ \A j \in 0 .. i : IsCmd(Line(l, j)) => Line(l, i).c <= Line(l, j).c)'
      <3>1. IsCmd(Line(l, i))
        BY <1>2, <2>4 DEF IsCmd
      <3>2. PICK c \in Int : c = Line(l, i).c
        BY <3>1, LineElement
      <3>3. c <= Newest /\ Unsynced(c) /\ \A j \in 0 .. i : IsCmd(Line(l, j)) => c <= Line(l, j).c
        BY <3>1, <3>2 DEF RecentInv
      <3>4. c <= h /\ Unsynced(c)'
        <4>1. \A a \in Int : c <= a /\ a <= h => c <= h
          BY <2>3, <3>2
        <4> QED BY <2>1, <2>3, <3>2, <3>3, <4>1
      <3>5. \A j \in 0 .. i : j \in Places
        BY DEF Places, LastStage, AluDepth
      <3>6. (Line(l, i)').c = c /\ \A j \in 0 .. i : Line(l, j)' = Line(l, j)
        BY <1>2, <3>2, <3>5
      <3>7. \A j \in 0 .. i : IsCmd(Line(l, j))' => c <= (Line(l, j)').c
        BY <3>3, <3>6 DEF IsCmd
      <3>8. Unsynced(Line(l, i).c)'
        BY <3>4, <3>6 DEF Unsynced
      <3>9. (Line(l, i).c <= Newest)'
        BY <2>3, <3>4, <3>6
      <3>10. (\A j \in 0 .. i : IsCmd(Line(l, j)) => Line(l, i).c <= Line(l, j).c)'
        BY <3>6, <3>7 DEF IsCmd
      <3> QED BY <3>8, <3>9, <3>10
    <2>5. Unsynced(Head(queue).c)'
      BY <2>2, <2>3 DEF Unsynced
    <2> QED BY <2>4, <2>5 DEF RecentInv
  <1> QED BY <1>4, <1>5

LEMMA RecentStep ==
  UnitInv /\ OrderInv /\ IdleInv /\ RecentInv /\ [Next]_vars => RecentInv'
  <1> SUFFICES ASSUME UnitInv, OrderInv, IdleInv, RecentInv, [Next]_vars PROVE RecentInv'
    OBVIOUS
  <1>1. QueueInOrder
    BY DEF OrderInv
  <1>2. CASE Clock
    BY <1>1, <1>2, RecentClock
  <1>3. CASE Issue
    BY <1>1, <1>3, RecentIssue
  <1>4. CASE UNCHANGED <<prog, pc, queue, current, pipe>>
    BY <1>4 DEF RecentInv, Newest, Unsynced, Line, IsCmd
  <1> QED BY <1>2, <1>3, <1>4 DEF Next, WriteMask, Poll, Accesses, vars, program

\* Commands that lanes l and m may have in the unit together with one for
\* which both read a lane.
Joint(p, l, m) ==
  {c \in DOMAIN p :
     \E d \in c .. Len(p) : /\ \A x \in c + 1 .. d : ~ p[x].sync
                            /\ \E s \in Lanes : ReadsIn(p[d], l, s) /\ ReadsIn(p[d], m, s)}

\* Two processing lanes that work on the same commands then, with the same
\* sources, chain nothing and do not block.
Twins(p, l, m) ==
  /\ l # LS /\ m # LS
  /\ \A c \in Joint(p, l, m) :
       /\ ~ p[c].blocking /\ (l \in p[c].lanes <=> m \in p[c].lanes)
       /\ l \in p[c].lanes =>
            ~ p[c].chain /\ \A o \in Chained(p[c]) : Source(l, p[c], o) = Source(m, p[c], o)

\* The front stages of lane m have what those of lane l have of such commands.
Aligned(l, m) ==
  /\ \A i \in 0 .. 4 : Line(l, i).c \in Joint(prog, l, m) => Line(m, i) = Line(l, i)
  /\ queue # <<>> /\ Head(queue).c \in Joint(prog, l, m) =>
       (l \in Head(queue).lanes <=> m \in Head(queue).lanes)

TwinInv == \A l, m \in Lanes : Twins(prog, l, m) => Aligned(l, m)

LEMMA TwinsSymmetric ==
  ASSUME NEW p, NEW l \in Lanes, NEW m \in Lanes
  PROVE  Joint(p, l, m) = Joint(p, m, l) /\ (Twins(p, l, m) => Twins(p, m, l))
  <1>1. Joint(p, l, m) = Joint(p, m, l)
    BY DEF Joint
  <1>2. ASSUME Twins(p, l, m), NEW c \in Joint(p, m, l)
        PROVE  /\ ~ p[c].blocking /\ (m \in p[c].lanes <=> l \in p[c].lanes)
               /\ m \in p[c].lanes =>
                    ~ p[c].chain /\ \A o \in Chained(p[c]) : Source(m, p[c], o) = Source(l, p[c], o)
    BY <1>1, <1>2 DEF Twins
  <1> QED BY <1>1, <1>2 DEF Twins

\* A command before one of them, not waited for since, is one of them.
LEMMA JointBefore ==
  ASSUME NEW l, NEW m, prog \in Programs, pc \in Int, NEW c \in Joint(prog, l, m), NEW b \in DOMAIN prog,
         b <= c, c < pc, Unsynced(b)
  PROVE  b \in Joint(prog, l, m)
  <1>1. PICK d \in c .. Len(prog) : /\ \A x \in c + 1 .. d : ~ prog[x].sync
                                    /\ \E s \in Lanes : ReadsIn(prog[d], l, s) /\ ReadsIn(prog[d], m, s)
    BY DEF Joint
  <1>2. c \in Int /\ b \in Int /\ Len(prog) \in Nat
    <2>1. c \in DOMAIN prog
      BY DEF Joint
    <2>2. prog \in Seq(Command)
      BY ProgramAssumption
    <2> QED BY <2>1, <2>2, ProgramCommands, LenProperties
  <1>3. d \in b .. Len(prog)
    BY <1>1, <1>2
  <1>4. \A x \in b + 1 .. d : ~ prog[x].sync
    <2> SUFFICES ASSUME NEW x \in b + 1 .. d PROVE ~ prog[x].sync
      OBVIOUS
    <2>1. CASE x <= c
      <3>1. x \in b + 1 .. pc - 1
        BY <1>1, <1>2, <2>1
      <3> QED BY <3>1 DEF Unsynced
    <2>2. CASE ~ (x <= c)
      <3>1. x \in c + 1 .. d
        BY <1>1, <1>2, <2>2
      <3> QED BY <1>1, <3>1
    <2> QED BY <2>1, <2>2
  <1> QED BY <1>1, <1>3, <1>4 DEF Joint

\* The front of the queue has been given.
LEMMA NewestGiven ==
  ASSUME UnitInv, QueueInOrder
  PROVE  /\ prog \in Programs /\ pc \in Int /\ Newest \in Int /\ Newest < pc
         /\ queue # <<>> => Newest = Head(queue).c /\ Head(queue).c \in DOMAIN prog
  <1>1. prog \in Programs /\ pc \in Int
    <2>1. prog \in Seq(Command)
      BY ProgramAssumption DEF UnitInv, TypeOK
    <2>2. Len(prog) \in Nat
      BY <2>1, LenProperties
    <2> QED BY <2>2 DEF UnitInv, TypeOK
  <1>2. ASSUME queue # <<>>
        PROVE  Newest = Head(queue).c /\ Head(queue).c \in DOMAIN prog /\ Head(queue).c \in Int /\ Head(queue).c < pc
    <2>1. /\ Head(queue).c \in 1 .. Len(prog) /\ Len(prog) \in Nat /\ prog \in Seq(Command)
          /\ Len(queue) \in Nat \ {0} /\ Head(queue).c + 1 = pc - Len(queue) + 1
      BY <1>2, FrontOfQueue DEF UnitInv
    <2>2. DOMAIN prog = 1 .. Len(prog)
      BY <2>1, LenProperties
    <2>3. Newest = Head(queue).c
      BY <1>2 DEF Newest
    <2> QED BY <1>1, <2>1, <2>2, <2>3
  <1>3. queue = <<>> => Newest = pc - 1
    BY DEF Newest
  <1> QED BY <1>1, <1>2, <1>3

\* What is in the unit before one of them is one of them.
LEMMA OlderIsJoint ==
  ASSUME UnitInv, QueueInOrder, RecentInv, NEW l \in Lanes, NEW m \in Lanes, NEW r \in Lanes, NEW j \in Places,
         IsCmd(Line(r, j)), NEW c \in Joint(prog, l, m), c <= Newest, Line(r, j).c <= c
  PROVE  Line(r, j).c \in Joint(prog, l, m)
  <1>1. PICK b : b = Line(r, j).c
    OBVIOUS
  <1>2. b \in DOMAIN prog /\ Unsynced(b) /\ b <= c
    BY <1>1, LineElement DEF RecentInv
  <1>3. c \in DOMAIN prog
    BY DEF Joint
  <1>4. c \in Int /\ c < pc /\ prog \in Programs /\ pc \in Int
    BY <1>3, NewestGiven, ProgramCommands
  <1> QED BY <1>1, <1>2, <1>4, JointBefore

\* Behind one of them in its line there is nothing else.
LEMMA AheadIsJoint ==
  ASSUME UnitInv, QueueInOrder, RecentInv, NEW l \in Lanes, NEW m \in Lanes, NEW r \in Lanes,
         NEW i \in Places, NEW j \in i .. LastStage,
         IsCmd(Line(r, j)), Line(r, i).c \in Joint(prog, l, m)
  PROVE  Line(r, j).c \in Joint(prog, l, m)
  <1>1. j \in Places /\ i \in 0 .. j
    BY DEF Places, LastStage, AluDepth
  <1>2. Line(r, i).c \in DOMAIN prog /\ prog \in Programs
    BY NewestGiven DEF Joint
  <1>3. IsCmd(Line(r, i))
    BY <1>2, ProgramCommands DEF IsCmd
  <1>4. Line(r, j).c <= Line(r, i).c /\ Line(r, i).c <= Newest
    BY <1>1, <1>3 DEF RecentInv
  <1> QED BY <1>1, <1>4, OlderIsJoint

\* If a lane has one of them at the front, the other has the same there and
\* behind it in the stages that stall.
LEMMA SameElements ==
  ASSUME UnitInv, QueueInOrder, RecentInv, NEW l \in Lanes, NEW m \in Lanes, Aligned(l, m), Aligned(m, l),
         NEW i \in 0 .. 4, NEW j \in i .. 4, Line(l, i).c \in Joint(prog, l, m)
  PROVE  Line(m, j) = Line(l, j) /\ (IsCmd(Line(l, j)) => Line(l, j).c \in Joint(prog, l, m))
  <1>1. j \in i .. LastStage /\ i \in Places /\ j \in Places /\ j \in 0 .. 4
    BY DEF Places, LastStage, AluDepth
  <1>2. Line(m, i) = Line(l, i) /\ Joint(prog, m, l) = Joint(prog, l, m)
    BY TwinsSymmetric DEF Aligned
  <1>3. IsCmd(Line(l, j)) => Line(l, j).c \in Joint(prog, l, m)
    BY <1>1, AheadIsJoint
  <1>4. IsCmd(Line(m, j)) => Line(m, j).c \in Joint(prog, l, m)
    BY <1>1, <1>2, AheadIsJoint
  <1>5. CASE IsCmd(Line(l, j))
    BY <1>1, <1>3, <1>5 DEF Aligned
  <1>6. CASE IsCmd(Line(m, j))
    BY <1>1, <1>2, <1>3, <1>4, <1>6 DEF Aligned
  <1>7. CASE ~ IsCmd(Line(l, j)) /\ ~ IsCmd(Line(m, j))
    BY <1>1, <1>7, LineElement
  <1> QED BY <1>3, <1>5, <1>6, <1>7

\* Equal elements of joint commands wait for the same FIFOs.
LEMMA SameWaits ==
  ASSUME UnitInv, NEW l \in Lanes, NEW m \in Lanes, Twins(prog, l, m), NEW s \in {2, 3},
         Line(m, s + 1) = Line(l, s + 1),
         IsCmd(Line(l, s + 1)) => Line(l, s + 1).c \in Joint(prog, l, m),
         NEW Sels \in {DataSel, AddressSel}
  PROVE  /\ Waits(m, s, Sels) = Waits(l, s, Sels)
         /\ \A o \in Waits(l, s, Sels) : Empty(m, s, o) <=> Empty(l, s, o)
  <1>1. s + 1 \in Places /\ (s + 1) - 1 = s /\ s + 1 # 0
    BY DEF Places, LastStage, AluDepth
  <1>2. pipe[m][s].e = pipe[l][s].e /\ Line(l, s + 1) = pipe[l][s].e
    BY <1>1 DEF Line
  <1>3. Waits(m, s, Sels) = Waits(l, s, Sels)
    BY <1>2 DEF Waits
  <1>4. ASSUME NEW o \in Waits(l, s, Sels) PROVE Empty(m, s, o) <=> Empty(l, s, o)
    <2>1. IsCmd(pipe[l][s].e) /\ o \in Operands /\ prog[pipe[l][s].e.c][o] \in Sels
      BY DEF Waits
    <2>2. o \in Chained(prog[pipe[l][s].e.c])
      BY <2>1 DEF Chained, DataSel, AddressSel
    <2>3. l \in prog[pipe[l][s].e.c].lanes
      BY <1>1, <1>2, <2>1, LineElement
    <2>4. SourceOf(m, s, o) = SourceOf(l, s, o)
      BY <1>2, <2>1, <2>2, <2>3 DEF Twins, SourceOf
    <2> QED BY <2>4 DEF Empty
  <1> QED BY <1>3, <1>4

\* Lanes with the same elements at the front stall in the same cycles.
LEMMA SameStalls ==
  ASSUME UnitInv, QueueInOrder, RecentInv, NEW l \in Lanes, NEW m \in Lanes, Twins(prog, l, m),
         Aligned(l, m), Aligned(m, l), NEW i \in 0 .. 4, Line(l, i).c \in Joint(prog, l, m)
  PROVE  /\ i < 4 => (RunsAll(m) <=> RunsAll(l))
         /\ From(m) < 4 <=> From(l) < 4
  <1>1. l # LS /\ m # LS /\ LastStage = 9 /\ i \in Int
    BY DEF Twins, LastStage, AluDepth
  <1>2. ~ DstStall(l) /\ ~ DstStall(m)
    <2>1. 9 \in Places /\ 9 \in i .. LastStage /\ i \in Places /\ 5 + AluDepth = 8
      BY <1>1 DEF Places, AluDepth
    <2>2. Line(m, i).c \in Joint(prog, l, m)
      BY DEF Aligned
    <2>3. \A r \in {l, m} : IsCmd(Line(r, 9)) => Line(r, 9).c \in Joint(prog, l, m) /\ r \in prog[Line(r, 9).c].lanes
      BY <2>1, <2>2, AheadIsJoint, LineElement
    <2>4. \A r \in {l, m} : IsCmd(Line(r, 9)) => ~ prog[Line(r, 9).c].chain
      BY <2>3 DEF Twins
    <2> QED BY <2>1, <2>4 DEF DstStall, Line
  <1>3. SrcStall(m) <=> SrcStall(l)
    <2>1. 4 \in i .. 4 /\ 3 + 1 = 4
      BY <1>1
    <2>2. Line(m, 3 + 1) = Line(l, 3 + 1) /\ (IsCmd(Line(l, 3 + 1)) => Line(l, 3 + 1).c \in Joint(prog, l, m))
      BY <2>1, SameElements
    <2>3. /\ Waits(m, 3, DataSel) = Waits(l, 3, DataSel)
          /\ \A o \in Waits(l, 3, DataSel) : Empty(m, 3, o) <=> Empty(l, 3, o)
      BY <2>2, SameWaits
    <2> QED BY <1>1, <2>3 DEF SrcStall
  <1>4. ASSUME i < 4 PROVE AdrStall(m) <=> AdrStall(l)
    <2>1. 3 \in i .. 4 /\ 2 + 1 = 3
      BY <1>1, <1>4
    <2>2. Line(m, 2 + 1) = Line(l, 2 + 1) /\ (IsCmd(Line(l, 2 + 1)) => Line(l, 2 + 1).c \in Joint(prog, l, m))
      BY <2>1, SameElements
    <2>3. /\ Waits(m, 2, AddressSel) = Waits(l, 2, AddressSel)
          /\ \A o \in Waits(l, 2, AddressSel) : Empty(m, 2, o) <=> Empty(l, 2, o)
      BY <2>2, SameWaits
    <2> QED BY <2>3 DEF AdrStall
  <1>5. \A r \in {l, m} : From(r) < 4 <=> ~ SrcStall(r)
    BY <1>1, <1>2 DEF From, RunsAll, RunsFromOffset, RunsFromData
  <1> QED BY <1>2, <1>3, <1>4, <1>5 DEF RunsAll

\* Nothing blocks the lanes while one of them is at the front of the queue,
\* and so both fetch it in the same cycle.
LEMMA NothingBlocks ==
  ASSUME UnitInv, QueueInOrder, IdleInv, RecentInv, NEW l \in Lanes, NEW m \in Lanes, Twins(prog, l, m),
         queue # <<>>, Head(queue).c \in Joint(prog, l, m), NEW r \in Lanes
  PROVE  ~ blocking[r] /\ ~ Blocks(After(r)) /\ ~ PipeBlocks(r)
  <1>1. PICK c \in Joint(prog, l, m) : c = Head(queue).c /\ c <= Newest /\ c = Newest
    BY NewestGiven
  <1>2. ASSUME NEW j \in Places PROVE ~ Blocks(Line(r, j))
    <2>1. IsCmd(Line(r, j)) => Line(r, j).c <= c
      BY <1>1 DEF RecentInv
    <2>2. IsCmd(Line(r, j)) => Line(r, j).c \in Joint(prog, l, m)
      BY <1>1, <2>1, OlderIsJoint
    <2> QED BY <2>2 DEF Blocks, Twins
  <1>3. 0 \in Places /\ \A s \in 0 .. 5 : s + 1 \in Places /\ s + 1 # 0 /\ (s + 1) - 1 = s
    BY DEF Places, LastStage, AluDepth
  <1>4. Line(r, 0) = current[r] /\ \A s \in 0 .. 5 : Line(r, s + 1) = pipe[r][s].e
    BY <1>3 DEF Line
  <1>5. ~ blocking[r]
    BY <1>2, <1>3, <1>4 DEF IdleInv, BlockingSeen
  <1>6. \A j \in Places : IsCmd(LineAfter(r, j)) => \E x \in Places : Line(r, x).c = LineAfter(r, j).c /\ IsCmd(Line(r, x))
    BY LineMoves
  <1>7. \A j \in Places : ~ Blocks(LineAfter(r, j))
    BY <1>2, <1>6 DEF Blocks
  <1>8. LineAfter(r, 0) = After(r) /\ \A s \in 0 .. 5 : LineAfter(r, s + 1) = Moved(r)[s].e
    BY <1>3 DEF LineAfter
  <1>9. \A s \in 0 .. 5 + AluDepth - 1 - 3 : s \in 0 .. 5
    BY DEF AluDepth
  <1> QED BY <1>3, <1>5, <1>7, <1>8, <1>9 DEF PipeBlocks

LEMMA FetchTogether ==
  ASSUME UnitInv, QueueInOrder, IdleInv, RecentInv, NEW l \in Lanes, NEW m \in Lanes, Twins(prog, l, m),
         Aligned(l, m), Aligned(m, l), queue # <<>>, Head(queue).c \in Joint(prog, l, m), Fetches(l)
  PROVE  Fetches(m)
  <1>1. l \in Head(queue).lanes /\ ~ IsCmd(After(l))
    BY DEF Fetches, Eligible
  <1>2. m \in Head(queue).lanes
    BY <1>1 DEF Aligned
  <1>3. ~ IsCmd(After(m))
    <2> SUFFICES ASSUME IsCmd(After(m)) PROVE FALSE
      OBVIOUS
    <2>1. IsCmd(current[m]) /\ Line(m, 0) = current[m] /\ Line(l, 0) = current[l]
      BY AfterElement DEF UnitInv, Line
    <2>2. 0 \in Places /\ 0 \in 0 .. 4
      BY DEF Places, LastStage, AluDepth
    <2>3. Line(m, 0).c <= Head(queue).c /\ Head(queue).c <= Newest
      BY <2>1, <2>2, NewestGiven DEF RecentInv
    <2>4. Line(m, 0).c \in Joint(prog, l, m)
      BY <2>1, <2>2, <2>3, OlderIsJoint
    <2>5. Line(l, 0) = Line(m, 0)
      BY <2>2, <2>4, TwinsSymmetric DEF Aligned
    <2>6. RunsAll(m) <=> RunsAll(l)
      BY <2>2, <2>4, <2>5, SameStalls
    <2> QED BY <1>1, <2>1, <2>5, <2>6 DEF After
  <1>4. \A r \in Lanes : ~ blocking[r] /\ ~ Blocks(After(r)) /\ ~ PipeBlocks(r)
    BY NothingBlocks
  <1>5. Eligible(m)
    BY <1>2, <1>3, <1>4 DEF Eligible
  <1> QED BY <1>5 DEF Fetches, Twins

\* Twins move the same elements.
LEMMA MoveTogether ==
  ASSUME UnitInv, QueueInOrder, RecentInv, NEW l \in Lanes, NEW m \in Lanes, Twins(prog, l, m),
         Aligned(l, m), Aligned(m, l), NEW i \in 0 .. 4, LineAfter(l, i).c \in Joint(prog, l, m)
  PROVE  LineAfter(m, i) = LineAfter(l, i)
  <1>1. i \in Places /\ i \in Int /\ 0 <= i /\ i <= 4 /\ (i # 0 => i - 1 \in Stages /\ i - 1 \in 0 .. 4)
    BY DEF Places, LastStage, AluDepth, Stages
  <1>2. \A r \in {l, m} : From(r) \in {0, 3, 4, 10} /\ (From(r) = 0 <=> RunsAll(r))
    BY DEF From, RunsAll, RunsFromOffset, RunsFromData, LastStage, AluDepth
  <1>3. IsCmd(LineAfter(l, i))
    <2>1. LineAfter(l, i).c \in DOMAIN prog /\ prog \in Programs
      BY NewestGiven DEF Joint
    <2> QED BY <2>1, ProgramCommands DEF IsCmd
  <1>4. PICK x \in Places : /\ x = Origin(l, i) /\ x \in {i, i - 1} /\ Line(l, x).c \in Joint(prog, l, m)
                            /\ i > 0 => LineAfter(l, i) = Line(l, x)
    BY <1>1, <1>3, LineMoves
  <1>5. x \in 0 .. 4 /\ Line(m, x) = Line(l, x)
    <2>1. x \in 0 .. 4
      BY <1>1, <1>4 DEF Places
    <2> QED BY <1>4, <2>1 DEF Aligned
  <1>6. CASE i = 0
    <2>1. x = 0
      BY <1>4, <1>6 DEF Origin
    <2>2. RunsAll(m) <=> RunsAll(l)
      BY <1>4, <1>5, <2>1, SameStalls
    <2>3. current[m] = current[l]
      BY <1>5, <2>1 DEF Line
    <2> QED BY <1>6, <2>2, <2>3 DEF LineAfter, After
  <1>7. CASE i # 0 /\ x = i
    <2>1. i - 1 < From(l)
      BY <1>1, <1>2, <1>4, <1>7 DEF Origin
    <2>2. i < 4 => (From(m) = 0 <=> From(l) = 0)
      BY <1>2, <1>4, <1>5, <1>7, SameStalls
    <2>3. From(m) < 4 <=> From(l) < 4
      BY <1>4, <1>5, SameStalls
    <2>4. i - 1 < From(m)
      BY <1>1, <1>2, <2>1, <2>2, <2>3
    <2>5. LineAfter(m, i) = pipe[m][i - 1].e
      BY <1>1, <1>7, <2>4, MovedElement DEF LineAfter, UnitInv
    <2>6. LineAfter(l, i) = Line(l, i) /\ Line(m, i) = pipe[m][i - 1].e
      BY <1>1, <1>4, <1>7 DEF Line
    <2> QED BY <1>5, <1>7, <2>5, <2>6
  <1>8. CASE i # 0 /\ x = i - 1
    <2>1. ~ (i - 1 < From(l))
      BY <1>1, <1>4, <1>8 DEF Origin
    <2>2. From(l) = 0
      <3>1. i - 1 = From(l) /\ i - 1 # 0 => LineAfter(l, i) = NoElement
        BY <1>1, <1>8, MovedElement DEF LineAfter, UnitInv
      <3>2. ~ IsCmd(NoElement)
        BY DEF IsCmd, NoElement
      <3> QED BY <1>1, <1>2, <1>3, <2>1, <3>1, <3>2
    <2>3. From(m) = 0
      <3>1. RunsAll(m) <=> RunsAll(l)
        BY <1>1, <1>4, <1>5, <1>8, SameStalls
      <3> QED BY <1>2, <2>2, <3>1
    <2>4. LineAfter(m, i) = IF i - 1 = 0 THEN current[m] ELSE pipe[m][i - 1 - 1].e
      BY <1>1, <1>8, <2>3, MovedElement DEF LineAfter, UnitInv
    <2>5. LineAfter(m, i) = Line(m, i - 1) /\ LineAfter(l, i) = Line(l, i - 1)
      BY <1>1, <1>4, <1>8, <2>4 DEF Line
    <2> QED BY <1>5, <1>8, <2>5
  <1> QED BY <1>1, <1>4, <1>6, <1>7, <1>8

\* Twins fetch the same commands.
LEMMA SameFetch ==
  ASSUME UnitInv, QueueInOrder, IdleInv, RecentInv, NEW l \in Lanes, NEW m \in Lanes, Twins(prog, l, m),
         Aligned(l, m), Aligned(m, l), queue # <<>>, Head(queue).c \in Joint(prog, l, m)
  PROVE  Fetches(m) <=> Fetches(l)
  <1>1. Twins(prog, m, l) /\ Joint(prog, m, l) = Joint(prog, l, m)
    BY TwinsSymmetric
  <1>2. Fetches(l) => Fetches(m)
    BY FetchTogether
  <1>3. Fetches(m) => Fetches(l)
    BY <1>1, FetchTogether
  <1> QED BY <1>2, <1>3

LEMMA TwinClock ==
  ASSUME UnitInv, QueueInOrder, IdleInv, RecentInv, Clock, NEW l \in Lanes, NEW m \in Lanes, Twins(prog, l, m),
         Aligned(l, m), Aligned(m, l)
  PROVE  Aligned(l, m)'
  <1> DEFINE J == Joint(prog, l, m)
             new == [c |-> Head(queue).c, k |-> 1]
  <1>1. prog' = prog /\ J' = J /\ \A i \in 0 .. 4 : i \in Places
    BY DEF Clock, Places, LastStage, AluDepth, Joint
  <1>2. \A r \in {l, m} : \A i \in 0 .. 4 :
          Line(r, i)' = IF i = 0 /\ Fetches(r) THEN new ELSE LineAfter(r, i)
    BY <1>1, LineStep
  <1>3. \A r \in {l, m} : Fetches(r) => queue # <<>> /\ ~ IsCmd(After(r))
    BY DEF Fetches, Eligible
  <1>4. \A c \in J : c # 0
    BY NewestGiven, ProgramCommands DEF Joint
  <1>5. ASSUME NEW i \in 0 .. 4, (Line(l, i)').c \in J PROVE Line(m, i)' = Line(l, i)'
    <2>1. CASE i = 0 /\ Fetches(l)
      <3>1. Line(l, i)' = new
        BY <1>2, <2>1
      <3>2. Head(queue).c \in J /\ queue # <<>>
        BY <1>3, <1>5, <2>1, <3>1
      <3>3. Fetches(m)
        BY <2>1, <3>2, SameFetch
      <3> QED BY <1>2, <2>1, <3>1, <3>3
    <2>2. CASE ~ (i = 0 /\ Fetches(l))
      <3>1. Line(l, i)' = LineAfter(l, i)
        BY <1>2, <2>2
      <3>2. LineAfter(m, i) = LineAfter(l, i)
        BY <1>5, <3>1, MoveTogether
      <3>3. ~ (i = 0 /\ Fetches(m))
        <4>1. IsCmd(LineAfter(m, i))
          BY <1>4, <1>5, <3>1, <3>2 DEF IsCmd
        <4> QED BY <1>3, <4>1 DEF LineAfter
      <3> QED BY <1>2, <3>1, <3>2, <3>3
    <2> QED BY <2>1, <2>2
  <1>6. ASSUME queue' # <<>>, Head(queue').c \in J
        PROVE  l \in Head(queue').lanes <=> m \in Head(queue').lanes
    <2>1. CASE Head(queue').lanes = prog[Head(queue').c].lanes
      BY <1>6, <2>1 DEF Twins
    <2>2. CASE ~ (Head(queue').lanes = prog[Head(queue').c].lanes)
      <3>1. /\ queue # <<>> /\ Head(queue').c = Head(queue).c
            /\ Head(queue').lanes = {x \in Head(queue).lanes : ~ Fetches(x)}
        BY <1>6, <2>2, NewestGrows DEF UnitInv
      <3>2. Head(queue).c \in J
        BY <1>6, <3>1
      <3>3. Fetches(m) <=> Fetches(l)
        BY <3>1, <3>2, SameFetch
      <3>4. l \in Head(queue).lanes <=> m \in Head(queue).lanes
        BY <3>1, <3>2 DEF Aligned
      <3> QED BY <3>1, <3>3, <3>4
    <2> QED BY <2>1, <2>2
  <1> QED BY <1>1, <1>5, <1>6 DEF Aligned

LEMMA TwinIssue ==
  ASSUME UnitInv, QueueInOrder, Issue, NEW l \in Lanes, NEW m \in Lanes, Twins(prog, l, m), Aligned(l, m)
  PROVE  Aligned(l, m)'
  <1> DEFINE x == [c |-> pc, lanes |-> prog[pc].lanes]
             J == Joint(prog, l, m)
  <1>1. UNCHANGED <<prog, current, pipe>> /\ J' = J
    BY DEF Issue, Accesses, Joint
  <1>2. \A r \in Lanes : \A i \in 0 .. 4 : Line(r, i)' = Line(r, i)
    BY <1>1 DEF Line
  <1>3. Head(queue') = IF queue = <<>> THEN x ELSE Head(queue)
    BY IssuedFront
  <1>4. Head(queue').c \in J => (l \in Head(queue').lanes <=> m \in Head(queue').lanes)
    <2>1. CASE queue = <<>>
      BY <1>3, <2>1 DEF Twins
    <2>2. CASE queue # <<>>
      BY <1>3, <2>2 DEF Aligned
    <2> QED BY <2>1, <2>2
  <1> QED BY <1>1, <1>2, <1>4 DEF Aligned

LEMMA TwinStep ==
  UnitInv /\ OrderInv /\ IdleInv /\ RecentInv /\ TwinInv /\ [Next]_vars => TwinInv'
  <1> SUFFICES ASSUME UnitInv, OrderInv, IdleInv, RecentInv, TwinInv, [Next]_vars,
                      NEW l \in Lanes, NEW m \in Lanes, Twins(prog', l, m)
               PROVE  Aligned(l, m)'
    BY DEF TwinInv, Twins, Joint
  <1>1. prog' = prog
    BY DEF Next, Clock, WriteMask, Poll, Issue, Accesses, vars, program
  <1>2. Twins(prog, l, m) /\ Twins(prog, m, l) /\ QueueInOrder
    BY <1>1, TwinsSymmetric DEF OrderInv
  <1>3. Aligned(l, m) /\ Aligned(m, l)
    BY <1>2 DEF TwinInv
  <1>4. CASE Clock
    BY <1>2, <1>3, <1>4, TwinClock
  <1>5. CASE Issue
    BY <1>2, <1>3, <1>5, TwinIssue
  <1>6. CASE UNCHANGED <<prog, queue, current, pipe>>
    BY <1>3, <1>6 DEF Aligned, Line, Joint
  <1> QED BY <1>4, <1>5, <1>6 DEF Next, WriteMask, Poll, Accesses, vars, program

LEMMA TwinInit == Init => TwinInv
  <1> SUFFICES ASSUME Init, NEW l \in Lanes, NEW m \in Lanes PROVE Aligned(l, m)
    BY DEF TwinInv
  <1>1. queue = <<>>
    BY DEF Init
  <1>2. \A i \in 0 .. 4 : Line(l, i) = NoElement /\ Line(m, i) = NoElement
    <2> SUFFICES ASSUME NEW i \in 0 .. 4 PROVE Line(l, i) = NoElement /\ Line(m, i) = NoElement
      OBVIOUS
    <2>1. i # 0 => i - 1 \in Stages
      BY DEF Stages, LastStage, AluDepth
    <2> QED BY <2>1 DEF Init, Line, NoSlot
  <1> QED BY <1>1, <1>2 DEF Aligned

\* Lanes that read the same lane are processing lanes that the program has
\* work together on all they may have in the unit then.
ReadersInStep ==
  \A p \in Programs, s \in Lanes : \A l, m \in ReaderLanes(p, s) : l = m \/ Twins(p, l, m)

LEMMA TwinsTakeTogether ==
  ASSUME FixedReaders, ReadersInStep, UnitInv, NothingDropped, QueueInOrder, RecentInv, TwinInv
  PROVE  TakenTogether
  <1> SUFFICES ASSUME NEW s \in Lanes, NEW l \in Lanes, NEW m \in Lanes, TakesFrom(l, s),
                      m \in ReaderLanes(prog, s), l # m
               PROVE  TakesFrom(m, s)
    BY DEF TakenTogether
  <1>1. prog \in Programs /\ l \in ReaderLanes(prog, s)
    BY TakersRead DEF UnitInv, TypeOK
  <1>2. Twins(prog, l, m) /\ Twins(prog, m, l)
    BY <1>1, TwinsSymmetric DEF ReadersInStep
  <1>3. Aligned(l, m) /\ Aligned(m, l)
    BY <1>2 DEF TwinInv
  <1>4. PICK t : t = TakeStage(s) /\ t \in {3, 4}
    BY DEF TakeStage
  <1>5. From(l) < t /\ pipe[l][t - 1].e.c \in Reading(prog, s)
    BY <1>1, <1>4, TakenByElement
  <1>6. t \in 0 .. 4 /\ Line(l, t) = pipe[l][t - 1].e /\ Line(m, t) = pipe[m][t - 1].e
    BY <1>4 DEF Line
  <1>7. Line(l, t).c \in Joint(prog, l, m)
    <2>1. PICK c \in Reading(prog, s) : c = Line(l, t).c
      BY <1>5, <1>6
    <2>2. ReadsIn(prog[c], l, s) /\ ReadsIn(prog[c], m, s) /\ c \in DOMAIN prog
      BY <1>1 DEF FixedReaders, Reading
    <2>3. c \in c .. Len(prog) /\ \A x \in c + 1 .. c : FALSE
      <3>1. prog \in Seq(Command)
        BY <1>1, ProgramAssumption
      <3>2. c \in 1 .. Len(prog) /\ Len(prog) \in Nat
        BY <2>2, <3>1, LenProperties
      <3> QED BY <3>2
    <2> QED BY <2>1, <2>2, <2>3 DEF Joint
  <1>8. Line(m, t) = Line(l, t)
    BY <1>3, <1>6, <1>7 DEF Aligned
  <1>9. From(m) < t
    <2>1. t < 4 => (RunsAll(m) <=> RunsAll(l))
      BY <1>2, <1>3, <1>6, <1>7, SameStalls
    <2>2. From(m) < 4 <=> From(l) < 4
      BY <1>2, <1>3, <1>6, <1>7, SameStalls
    <2>3. \A r \in {l, m} : From(r) \in {0, 3, 4, 10} /\ (From(r) = 0 <=> RunsAll(r))
      BY DEF From, RunsAll, RunsFromOffset, RunsFromData, LastStage, AluDepth
    <2> QED BY <1>4, <1>5, <2>1, <2>2, <2>3
  <1> QED BY <1>1, <1>4, <1>5, <1>6, <1>8, <1>9, TakenByElement

\* Lanes that are given the same work take what they share from a FIFO in
\* the same cycle, whatever stalls: a value that is read by two lanes is
\* there for both (VectorLane::check_src_lane_stall, HFIFO).
THEOREM ReadersStayTogether ==
  FixedReaders /\ ReadersInStep => (Spec /\ []NothingDropped => []TakenTogether)
  <1> SUFFICES ASSUME FixedReaders, ReadersInStep PROVE Spec /\ []NothingDropped => []TakenTogether
    OBVIOUS
  <1>1. UnitInv /\ NothingDropped /\ OrderInv /\ RecentInv /\ TwinInv => TakenTogether
    BY TwinsTakeTogether DEF OrderInv
  <1> QED BY <1>1, RecentInit, RecentStep, TwinInit, TwinStep, InvHolds, OrderHolds, IdleHolds, PTL DEF Spec

\* A set of programs in which the lanes that read a lane are the same
\* whenever it is read and work together, no command takes data from two
\* lanes and no processing lane takes an address from another computes its
\* dataflow, with every operand the one that is meant, whatever the sizes,
\* the lengths and the stalls.
THEOREM ChainsAreExact ==
  FixedReaders /\ ReadersInStep /\ OneDataSource /\ OwnAddresses => (Spec => FlowSpec /\ []OperandsMatch)
  <1> SUFFICES ASSUME FixedReaders, ReadersInStep, OneDataSource, OwnAddresses
               PROVE  Spec => FlowSpec /\ []OperandsMatch
    OBVIOUS
  <1>1. UnitInv => NothingDropped
    BY NothingToDrop
  <1>2. Spec /\ []NothingDropped => []TakenTogether
    BY ReadersStayTogether
  <1>3. Spec /\ []NothingDropped /\ []TakenTogether => FlowSpec
    BY ImplementsDataflow
  <1>4. Spec /\ []NothingDropped /\ []TakenTogether => []OperandsMatch
    BY OperandsAreMeant
  <1> QED BY <1>1, <1>2, <1>3, <1>4, InvHolds, PTL

=============================================================================
