------------------------- MODULE DmaEngine_proofs -------------------------
(* Proofs about the DMA of a cluster, for every set of commands, padding   *)
(* configurations, memories and every width of the DCMA port.              *)
EXTENDS DmaEngine, SequenceTheorems, WellFoundedInduction, TLAPS

USE EngineAssumption

Iteration == [x : Nat, y : Nat, loc : Int, ext : Int, req : Nat, total : Nat]

Pad(c, p, side) == Ref!PadOf(c, p, side)

\* The iteration after a request of n words and after a word that is moved.
Requested(c, i, n) ==
  [Increment(c, i, n) EXCEPT !.ext = @ + Sub(n + c.leap, 1), !.req = n]
Moved(i) == [i EXCEPT !.loc = @ + 1, !.req = @ - 1, !.total = Sub(@, 1)]

-----------------------------------------------------------------------------
(* Geometry.                                                               *)

\* The fields of a command and the padding it has fit into its block.
LEMMA Geometry ==
  ASSUME NEW c \in Commands, NEW p \in PadConfigs
  PROVE  /\ c.w \in Nat \ {0} /\ c.h \in Nat \ {0} /\ c.leap \in Nat
         /\ c.ext \in Int /\ c.loc \in Int
         /\ Pad(c, p, "left") \in Nat /\ Pad(c, p, "right") \in Nat
         /\ Pad(c, p, "top") \in Nat /\ Pad(c, p, "bottom") \in Nat
         /\ Pad(c, p, "left") + Pad(c, p, "right") <= c.w
         /\ Pad(c, p, "top") + Pad(c, p, "bottom") <= c.h
         /\ c.w * c.h \in Nat /\ c.w * c.h < WordMod /\ c.w + c.leap < WordMod
         /\ c.w < WordMod /\ c.h < WordMod
  <1>1. c \in Command /\ p \in PadConfig
    BY CommandAssumption
  <1>2. /\ c.w \in Nat \ {0} /\ c.h \in Nat \ {0} /\ c.leap \in Nat
        /\ c.ext \in Int /\ c.loc \in Int /\ c.w < WordMod /\ c.h < WordMod
    <2>1. /\ c.w \in Words \ {0} /\ c.h \in Words \ {0} /\ c.leap \in Words
          /\ c.ext \in ExtWords /\ c.loc \in LocWords
      BY <1>1 DEF Command
    <2>2. \A n \in Words : n \in Nat /\ n < WordMod
      BY DEF Words
    <2> QED BY <2>1, <2>2
  <1>3. \A side \in Sides : Pad(c, p, side) \in Nat
    BY <1>1 DEF Pad, Ref!PadOf, PadConfig, Words, Sides
  <1>4. c.w * c.h \in Nat
    BY <1>2
  <1> QED BY <1>2, <1>3, <1>4, CommandAssumption DEF Pad, Sides

\* Unsigned subtraction that does not wrap.
LEMMA SubExact ==
  ASSUME NEW a \in Nat, NEW b \in Nat, b <= a, a < WordMod
  PROVE  Sub(a, b) = a - b
  BY DEF Sub

\* is_padding_region tells the padding of a block from the rest.
LEMMA PaddingRegion ==
  ASSUME NEW c \in Commands, NEW i \in Iteration, pads \in PadConfigs,
         i.x < c.w, i.y < c.h
  PROVE  InPadding(c, i) <=> Ref!Padded(c, pads, i.x, i.y)
  <1>1. c \in Command /\ pads \in PadConfig
    BY CommandAssumption
  <1>2. /\ c.w \in Nat /\ c.h \in Nat /\ c.w < WordMod /\ c.h < WordMod
        /\ pads.right \in Nat /\ pads.bottom \in Nat
        /\ pads.left \in Nat /\ pads.top \in Nat
        /\ i.x \in Nat /\ i.y \in Nat
    BY <1>1 DEF Command, PadConfig, Words, Iteration
  <1>3. "bottom" \in c.pad => Sub(c.h, pads.bottom) = c.h - pads.bottom
    BY <1>2, CommandAssumption, SubExact
  <1>4. "right" \in c.pad => Sub(c.w, pads.right) = c.w - pads.right
    BY <1>2, CommandAssumption, SubExact
  <1>5. CASE c.type = "e2l2D"
    BY <1>2, <1>3, <1>4, <1>5 DEF InPadding, Ref!Padded, Ref!PadOf
  <1>6. CASE c.type # "e2l2D"
    BY <1>2, <1>6 DEF InPadding, Ref!Padded, Ref!PadOf
  <1> QED BY <1>5, <1>6

\* A request is made for the words of a row that are not padding.
LEMMA BurstIsRow ==
  ASSUME NEW c \in Commands, pads \in PadConfigs
  PROVE  BurstLength(c) = c.w - Pad(c, pads, "left") - Pad(c, pads, "right")
  <1>1. c \in Command /\ pads \in PadConfig
    BY CommandAssumption
  <1>2. /\ pads.right \in Nat /\ pads.left \in Nat /\ c.w \in Nat
    BY <1>1 DEF Command, PadConfig, Words
  <1> DEFINE n == IF c.type = "e2l2D"
                  THEN (IF "left" \in c.pad THEN pads.left ELSE 0)
                       + (IF "right" \in c.pad THEN pads.right ELSE 0)
                  ELSE 0
  <1>3. n = Pad(c, pads, "left") + Pad(c, pads, "right") /\ n \in Nat
    BY <1>2 DEF Pad, Ref!PadOf
  <1>4. n <= c.w /\ c.w < WordMod
    BY <1>3, Geometry
  <1>5. BurstLength(c) = Sub(c.w, n)
    BY DEF BurstLength
  <1> HIDE DEF n
  <1> QED BY <1>2, <1>3, <1>4, <1>5, SubExact, Geometry

\* The number of words before a place in a block, and after it.
LEMMA WordsBefore ==
  ASSUME NEW w \in Nat, NEW h \in Nat, NEW x \in Nat, NEW y \in Nat, x < w, y < h
  PROVE  /\ y * w + x < w * h
         /\ (y * w + x + 1 = w * h) <=> (x + 1 = w /\ y + 1 = h)
         /\ (y + 1) * w = y * w + w
         /\ y * w \in Nat
  <1>1. (y + 1) * w = y * w + w /\ y * w \in Nat /\ w * h = h * w
    OBVIOUS
  <1>2. PICK k \in Nat : h = (y + 1) + k
    <2>1. h - (y + 1) \in Nat
      OBVIOUS
    <2> QED BY <2>1
  <1>3. h * w = (y + 1) * w + k * w
    BY <1>2
  <1>4. k * w \in Nat /\ (k = 0 => k * w = 0) /\ (k > 0 => k * w > 0)
    OBVIOUS
  <1> HIDE <1>2
  <1>5. w * h = y * w + w + k * w
    BY <1>1, <1>3
  <1>6. h = y + 1 <=> k = 0
    BY <1>2
  <1> QED BY <1>1, <1>4, <1>5, <1>6

-----------------------------------------------------------------------------
(* The walk over a block.                                                  *)

\* A walk starts in step.
LEMMA FreshInStep ==
  ASSUME NEW c \in Commands, NEW p \in PadConfigs, NEW i \in Iteration,
         i = [x |-> 0, y |-> 0, loc |-> c.loc, ext |-> c.ext, req |-> 0,
              total |-> (c.w * c.h) % WordMod]
  PROVE  InStep(c, p, i)
  <1> USE Geometry
  <1>1. (c.w * c.h) % WordMod = c.w * c.h
    OBVIOUS
  <1>2. /\ i.x = 0 /\ i.y = 0 /\ i.req = 0 /\ i.loc = c.loc /\ i.ext = c.ext
        /\ i.total = c.w * c.h
    BY <1>1
  <1>3. Column(c, i) = 0 /\ Row(c, i) = 0
    BY <1>2 DEF Column, Row
  <1>4. i.loc = Ref!LocAddr(c, 0, 0) /\ i.total = c.w * c.h - (0 * c.w + 0)
    BY <1>2 DEF Ref!LocAddr
  <1>5. ~ Ref!Padded(c, p, 0, 0) => 0 = Ref!PadOf(c, p, "left")
    BY DEF Ref!Padded, Pad
  <1>6. ~ Ref!Padded(c, p, Ref!PadOf(c, p, "left"), i.y) =>
          i.ext = c.ext + RowsDone(c, p, i) * (Ref!RowLen(c, p) + c.leap - 1)
    <2> SUFFICES ASSUME ~ Ref!Padded(c, p, Ref!PadOf(c, p, "left"), 0)
                 PROVE  RowsDone(c, p, i) * (Ref!RowLen(c, p) + c.leap - 1) = 0
      BY <1>2
    <2>1. RowsDone(c, p, i) = 0
      BY <1>2 DEF RowsDone, Ref!Padded, Pad
    <2>2. Ref!RowLen(c, p) + c.leap - 1 \in Int
      BY DEF Ref!RowLen, Pad
    <2> QED BY <2>1, <2>2
  <1> QED BY <1>2, <1>3, <1>4, <1>5, <1>6 DEF InStep

\* A step of the walk by one padded word stays in step until the last word.
LEMMA PadWalk ==
  ASSUME NEW c \in Commands, NEW p \in PadConfigs, NEW i \in Iteration,
         InStep(c, p, i), i.req = 0, Ref!Padded(c, p, i.x, i.y),
         NEW j \in Iteration,
         j = [Increment(c, i, 1) EXCEPT !.loc = @ + 1, !.total = Sub(@, 1)]
  PROVE  /\ j.req = 0
         /\ j.total = 0 <=> (i.x + 1 = c.w /\ i.y + 1 = c.h)
         /\ j.total # 0 =>
              /\ InStep(c, p, j)
              /\ Column(c, j) = (IF i.x + 1 = c.w THEN 0 ELSE i.x + 1)
              /\ Row(c, j) = (IF i.x + 1 < c.w THEN i.y ELSE i.y + 1)
  <1> DEFINE left == Ref!PadOf(c, p, "left")
             right == Ref!PadOf(c, p, "right")
             top == Ref!PadOf(c, p, "top")
             bottom == Ref!PadOf(c, p, "bottom")
             S == Ref!RowLen(c, p) + c.leap - 1
  <1>0. /\ left \in Nat /\ right \in Nat /\ top \in Nat /\ bottom \in Nat
        /\ c.w \in Nat \ {0} /\ c.h \in Nat \ {0} /\ c.loc \in Int /\ c.ext \in Int
        /\ left + right <= c.w /\ top + bottom <= c.h
        /\ c.w * c.h \in Nat /\ c.w * c.h < WordMod
        /\ i.x \in Nat /\ i.y \in Nat /\ i.total \in Nat /\ i.loc \in Int
        /\ i.ext \in Int
    BY Geometry DEF Pad, Iteration
  <1>s. S \in Int
    BY <1>0, Geometry DEF Ref!RowLen
  <1> HIDE DEF left, right, top, bottom, S
  <1>1. /\ i.x \in 0 .. c.w - 1 /\ i.y \in 0 .. c.h - 1
        /\ i.loc = c.loc + i.y * c.w + i.x
        /\ i.total = c.w * c.h - (i.y * c.w + i.x)
        /\ i.y < top => i.ext = c.ext
        /\ ~ Ref!Padded(c, p, left, i.y) => i.ext = c.ext + RowsDone(c, p, i) * S
    BY DEF InStep, Column, Row, Ref!LocAddr, left, top, S
  <1>a. /\ i.x < c.w /\ i.y < c.h /\ c.w \in Nat /\ c.h \in Nat
        /\ i.x \in Nat /\ i.y \in Nat
    BY <1>0, <1>1
  <1>2. /\ i.y * c.w + i.x < c.w * c.h
        /\ (i.y * c.w + i.x + 1 = c.w * c.h) <=> (i.x + 1 = c.w /\ i.y + 1 = c.h)
        /\ (i.y + 1) * c.w = i.y * c.w + c.w
        /\ i.y * c.w \in Nat
    BY <1>0, <1>a, WordsBefore
  <1> DEFINE K == i.y * c.w
             N == c.w * c.h
  <1>b. /\ K \in Nat /\ N \in Nat /\ N < WordMod /\ K + i.x < N
        /\ i.loc = c.loc + K + i.x /\ i.total = N - (K + i.x)
        /\ (K + i.x + 1 = N) <=> (i.x + 1 = c.w /\ i.y + 1 = c.h)
    BY <1>0, <1>1, <1>2
  <1> HIDE DEF K, N
  <1>3. Sub(i.total, 1) = i.total - 1
    <2>1. 1 <= i.total /\ i.total < WordMod
      BY <1>0, <1>b
    <2> QED BY <2>1, <1>0, SubExact
  <1>4. /\ j.loc = i.loc + 1 /\ j.total = i.total - 1 /\ j.ext = i.ext /\ j.req = 0
        /\ j.x = (IF i.x + 1 = c.w /\ i.y + 1 # c.h THEN 0 ELSE i.x + 1)
        /\ j.y = (IF i.x + 1 = c.w /\ i.y + 1 # c.h THEN i.y + 1 ELSE i.y)
    <2>1. (i.x + 1 > c.w - 1 /\ i.y # c.h - 1) <=> (i.x + 1 = c.w /\ i.y + 1 # c.h)
      BY <1>a
    <2>2. CASE i.x + 1 = c.w /\ i.y + 1 # c.h
      BY <2>1, <2>2, <1>3 DEF Increment, Iteration
    <2>3. CASE ~ (i.x + 1 = c.w /\ i.y + 1 # c.h)
      BY <2>1, <2>3, <1>3 DEF Increment, Iteration
    <2> QED BY <2>2, <2>3
  <1>5. j.total = 0 <=> (i.x + 1 = c.w /\ i.y + 1 = c.h)
    <2>1. i.total \in Nat /\ i.loc \in Int
      BY <1>0
    <2>2. j.total = N - (K + i.x + 1)
      BY <2>1, <1>a, <1>b, <1>4
    <2> QED BY <2>2, <1>a, <1>b
  <1>6. ASSUME j.total # 0
        PROVE  /\ InStep(c, p, j)
               /\ Column(c, j) = (IF i.x + 1 = c.w THEN 0 ELSE i.x + 1)
               /\ Row(c, j) = (IF i.x + 1 < c.w THEN i.y ELSE i.y + 1)
    <2>1. Column(c, j) = j.x /\ Row(c, j) = j.y
      BY <1>4 DEF Column, Row
    <2>2. \/ j.x = i.x + 1 /\ i.x + 1 < c.w /\ j.y = i.y
          \/ j.x = 0 /\ i.x + 1 = c.w /\ j.y = i.y + 1 /\ j.y < c.h
      BY <1>a, <1>4, <1>5, <1>6
    <2>3. j.x \in 0 .. c.w - 1 /\ j.y \in 0 .. c.h - 1
      BY <2>2, <1>0, <1>1
    <2>4. /\ j.loc = Ref!LocAddr(c, j.x, j.y)
          /\ j.total = c.w * c.h - (j.y * c.w + j.x)
      BY <2>2, <1>0, <1>1, <1>2, <1>4 DEF Ref!LocAddr
    <2>5. ~ Ref!Padded(c, p, j.x, j.y) => j.x = left
      BY <2>2, <1>0, <1>1 DEF Ref!Padded, left, right, top, bottom
    <2>6. j.y < top => j.ext = c.ext
      BY <2>2, <1>0, <1>1, <1>4
    <2>7. ASSUME ~ Ref!Padded(c, p, left, j.y)
          PROVE  j.ext = c.ext + RowsDone(c, p, j) * S
      <3>1. top <= j.y /\ j.y < c.h - bottom /\ left < c.w - right
        BY <2>7, <1>0, <2>3 DEF Ref!Padded, left, right, top, bottom
      <3>2. RowsDone(c, p, j) = j.y - top + (IF j.x > left THEN 1 ELSE 0)
        BY DEF RowsDone, left, top
      <3>3. RowsDone(c, p, i) = i.y - top + (IF i.x > left THEN 1 ELSE 0)
        BY DEF RowsDone, left, top
      <3>4. i.x < left \/ i.x >= c.w - right \/ i.y < top
        BY <3>1, <2>2, <1>0, <1>1 DEF Ref!Padded, left, right, top, bottom
      <3>5. CASE i.y >= top
        <4>1. ~ Ref!Padded(c, p, left, i.y)
          BY <3>1, <3>5, <2>2, <1>0, <1>1 DEF Ref!Padded, left, right, top, bottom
        <4>2. RowsDone(c, p, i) = RowsDone(c, p, j)
          BY <3>1, <3>2, <3>3, <3>4, <3>5, <2>2, <1>0, <1>1
        <4> QED BY <4>1, <4>2, <1>1, <1>4
      <3>6. CASE i.y < top
        <4>1. j.y = i.y + 1 /\ j.x = 0 /\ j.y = top
          <5>1. top \in Nat
            BY <1>0
          <5> QED BY <5>1, <3>1, <3>6, <2>2, <1>a
        <4>a. RowsDone(c, p, j) = 0
          BY <4>1, <3>2, <1>0
        <4> QED BY <4>a, <3>6, <1>0, <1>1, <1>4, <1>s
      <3> QED BY <3>5, <3>6, <1>0, <1>1
    <2> QED BY <2>1, <2>2, <2>3, <2>4, <2>5, <2>6, <2>7, <1>0, <1>4
            DEF InStep, left, top, S
  <1> QED BY <1>4, <1>5, <1>6

\* A request moves the walk past the row it is for.
LEMMA RequestWalk ==
  ASSUME NEW c \in Commands, NEW p \in PadConfigs, NEW i \in Iteration,
         InStep(c, p, i), i.req = 0, ~ Ref!Padded(c, p, i.x, i.y),
         NEW n \in Nat, n = c.w - Pad(c, p, "left") - Pad(c, p, "right"),
         NEW j \in Iteration,
         j = Requested(c, i, n)
  PROVE  /\ n \in Nat \ {0} /\ j.req = n
         /\ InStep(c, p, j)
         /\ Column(c, j) = i.x /\ Row(c, j) = i.y
         /\ i.ext = Ref!ExtAddr(c, p, i.x, i.y)
  <1> DEFINE left == Ref!PadOf(c, p, "left")
             right == Ref!PadOf(c, p, "right")
             top == Ref!PadOf(c, p, "top")
             bottom == Ref!PadOf(c, p, "bottom")
             S == Ref!RowLen(c, p) + c.leap - 1
  <1>0. /\ left \in Nat /\ right \in Nat /\ top \in Nat /\ bottom \in Nat
        /\ c.w \in Nat /\ c.h \in Nat /\ c.leap \in Nat
        /\ left + right <= c.w /\ top + bottom <= c.h
        /\ c.w + c.leap < WordMod
        /\ i.x \in Nat /\ i.y \in Nat
        /\ n = c.w - left - right
    BY Geometry DEF Pad, Iteration
  <1>s. S = n + c.leap - 1
    BY <1>0 DEF Ref!RowLen, left, right
  <1>e. i.ext \in Int /\ c.ext \in Int
    BY Geometry DEF Iteration
  <1> HIDE DEF left, right, top, bottom, S
  <1>1. /\ i.x \in 0 .. c.w - 1 /\ i.y \in 0 .. c.h - 1
        /\ i.loc = c.loc + i.y * c.w + i.x
        /\ i.total = c.w * c.h - (i.y * c.w + i.x)
        /\ i.x = left
        /\ ~ Ref!Padded(c, p, left, i.y) => i.ext = c.ext + RowsDone(c, p, i) * S
    BY DEF InStep, Column, Row, Ref!LocAddr, left, top, S
  <1>2. i.x < c.w /\ i.y < c.h
    BY <1>0, <1>1
  <1>3. top <= i.y /\ i.y < c.h - bottom /\ i.x < c.w - right /\ i.x = left
    BY <1>0, <1>1 DEF Ref!Padded, left, right, top, bottom
  <1>4. n \in Nat \ {0} /\ left + n = c.w - right
    BY <1>0, <1>2, <1>3
  <1>5. Sub(n + c.leap, 1) = S
    <2>1. n + c.leap \in Nat /\ 1 <= n + c.leap /\ n + c.leap < WordMod
      BY <1>0, <1>4
    <2>2. Sub(n + c.leap, 1) = (n + c.leap) - 1
      BY ONLY <2>1, SubExact
    <2> QED BY <2>1, <2>2, <1>s, <1>0, <1>4
  <1>6. /\ j.loc = i.loc /\ j.total = i.total /\ j.ext = i.ext + S /\ j.req = n
        /\ \/ j.x = 0 /\ j.y = i.y + 1 /\ right = 0 /\ i.y + 1 # c.h
           \/ j.x = left + n /\ j.y = i.y /\ (j.x = c.w => i.y = c.h - 1)
    <2>1. (i.x + n > c.w - 1 /\ i.y # c.h - 1) <=> (right = 0 /\ i.y + 1 # c.h)
      BY <1>0, <1>2, <1>3, <1>4
    <2>2. CASE right = 0 /\ i.y + 1 # c.h
      BY <2>1, <2>2, <1>5 DEF Requested, Increment, Iteration
    <2>3. CASE ~ (right = 0 /\ i.y + 1 # c.h)
      <3>1. j = [i EXCEPT !.x = i.x + n, !.ext = i.ext + S, !.req = n]
        BY <2>1, <2>3, <1>5 DEF Requested, Increment, Iteration
      <3>2. /\ j.loc = i.loc /\ j.total = i.total /\ j.ext = i.ext + S /\ j.req = n
            /\ j.x = i.x + n /\ j.y = i.y
        BY <3>1 DEF Iteration
      <3> QED BY <3>2, <2>3, <1>0, <1>2, <1>3, <1>4
    <2> QED BY <2>2, <2>3
  <1>7. Column(c, j) = left /\ Row(c, j) = i.y
    <2>1. CASE j.x = 0
      <3>1. j.y = i.y + 1 /\ right = 0
        BY <2>1, <1>0, <1>4, <1>6
      <3>2. j.req = n /\ n > 0 /\ n \in Nat
        BY <1>4, <1>6
      <3>3. Column(c, j) = c.w - n /\ Row(c, j) = j.y - 1
        BY <2>1, <3>2 DEF Column, Row
      <3>4. \A a, b, k \in Nat : b + k = a - 0 => a - k = b
        OBVIOUS
      <3>5. c.w - n = left
        BY <3>1, <3>2, <3>4, <1>0, <1>4
      <3>6. j.y - 1 = i.y
        BY <3>1, <1>0
      <3> QED BY <3>3, <3>5, <3>6
    <2>2. CASE j.x # 0
      <3>1. j.x = left + n /\ j.y = i.y
        BY <2>2, <1>6
      <3> QED BY <2>2, <3>1, <1>0, <1>4, <1>6 DEF Column, Row
    <2> QED BY <2>1, <2>2
  <1>8. RowsDone(c, p, i) = i.y - top /\ RowsDone(c, p, j) = i.y - top + 1
    <2>1. RowsDone(c, p, j) = j.y - top + (IF j.x > left THEN 1 ELSE 0)
      BY DEF RowsDone, left, top
    <2>2. RowsDone(c, p, i) = i.y - top + (IF i.x > left THEN 1 ELSE 0)
      BY DEF RowsDone, left, top
    <2> QED BY <2>1, <2>2, <1>0, <1>3, <1>4, <1>6
  <1>9. i.ext = c.ext + (i.y - top) * S /\ j.ext = c.ext + (i.y - top + 1) * S
    <2>1. ~ Ref!Padded(c, p, left, i.y)
      BY <1>1
    <2>2. i.ext = c.ext + (i.y - top) * S
      BY <2>1, <1>1, <1>8
    <2>3. S \in Int /\ i.y - top \in Int
      BY <1>0, <1>4, <1>s
    <2>4. (i.y - top + 1) * S = (i.y - top) * S + S /\ (i.y - top) * S \in Int
      BY <2>3
    <2> QED BY <2>2, <2>3, <2>4, <1>6, <1>e
  <1>10. i.ext = Ref!ExtAddr(c, p, i.x, i.y)
    <2>1. Ref!ExtAddr(c, p, i.x, i.y) = c.ext + (i.y - top) * S + i.x - left
      BY DEF Ref!ExtAddr, left, top, S
    <2>2. (i.y - top) * S \in Int
      BY <1>0, <1>4, <1>s
    <2> QED BY <2>1, <2>2, <1>0, <1>3, <1>9, <1>e
  <1>11. InStep(c, p, j)
    <2>1. /\ left \in 0 .. c.w - 1 /\ i.y \in 0 .. c.h - 1 /\ j.y \in 0 .. c.h - 1
      BY <1>0, <1>2, <1>3, <1>6
    <2>2. /\ j.loc = Ref!LocAddr(c, left, i.y)
          /\ j.total = c.w * c.h - (i.y * c.w + left)
      BY <1>1, <1>6 DEF Ref!LocAddr
    <2>3. /\ left + j.req = c.w - right
          /\ j.x = 0 \/ (j.x = left + j.req /\ (j.x = c.w => i.y = c.h - 1))
          /\ left >= left
          /\ ~ Ref!Padded(c, p, left, i.y)
      BY <1>0, <1>3, <1>4, <1>6
         DEF Ref!Padded, left, right, top, bottom
    <2>4. ~ (j.y < top)
      BY <1>0, <1>3, <1>6
    <2>5. j.ext = c.ext + RowsDone(c, p, j) * S
      BY <1>8, <1>9
    <2>6. j.req # 0
      BY <1>4, <1>6
    <2> QED BY <2>1, <2>2, <2>3, <2>4, <2>5, <2>6, <1>7
            DEF InStep, left, right, top, S
  <1> QED BY <1>1, <1>4, <1>6, <1>7, <1>10, <1>11

\* A word that is moved takes the walk one word further.
LEMMA MoveWalk ==
  ASSUME NEW c \in Commands, NEW p \in PadConfigs, NEW i \in Iteration,
         InStep(c, p, i), i.req > 0,
         NEW j \in Iteration,
         j = Moved(i)
  PROVE  /\ j.total = 0 <=> (Column(c, i) + 1 = c.w /\ Row(c, i) + 1 = c.h)
         /\ j.total = 0 => j.req = 0
         /\ j.req = i.req - 1
         /\ j.total # 0 =>
              /\ InStep(c, p, j)
              /\ Column(c, j) = (IF Column(c, i) + 1 = c.w THEN 0 ELSE Column(c, i) + 1)
              /\ Row(c, j) = (IF Column(c, i) + 1 < c.w THEN Row(c, i) ELSE Row(c, i) + 1)
         /\ j.req > 0 => Column(c, i) + 1 < c.w
  <1> DEFINE left == Ref!PadOf(c, p, "left")
             right == Ref!PadOf(c, p, "right")
             top == Ref!PadOf(c, p, "top")
             bottom == Ref!PadOf(c, p, "bottom")
             S == Ref!RowLen(c, p) + c.leap - 1
             x == Column(c, i)
             y == Row(c, i)
             K == y * c.w
             N == c.w * c.h
  <1>0. /\ left \in Nat /\ right \in Nat /\ top \in Nat /\ bottom \in Nat
        /\ c.w \in Nat /\ c.h \in Nat
        /\ left + right <= c.w /\ top + bottom <= c.h
        /\ i.x \in Nat /\ i.y \in Nat /\ i.req \in Nat
    BY Geometry DEF Pad, Iteration
  <1>t. i.loc \in Int /\ i.total \in Nat /\ c.loc \in Int
    BY Geometry DEF Iteration
  <1> HIDE DEF left, right, top, bottom, S, x, y, K, N
  <1>1. /\ x \in 0 .. c.w - 1 /\ y \in 0 .. c.h - 1 /\ i.y \in 0 .. c.h - 1
        /\ i.loc = c.loc + K + x
        /\ i.total = N - (K + x)
        /\ x + i.req = c.w - right
        /\ i.x = 0 \/ (i.x = x + i.req /\ (i.x = c.w => y = c.h - 1))
        /\ x >= left
        /\ ~ Ref!Padded(c, p, x, y)
        /\ i.y < top => i.ext = c.ext
        /\ ~ Ref!Padded(c, p, left, i.y) => i.ext = c.ext + RowsDone(c, p, i) * S
    BY DEF InStep, Ref!LocAddr, left, right, top, S, x, y, K, N
  <1>2. x \in Nat /\ y \in Nat /\ x < c.w /\ y < c.h
    BY <1>0, <1>1
  <1>3. /\ K + x < N
        /\ (K + x + 1 = N) <=> (x + 1 = c.w /\ y + 1 = c.h)
        /\ (y + 1) * c.w = K + c.w
        /\ K \in Nat
        /\ N \in Nat /\ N < WordMod
    <2>1. /\ y * c.w + x < c.w * c.h
          /\ (y * c.w + x + 1 = c.w * c.h) <=> (x + 1 = c.w /\ y + 1 = c.h)
          /\ (y + 1) * c.w = y * c.w + c.w
          /\ y * c.w \in Nat
      BY <1>0, <1>2, WordsBefore
    <2>2. N \in Nat /\ N < WordMod
      BY Geometry DEF N
    <2> QED BY <2>1, <2>2 DEF K, N
  <1>4. Sub(i.total, 1) = i.total - 1
    <2>1. 1 <= i.total /\ i.total < WordMod
      BY <1>1, <1>2, <1>3
    <2> QED BY <2>1, <1>t, SubExact
  <1>5. /\ j.x = i.x /\ j.y = i.y /\ j.ext = i.ext
        /\ j.loc = i.loc + 1 /\ j.req = i.req - 1 /\ j.total = i.total - 1
    BY <1>4 DEF Moved, Iteration
  <1>6. j.total = 0 <=> (x + 1 = c.w /\ y + 1 = c.h)
    <2>1. j.total = N - (K + x + 1)
      BY <1>1, <1>2, <1>3, <1>5
    <2> QED BY <2>1, <1>2, <1>3
  <1>7. x = (IF i.x = 0 THEN c.w ELSE i.x) - i.req
        /\ y = (IF i.x = 0 THEN i.y - 1 ELSE i.y)
    BY <1>0 DEF Column, Row, x, y
  <1>8. top <= y /\ y < c.h - bottom /\ x < c.w - right
    BY <1>0, <1>1, <1>2 DEF Ref!Padded, left, right, top, bottom
  <1>9. j.req > 0 => x + 1 < c.w
    BY <1>0, <1>1, <1>2, <1>5
  <1>10. j.total = 0 => j.req = 0
    <2>1. j.total = 0 => ~ (j.req > 0)
      BY <1>0, <1>2, <1>6, <1>9
    <2>2. j.req \in Nat
      BY DEF Iteration
    <2>3. \A k \in Nat : ~ (k > 0) => k = 0
      OBVIOUS
    <2> QED BY ONLY <2>1, <2>2, <2>3
  <1>11. ASSUME j.total # 0
         PROVE  /\ InStep(c, p, j)
                /\ Column(c, j) = (IF x + 1 = c.w THEN 0 ELSE x + 1)
                /\ Row(c, j) = (IF x + 1 < c.w THEN y ELSE y + 1)
    <2>0. j.req \in Nat
      BY DEF Iteration
    <2>1. CASE j.req > 0
      <3>1. Column(c, j) = x + 1 /\ Row(c, j) = y /\ x + 1 < c.w
        BY <2>1, <1>0, <1>2, <1>5, <1>7, <1>9 DEF Column, Row
      <3>2. ~ Ref!Padded(c, p, x + 1, y) /\ x + 1 >= left /\ x + 1 \in 0 .. c.w - 1
        BY <2>1, <3>1, <1>0, <1>1, <1>2, <1>5, <1>8
           DEF Ref!Padded, left, right, top, bottom
      <3>3. /\ j.loc = Ref!LocAddr(c, x + 1, y)
            /\ j.total = N - (K + (x + 1))
        BY <1>1, <1>2, <1>3, <1>5, <1>t DEF Ref!LocAddr, K
      <3>4. /\ x + 1 + j.req = c.w - right
            /\ j.x = 0 \/ (j.x = x + 1 + j.req /\ (j.x = c.w => y = c.h - 1))
        BY <1>0, <1>1, <1>2, <1>5
      <3>5. RowsDone(c, p, j) = RowsDone(c, p, i)
        BY <1>5 DEF RowsDone
      <3>6. InStep(c, p, j)
        BY <2>1, <3>1, <3>2, <3>3, <3>4, <3>5, <1>1, <1>5
           DEF InStep, left, right, top, S, K, N
      <3> QED BY <3>1, <3>6, <1>2
    <2>2. CASE j.req = 0
      <3>0. x + 1 = c.w - right
        BY <2>2, <1>0, <1>1, <1>2, <1>5
      <3>1. \/ j.x = 0 /\ x + 1 = c.w /\ j.y = y + 1 /\ y + 1 < c.h
            \/ j.x = x + 1 /\ x + 1 < c.w /\ j.y = y /\ right > 0
        BY <3>0, <2>2, <1>0, <1>1, <1>2, <1>5, <1>6, <1>7, <1>11
      <3>2. Column(c, j) = j.x /\ Row(c, j) = j.y
        BY <2>2 DEF Column, Row
      <3>3. j.x \in 0 .. c.w - 1 /\ j.y \in 0 .. c.h - 1
        BY <3>1, <1>0, <1>2
      <3>4. /\ j.loc = Ref!LocAddr(c, j.x, j.y)
            /\ j.total = N - (j.y * c.w + j.x)
        <4>1. CASE j.x = 0 /\ x + 1 = c.w /\ j.y = y + 1
          <5>1. j.y * c.w = K + c.w
            BY <4>1, <1>3
          <5> HIDE <4>1
          <5>2. j.loc = c.loc + (K + c.w) + 0 /\ j.total = N - ((K + c.w) + 0)
            BY <4>1, <1>0, <1>1, <1>2, <1>3, <1>5, <1>t
          <5> QED BY <4>1, <5>1, <5>2 DEF Ref!LocAddr
        <4>2. CASE j.x = x + 1 /\ j.y = y
          <5>1. j.loc = c.loc + K + (x + 1) /\ j.total = N - (K + (x + 1))
            BY <1>1, <1>2, <1>3, <1>5, <1>t
          <5> QED BY <4>2, <5>1 DEF Ref!LocAddr, K
        <4> QED BY <3>1, <4>1, <4>2
      <3>5. ~ Ref!Padded(c, p, j.x, j.y) => j.x = left
        BY <3>0, <3>1, <1>0, <1>2 DEF Ref!Padded, left, right, top, bottom
      <3>6. RowsDone(c, p, j) = RowsDone(c, p, i)
        BY <1>5 DEF RowsDone
      <3>7. InStep(c, p, j)
        BY <2>2, <3>2, <3>3, <3>4, <3>5, <3>6, <1>1, <1>5
           DEF InStep, left, right, top, S, N
      <3> QED BY <3>1, <3>2, <3>7, <1>0, <1>2
    <2>3. j.req > 0 \/ j.req = 0
      <3>1. \A k \in Nat : k > 0 \/ k = 0
        OBVIOUS
      <3> QED BY ONLY <2>0, <3>1
    <2> QED BY <2>1, <2>2, <2>3
  <1> QED BY <1>5, <1>6, <1>9, <1>10, <1>11 DEF x, y

-----------------------------------------------------------------------------
(* The inductive invariant.                                                *)

\* A command names a first unit.
LEMMA FirstUnitExists ==
  ASSUME NEW c \in Commands PROVE FirstUnit(c) \in c.units /\ FirstUnit(c) \in Units
  <1>1. c.units \subseteq Nat /\ c.units # {} /\ c.units \subseteq Units
    BY CommandAssumption DEF Command
  <1>2. PICK u \in c.units : \A v \in c.units : ~ (<<v, u>> \in OpToRel(<, Nat))
    BY <1>1, NatLessThanWellFounded, WFMin
  <1>3. \A v \in c.units : u <= v
    <2>1. \A v \in Nat : v < u => <<v, u>> \in OpToRel(<, Nat)
      BY <1>1 DEF OpToRel
    <2>2. \A v \in c.units : ~ (v < u)
      BY <1>1, <1>2, <2>1
    <2>3. \A a, b \in Nat : ~ (a < b) => b <= a
      OBVIOUS
    <2> QED BY <1>1, <2>2, <2>3
  <1> QED BY <1>1, <1>3 DEF FirstUnit

\* A local memory keeps its type when a value is written to it.
LEMMA WriteLocalType ==
  ASSUME lm \in [Units -> [LocWords -> Values]], NEW c, NEW l, NEW v \in Values,
         WriteLocal(c, l, v)
  PROVE  lm' \in [Units -> [LocWords -> Values]]
  BY DEF WriteLocal

\* The step of an iteration is an iteration.
LEMMA IncrementType ==
  ASSUME NEW c \in Commands, NEW i \in Iteration, NEW n \in Nat
  PROVE  Increment(c, i, n) \in Iteration
  <1>1. /\ i.x \in Nat /\ i.y \in Nat /\ i.x + n \in Nat /\ i.y + 1 \in Nat
    BY DEF Iteration
  <1>2. \/ Increment(c, i, n) = [i EXCEPT !.x = 0, !.y = i.y + 1]
        \/ Increment(c, i, n) = [i EXCEPT !.x = i.x + n]
    BY DEF Increment
  <1>3. [i EXCEPT !.x = 0, !.y = i.y + 1] \in Iteration
    BY <1>1 DEF Iteration
  <1>4. [i EXCEPT !.x = i.x + n] \in Iteration
    BY <1>1 DEF Iteration
  <1> QED BY <1>2, <1>3, <1>4

LEMMA StepTypes ==
  ASSUME NEW i \in Iteration, NEW n \in Nat, NEW m \in Nat
  PROVE  /\ [i EXCEPT !.loc = @ + 1, !.total = Sub(@, 1)] \in Iteration
         /\ [i EXCEPT !.ext = @ + Sub(m, 1), !.req = n] \in Iteration
         /\ i.req > 0 =>
              [i EXCEPT !.loc = @ + 1, !.req = @ - 1, !.total = Sub(@, 1)] \in Iteration
  <1>1. /\ i.loc + 1 \in Int /\ i.total \in Nat /\ i.ext \in Int
        /\ i.req > 0 => i.req - 1 \in Nat
    BY DEF Iteration
  <1>2. \A a \in Nat : Sub(a, 1) \in Nat
    BY DEF Sub
  <1>3. Sub(i.total, 1) \in Nat /\ Sub(m, 1) \in Nat /\ i.ext + Sub(m, 1) \in Int
    BY <1>1, <1>2
  <1> QED BY <1>1, <1>3 DEF Iteration

\* Between requests the place of an iteration is its column and row.
LEMMA WalkPlace ==
  ASSUME NEW c \in Commands, NEW p \in PadConfigs, NEW i \in Iteration,
         InStep(c, p, i), i.req = 0
  PROVE  /\ i.x < c.w /\ i.y < c.h
         /\ Column(c, i) = i.x /\ Row(c, i) = i.y
  <1>1. Column(c, i) = i.x /\ Row(c, i) = i.y
    BY DEF Column, Row
  <1>2. i.x \in 0 .. c.w - 1 /\ i.y \in 0 .. c.h - 1
    BY <1>1 DEF InStep
  <1> QED BY <1>1, <1>2, Geometry

\* The command and the iteration a tick works on are in step, taken from the
\* queue or not.
LEMMA WorkInStep ==
  ASSUME EngineInv, it.req = 0, Working
  PROVE  /\ Cmd \in Commands /\ Iter \in Iteration
         /\ InStep(Cmd, pads, Iter) /\ Iter.req = 0
         /\ Iter.x < Cmd.w /\ Iter.y < Cmd.h
         /\ Column(Cmd, Iter) = Iter.x /\ Row(Cmd, Iter) = Iter.y
         /\ ~ Pops => Cmd = command /\ Iter = it
         /\ Pops => Iter.x = 0 /\ Iter.y = 0
  <1>0. pads \in PadConfigs /\ queue \in Seq(Commands) /\ it \in Iteration
    BY DEF EngineInv, TypeOK, Iteration
  <1>1. CASE Pops
    <2>1. Cmd = Head(queue) /\ queue # <<>>
      BY <1>1 DEF Cmd, Pops
    <2>2. Cmd \in Commands
      BY <2>1, <1>0
    <2>3. Iter = [x |-> 0, y |-> 0, loc |-> Cmd.loc, ext |-> Cmd.ext, req |-> 0,
                  total |-> (Cmd.w * Cmd.h) % WordMod]
      BY <1>1 DEF Iter
    <2>4. /\ Cmd.loc \in Int /\ Cmd.ext \in Int /\ Cmd.w * Cmd.h \in Nat
          /\ Cmd.w * Cmd.h < WordMod
      BY <2>2, <1>0, Geometry
    <2>5. (Cmd.w * Cmd.h) % WordMod \in Nat
      BY <2>4
    <2>6. Iter \in Iteration
      BY <2>3, <2>4, <2>5 DEF Iteration
    <2>7. InStep(Cmd, pads, Iter)
      BY <2>2, <2>3, <2>6, <1>0, FreshInStep
    <2>8. Iter.req = 0 /\ Iter.x = 0 /\ Iter.y = 0
      BY <2>3
    <2> QED BY <1>1, <2>2, <2>6, <2>7, <2>8, WalkPlace, <1>0
  <1>2. CASE ~ Pops
    <2>1. ~ done /\ Cmd = command /\ Iter = it
      BY <1>2 DEF Working, Cmd, Iter
    <2>2. command \in Commands /\ InStep(command, pads, it)
      BY <2>1 DEF EngineInv, IterationInStep
    <2> QED BY <1>0, <1>2, <2>1, <2>2, WalkPlace
  <1> QED BY <1>1, <1>2

\* A word of padding keeps the walk in step.
LEMMA PadElementInv ==
  ASSUME EngineInv, PadElement PROVE EngineInv'
  <1>0. /\ TypeOK /\ pads \in PadConfigs /\ queue \in Seq(Commands)
        /\ it.req = 0 /\ Working /\ polls = 0 /\ pads' = pads /\ dcma' = dcma
        /\ polls' = 0
    BY DEF EngineInv, TypeOK, PadElement
  <1>1. /\ Cmd \in Commands /\ Iter \in Iteration
        /\ InStep(Cmd, pads, Iter) /\ Iter.req = 0
        /\ Iter.x < Cmd.w /\ Iter.y < Cmd.h
    BY <1>0, WorkInStep
  <1>2. Ref!Padded(Cmd, pads, Iter.x, Iter.y)
    BY <1>0, <1>1, PaddingRegion DEF PadElement
  <1>3. it' = [Increment(Cmd, Iter, 1) EXCEPT !.loc = @ + 1, !.total = Sub(@, 1)]
    BY DEF PadElement
  <1>4. it' \in Iteration
    <2>1. Increment(Cmd, Iter, 1) \in Iteration
      BY <1>1, IncrementType
    <2> QED BY <1>3, <2>1, StepTypes
  <1>5. /\ it'.req = 0
        /\ it'.total # 0 => InStep(Cmd, pads, it')
    BY <1>0, <1>1, <1>2, <1>3, <1>4, PadWalk
  <1>6. done' = (it'.total = 0) /\ command' = Cmd
        /\ queue' = (IF Pops THEN Tail(queue) ELSE queue)
    BY DEF PadElement, TakeCommand
  <1>7. TypeOK'
    <2>1. pads.value \in Values
      BY <1>0, CommandAssumption DEF PadConfig
    <2>2. lm' \in [Units -> [LocWords -> Values]]
      BY <1>0, <2>1, WriteLocalType DEF TypeOK, PadElement
    <2>3. queue' \in Seq(Commands)
      BY <1>0, <1>6 DEF Pops
    <2>4. done' \in BOOLEAN
      BY <1>6
    <2> QED BY <1>0, <1>1, <1>4, <1>6, <2>2, <2>3, <2>4 DEF TypeOK, PadElement, Iteration
  <1>8. RequestsAgree'
    BY <1>0, <1>5 DEF EngineInv, RequestsAgree
  <1>9. IterationInStep'
    <2>1. ~ done' => InStep(command', pads', it')
      BY <1>0, <1>5, <1>6
    <2>2. ~ (it'.req > 0)
      BY <1>5
    <2> QED BY <1>1, <1>6, <2>1, <2>2 DEF IterationInStep
  <1> QED BY <1>5, <1>7, <1>8, <1>9 DEF EngineInv

\* A request keeps the walk in step, and is for the words it has come to.
LEMMA RequestRowInv ==
  ASSUME EngineInv, RequestRow PROVE EngineInv'
  <1>0. /\ TypeOK /\ pads \in PadConfigs /\ queue \in Seq(Commands)
        /\ it.req = 0 /\ Working /\ polls = 0 /\ pads' = pads
        /\ polls' = 0
    BY DEF EngineInv, TypeOK, RequestRow
  <1>1. /\ Cmd \in Commands /\ Iter \in Iteration
        /\ InStep(Cmd, pads, Iter) /\ Iter.req = 0
        /\ Iter.x < Cmd.w /\ Iter.y < Cmd.h
    BY <1>0, WorkInStep
  <1>2. ~ Ref!Padded(Cmd, pads, Iter.x, Iter.y)
    BY <1>0, <1>1, PaddingRegion DEF RequestRow
  <1> DEFINE n == BurstLength(Cmd)
  <1>3. /\ it' = [Increment(Cmd, Iter, n) EXCEPT !.ext = @ + Sub(n + Cmd.leap, 1), !.req = n]
        /\ dcma' = [word |-> Iter.ext, len |-> n, iter |-> 0]
        /\ done' = FALSE /\ command' = Cmd
        /\ queue' = (IF Pops THEN Tail(queue) ELSE queue)
    BY DEF RequestRow, TakeCommand
  <1>4. n = Cmd.w - Pad(Cmd, pads, "left") - Pad(Cmd, pads, "right")
    BY <1>0, <1>1, BurstIsRow
  <1> HIDE DEF n
  <1>5. n \in Nat
    BY <1>0, <1>1, <1>4, Geometry
  <1>6. it' \in Iteration
    <2>1. Increment(Cmd, Iter, n) \in Iteration
      BY <1>1, <1>5, IncrementType
    <2>2. n + Cmd.leap \in Nat
      BY <1>0, <1>1, <1>5, Geometry
    <2> QED BY <1>3, <1>5, <2>1, <2>2, StepTypes
  <1>7. /\ it'.req = n /\ n # 0
        /\ InStep(Cmd, pads, it')
        /\ Column(Cmd, it') = Iter.x /\ Row(Cmd, it') = Iter.y
        /\ Iter.ext = Ref!ExtAddr(Cmd, pads, Iter.x, Iter.y)
    <2>1. it' = Requested(Cmd, Iter, n)
      BY <1>3 DEF Requested
    <2> QED BY <2>1, <1>0, <1>1, <1>2, <1>4, <1>5, <1>6, RequestWalk
  <1>8. dcma'.word = Iter.ext /\ dcma'.len = n /\ dcma'.iter = 0 /\ Iter.ext \in Int
    BY <1>1, <1>3 DEF Iteration
  <1>9. TypeOK'
    <2>1. queue' \in Seq(Commands)
      BY <1>0, <1>3 DEF Pops
    <2>2. dcma' \in [word : Int, len : Nat, iter : Nat]
      BY <1>3, <1>5, <1>8
    <2> QED BY <1>0, <1>1, <1>3, <1>6, <2>1, <2>2
            DEF TypeOK, RequestRow, memory, Iteration
  <1>10. RequestsAgree'
    BY <1>0, <1>5, <1>7, <1>8 DEF RequestsAgree
  <1>11. IterationInStep'
    <2>1. dcma'.word + dcma'.iter = Ref!ExtAddr(Cmd, pads, Iter.x, Iter.y)
      BY <1>7, <1>8
    <2> QED BY <1>0, <1>1, <1>3, <1>7, <2>1 DEF IterationInStep
  <1> QED BY <1>3, <1>9, <1>10, <1>11 DEF EngineInv

\* The place of a word in a request is in the memories.
LEMMA RequestPlace ==
  ASSUME EngineInv, it.req > 0
  PROVE  /\ ~ done /\ command \in Commands /\ it \in Iteration
         /\ InStep(command, pads, it)
         /\ ~ Ref!Padded(command, pads, Column(command, it), Row(command, it))
         /\ it.loc = Ref!LocAddr(command, Column(command, it), Row(command, it))
         /\ it.loc \in LocWords
         /\ dcma.word + dcma.iter
              = Ref!ExtAddr(command, pads, Column(command, it), Row(command, it))
         /\ dcma.word + dcma.iter \in ExtWords
  <1>1. /\ it \in Iteration /\ ~ done /\ pads \in PadConfigs
    BY DEF EngineInv, TypeOK, Iteration
  <1>2. /\ command \in Commands /\ InStep(command, pads, it)
        /\ dcma.word + dcma.iter
             = Ref!ExtAddr(command, pads, Column(command, it), Row(command, it))
    BY <1>1 DEF EngineInv, IterationInStep
  <1>3. /\ Column(command, it) \in 0 .. command.w - 1
        /\ Row(command, it) \in 0 .. command.h - 1
        /\ ~ Ref!Padded(command, pads, Column(command, it), Row(command, it))
        /\ it.loc = Ref!LocAddr(command, Column(command, it), Row(command, it))
    BY <1>2 DEF InStep
  <1> QED BY <1>1, <1>2, <1>3, CommandAssumption

\* A word that is moved keeps the walk in step and leaves the rest of the
\* request in the DCMA.
LEMMA MoveWordInv ==
  ASSUME EngineInv, MoveWord PROVE EngineInv'
  <1>0. /\ TypeOK /\ pads \in PadConfigs /\ it.req > 0
        /\ pads' = pads /\ queue' = queue /\ command' = command /\ given' = given
    BY DEF EngineInv, TypeOK, MoveWord
  <1>1. /\ ~ done /\ command \in Commands /\ it \in Iteration
        /\ InStep(command, pads, it)
        /\ it.loc \in LocWords /\ dcma.word + dcma.iter \in ExtWords
        /\ dcma.word + dcma.iter
             = Ref!ExtAddr(command, pads, Column(command, it), Row(command, it))
    BY <1>0, RequestPlace
  <1>2. /\ it' = [it EXCEPT !.loc = @ + 1, !.req = @ - 1, !.total = Sub(@, 1)]
        /\ dcma' = [dcma EXCEPT !.iter = @ + 1]
        /\ polls' = IF it'.req = 0 THEN 0 ELSE PollsLeft - 1
    BY DEF MoveWord
  <1>3. done' = (it'.req = 0 /\ it'.total = 0)
    BY DEF MoveWord
  <1>4. it' \in Iteration
    BY <1>0, <1>1, <1>2, StepTypes
  <1>5. /\ it'.total = 0 => it'.req = 0
        /\ it'.req = it.req - 1
        /\ it'.total # 0 =>
             /\ InStep(command, pads, it')
             /\ Column(command, it') =
                  (IF Column(command, it) + 1 = command.w THEN 0 ELSE Column(command, it) + 1)
             /\ Row(command, it') =
                  (IF Column(command, it) + 1 < command.w
                   THEN Row(command, it) ELSE Row(command, it) + 1)
        /\ it'.req > 0 => Column(command, it) + 1 < command.w
    <2>1. it' = Moved(it)
      BY <1>2 DEF Moved
    <2> QED BY <2>1, <1>0, <1>1, <1>4, MoveWalk
  <1>6. /\ dcma \in [word : Int, len : Nat, iter : Nat]
        /\ dcma.word \in Int /\ dcma.len \in Nat /\ dcma.iter \in Nat
    BY <1>0 DEF TypeOK
  <1>7. dcma'.word = dcma.word /\ dcma'.len = dcma.len /\ dcma'.iter = dcma.iter + 1
    BY <1>2, <1>6
  <1>8. TypeOK'
    <2>1. lm' \in [Units -> [LocWords -> Values]] /\ ext' \in [ExtWords -> Values]
      <3>1. CASE IsLoad(command)
        <4>1. ext[dcma.word + dcma.iter] \in Values
          BY <1>0, <1>1 DEF TypeOK
        <4> QED BY <3>1, <4>1, <1>0, WriteLocalType DEF MoveWord, TypeOK
      <3>2. CASE ~ IsLoad(command)
        <4>1. lm[FirstUnit(command)][it.loc] \in Values
          <5>1. FirstUnit(command) \in Units
            BY <1>1, FirstUnitExists
          <5>2. lm[FirstUnit(command)] \in [LocWords -> Values]
            BY <5>1, <1>0 DEF TypeOK
          <5> QED BY <5>2, <1>1
        <4> QED BY <3>2, <4>1, <1>0 DEF MoveWord, TypeOK
      <3> QED BY <3>1, <3>2
    <2>2. dcma' \in [word : Int, len : Nat, iter : Nat]
      BY <1>2, <1>6
    <2>3. polls' \in 0 .. PortWords - 1
      <3>1. polls \in 0 .. PortWords - 1 /\ PortWords \in Nat \ {0}
        BY <1>0 DEF TypeOK
      <3>2. PollsLeft - 1 \in 0 .. PortWords - 1
        BY <3>1 DEF PollsLeft
      <3> QED BY <1>2, <3>1, <3>2
    <2>4. done' \in BOOLEAN
      BY <1>3
    <2> QED BY <1>0, <1>4, <2>1, <2>2, <2>3, <2>4 DEF TypeOK, Iteration
  <1>9. RequestsAgree'
    <2>1. dcma.len - dcma.iter = it.req
      BY DEF EngineInv, RequestsAgree
    <2>2. it.req \in Nat /\ it'.req \in Nat
      BY <1>1, <1>4 DEF Iteration
    <2>3. dcma'.len - dcma'.iter = it'.req
      BY <2>1, <2>2, <1>5, <1>6, <1>7
    <2>4. polls' > 0 => it'.req > 0
      BY <2>2, <1>2
    <2> QED BY <2>3, <2>4 DEF RequestsAgree
  <1>10. IterationInStep'
    <2> SUFFICES ASSUME ~ done'
                 PROVE  /\ InStep(command', pads', it')
                        /\ it'.req > 0 =>
                             dcma'.word + dcma'.iter =
                               Ref!ExtAddr(command', pads', Column(command', it'),
                                           Row(command', it'))
      BY <1>0, <1>1 DEF IterationInStep
    <2>1. it'.total # 0
      BY <1>3, <1>5
    <2>2. ASSUME it'.req > 0
          PROVE  dcma'.word + dcma'.iter =
                   Ref!ExtAddr(command, pads, Column(command, it'), Row(command, it'))
      <3> DEFINE x == Column(command, it)
                 y == Row(command, it)
                 K == (y - Ref!PadOf(command, pads, "top"))
                        * (Ref!RowLen(command, pads) + command.leap - 1)
                 left == Ref!PadOf(command, pads, "left")
      <3>0. x \in Int /\ y \in Int /\ command.w \in Int
        BY <1>0, <1>1, Geometry DEF InStep
      <3>1. Column(command, it') = x + 1 /\ Row(command, it') = y
        <4>1. x + 1 < command.w
          BY <2>2, <1>5
        <4>a. \A a, b \in Int : a + 1 < b => a + 1 # b
          OBVIOUS
        <4>2. x + 1 # command.w
          BY <4>1, <4>a, <3>0
        <4> QED BY <4>1, <4>2, <2>1, <1>5
      <3>2. x \in Int /\ y \in Int
        BY <1>1 DEF InStep
      <3>3. left \in Nat /\ command.ext \in Int
        BY <1>0, <1>1, Geometry DEF Pad
      <3>4. K \in Int
        <4>1. /\ Ref!PadOf(command, pads, "top") \in Int
              /\ Ref!RowLen(command, pads) + command.leap - 1 \in Int
          BY <1>0, <1>1, Geometry DEF Pad, Ref!RowLen
        <4> QED BY <4>1, <3>2
      <3>5. /\ Ref!ExtAddr(command, pads, x, y) = command.ext + K + x - left
            /\ Ref!ExtAddr(command, pads, x + 1, y) = command.ext + K + (x + 1) - left
        BY DEF Ref!ExtAddr
      <3>6. dcma.word + dcma.iter = Ref!ExtAddr(command, pads, x, y)
        BY <1>1
      <3> HIDE DEF x, y, K, left
      <3> QED BY <3>1, <3>2, <3>3, <3>4, <3>5, <3>6, <1>6, <1>7
    <2> QED BY <2>1, <2>2, <1>0, <1>5
  <1> QED BY <1>3, <1>8, <1>9, <1>10 DEF EngineInv

\* Every step keeps the invariant.
LEMMA InvStep ==
  ASSUME EngineInv, [Next]_vars PROVE EngineInv'
  <1> USE DEF EngineInv
  <1>1. CASE PadElement
    BY <1>1, PadElementInv
  <1>2. CASE RequestRow
    BY <1>2, RequestRowInv
  <1>3. CASE MoveWord
    BY <1>3, MoveWordInv
  <1>4. CASE PollNotReady
    <2>1. PollsLeft - 1 \in 0 .. PortWords - 1
      <3>1. polls \in 0 .. PortWords - 1 /\ PortWords \in Nat \ {0}
        BY DEF TypeOK
      <3> QED BY <3>1 DEF PollsLeft
    <2>2. TypeOK'
      BY <1>4, <2>1 DEF TypeOK, PollNotReady, memory
    <2> QED BY <1>4, <2>2 DEF PollNotReady, RequestsAgree, IterationInStep
  <1>5. CASE ExecuteCmd
    <2>1. given' \in 0 .. MaxCommands
      BY <1>5 DEF ExecuteCmd, TypeOK
    <2>2. queue' \in Seq(Commands)
      BY <1>5 DEF ExecuteCmd, TypeOK
    <2>3. TypeOK'
      BY <1>5, <2>1, <2>2 DEF TypeOK, ExecuteCmd, memory
    <2> QED BY <1>5, <2>3 DEF ExecuteCmd, RequestsAgree, IterationInStep
  <1>6. CASE SetPads
    <2>1. TypeOK'
      BY <1>6 DEF TypeOK, SetPads, memory
    <2> QED BY <1>6, <2>1 DEF SetPads, Busy, RequestsAgree, IterationInStep
  <1>7. CASE UNCHANGED vars \/ IdleTick
    <2>1. UNCHANGED vars
      BY <1>7 DEF IdleTick
    <2>2. TypeOK'
      BY <2>1 DEF TypeOK, vars, memory
    <2>3. RequestsAgree' /\ IterationInStep' /\ (done' => it'.req = 0)
      BY <2>1 DEF RequestsAgree, IterationInStep, vars, memory
    <2> QED BY <2>2, <2>3
  <1> QED BY <1>1, <1>2, <1>3, <1>4, <1>5, <1>6, <1>7 DEF Next, Tick

\* The DMA and its request in the DCMA stay in step with the block, for every
\* set of commands that fit into the memories: increment_iteration and the
\* addresses DMA::tick derives from it.
THEOREM EngineInStep == Spec => []EngineInv
  <1>1. Init => EngineInv
    <2> SUFFICES ASSUME Init PROVE EngineInv
      OBVIOUS
    <2>1. ext \in [ExtWords -> Values] /\ lm \in [Units -> [LocWords -> Values]]
      BY DEF Init
    <2>2. it \in [x : Nat, y : Nat, loc : Int, ext : Int, req : Nat, total : Nat]
      BY DEF Init
    <2>3. TypeOK
      BY <2>1, <2>2 DEF Init, TypeOK
    <2> QED BY <2>3 DEF Init, EngineInv, RequestsAgree, IterationInStep
  <1>2. EngineInv /\ [Next]_vars => EngineInv'
    BY InvStep
  <1> QED BY <1>1, <1>2, PTL DEF Spec

\* Every variable keeps its type.
THEOREM TypeCorrect == Spec => []TypeOK
  <1>1. EngineInv => TypeOK
    BY DEF EngineInv
  <1> QED BY <1>1, EngineInStep, PTL

\* The DMA polls for exactly the words the DCMA still owes: DMA::tick never
\* replaces a request that is not complete.
THEOREM RequestsComplete == Spec => []RequestsAgree
  <1>1. EngineInv => RequestsAgree
    BY DEF EngineInv
  <1> QED BY <1>1, EngineInStep, PTL

-----------------------------------------------------------------------------
(* The DMA implements the block copy.                                      *)

\* What the DMA still has to do, and where it is.
Todo == (IF done THEN <<>> ELSE <<command>>) \o queue
CopyX == IF done THEN 0 ELSE Column(command, it)
CopyY == IF done THEN 0 ELSE Row(command, it)

LEMMA FirstAndRest ==
  ASSUME NEW c \in Commands, NEW q \in Seq(Commands)
  PROVE  /\ <<c>> \o q # <<>> /\ Head(<<c>> \o q) = c /\ Tail(<<c>> \o q) = q
         /\ <<>> \o q = q
  <1>1. <<c>> \in Seq(Commands) /\ Len(<<c>>) = 1 /\ <<c>>[1] = c
    OBVIOUS
  <1>2. /\ <<c>> \o q \in Seq(Commands)
        /\ Len(<<c>> \o q) = 1 + Len(q)
        /\ \A k \in 1 .. 1 + Len(q) : (<<c>> \o q)[k] = IF k <= 1 THEN <<c>>[k] ELSE q[k - 1]
    BY <1>1, ConcatProperties
  <1>3. Len(q) \in Nat
    OBVIOUS
  <1>4. <<c>> \o q # <<>> /\ (<<c>> \o q)[1] = c
    BY <1>1, <1>2, <1>3
  <1>5. Head(<<c>> \o q) = c
    BY <1>2, <1>4
  <1>6. Tail(<<c>> \o q) = q
    <2>1. /\ Tail(<<c>> \o q) \in Seq(Commands)
          /\ Len(Tail(<<c>> \o q)) = Len(q)
          /\ \A k \in 1 .. Len(q) : Tail(<<c>> \o q)[k] = (<<c>> \o q)[k + 1]
      BY <1>2, <1>3, <1>4, HeadTailProperties
    <2>2. \A k \in 1 .. Len(q) : Tail(<<c>> \o q)[k] = q[k]
      BY <1>2, <1>3, <2>1
    <2> QED BY <2>1, <2>2, SeqEqual
  <1> QED BY <1>4, <1>5, <1>6, ConcatEmptySeq

LEMMA SplitFirst ==
  ASSUME NEW q \in Seq(Commands), q # <<>>
  PROVE  q = <<Head(q)>> \o Tail(q)
  <1>1. Head(q) \in Commands /\ Tail(q) \in Seq(Commands) /\ <<Head(q)>> \in Seq(Commands)
    BY HeadTailProperties
  <1>2. /\ Len(Tail(q)) = Len(q) - 1
        /\ \A k \in 1 .. Len(Tail(q)) : Tail(q)[k] = q[k + 1]
    BY HeadTailProperties
  <1>3. /\ <<Head(q)>> \o Tail(q) \in Seq(Commands)
        /\ Len(<<Head(q)>> \o Tail(q)) = Len(<<Head(q)>>) + Len(Tail(q))
        /\ \A k \in 1 .. Len(<<Head(q)>>) + Len(Tail(q)) :
             (<<Head(q)>> \o Tail(q))[k] =
               IF k <= Len(<<Head(q)>>) THEN <<Head(q)>>[k] ELSE Tail(q)[k - Len(<<Head(q)>>)]
    BY <1>1, ConcatProperties
  <1>4. Len(<<Head(q)>>) = 1 /\ <<Head(q)>>[1] = q[1] /\ Len(q) \in Nat \ {0}
    OBVIOUS
  <1>5. Len(<<Head(q)>> \o Tail(q)) = Len(q)
    BY <1>2, <1>3, <1>4
  <1>6. \A k \in 1 .. Len(q) : (<<Head(q)>> \o Tail(q))[k] = q[k]
    BY <1>2, <1>3, <1>4
  <1> QED BY <1>3, <1>5, <1>6, SeqEqual

\* A tick works on the first command there is.
LEMMA WorkTodo ==
  ASSUME EngineInv, it.req = 0, Working
  PROVE  /\ Todo # <<>> /\ Head(Todo) = Cmd
         /\ Tail(Todo) = (IF Pops THEN Tail(queue) ELSE queue)
         /\ Todo = <<Cmd>> \o (IF Pops THEN Tail(queue) ELSE queue)
         /\ Tail(Todo) \in Seq(Commands)
         /\ CopyX = Iter.x /\ CopyY = Iter.y
  <1>0. queue \in Seq(Commands)
    BY DEF EngineInv, TypeOK
  <1>1. CASE Pops
    <2>1. queue # <<>> /\ done /\ Cmd = Head(queue)
      BY <1>1 DEF Pops, Cmd
    <2>2. Todo = queue
      BY <1>0, <2>1, ConcatEmptySeq DEF Todo
    <2>3. Tail(queue) \in Seq(Commands)
      BY <1>0, <2>1
    <2>4. queue = <<Cmd>> \o Tail(queue)
      BY <1>0, <2>1, SplitFirst
    <2>5. CopyX = Iter.x /\ CopyY = Iter.y
      BY <1>1, <2>1, WorkInStep DEF CopyX, CopyY
    <2> QED BY <1>1, <2>1, <2>2, <2>3, <2>4, <2>5
  <1>2. CASE ~ Pops
    <2>1. ~ done /\ Cmd = command /\ Iter = it /\ Cmd \in Commands
          /\ Column(Cmd, Iter) = Iter.x /\ Row(Cmd, Iter) = Iter.y
      BY <1>2, WorkInStep DEF Working
    <2>2. Todo = <<Cmd>> \o queue
      BY <2>1 DEF Todo
    <2> QED BY <1>0, <1>2, <2>1, <2>2, FirstAndRest DEF CopyX, CopyY
  <1> QED BY <1>1, <1>2

\* The geometry of both modules is the same.
LEMMA SameGeometry ==
  ASSUME NEW c, NEW p, NEW x, NEW y
  PROVE  /\ Copy!ExtAddr(c, p, x, y) = Ref!ExtAddr(c, p, x, y)
         /\ Copy!LocAddr(c, x, y) = Ref!LocAddr(c, x, y)
         /\ Copy!Padded(c, p, x, y) = Ref!Padded(c, p, x, y)
         /\ Copy!IsLoad(c) = IsLoad(c)
         /\ Copy!FirstUnit(c) = FirstUnit(c)
  BY DEF Copy!ExtAddr, Ref!ExtAddr, Copy!LocAddr, Ref!LocAddr, Copy!Padded, Ref!Padded,
         Copy!PadOf, Ref!PadOf, Copy!RowLen, Ref!RowLen, Copy!IsLoad, IsLoad,
         Copy!FirstUnit, FirstUnit

\* A word of padding is a move of the block copy.
LEMMA PadElementMoves ==
  ASSUME EngineInv, PadElement PROVE Copy!Move
  <1>0. /\ pads \in PadConfigs /\ it.req = 0 /\ Working /\ pads' = pads /\ ext' = ext
        /\ EngineInv'
    BY PadElementInv DEF EngineInv, TypeOK, PadElement
  <1>1. /\ Cmd \in Commands /\ Iter \in Iteration
        /\ InStep(Cmd, pads, Iter) /\ Iter.req = 0
        /\ Iter.x < Cmd.w /\ Iter.y < Cmd.h
        /\ Column(Cmd, Iter) = Iter.x /\ Row(Cmd, Iter) = Iter.y
    BY <1>0, WorkInStep
  <1>2. InPadding(Cmd, Iter) /\ Ref!Padded(Cmd, pads, Iter.x, Iter.y)
    BY <1>0, <1>1, PaddingRegion DEF PadElement
  <1> DEFINE Rest == IF Pops THEN Tail(queue) ELSE queue
  <1>3. /\ Todo # <<>> /\ Head(Todo) = Cmd /\ Tail(Todo) = Rest
        /\ Rest \in Seq(Commands) /\ Todo = <<Cmd>> \o Rest
        /\ CopyX = Iter.x /\ CopyY = Iter.y
    BY <1>0, WorkTodo
  <1>4. queue' = Rest /\ command' = Cmd /\ done' = (it'.total = 0)
    BY DEF PadElement, TakeCommand
  <1> HIDE DEF Rest
  <1>5. /\ it'.total = 0 <=> (Iter.x + 1 = Cmd.w /\ Iter.y + 1 = Cmd.h)
        /\ it'.total # 0 =>
              /\ Column(Cmd, it') = (IF Iter.x + 1 = Cmd.w THEN 0 ELSE Iter.x + 1)
              /\ Row(Cmd, it') = (IF Iter.x + 1 < Cmd.w THEN Iter.y ELSE Iter.y + 1)
    <2>1. it' = [Increment(Cmd, Iter, 1) EXCEPT !.loc = @ + 1, !.total = Sub(@, 1)]
      BY DEF PadElement
    <2>2. it' \in Iteration
      BY <1>0 DEF EngineInv, TypeOK, Iteration
    <2> QED BY <2>1, <2>2, <1>0, <1>1, <1>2, PadWalk
  <1>6. Copy!Transfer(Cmd)
    <2>1. IsLoad(Cmd)
      BY <1>2 DEF InPadding, IsLoad
    <2>2. Iter.loc = Ref!LocAddr(Cmd, Iter.x, Iter.y)
      BY <1>1 DEF InStep
    <2>3. lm' = [u \in Units |-> IF u \in Cmd.units
                                 THEN [lm[u] EXCEPT ![Iter.loc] = pads.value] ELSE lm[u]]
      BY DEF PadElement, WriteLocal
    <2>4. /\ Copy!IsLoad(Cmd) /\ Copy!Padded(Cmd, pads, CopyX, CopyY)
          /\ Copy!LocAddr(Cmd, CopyX, CopyY) = Iter.loc
      BY <2>1, <2>2, <1>2, <1>3, SameGeometry
    <2> QED BY <2>3, <2>4, <1>0 DEF Copy!Transfer, CopyX, CopyY
  <1>7. Copy!Advance(Cmd)
    <2>1. Cmd.w \in Nat \ {0} /\ Cmd.h \in Nat \ {0} /\ Iter.x \in Nat /\ Iter.y \in Nat
      BY <1>0, <1>1, Geometry DEF Iteration
    <2>2. CopyX' = (IF Iter.x + 1 = Cmd.w THEN 0 ELSE Iter.x + 1)
      BY <1>4, <1>5 DEF CopyX
    <2>3. CopyY' = (IF Iter.x + 1 < Cmd.w THEN Iter.y
                    ELSE IF Iter.y + 1 = Cmd.h THEN 0 ELSE Iter.y + 1)
      <3>1. ~ (Iter.x + 1 < Cmd.w) <=> Iter.x + 1 = Cmd.w
        BY <2>1, <1>1
      <3>2. CASE it'.total = 0
        BY <3>1, <3>2, <1>4, <1>5 DEF CopyY
      <3>3. CASE it'.total # 0
        BY <3>1, <3>3, <1>4, <1>5 DEF CopyY
      <3> QED BY <3>2, <3>3
    <2>4. Todo' = (IF Iter.x + 1 = Cmd.w /\ Iter.y + 1 = Cmd.h THEN Tail(Todo) ELSE Todo)
      <3>1. CASE it'.total = 0
        BY <3>1, <1>1, <1>3, <1>4, <1>5, FirstAndRest DEF Todo
      <3>2. CASE it'.total # 0
        BY <3>2, <1>3, <1>4, <1>5 DEF Todo
      <3> QED BY <3>1, <3>2
    <2> QED BY <2>2, <2>3, <2>4, <1>3 DEF Copy!Advance, Todo, CopyX, CopyY
  <1> QED BY <1>0, <1>3, <1>6, <1>7 DEF Copy!Move, Todo

\* A request is not seen by the block copy.
LEMMA RequestRowStutters ==
  ASSUME EngineInv, RequestRow PROVE UNCHANGED <<ext, lm, pads, Todo, CopyX, CopyY>>
  <1>0. /\ pads \in PadConfigs /\ it.req = 0 /\ Working /\ EngineInv'
        /\ pads' = pads /\ ext' = ext /\ lm' = lm
    BY RequestRowInv DEF EngineInv, TypeOK, RequestRow, memory
  <1>1. /\ Cmd \in Commands /\ Iter \in Iteration
        /\ InStep(Cmd, pads, Iter) /\ Iter.req = 0
        /\ Iter.x < Cmd.w /\ Iter.y < Cmd.h
    BY <1>0, WorkInStep
  <1>2. ~ Ref!Padded(Cmd, pads, Iter.x, Iter.y)
    BY <1>0, <1>1, PaddingRegion DEF RequestRow
  <1> DEFINE n == BurstLength(Cmd)
  <1>3. /\ it' = Requested(Cmd, Iter, n)
        /\ done' = FALSE /\ command' = Cmd
        /\ queue' = (IF Pops THEN Tail(queue) ELSE queue)
    BY DEF RequestRow, TakeCommand, Requested
  <1>4. n = Cmd.w - Pad(Cmd, pads, "left") - Pad(Cmd, pads, "right")
    BY <1>0, <1>1, BurstIsRow
  <1> HIDE DEF n
  <1>5. n \in Nat
    BY <1>0, <1>1, <1>4, Geometry
  <1>6. Column(Cmd, it') = Iter.x /\ Row(Cmd, it') = Iter.y
    <2>1. it' \in Iteration
      BY <1>0 DEF EngineInv, TypeOK, Iteration
    <2> QED BY <2>1, <1>0, <1>1, <1>2, <1>3, <1>4, <1>5, RequestWalk
  <1>7. CopyX' = CopyX /\ CopyY' = CopyY
    BY <1>0, <1>3, <1>6, WorkTodo DEF CopyX, CopyY
  <1>8. Todo' = Todo
    <2>1. Todo' = <<Cmd>> \o (IF Pops THEN Tail(queue) ELSE queue)
      BY <1>3 DEF Todo
    <2> QED BY <2>1, <1>0, WorkTodo
  <1> QED BY <1>0, <1>7, <1>8

\* A word moved by a poll is a move of the block copy.
LEMMA MoveWordMoves ==
  ASSUME EngineInv, MoveWord PROVE Copy!Move
  <1>0. /\ pads \in PadConfigs /\ it.req > 0 /\ queue \in Seq(Commands) /\ EngineInv'
        /\ pads' = pads /\ queue' = queue /\ command' = command
    BY MoveWordInv DEF EngineInv, TypeOK, MoveWord
  <1>1. /\ ~ done /\ command \in Commands /\ it \in Iteration
        /\ InStep(command, pads, it)
        /\ ~ Ref!Padded(command, pads, Column(command, it), Row(command, it))
        /\ it.loc = Ref!LocAddr(command, Column(command, it), Row(command, it))
        /\ dcma.word + dcma.iter
             = Ref!ExtAddr(command, pads, Column(command, it), Row(command, it))
    BY <1>0, RequestPlace
  <1> DEFINE x == Column(command, it)
             y == Row(command, it)
  <1>2. /\ Todo = <<command>> \o queue /\ CopyX = x /\ CopyY = y
    BY <1>1 DEF Todo, CopyX, CopyY
  <1>3. Todo # <<>> /\ Head(Todo) = command /\ Tail(Todo) = queue /\ <<>> \o queue = queue
    BY <1>0, <1>1, <1>2, FirstAndRest
  <1>4. x \in Int /\ y \in Int /\ x < command.w /\ y < command.h
        /\ command.w \in Nat /\ command.h \in Nat
    <2>1. x \in 0 .. command.w - 1 /\ y \in 0 .. command.h - 1
      BY <1>1 DEF InStep
    <2>2. command.w \in Nat /\ command.h \in Nat
      BY <1>0, <1>1, Geometry
    <2> QED BY <2>1, <2>2
  <1>5. /\ it'.total = 0 <=> (x + 1 = command.w /\ y + 1 = command.h)
        /\ it'.total = 0 => it'.req = 0
        /\ it'.total # 0 =>
             /\ Column(command, it') = (IF x + 1 = command.w THEN 0 ELSE x + 1)
             /\ Row(command, it') = (IF x + 1 < command.w THEN y ELSE y + 1)
    <2>1. it' = Moved(it)
      BY DEF MoveWord, Moved
    <2>2. it' \in Iteration
      BY <1>0 DEF EngineInv, TypeOK, Iteration
    <2> QED BY <2>1, <2>2, <1>0, <1>1, MoveWalk
  <1>6. done' = (it'.req = 0 /\ it'.total = 0)
    BY DEF MoveWord
  <1>7. done' <=> it'.total = 0
    BY <1>5, <1>6
  <1>8. Copy!Transfer(command)
    <2>1. /\ Copy!IsLoad(command) = IsLoad(command)
          /\ ~ Copy!Padded(command, pads, CopyX, CopyY)
          /\ Copy!LocAddr(command, CopyX, CopyY) = it.loc
          /\ Copy!ExtAddr(command, pads, CopyX, CopyY) = dcma.word + dcma.iter
          /\ Copy!FirstUnit(command) = FirstUnit(command)
      BY <1>1, <1>2, SameGeometry
    <2>2. CASE IsLoad(command)
      <3>1. /\ lm' = [u \in Units |-> IF u \in command.units
                      THEN [lm[u] EXCEPT ![it.loc] = ext[dcma.word + dcma.iter]] ELSE lm[u]]
            /\ ext' = ext
        BY <2>2 DEF MoveWord, WriteLocal
      <3> QED BY <3>1, <2>1, <2>2 DEF Copy!Transfer, CopyX, CopyY
    <2>3. CASE ~ IsLoad(command)
      <3>1. /\ ext' = [ext EXCEPT ![dcma.word + dcma.iter] = lm[FirstUnit(command)][it.loc]]
            /\ lm' = lm
        BY <2>3 DEF MoveWord
      <3> QED BY <3>1, <2>1, <2>3 DEF Copy!Transfer, CopyX, CopyY
    <2> QED BY <2>2, <2>3
  <1> HIDE DEF x, y
  <1>9. Copy!Advance(command)
    <2>1. CopyX' = (IF x + 1 = command.w THEN 0 ELSE x + 1)
      BY <1>0, <1>5, <1>7 DEF CopyX
    <2>2. CopyY' = (IF x + 1 < command.w THEN y
                    ELSE IF y + 1 = command.h THEN 0 ELSE y + 1)
      <3>1. CASE it'.total = 0
        <4>1. ~ (x + 1 < command.w)
          BY <3>1, <1>4, <1>5
        <4> QED BY <4>1, <3>1, <1>5, <1>7 DEF CopyY
      <3>2. CASE it'.total # 0
        <4>1. ~ (x + 1 < command.w) => x + 1 = command.w
          BY <1>4
        <4> QED BY <4>1, <3>2, <1>0, <1>5, <1>7 DEF CopyY
      <3> QED BY <3>1, <3>2
    <2>3. Todo' = (IF x + 1 = command.w /\ y + 1 = command.h THEN Tail(Todo) ELSE Todo)
      <3>1. CASE it'.total = 0
        BY <3>1, <1>0, <1>3, <1>5, <1>7 DEF Todo
      <3>2. CASE it'.total # 0
        BY <3>2, <1>0, <1>2, <1>5, <1>7 DEF Todo
      <3> QED BY <3>1, <3>2
    <2> QED BY <2>1, <2>2, <2>3, <1>2 DEF Copy!Advance, Todo, CopyX, CopyY
  <1> QED BY <1>0, <1>3, <1>8, <1>9 DEF Copy!Move, Todo

\* Every step of the DMA is a step of the block copy, or not seen by it.
LEMMA StepCopies ==
  ASSUME EngineInv, [Next]_vars PROVE [Copy!CNext]_(Copy!cvars)
  <1> SUFFICES Copy!CNext \/ UNCHANGED <<ext, lm, pads, Todo, CopyX, CopyY>>
    BY DEF Copy!cvars, Todo, CopyX, CopyY
  <1>0. queue \in Seq(Commands) /\ command \in Commands \cup {<<>>}
    BY DEF EngineInv, TypeOK
  <1>1. CASE PadElement
    BY <1>1, PadElementMoves DEF Copy!CNext
  <1>2. CASE RequestRow
    BY <1>2, RequestRowStutters
  <1>3. CASE MoveWord
    BY <1>3, MoveWordMoves DEF Copy!CNext
  <1>4. CASE PollNotReady \/ IdleTick \/ UNCHANGED vars
    BY <1>4 DEF PollNotReady, IdleTick, vars, memory, Todo, CopyX, CopyY
  <1>5. CASE ExecuteCmd
    <2>1. PICK c \in Commands : queue' = Append(queue, c)
      BY <1>5 DEF ExecuteCmd
    <2>2. /\ pads' = pads /\ ext' = ext /\ lm' = lm /\ command' = command
          /\ done' = done /\ it' = it
      BY <1>5 DEF ExecuteCmd, memory
    <2> DEFINE first == IF done THEN <<>> ELSE <<command>>
    <2>3. first \in Seq(Commands)
      <3>1. CASE done
        BY <3>1
      <3>2. CASE ~ done
        BY <3>2 DEF EngineInv, IterationInStep
      <3> QED BY <3>1, <3>2
    <2>4. Todo = first \o queue /\ Todo' = first \o queue'
      BY <2>2 DEF Todo
    <2> HIDE DEF first
    <2>5. <<c>> \in Seq(Commands) /\ first \o queue \in Seq(Commands)
      BY <2>3, <1>0, ConcatProperties
    <2>6. first \o Append(queue, c) = first \o (queue \o <<c>>)
      BY <1>0, AppendIsConcat
    <2>7. first \o (queue \o <<c>>) = (first \o queue) \o <<c>>
      BY <2>3, <2>5, <1>0, ConcatAssociative
    <2>8. (first \o queue) \o <<c>> = Append(first \o queue, c)
      BY <2>5, AppendIsConcat
    <2>9. Todo' = Append(Todo, c)
      BY <2>1, <2>4, <2>6, <2>7, <2>8
    <2>10. Copy!Give(c)
      BY <2>2, <2>9 DEF Copy!Give, Todo, CopyX, CopyY
    <2> QED BY <2>10 DEF Copy!CNext
  <1>6. CASE SetPads
    <2>1. /\ done /\ queue = <<>> /\ pads' \in PadConfigs
          /\ UNCHANGED <<ext, lm, queue, command, done, it>>
      BY <1>6 DEF SetPads, Busy, memory
    <2>2. Todo = <<>>
      BY <2>1, <1>0, ConcatEmptySeq DEF Todo
    <2>3. Todo' = Todo /\ CopyX' = CopyX /\ CopyY' = CopyY
      BY <2>1 DEF Todo, CopyX, CopyY
    <2>4. Copy!Configure
      BY <2>1, <2>2, <2>3 DEF Copy!Configure, Todo, CopyX, CopyY
    <2> QED BY <2>4 DEF Copy!CNext
  <1> QED BY <1>1, <1>2, <1>3, <1>4, <1>5, <1>6 DEF Next, Tick

\* DMA::execute_cmd and DMA::tick carry out the commands as block copies, one
\* after the other, each with the padding registers it was given with.
THEOREM EngineImplementsCopy == Spec => CopySpec
  <1>1. Init => Copy!CInit
    <2> SUFFICES ASSUME Init PROVE Copy!CInit
      OBVIOUS
    <2>1. ext \in [ExtWords -> Values] /\ lm \in [Units -> [LocWords -> Values]]
      BY DEF Init
    <2>2. Todo = <<>> /\ CopyX = 0 /\ CopyY = 0
      BY DEF Init, Todo, CopyX, CopyY
    <2> QED BY <2>1, <2>2 DEF Init, Copy!CInit, Todo, CopyX, CopyY
  <1>2. EngineInv /\ [Next]_vars => [Copy!CNext]_(Copy!cvars)
    BY StepCopies
  <1> QED BY <1>1, <1>2, EngineInStep, PTL DEF Spec, CopySpec, Copy!CSpec
=============================================================================
