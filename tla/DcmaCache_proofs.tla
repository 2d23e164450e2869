-------------------------- MODULE DcmaCache_proofs --------------------------
(* Proofs about the DCMA, for every number of clusters, geometry of the    *)
(* cache, latency and set of transfers.                                    *)
EXTENDS DcmaCache, SharedTheorems

-----------------------------------------------------------------------------
(* Arithmetic of addresses.                                                *)

\* A composed address stays in its range.
LEMMA ComposeBound ==
  ASSUME NEW n \in Nat \ {0}, NEW k \in Nat, NEW q \in 0 .. k - 1, NEW r \in 0 .. n - 1
  PROVE  q * n + r \in 0 .. k * n - 1
  <1>1. q * n <= (k - 1) * n /\ q * n >= 0
    OBVIOUS
  <1>2. (k - 1) * n = k * n - n
    OBVIOUS
  <1>3. q * n \in Int /\ k * n \in Int
    OBVIOUS
  <1> QED BY <1>1, <1>2, <1>3

-----------------------------------------------------------------------------
(* Lookup.                                                                 *)

\* A set of numbers has a first one.
LEMMA FirstIn ==
  ASSUME NEW S, S \subseteq Nat, S # {}
  PROVE  FirstOf(S) \in S /\ \A m \in S : FirstOf(S) <= m
  <1> DEFINE R == OpToRel(<, Nat)
  <1>1. IsWellFoundedOn(R, Nat)
    BY NatLessThanWellFounded
  <1>2. \E x \in S : \A y \in S : ~ (<<y, x>> \in R)
    BY <1>1, WFMin, Zenon
  <1>3. ASSUME NEW x \in S, NEW y \in S, ~ (<<y, x>> \in R)
        PROVE  x <= y
    BY <1>3 DEF OpToRel
  <1>4. \E x \in S : \A y \in S : x <= y
    BY <1>2, <1>3
  <1> QED BY <1>4 DEF FirstOf

\* A word of the main memory lies in a block of it.
LEMMA WordParts ==
  ASSUME NEW w \in MemWords
  PROVE  BlockOf(w) \in Blocks /\ OffsetOf(w) \in Offsets
  <1>1. NTags * NSets \in Nat
    BY GeometryAssumption
  <1>2. BlockOf(w) \in Blocks
    BY <1>1, DivBound, GeometryAssumption DEF MemWords, BlockOf, Blocks
  <1>3. OffsetOf(w) \in Offsets
    BY DivMod, GeometryAssumption DEF MemWords, OffsetOf, Offsets
  <1> QED BY <1>2, <1>3

\* A block is made of its tag and its set.
LEMMA BlockParts ==
  ASSUME NEW b \in Blocks
  PROVE  /\ TagOf(b) \in 0 .. NTags - 1
         /\ SetOf(b) \in Sets
         /\ b = TagOf(b) * NSets + SetOf(b)
  <1>1. NTags \in Nat /\ NSets \in Nat \ {0} /\ b \in Nat /\ b \in 0 .. NTags * NSets - 1
    BY GeometryAssumption DEF Blocks
  <1>2. TagOf(b) \in 0 .. NTags - 1
    BY <1>1, DivBound DEF TagOf
  <1>3. SetOf(b) \in Sets /\ b = TagOf(b) * NSets + SetOf(b)
    BY <1>1, DivMod DEF TagOf, SetOf, Sets
  <1> QED BY <1>2, <1>3

\* The lines of a set are lines of the cache, and every line is in its set.
LEMMA SetLines ==
  /\ \A s \in Sets : LinesOf(s) # {} /\ LinesOf(s) \subseteq Lines
  /\ \A s \in Sets : \A l \in LinesOf(s) : SetOfLine(l) = s
  /\ \A l \in Lines : SetOfLine(l) \in Sets /\ l \in LinesOf(SetOfLine(l))
  <1>0. NSets \in Nat \ {0} /\ Assoc \in Nat \ {0}
    BY GeometryAssumption
  <1>1. ASSUME NEW s \in Sets PROVE LinesOf(s) # {}
    BY <1>0 DEF LinesOf, Ways
  <1>2. ASSUME NEW s \in Sets, NEW i \in Ways PROVE s * Assoc + i \in Lines
    BY <1>0, ComposeBound DEF Sets, Ways, Lines
  <1>3. ASSUME NEW s \in Sets, NEW i \in Ways PROVE SetOfLine(s * Assoc + i) = s
    BY <1>0, DivUnique DEF Sets, Ways, SetOfLine
  <1>4. ASSUME NEW l \in Lines PROVE SetOfLine(l) \in Sets /\ l \in LinesOf(SetOfLine(l))
    <2>1. SetOfLine(l) \in Sets
      BY <1>0, DivBound DEF Lines, Sets, SetOfLine
    <2>2. l = SetOfLine(l) * Assoc + (l % Assoc) /\ l % Assoc \in Ways
      BY <1>0, DivMod DEF Lines, Ways, SetOfLine
    <2> QED BY <2>1, <2>2 DEF LinesOf
  <1> QED BY <1>1, <1>2, <1>3, <1>4 DEF LinesOf

\* A tag in a line stands for a block, and for one block only.
LEMMA HeldBlock ==
  ASSUME NEW t \in 0 .. NTags - 1, NEW l \in Lines
  PROVE  /\ t * NSets + SetOfLine(l) \in Blocks
         /\ TagOf(t * NSets + SetOfLine(l)) = t
         /\ SetOf(t * NSets + SetOfLine(l)) = SetOfLine(l)
  <1>1. NSets \in Nat \ {0} /\ NTags \in Nat \ {0} /\ SetOfLine(l) \in 0 .. NSets - 1
    BY SetLines, GeometryAssumption DEF Sets
  <1>2. t * NSets + SetOfLine(l) \in Blocks
    BY <1>1, ComposeBound DEF Blocks
  <1>3. t \in Int
    OBVIOUS
  <1> QED BY <1>1, <1>2, <1>3, DivUnique DEF TagOf, SetOf

\* The lookup finds the valid lines that hold the block.  (Stated for any
\* tags and flags, so that it can be used before and after a step.)
LEMMA LookupFinds ==
  ASSUME NEW t \in [Lines -> 0 .. NTags - 1], NEW v, NEW b \in Blocks
  PROVE  {l \in LinesOf(SetOf(b)) : v[l] /\ t[l] = TagOf(b)}
           = {l \in Lines : v[l] /\ t[l] * NSets + SetOfLine(l) = b}
  <1>1. ASSUME NEW l \in LinesOf(SetOf(b)), t[l] = TagOf(b)
        PROVE  l \in Lines /\ t[l] * NSets + SetOfLine(l) = b
    BY <1>1, BlockParts, SetLines
  <1>2. ASSUME NEW l \in Lines, t[l] * NSets + SetOfLine(l) = b
        PROVE  l \in LinesOf(SetOf(b)) /\ t[l] = TagOf(b)
    <2>1. t[l] \in 0 .. NTags - 1
      OBVIOUS
    <2>2. TagOf(b) = t[l] /\ SetOf(b) = SetOfLine(l)
      BY <1>2, <2>1, HeldBlock
    <2> QED BY <2>2, SetLines
  <1> QED BY <1>1, <1>2

-----------------------------------------------------------------------------
(* Types.                                                                  *)

\* The word an open request waits for lies in the main memory.
LEMMA OpenWord ==
  ASSUME TypeOK, NEW c \in Ids, ~ Done(c)
  PROVE  CurrentWord(c) \in MemWords /\ BlockOf(CurrentWord(c)) \in Blocks
  <1> DEFINE r == req[c]
  <1>1. /\ r \in [word : MemWords, len : Nat \ {0}, write : BOOLEAN,
                  iter : Nat, wait : Nat, open : BOOLEAN]
        /\ r.iter < r.len /\ r.word + r.len - 1 \in MemWords
    BY DEF TypeOK, Done
  <1>2. r.word \in MemWords /\ r.len \in Nat /\ r.iter \in Nat
    BY <1>1
  <1>3. NTags * NSets * LineWords \in Nat
    BY GeometryAssumption
  <1> HIDE DEF r
  <1>4. r.word + r.iter \in MemWords
    BY <1>1, <1>2, <1>3 DEF MemWords
  <1> QED BY <1>4, WordParts DEF CurrentWord, r

\* A hit finds a valid line that holds the block.
LEMMA HitLine ==
  ASSUME TypeOK, NEW b \in Blocks
  PROVE  /\ Matches(b) = {l \in Lines : valid[l] /\ Held(l) = b}
         /\ Hit(b) => FirstOf(Matches(b)) \in Matches(b)
  <1>0. tag \in [Lines -> 0 .. NTags - 1]
    BY DEF TypeOK
  <1>1. Matches(b) = {l \in Lines : valid[l] /\ Held(l) = b}
    BY <1>0, LookupFinds DEF Matches, Held
  <1>2. Lines \subseteq Nat
    BY GeometryAssumption DEF Lines
  <1> QED BY <1>1, <1>2, FirstIn DEF Hit

\* A line always stands for a block.
LEMMA HeldTyped ==
  ASSUME TypeOK, NEW l \in Lines
  PROVE  Held(l) \in Blocks
  <1>1. tag[l] \in 0 .. NTags - 1
    BY DEF TypeOK
  <1> QED BY <1>1, HeldBlock DEF Held

\* The line to replace is a line of the set.
LEMMA ReplaceTyped ==
  ASSUME TypeOK, NEW s \in Sets
  PROVE  ReplaceLine(s) \in LinesOf(s) /\ NextFifo(s) \in Ways
  <1>1. FreeLines(s) \subseteq LinesOf(s) /\ LinesOf(s) \subseteq Lines
    BY SetLines DEF FreeLines
  <1>2. FreeLines(s) \subseteq Nat
    BY <1>1, GeometryAssumption DEF Lines
  <1>3. FreeLines(s) # {} => FirstOf(FreeLines(s)) \in FreeLines(s)
    BY <1>2, FirstIn
  <1>4. fifo[s] \in Ways
    BY DEF TypeOK
  <1>5. (fifo[s] + 1) % Assoc \in Ways
    BY <1>4, DivMod, GeometryAssumption DEF Ways
  <1> QED BY <1>1, <1>3, <1>4, <1>5 DEF ReplaceLine, NextFifo, LinesOf

\* The block the pointed DMA misses, and the line replaced for it.
LEMMA MissTyped ==
  ASSUME TypeOK, PendingMiss
  PROVE  LET b == BlockOf(CurrentWord(pointer))
             l == ReplaceLine(SetOf(b))
         IN  /\ b \in Blocks /\ ~ Hit(b) /\ SetOf(b) \in Sets
             /\ l \in Lines /\ l \in LinesOf(SetOf(b))
             /\ NextFifo(SetOf(b)) \in Ways
  <1> DEFINE b == BlockOf(CurrentWord(pointer))
  <1>1. b \in Blocks /\ ~ Hit(b)
    BY OpenWord DEF PendingMiss, TypeOK
  <1> HIDE DEF b
  <1>2. SetOf(b) \in Sets
    BY <1>1, BlockParts
  <1> QED BY <1>1, <1>2, ReplaceTyped, SetLines DEF b

\* The word moved by a DMA, its line and its bram.
LEMMA MoveTyped ==
  ASSUME TypeOK, NEW c \in Ids, ~ Done(c), AccessReady(CurrentWord(c))
  PROVE  LET w == CurrentWord(c)
             l == FirstOf(Matches(BlockOf(w)))
         IN  /\ l \in Lines /\ valid[l] /\ Held(l) = BlockOf(w)
             /\ BlockOf(w) \in Blocks /\ OffsetOf(w) \in Offsets
             /\ BramOf(CacheAddr(l, OffsetOf(w))) \in 0 .. NBrams - 1
  <1> DEFINE w == CurrentWord(c)
             l == FirstOf(Matches(BlockOf(w)))
  <1>1. w \in MemWords /\ BlockOf(w) \in Blocks /\ OffsetOf(w) \in Offsets
    BY OpenWord, WordParts
  <1>2. Hit(BlockOf(w))
    BY DEF AccessReady
  <1> HIDE DEF w
  <1>3. l \in Lines /\ valid[l] /\ Held(l) = BlockOf(w)
    BY <1>1, <1>2, HitLine
  <1> HIDE DEF l
  <1>4. CacheAddr(l, OffsetOf(w)) \in Nat
    BY <1>1, <1>3, GeometryAssumption DEF CacheAddr, Lines, Offsets
  <1> DEFINE a == CacheAddr(l, OffsetOf(w))
  <1>5. a \div PortWords \in Int
    BY <1>4, GeometryAssumption
  <1>6. BramOf(a) \in 0 .. NBrams - 1
    BY <1>5, DivMod, GeometryAssumption DEF BramOf
  <1> QED BY <1>1, <1>3, <1>6 DEF l, w

\* The type of a request.
ReqRecord == [word : MemWords, len : Nat \ {0}, write : BOOLEAN,
              iter : Nat, wait : Nat, open : BOOLEAN]
ReqOK(r) ==
  /\ r \in ReqRecord
  /\ r.open => r.iter < r.len /\ r.word + r.len - 1 \in MemWords

\* A request that has moved a word is a request.
LEMMA Advance ==
  ASSUME NEW r \in ReqRecord, NEW open \in BOOLEAN
  PROVE  LET n == [r EXCEPT !.iter = @ + 1, !.open = open]
         IN  /\ n \in ReqRecord /\ n.word = r.word /\ n.len = r.len
             /\ n.iter = r.iter + 1 /\ n.open = open
  <1> DEFINE q == [r EXCEPT !.iter = @ + 1]
             n == [q EXCEPT !.open = open]
  <1>1. /\ q \in ReqRecord /\ q.word = r.word /\ q.len = r.len /\ q.iter = r.iter + 1
    BY DEF ReqRecord
  <1>2. n = [r EXCEPT !.iter = @ + 1, !.open = open]
    OBVIOUS
  <1> HIDE DEF q
  <1>3. n \in ReqRecord /\ n.word = q.word /\ n.len = q.len /\ n.iter = q.iter
    BY <1>1 DEF ReqRecord
  <1>4. n.open = open
    <2>1. "open" \in DOMAIN q
      BY <1>1 DEF ReqRecord
    <2> QED BY <2>1, Zenon
  <1> HIDE DEF n
  <1>5. \A m : m = n =>
          /\ m \in ReqRecord /\ m.word = r.word /\ m.len = r.len
          /\ m.iter = r.iter + 1 /\ m.open = open
    BY <1>1, <1>3, <1>4
  <1> QED BY <1>2, <1>5, Zenon

\* A turn leads to a turn.
LEMMA AfterPollTyped ==
  ASSUME TypeOK, NEW c \in Ids, turn = c, NEW last \in BOOLEAN,
         AfterPoll(last) \/ EndTurn
  PROVE  turn' \in 0 .. BusTurn /\ polls' \in 1 .. PortWords
  <1>1. turn \in Nat /\ turn < NClusters /\ polls \in 1 .. PortWords
    BY GeometryAssumption DEF TypeOK, Ids
  <1> QED BY <1>1, GeometryAssumption DEF AfterPoll, EndTurn, BusTurn

\* The steps of the DMAs keep the types.
LEMMA DmaStepTyped ==
  ASSUME TypeOK, NEW c \in Ids, DmaStep(c)
  PROVE  TypeOK'
  <1>1. turn = c /\ (EndTurn \/ \E last \in BOOLEAN : AfterPoll(last))
    BY DEF DmaStep, OpenRequest, SkipTurn, PollLatency, PollNotReady, MoveWord
  <1>2. turn' \in 0 .. BusTurn /\ polls' \in 1 .. PortWords
    BY <1>1, AfterPollTyped
  <1>3. UNCHANGED cacheSide
    BY DEF DmaStep, OpenRequest, SkipTurn, PollLatency, PollNotReady, MoveWord
  <1>4. /\ req \in [Ids -> ReqRecord]
        /\ \A d \in Ids : ReqOK(req[d])
    BY DEF TypeOK, ReqRecord, ReqOK
  <1>5. ASSUME /\ req' \in [Ids -> ReqRecord]
               /\ \A d \in Ids : ReqOK(req'[d])
               /\ bram' \in [Lines -> Line] /\ dirty' \in [Lines -> BOOLEAN]
               /\ port' \in [0 .. NBrams - 1 -> Nat]
               /\ data' \in [Ids -> Values] /\ stored' \in BOOLEAN
        PROVE  TypeOK'
    BY <1>2, <1>3, <1>5 DEF TypeOK, ReqOK, ReqRecord, cacheSide, bus, program
  <1>6. /\ bram \in [Lines -> Line] /\ dirty \in [Lines -> BOOLEAN]
        /\ port \in [0 .. NBrams - 1 -> Nat]
        /\ data \in [Ids -> Values] /\ stored \in BOOLEAN
        /\ flush.on \in BOOLEAN
    BY DEF TypeOK
  <1>7. CASE OpenRequest(c)
    <2>1. PICK r \in Requests :
            req' = [req EXCEPT ![c] = [word |-> r.word, len |-> r.len, write |-> r.write,
                                       iter |-> 0, wait |-> Latency, open |-> TRUE]]
      BY <1>7 DEF OpenRequest
    <2>2. /\ r.word \in MemWords /\ r.len \in Nat \ {0} /\ r.write \in BOOLEAN
          /\ r.word + r.len - 1 \in MemWords
      BY RequestAssumption
    <2> DEFINE n == [word |-> r.word, len |-> r.len, write |-> r.write,
                     iter |-> 0, wait |-> Latency, open |-> TRUE]
    <2>3. n \in ReqRecord
      BY <2>2, TimingAssumption DEF ReqRecord
    <2>4. ReqOK(n)
      BY <2>2, <2>3 DEF ReqOK
    <2> HIDE DEF n
    <2>5. req' = [req EXCEPT ![c] = n]
      BY <2>1 DEF n
    <2>6. req' \in [Ids -> ReqRecord] /\ \A d \in Ids : ReqOK(req'[d])
      BY <1>4, <2>3, <2>4, <2>5
    <2> QED BY <1>5, <1>6, <1>7, <2>6 DEF OpenRequest
  <1>8. CASE SkipTurn(c)
    BY <1>4, <1>5, <1>6, <1>8 DEF SkipTurn, dmas
  <1>9. CASE PollLatency(c)
    <2>1. req' = [req EXCEPT ![c].wait = @ - 1] /\ req[c].wait > 0
      BY <1>9 DEF PollLatency
    <2>2. req' \in [Ids -> ReqRecord] /\ \A d \in Ids : ReqOK(req'[d])
      BY <1>4, <2>1 DEF ReqRecord, ReqOK
    <2> QED BY <1>5, <1>6, <1>9, <2>2 DEF PollLatency
  <1>10. CASE PollNotReady(c)
    BY <1>4, <1>5, <1>6, <1>10 DEF PollNotReady, dmas
  <1>11. CASE MoveWord(c)
    <2> DEFINE w == CurrentWord(c)
               o == OffsetOf(w)
               l == FirstOf(Matches(BlockOf(w)))
               i == BramOf(CacheAddr(l, o))
               last == req[c].iter + 1 = req[c].len
    <2>1. ~ Done(c) /\ AccessReady(w)
      BY <1>11 DEF MoveWord
    <2>2. l \in Lines /\ o \in Offsets /\ i \in 0 .. NBrams - 1
      BY <2>1, MoveTyped
    <2>3. req' = [req EXCEPT ![c].iter = @ + 1, ![c].open = ~ last]
      BY <1>11 DEF MoveWord
    <2>4. req[c].open /\ ReqOK(req[c])
      BY <1>4, <2>1 DEF Done
    <2>5. req' \in [Ids -> ReqRecord] /\ \A d \in Ids : ReqOK(req'[d])
      <3> DEFINE r == req[c]
                 n == [r EXCEPT !.iter = @ + 1, !.open = ~ last]
      <3>1. /\ r.word \in MemWords /\ r.len \in Nat \ {0} /\ r.write \in BOOLEAN
            /\ r.iter \in Nat /\ r.wait \in Nat
            /\ r.iter < r.len /\ r.word + r.len - 1 \in MemWords
        BY <2>4 DEF ReqRecord, ReqOK
      <3>2. r.iter + 1 \in Nat /\ (~ last => r.iter + 1 < r.len) /\ r \in ReqRecord
        BY <2>4, <3>1 DEF ReqOK
      <3>3. req' = [req EXCEPT ![c] = n]
        BY <1>4, <2>3
      <3> HIDE DEF r, last
      <3>4. n \in ReqRecord /\ n.word = r.word /\ n.len = r.len
            /\ n.iter = r.iter + 1 /\ n.open = ~ last
        BY <3>2, Advance DEF last
      <3>5. ReqOK(n)
        BY <3>1, <3>2, <3>4 DEF ReqOK
      <3> HIDE DEF n
      <3> QED BY <1>4, <3>3, <3>4, <3>5
    <2>6. port' \in [0 .. NBrams - 1 -> Nat]
      <3>1. port' = [port EXCEPT ![i] = @ + 1]
        BY <1>11 DEF MoveWord
      <3> HIDE DEF i
      <3> QED BY <1>6, <2>2, <3>1
    <2>7. \A v \in Values : [bram EXCEPT ![l][o] = v] \in [Lines -> Line]
      <3> HIDE DEF l, o
      <3> QED BY <1>6, <2>2 DEF Line
    <2>8. bram[l][o] \in Values
      <3> HIDE DEF l, o
      <3> QED BY <1>6, <2>2 DEF Line
    <2>9. CASE ~ req[c].write
      <3>1. data' = [data EXCEPT ![c] = bram[l][o]] /\ UNCHANGED <<bram, dirty, stored>>
        BY <1>11, <2>9 DEF MoveWord
      <3> HIDE DEF l, o
      <3> QED BY <1>5, <1>6, <2>5, <2>6, <2>8, <3>1
    <2>10. CASE req[c].write
      <3>1. PICK v \in Values : /\ bram' = [bram EXCEPT ![l][o] = v]
                                /\ data' = [data EXCEPT ![c] = v]
        BY <1>11, <2>10 DEF MoveWord
      <3>2. dirty' = [dirty EXCEPT ![l] = TRUE] /\ stored' = flush.on
        BY <1>11, <2>10 DEF MoveWord
      <3>3. bram' \in [Lines -> Line]
        BY <2>7, <3>1, Zenon
      <3>4. dirty' \in [Lines -> BOOLEAN] /\ data' \in [Ids -> Values] /\ stored' \in BOOLEAN
        <4> HIDE DEF l, o
        <4> QED BY <1>6, <2>2, <3>1, <3>2
      <3> QED BY <1>5, <2>5, <2>6, <3>3, <3>4
    <2> QED BY <2>9, <2>10
  <1> QED BY <1>7, <1>8, <1>9, <1>10, <1>11 DEF DmaStep

\* What the DCMA changes in its turn.
DcmaTypes ==
  /\ mem \in [Blocks -> Line]
  /\ tag \in [Lines -> 0 .. NTags - 1]
  /\ valid \in [Lines -> BOOLEAN] /\ dirty \in [Lines -> BOOLEAN]
  /\ bram \in [Lines -> Line]
  /\ fifo \in [Sets -> Ways]
  /\ fetch \in [block : Blocks, line : Lines, busy : BOOLEAN, onBus : BOOLEAN,
                wdata : BOOLEAN]
  /\ burst \in Nat
  /\ flush \in [on : BOOLEAN, last : BOOLEAN, next : 0 .. NSets * Assoc]
  /\ incoming \in [read : [block : Blocks, age : Nat], write : [block : Blocks, age : Nat]]
  /\ pointer \in Ids

\* The program and the other parts, which the DCMA's turn leaves typed.
LEMMA DcmaTickFrame ==
  ASSUME TypeOK, turn = DcmaTurn, EndTurn, DcmaTypes',
         port' = [i \in 0 .. NBrams - 1 |-> 0], UNCHANGED <<dmas, program, stored>>
  PROVE  TypeOK'
  <1>1. turn' \in 0 .. BusTurn /\ polls' \in 1 .. PortWords
    BY GeometryAssumption DEF EndTurn, DcmaTurn, BusTurn
  <1>2. port' \in [0 .. NBrams - 1 -> Nat]
    OBVIOUS
  <1> QED BY <1>1, <1>2 DEF TypeOK, DcmaTypes, dmas, program

\* A started write and a started read are transfers of the main memory.
LEMMA TransferTyped ==
  ASSUME TypeOK
  PROVE  /\ \A l \in Lines : StartWrite(l) =>
              /\ mem' \in [Blocks -> Line]
              /\ incoming' \in [read : [block : Blocks, age : Nat],
                                write : [block : Blocks, age : Nat]]
         /\ \A b \in Blocks : StartRead(b) =>
              incoming' \in [read : [block : Blocks, age : Nat],
                             write : [block : Blocks, age : Nat]]
         /\ NoTransfer \in [block : Blocks, age : Nat]
  <1>1. ASSUME NEW l \in Lines, StartWrite(l)
        PROVE  /\ mem' \in [Blocks -> Line]
               /\ incoming' \in [read : [block : Blocks, age : Nat],
                                 write : [block : Blocks, age : Nat]]
    <2>1. Held(l) \in Blocks /\ bram[l] \in Line
      BY HeldTyped DEF TypeOK
    <2> QED BY <1>1, <2>1 DEF TypeOK, StartWrite
  <1>2. ASSUME NEW b \in Blocks, StartRead(b)
        PROVE  incoming' \in [read : [block : Blocks, age : Nat],
                              write : [block : Blocks, age : Nat]]
    BY <1>2 DEF TypeOK, StartRead
  <1>3. 0 \in Blocks
    <2>1. 0 * NSets + 0 \in 0 .. NTags * NSets - 1
      BY ComposeBound, GeometryAssumption
    <2> QED BY <2>1, GeometryAssumption DEF Blocks
  <1>4. NoTransfer \in [block : Blocks, age : Nat]
    BY <1>3, TimingAssumption DEF NoTransfer
  <1> QED BY <1>1, <1>2, <1>4

\* The steps of the DCMA keep the types.
LEMMA DcmaTickTyped ==
  ASSUME TypeOK, DcmaTick
  PROVE  TypeOK'
  <1> USE DEF DcmaTypes
  <1>1. DcmaTypes
    BY DEF TypeOK
  <1>2. SUFFICES DcmaTypes'
    BY DcmaTickFrame DEF DcmaTick
  <1>3. CASE StartMiss
    <2> DEFINE b == BlockOf(CurrentWord(pointer))
               s == SetOf(b)
               l == ReplaceLine(s)
    <2>1. b \in Blocks /\ s \in Sets /\ l \in Lines /\ NextFifo(s) \in Ways
      BY <1>3, MissTyped DEF StartMiss
    <2>2. (dirty[l] /\ StartWrite(l)) \/ (StartRead(b) /\ UNCHANGED mem)
      BY <1>3 DEF StartMiss
    <2>3. /\ valid' = [valid EXCEPT ![l] = FALSE]
          /\ dirty' = [dirty EXCEPT ![l] = FALSE]
          /\ fifo' = [fifo EXCEPT ![s] = NextFifo(s)]
          /\ fetch' = [block |-> b, line |-> l, busy |-> TRUE, onBus |-> TRUE,
                       wdata |-> dirty[l]]
          /\ UNCHANGED <<tag, bram, burst, flush>>
      BY <1>3 DEF StartMiss
    <2>4. pointer' \in Ids
      <3>1. pointer + 1 \in Nat
        BY GeometryAssumption DEF TypeOK, Ids
      <3>2. NextPointer \in Ids
        BY <3>1, DivMod, GeometryAssumption DEF NextPointer, Ids
      <3> QED BY <1>3, <3>2 DEF StartMiss
    <2> HIDE DEF b, s, l
    <2>5. mem' \in [Blocks -> Line]
          /\ incoming' \in [read : [block : Blocks, age : Nat],
                            write : [block : Blocks, age : Nat]]
      BY <1>1, <2>1, <2>2, TransferTyped
    <2>6. dirty[l] \in BOOLEAN
      BY <1>1, <2>1
    <2>7. fetch' \in [block : Blocks, line : Lines, busy : BOOLEAN, onBus : BOOLEAN,
                      wdata : BOOLEAN]
      BY <2>1, <2>3, <2>6, Zenon
    <2>8. /\ valid' \in [Lines -> BOOLEAN] /\ dirty' \in [Lines -> BOOLEAN]
          /\ fifo' \in [Sets -> Ways]
      BY <1>1, <2>1, <2>3
    <2> QED BY <1>1, <2>3, <2>4, <2>5, <2>7, <2>8
  <1>4. CASE NoMiss
    <2>1. pointer + 1 \in Nat
      BY GeometryAssumption DEF TypeOK, Ids
    <2>2. NextPointer \in Ids
      BY <2>1, DivMod, GeometryAssumption DEF NextPointer, Ids
    <2> QED BY <1>1, <1>4, <2>2 DEF NoMiss, lines, bus
  <1>5. CASE BurstTick
    <2>1. burst' \in Nat /\ UNCHANGED <<mem, flush, pointer, bram, fifo>>
      BY <1>1, <1>5 DEF BurstTick, lines
    <2>2. fetch.block \in Blocks /\ fetch.line \in Lines /\ TagOf(fetch.block) \in 0 .. NTags - 1
      BY <1>1, BlockParts
    <2>3. CASE UNCHANGED <<lines, fetch, incoming>>
      BY <1>1, <2>1, <2>3 DEF lines
    <2>4. CASE /\ fetch' = [fetch EXCEPT !.busy = FALSE, !.onBus = FALSE]
               /\ valid' = [valid EXCEPT ![fetch.line] = TRUE]
               /\ tag' = [tag EXCEPT ![fetch.line] = TagOf(fetch.block)]
               /\ UNCHANGED <<dirty, bram, fifo, incoming>>
      BY <1>1, <2>1, <2>2, <2>4
    <2>5. CASE /\ fetch' = [fetch EXCEPT !.wdata = FALSE]
               /\ dirty' = [dirty EXCEPT ![fetch.line] = FALSE]
               /\ StartRead(fetch.block)
               /\ UNCHANGED <<tag, valid, bram, fifo>>
      BY <1>1, <2>1, <2>2, <2>5, TransferTyped
    <2> QED BY <1>5, <2>3, <2>4, <2>5 DEF BurstTick
  <1>6. CASE BusWait
    <2>1. UNCHANGED <<mem, tag, valid, dirty, fifo, fetch, flush, pointer>>
      BY <1>6 DEF BusWait
    <2>2. burst' \in Nat
      BY <1>1, <1>6, TimingAssumption DEF BusWait
    <2>3. bram' \in [Lines -> Line]
      <3>1. mem[incoming.read.block] \in Line /\ fetch.line \in Lines
        BY <1>1
      <3> QED BY <1>1, <1>6, <3>1 DEF BusWait
    <2>4. incoming' \in [read : [block : Blocks, age : Nat],
                         write : [block : Blocks, age : Nat]]
      BY <1>1, <1>6, TransferTyped DEF BusWait
    <2> QED BY <1>1, <2>1, <2>2, <2>3, <2>4
  <1>7. CASE FlushScan
    <2>0. UNCHANGED <<lines, burst, pointer>>
      BY <1>7 DEF FlushScan
    <2>1. CASE /\ DirtyFrom(flush.next) # {}
               /\ LET l == FirstOf(DirtyFrom(flush.next))
                  IN  /\ flush' = [flush EXCEPT !.next = l + 1,
                                                !.last = (l + 1 = NSets * Assoc)]
                      /\ StartWrite(l)
               /\ fetch' = [fetch EXCEPT !.onBus = TRUE, !.wdata = TRUE]
      <3> DEFINE l == FirstOf(DirtyFrom(flush.next))
      <3>1. l \in Lines
        <4>1. DirtyFrom(flush.next) \subseteq Lines /\ Lines \subseteq Nat
          BY GeometryAssumption DEF DirtyFrom, Lines
        <4> QED BY <2>1, <4>1, FirstIn
      <3>2. /\ flush' = [flush EXCEPT !.next = l + 1, !.last = (l + 1 = NSets * Assoc)]
            /\ StartWrite(l)
        BY <2>1
      <3> HIDE DEF l
      <3>3. l + 1 \in 0 .. NSets * Assoc
        BY <3>1, GeometryAssumption DEF Lines
      <3>4. flush' \in [on : BOOLEAN, last : BOOLEAN, next : 0 .. NSets * Assoc]
        <4> DEFINE f == [flush EXCEPT !.next = l + 1]
                   last == l + 1 = NSets * Assoc
        <4>1. f \in [on : BOOLEAN, last : BOOLEAN, next : 0 .. NSets * Assoc]
          BY <1>1, <3>3
        <4>2. last \in BOOLEAN /\ flush' = [f EXCEPT !.last = last]
          BY <3>2
        <4> HIDE DEF f, last
        <4> QED BY <4>1, <4>2
      <3>5. fetch' \in [block : Blocks, line : Lines, busy : BOOLEAN, onBus : BOOLEAN,
                        wdata : BOOLEAN]
        BY <1>1, <2>1
      <3> QED BY <1>1, <2>0, <3>1, <3>2, <3>4, <3>5, TransferTyped DEF lines
    <2>2. CASE /\ flush' = [on |-> FALSE, last |-> TRUE, next |-> NSets * Assoc]
               /\ fetch' = [fetch EXCEPT !.busy = FALSE]
               /\ UNCHANGED <<mem, incoming>>
      <3>1. NSets * Assoc \in 0 .. NSets * Assoc
        BY GeometryAssumption
      <3> QED BY <1>1, <2>0, <2>2, <3>1 DEF lines
    <2>3. CASE UNCHANGED <<mem, fetch, flush, incoming>>
      BY <1>1, <2>0, <2>3 DEF lines
    <2> QED BY <1>7, <2>1, <2>2, <2>3 DEF FlushScan
  <1>8. CASE FlushWait
    <2>1. UNCHANGED <<mem, lines, pointer>>
      BY <1>8 DEF FlushWait
    <2>2. burst' \in Nat
      BY <1>1, <1>8, TimingAssumption DEF FlushWait
    <2>3. incoming' \in [read : [block : Blocks, age : Nat],
                         write : [block : Blocks, age : Nat]]
      BY <1>1, <1>8, TransferTyped DEF FlushWait
    <2>4. fetch' \in [block : Blocks, line : Lines, busy : BOOLEAN, onBus : BOOLEAN,
                      wdata : BOOLEAN]
      BY <1>1, <1>8 DEF FlushWait
    <2>5. flush' \in [on : BOOLEAN, last : BOOLEAN, next : 0 .. NSets * Assoc]
      BY <1>1, <1>8 DEF FlushWait
    <2> QED BY <1>1, <2>1, <2>2, <2>3, <2>4, <2>5 DEF lines
  <1> QED BY <1>3, <1>4, <1>5, <1>6, <1>7, <1>8 DEF DcmaTick

\* The steps of the main memory and of the program keep the types.
LEMMA OtherStepTyped ==
  ASSUME TypeOK, BusTick \/ ProgramStep
  PROVE  TypeOK'
  <1>1. CASE BusTick
    <2>1. turn' \in 0 .. BusTurn
      BY <1>1, GeometryAssumption DEF BusTick, BusTurn
    <2>2. ASSUME NEW t \in [block : Blocks, age : Nat]
          PROVE  Older(t) \in [block : Blocks, age : Nat]
      BY <2>2 DEF Older
    <2>3. incoming.read \in [block : Blocks, age : Nat]
          /\ incoming.write \in [block : Blocks, age : Nat]
      BY DEF TypeOK
    <2>4. incoming' \in [read : [block : Blocks, age : Nat],
                         write : [block : Blocks, age : Nat]]
      BY <1>1, <2>2, <2>3 DEF BusTick
    <2>5. UNCHANGED <<mem, lines, fetch, burst, flush, port, dmas, pointer, polls, program,
                      stored>>
      BY <1>1 DEF BusTick
    <2> QED BY <2>1, <2>4, <2>5 DEF TypeOK, lines, dmas, program
  <1>2. CASE CallFlush \/ CallReset
    <2>1. /\ pc' \in {"flush_poll", "reset_poll"} /\ calls' \in Nat
          /\ UNCHANGED <<allButIo, flush, stored>>
      BY <1>2 DEF CallFlush, CallReset, TypeOK
    <2> QED BY <2>1 DEF TypeOK, allButIo, lines, bus, dmas, clock
  <1>3. CASE PollBusy
    <2>1. pc' \in {"idle", "flush_write", "reset_write"}
      BY <1>3 DEF PollBusy, AfterIdle
    <2>2. UNCHANGED <<allButIo, flush, calls, stored>>
      BY <1>3 DEF PollBusy
    <2> QED BY <2>1, <2>2 DEF TypeOK, allButIo, lines, bus, dmas, clock
  <1>4. CASE WriteFlush
    <2>1. 0 \in 0 .. NSets * Assoc
      BY GeometryAssumption
    <2>2. /\ flush' \in [on : BOOLEAN, last : BOOLEAN, next : 0 .. NSets * Assoc]
          /\ fetch' \in [block : Blocks, line : Lines, busy : BOOLEAN, onBus : BOOLEAN,
                         wdata : BOOLEAN]
          /\ stored' \in BOOLEAN /\ pc' = "flush_wait"
      BY <1>4, <2>1 DEF WriteFlush, TypeOK
    <2>3. UNCHANGED <<mem, lines, burst, incoming, port, dmas, pointer, clock, calls>>
      BY <1>4 DEF WriteFlush
    <2> QED BY <2>2, <2>3 DEF TypeOK, lines, dmas, clock
  <1>5. CASE WriteReset
    <2>1. 0 \in 0 .. NTags - 1 /\ 0 \in Ways
      BY GeometryAssumption DEF Ways
    <2>2. /\ tag' \in [Lines -> 0 .. NTags - 1]
          /\ valid' \in [Lines -> BOOLEAN] /\ dirty' \in [Lines -> BOOLEAN]
          /\ fifo' \in [Sets -> Ways]
          /\ pc' = "idle"
      BY <1>5, <2>1 DEF WriteReset
    <2>3. UNCHANGED <<mem, bram, bus, flush, port, dmas, pointer, clock, calls, stored>>
      BY <1>5 DEF WriteReset
    <2> QED BY <2>2, <2>3 DEF TypeOK, bus, dmas, clock
  <1> QED BY <1>1, <1>2, <1>3, <1>4, <1>5 DEF ProgramStep

\* The program starts well typed, whatever burst_wait_counter holds.
LEMMA InitTyped ==
  ASSUME Init
  PROVE  TypeOK
  <1>1. /\ NoTransfer \in [block : Blocks, age : Nat]
        /\ 0 \in Blocks /\ 0 \in Lines /\ 0 \in MemWords /\ 0 \in 0 .. NTags - 1
        /\ 0 \in Ways /\ 0 \in Ids /\ 0 \in 0 .. BusTurn /\ PortWords \in 1 .. PortWords
        /\ 0 \in 0 .. NSets * Assoc /\ 0 \in Values
    <2>1. 0 * NSets + 0 \in 0 .. NTags * NSets - 1 /\ 0 * Assoc + 0 \in 0 .. NSets * Assoc - 1
      BY ComposeBound, GeometryAssumption
    <2>2. NTags * NSets \in Nat \ {0}
      BY <2>1, GeometryAssumption
    <2>3. 0 * LineWords + 0 \in 0 .. (NTags * NSets) * LineWords - 1
      BY <2>2, ComposeBound, GeometryAssumption
    <2>4. 0 \in Blocks /\ 0 \in Lines /\ 0 \in MemWords
      BY <2>1, <2>3, GeometryAssumption DEF Blocks, Lines, MemWords
    <2>5. NoTransfer \in [block : Blocks, age : Nat]
      BY <2>4, TimingAssumption DEF NoTransfer
    <2>6. 0 \in 0 .. NTags - 1 /\ 0 \in Ways /\ 0 \in Ids /\ 0 \in 0 .. BusTurn
          /\ PortWords \in 1 .. PortWords /\ 0 \in 0 .. NSets * Assoc
      BY GeometryAssumption DEF Ways, Ids, BusTurn
    <2> QED BY <2>4, <2>5, <2>6, ValuesAssumption
  <1>2. mem \in [Blocks -> Line] /\ burst \in Nat
    BY ValuesAssumption, TimingAssumption DEF Init
  <1>3. /\ tag \in [Lines -> 0 .. NTags - 1]
        /\ valid \in [Lines -> BOOLEAN] /\ dirty \in [Lines -> BOOLEAN]
        /\ bram \in [Lines -> Line]
        /\ fifo \in [Sets -> Ways]
    BY <1>1 DEF Init, Line
  <1>4. /\ fetch \in [block : Blocks, line : Lines, busy : BOOLEAN, onBus : BOOLEAN,
                      wdata : BOOLEAN]
        /\ flush \in [on : BOOLEAN, last : BOOLEAN, next : 0 .. NSets * Assoc]
        /\ port \in [0 .. NBrams - 1 -> Nat]
        /\ incoming \in [read : [block : Blocks, age : Nat],
                         write : [block : Blocks, age : Nat]]
    BY <1>1 DEF Init
  <1>5. /\ req \in [Ids -> ReqRecord]
        /\ \A c \in Ids : ~ req[c].open
    BY <1>1 DEF Init, ReqRecord
  <1>6. pointer \in Ids /\ data \in [Ids -> Values] /\ turn \in 0 .. BusTurn
        /\ polls \in 1 .. PortWords /\ pc = "idle" /\ calls = 0 /\ stored = FALSE
    BY <1>1 DEF Init
  <1> QED BY <1>2, <1>3, <1>4, <1>5, <1>6 DEF TypeOK, ReqRecord

\* The types are kept by every step.
LEMMA NextTyped ==
  ASSUME TypeOK, [Next]_vars
  PROVE  TypeOK'
  <1>1. CASE UNCHANGED vars
    BY <1>1 DEF TypeOK, vars, lines, bus, dmas, clock, program
  <1>2. CASE Next
    BY <1>2, DmaStepTyped, DcmaTickTyped, OtherStepTyped DEF Next, Cycle
  <1> QED BY <1>1, <1>2

\* All the registers of the DCMA, its brams, the main memory and the DMAs'
\* requests keep their ranges: no step of the program, of a DMA or of the
\* cache leads outside them, whatever burst_wait_counter holds at the start.
THEOREM DcmaTypeSafety == Spec => []TypeOK
  <1>1. Init => TypeOK
    BY InitTyped
  <1>2. TypeOK /\ [Next]_vars => TypeOK'
    BY NextTyped
  <1> QED BY <1>1, <1>2, PTL DEF Spec

-----------------------------------------------------------------------------
(* The cache invariant.                                                    *)

CacheSafe ==
  /\ OneLinePerBlock /\ CleanLinesMatch /\ FetchIsolated /\ BusInStep /\ FlushPassed

\* A hit is a valid line that holds the block.
LEMMA HitHeld ==
  ASSUME TypeOK, NEW b \in Blocks
  PROVE  Hit(b) <=> \E l \in Lines : valid[l] /\ Held(l) = b
  BY HitLine DEF Hit

\* FetchIsolated after a step, in terms of the lines.
LEMMA IsolatedAfter ==
  ASSUME TypeOK',
         fetch'.busy /\ ~ flush'.on =>
           /\ fetch'.onBus /\ ~ valid'[fetch'.line]
           /\ \A l \in Lines : valid'[l] => Held(l)' # fetch'.block
           /\ fetch'.line \in LinesOf(SetOf(fetch'.block))
           /\ ~ fetch'.wdata =>
                IF burst' = 0 THEN incoming'.read.block = fetch'.block
                              ELSE bram'[fetch'.line] = mem'[fetch'.block]
  PROVE  FetchIsolated'
  <1> DEFINE b == fetch'.block
  <1>1. b \in Blocks /\ tag' \in [Lines -> 0 .. NTags - 1]
    BY DEF TypeOK
  <1>2. {l \in LinesOf(SetOf(b)) : valid'[l] /\ tag'[l] = TagOf(b)}
          = {l \in Lines : valid'[l] /\ tag'[l] * NSets + SetOfLine(l) = b}
    <2> HIDE DEF b
    <2> QED BY <1>1, LookupFinds
  <1>3. (\A l \in Lines : valid'[l] => Held(l)' # b) => ~ Hit(fetch.block)'
    BY <1>2 DEF Hit, Matches, Held
  <1> QED BY <1>3 DEF FetchIsolated

\* A step that leaves the cache and its transfer alone.
LEMMA CacheFrame ==
  ASSUME CacheSafe,
         UNCHANGED <<mem, tag, valid, dirty, bram, fetch, burst, flush, stored>>,
         incoming'.read.block = incoming.read.block
  PROVE  CacheSafe'
  BY DEF CacheSafe, OneLinePerBlock, CleanLinesMatch, FetchIsolated, BusInStep,
         FlushPassed, Held, Hit, Matches

\* A store changes a valid line only, makes it dirty and counts against the
\* flush in progress.
LEMMA MoveWordSafe ==
  ASSUME TypeOK, TypeOK', CacheSafe, NEW c \in Ids, MoveWord(c)
  PROVE  CacheSafe'
  <1> DEFINE w == CurrentWord(c)
             o == OffsetOf(w)
             l == FirstOf(Matches(BlockOf(w)))
  <1>1. UNCHANGED <<mem, fifo, tag, valid, bus, flush>>
    BY DEF MoveWord, cacheSide
  <1>2. l \in Lines /\ valid[l]
    BY MoveTyped DEF MoveWord
  <1>3. CASE ~ req[c].write
    <2>1. UNCHANGED <<bram, dirty, stored>>
      BY <1>3 DEF MoveWord
    <2> QED BY <1>1, <2>1, CacheFrame DEF bus
  <1>4. CASE req[c].write
    <2>1. PICK v \in Values : bram' = [bram EXCEPT ![l][o] = v]
      BY <1>4 DEF MoveWord
    <2>2. dirty' = [dirty EXCEPT ![l] = TRUE] /\ stored' = flush.on
      BY <1>4 DEF MoveWord
    <2> HIDE DEF l, o
    <2>3. bram \in [Lines -> Line] /\ dirty \in [Lines -> BOOLEAN]
      BY DEF TypeOK
    <2>4. dirty'[l] /\ \A m \in Lines \ {l} : dirty'[m] = dirty[m] /\ bram'[m] = bram[m]
      BY <1>2, <2>1, <2>2, <2>3
    <2>5. OneLinePerBlock'
      BY <1>1, <1>2, <2>4 DEF CacheSafe, OneLinePerBlock, Held
    <2>6. CleanLinesMatch'
      BY <1>1, <1>2, <2>4 DEF CacheSafe, CleanLinesMatch, Held
    <2>7. FetchIsolated'
      <3>1. fetch.line \in Lines
        BY DEF TypeOK
      <3>2. ~ valid[fetch.line] => bram'[fetch.line] = bram[fetch.line]
        BY <1>2, <2>4, <3>1
      <3> QED BY <1>1, <3>2 DEF CacheSafe, FetchIsolated, Hit, Matches, bus
    <2>8. BusInStep'
      BY <1>1 DEF CacheSafe, BusInStep, bus
    <2>9. FlushPassed'
      BY <1>1, <2>2 DEF FlushPassed
    <2> QED BY <2>5, <2>6, <2>7, <2>8, <2>9 DEF CacheSafe
  <1> QED BY <1>3, <1>4

\* The other steps of a DMA do not touch the cache.
LEMMA DmaStepSafe ==
  ASSUME TypeOK, TypeOK', CacheSafe, NEW c \in Ids, DmaStep(c)
  PROVE  CacheSafe'
  <1>1. CASE MoveWord(c)
    BY <1>1, MoveWordSafe
  <1>2. CASE OpenRequest(c) \/ SkipTurn(c) \/ PollLatency(c) \/ PollNotReady(c)
    BY <1>2, CacheFrame
    DEF OpenRequest, SkipTurn, PollLatency, PollNotReady, cacheSide, bus
  <1> QED BY <1>1, <1>2 DEF DmaStep

\* A line written back is held by no other line.
LEMMA WriteBackSafe ==
  ASSUME TypeOK, OneLinePerBlock, NEW l \in Lines, dirty[l], StartWrite(l)
  PROVE  /\ mem'[Held(l)] = bram[l]
         /\ \A b \in Blocks : b # Held(l) => mem'[b] = mem[b]
         /\ \A m \in Lines : valid[m] /\ m # l => Held(m) # Held(l)
         /\ incoming'.read = incoming.read
  <1>1. Held(l) \in Blocks /\ mem \in [Blocks -> Line]
    BY HeldTyped DEF TypeOK
  <1>2. mem' = [mem EXCEPT ![Held(l)] = bram[l]]
    BY DEF StartWrite
  <1>3. incoming'.read = incoming.read
    BY DEF StartWrite, TypeOK
  <1> QED BY <1>1, <1>2, <1>3 DEF OneLinePerBlock

\* A miss replaces a line: what was dirty goes to the main memory, where no
\* other line is concerned.
LEMMA StartMissSafe ==
  ASSUME TypeOK, TypeOK', CacheSafe, StartMiss
  PROVE  CacheSafe'
  <1> DEFINE b == BlockOf(CurrentWord(pointer))
             l == ReplaceLine(SetOf(b))
  <1>1. b \in Blocks /\ ~ Hit(b) /\ l \in Lines /\ l \in LinesOf(SetOf(b))
    BY MissTyped DEF StartMiss
  <1>2. /\ valid' = [valid EXCEPT ![l] = FALSE]
        /\ dirty' = [dirty EXCEPT ![l] = FALSE]
        /\ fetch' = [block |-> b, line |-> l, busy |-> TRUE, onBus |-> TRUE,
                     wdata |-> dirty[l]]
        /\ UNCHANGED <<tag, bram, burst, flush>>
        /\ (dirty[l] /\ StartWrite(l)) \/ (~ dirty[l] /\ StartRead(b) /\ UNCHANGED mem)
    BY DEF StartMiss
  <1>3. ~ fetch.busy
    BY DEF StartMiss
  <1> HIDE DEF b, l
  <1>4. \A m \in Lines : valid[m] => Held(m) # b
    BY <1>1, HitHeld
  <1>5. valid \in [Lines -> BOOLEAN] /\ dirty \in [Lines -> BOOLEAN]
    BY DEF TypeOK
  <1>6. ~ valid'[l] /\ ~ dirty'[l]
        /\ \A m \in Lines \ {l} : valid'[m] = valid[m] /\ dirty'[m] = dirty[m]
    BY <1>1, <1>2, <1>5
  <1>7. \A m \in Lines : Held(m)' = Held(m)
    BY <1>2 DEF Held
  <1>8. OneLinePerBlock'
    BY <1>6, <1>7 DEF CacheSafe, OneLinePerBlock
  <1>9. \A m \in Lines \ {l} : valid[m] => mem'[Held(m)] = mem[Held(m)]
    <2>1. CASE dirty[l] /\ StartWrite(l)
      BY <1>1, <2>1, WriteBackSafe, HeldTyped DEF CacheSafe
    <2>2. CASE UNCHANGED mem
      BY <2>2
    <2> QED BY <1>2, <2>1, <2>2
  <1>10. CleanLinesMatch'
    BY <1>2, <1>6, <1>7, <1>9 DEF CacheSafe, CleanLinesMatch
  <1>11. burst' = 0 /\ ~ flush'.on
    BY <1>2, <1>3 DEF CacheSafe, BusInStep
  <1>12. FetchIsolated'
    <2>1. ~ fetch'.wdata => incoming'.read.block = b
      BY <1>2 DEF StartRead, TypeOK
    <2>2. fetch'.block = b /\ fetch'.line = l /\ fetch'.onBus
      BY <1>2
    <2> QED BY <1>1, <1>4, <1>6, <1>7, <1>11, <2>1, <2>2, IsolatedAfter
  <1>13. BusInStep'
    BY <1>2, <1>11 DEF BusInStep
  <1>14. FlushPassed'
    BY <1>11 DEF FlushPassed
  <1> QED BY <1>8, <1>10, <1>12, <1>13, <1>14 DEF CacheSafe

\* The end of a burst makes the line valid with its block's contents, or
\* starts the download after the upload.
LEMMA BurstTickSafe ==
  ASSUME TypeOK, TypeOK', CacheSafe, BurstTick
  PROVE  CacheSafe'
  <1>0. PICK l \in Lines, b \in Blocks : l = fetch.line /\ b = fetch.block
    BY DEF TypeOK
  <1>1. l \in Lines /\ b \in Blocks /\ burst \in Nat /\ burst > 0 /\ burst' = burst - 1
        /\ fetch.busy /\ fetch.onBus /\ ~ flush.on
    BY <1>0 DEF BurstTick, TypeOK
  <1>2. /\ ~ valid[l] /\ l \in LinesOf(SetOf(b))
        /\ ~ fetch.wdata => bram[l] = mem[b]
        /\ \A m \in Lines : valid[m] => Held(m) # b
    BY <1>0, <1>1, HitHeld DEF CacheSafe, FetchIsolated
  <1>3. UNCHANGED <<mem, flush, pointer, bram, fifo>>
    BY DEF BurstTick, lines
  <1>4. ~ dirty[l]
    BY <1>1, <1>2 DEF CacheSafe, OneLinePerBlock
  <1>5. CASE burst > 1 /\ UNCHANGED <<lines, fetch, incoming>>
    BY <1>0, <1>1, <1>3, <1>5 DEF CacheSafe, OneLinePerBlock, CleanLinesMatch, FetchIsolated,
       BusInStep, FlushPassed, Held, Hit, Matches, lines
  <1>6. CASE /\ burst = 1 /\ ~ fetch.wdata
             /\ fetch' = [fetch EXCEPT !.busy = FALSE, !.onBus = FALSE]
             /\ valid' = [valid EXCEPT ![l] = TRUE]
             /\ tag' = [tag EXCEPT ![l] = TagOf(b)]
             /\ UNCHANGED <<dirty, bram, fifo, incoming>>
    <2>1. ~ fetch'.busy /\ ~ fetch'.onBus /\ burst' = 0 /\ ~ flush'.on
      BY <1>1, <1>3, <1>6 DEF TypeOK
    <2>2. Held(l)' = b
      <3>1. tag'[l] = TagOf(b)
        BY <1>1, <1>6 DEF TypeOK
      <3>2. SetOfLine(l) = SetOf(b)
        BY <1>1, <1>2, BlockParts, SetLines
      <3> QED BY <1>1, <3>1, <3>2, BlockParts DEF Held
    <2>3. \A m \in Lines \ {l} : valid'[m] = valid[m] /\ Held(m)' = Held(m)
      BY <1>1, <1>6 DEF TypeOK, Held
    <2>4. OneLinePerBlock'
      <3>1. valid'[l]
        BY <1>1, <1>6 DEF TypeOK
      <3> QED BY <1>2, <1>4, <1>6, <2>2, <2>3, <3>1 DEF CacheSafe, OneLinePerBlock
    <2>5. CleanLinesMatch'
      BY <1>2, <1>3, <1>6, <2>2, <2>3 DEF CacheSafe, CleanLinesMatch
    <2>6. FetchIsolated' /\ BusInStep' /\ FlushPassed'
      BY <2>1 DEF FetchIsolated, BusInStep, FlushPassed
    <2> QED BY <2>4, <2>5, <2>6 DEF CacheSafe
  <1>7. CASE /\ burst = 1 /\ fetch.wdata
             /\ fetch' = [fetch EXCEPT !.wdata = FALSE]
             /\ dirty' = [dirty EXCEPT ![l] = FALSE]
             /\ StartRead(b)
             /\ UNCHANGED <<tag, valid, bram, fifo>>
    <2>1. /\ fetch'.busy /\ fetch'.onBus /\ fetch'.line = l /\ fetch'.block = b
          /\ burst' = 0 /\ ~ flush'.on /\ incoming'.read.block = b
      BY <1>0, <1>1, <1>3, <1>7 DEF TypeOK, StartRead
    <2>2. UNCHANGED dirty
      BY <1>1, <1>4, <1>7 DEF TypeOK
    <2>3. OneLinePerBlock' /\ CleanLinesMatch'
      BY <1>3, <1>7, <2>2 DEF CacheSafe, OneLinePerBlock, CleanLinesMatch, Held
    <2>4. FetchIsolated'
      <3>1. \A m \in Lines : valid'[m] => Held(m)' # b
        BY <1>2, <1>7 DEF Held
      <3> QED BY <1>2, <1>7, <2>1, <3>1, IsolatedAfter
    <2>5. BusInStep' /\ FlushPassed'
      BY <2>1 DEF BusInStep, FlushPassed
    <2> QED BY <2>3, <2>4, <2>5 DEF CacheSafe
  <1> QED BY <1>0, <1>5, <1>6, <1>7 DEF BurstTick

\* The data of a download goes to the line being fetched, which no one sees.
LEMMA BusWaitSafe ==
  ASSUME TypeOK, TypeOK', CacheSafe, BusWait
  PROVE  CacheSafe'
  <1> DEFINE l == fetch.line
             b == fetch.block
  <1>1. l \in Lines /\ b \in Blocks /\ burst = 0
        /\ fetch.busy /\ fetch.onBus /\ ~ flush.on
    BY DEF BusWait, TypeOK
  <1>2. /\ ~ valid[l] /\ ~ dirty[l] /\ l \in LinesOf(SetOf(b))
        /\ ~ fetch.wdata => incoming.read.block = b
        /\ \A m \in Lines : valid[m] => Held(m) # b
    BY <1>1, HitHeld DEF CacheSafe, FetchIsolated, OneLinePerBlock
  <1>3. UNCHANGED <<mem, tag, valid, dirty, fifo, fetch, flush, pointer>>
    BY DEF BusWait
  <1>4. \A m \in Lines \ {l} : bram'[m] = bram[m]
    BY <1>1 DEF BusWait, TypeOK
  <1>5. \A m \in Lines : Held(m)' = Held(m)
    BY <1>3 DEF Held
  <1>6. OneLinePerBlock'
    BY <1>3, <1>5 DEF CacheSafe, OneLinePerBlock
  <1>7. CleanLinesMatch'
    BY <1>2, <1>3, <1>4, <1>5 DEF CacheSafe, CleanLinesMatch
  <1>8. ~ fetch.wdata =>
          IF burst' = 0 THEN incoming'.read.block = b ELSE bram'[l] = mem[b]
    <2>1. CASE /\ ~ fetch.wdata
               /\ bram' = [bram EXCEPT ![l] = mem[incoming.read.block]]
               /\ burst' = Burst
      BY <1>1, <1>2, <2>1, TimingAssumption DEF TypeOK
    <2>2. CASE fetch.wdata
      BY <2>2
    <2>3. CASE UNCHANGED <<bram, burst, incoming>>
      BY <1>1, <1>2, <2>3
    <2> QED BY <2>1, <2>2, <2>3 DEF BusWait
  <1>9. FetchIsolated'
    BY <1>1, <1>2, <1>3, <1>5, <1>8, IsolatedAfter
  <1>10. BusInStep' /\ FlushPassed'
    BY <1>1, <1>3 DEF BusInStep, FlushPassed
  <1> QED BY <1>6, <1>7, <1>9, <1>10 DEF CacheSafe

\* The flush writes a line back; what it passes agrees with the main memory.
LEMMA FlushScanSafe ==
  ASSUME TypeOK, TypeOK', CacheSafe, FlushScan, UNCHANGED stored
  PROVE  CacheSafe'
  <1>1. UNCHANGED <<lines, burst, pointer>> /\ flush.on /\ ~ fetch.onBus /\ burst = 0
    BY DEF FlushScan, CacheSafe, BusInStep
  <1>2. \A m \in Lines : Held(m)' = Held(m)
    BY <1>1 DEF Held, lines
  <1>3. OneLinePerBlock'
    BY <1>1, <1>2 DEF CacheSafe, OneLinePerBlock, lines
  <1>4. CASE /\ ~ flush.last /\ DirtyFrom(flush.next) # {}
             /\ LET l == FirstOf(DirtyFrom(flush.next))
                IN  /\ flush' = [flush EXCEPT !.next = l + 1,
                                              !.last = (l + 1 = NSets * Assoc)]
                    /\ StartWrite(l)
             /\ fetch' = [fetch EXCEPT !.onBus = TRUE, !.wdata = TRUE]
    <2> DEFINE l == FirstOf(DirtyFrom(flush.next))
    <2>1. /\ l \in Lines /\ l >= flush.next /\ dirty[l]
          /\ \A m \in Lines : m >= flush.next /\ m < l => ~ dirty[m]
      <3>1. DirtyFrom(flush.next) \subseteq Lines /\ Lines \subseteq Nat
        BY GeometryAssumption DEF DirtyFrom, Lines
      <3>2. l \in DirtyFrom(flush.next) /\ \A m \in DirtyFrom(flush.next) : l <= m
        BY <1>4, <3>1, FirstIn
      <3> HIDE DEF l
      <3> QED BY <3>1, <3>2 DEF DirtyFrom
    <2>2. StartWrite(l)
      BY <1>4
    <2>3. flush'.on /\ flush'.next = l + 1 /\ (flush'.last <=> l + 1 = NSets * Assoc)
      <3> DEFINE f == [flush EXCEPT !.next = l + 1]
                 last == l + 1 = NSets * Assoc
      <3>1. f \in [on : BOOLEAN, last : BOOLEAN, next : 0 .. NSets * Assoc]
            /\ f.on /\ f.next = l + 1
        <4>1. l + 1 \in 0 .. NSets * Assoc
          BY <2>1, GeometryAssumption DEF Lines
        <4> HIDE DEF l
        <4> QED BY <1>1, <4>1 DEF TypeOK
      <3>2. flush' = [f EXCEPT !.last = last] /\ last \in BOOLEAN
        BY <1>4
      <3>3. flush' = [f EXCEPT !.last = last]
        BY <3>2
      <3> HIDE DEF f
      <3>4. flush'.on = f.on /\ flush'.next = f.next
        <4> HIDE DEF last
        <4> QED BY <3>1, <3>2
      <3>5. flush'.last = last
        <4>1. "last" \in DOMAIN f
          BY <3>1
        <4> QED BY <3>3, <4>1, Zenon
      <3> QED BY <3>1, <3>4, <3>5
    <2>4. fetch'.onBus /\ fetch'.busy
      BY <1>1, <1>4 DEF TypeOK, CacheSafe, BusInStep
    <2> HIDE DEF l
    <2>5. /\ mem'[Held(l)] = bram[l]
          /\ \A m \in Lines : valid[m] /\ m # l => mem'[Held(m)] = mem[Held(m)]
      BY <2>1, <2>2, WriteBackSafe, HeldTyped DEF CacheSafe
    <2>6. CleanLinesMatch'
      BY <1>1, <1>2, <2>5 DEF CacheSafe, CleanLinesMatch, lines
    <2>7. FlushPassed'
      <3> SUFFICES ASSUME ~ stored, NEW m \in Lines, m < l + 1, valid[m]
                   PROVE  bram[m] = mem'[Held(m)]
        BY <1>1, <1>2, <2>3 DEF FlushPassed, lines
      <3>1. flush.next \in Nat /\ m \in Nat /\ l \in Nat
        BY <2>1, GeometryAssumption DEF TypeOK, Lines
      <3>2. CASE m = l
        BY <2>5, <3>2
      <3>3. CASE m # l
        <4>1. bram[m] = mem[Held(m)]
          BY <1>1, <2>1, <3>1, <3>3 DEF CacheSafe, FlushPassed, CleanLinesMatch
        <4> QED BY <2>5, <3>3, <4>1
      <3> QED BY <3>2, <3>3
    <2>8. FetchIsolated' /\ BusInStep'
      BY <2>3, <2>4 DEF FetchIsolated, BusInStep
    <2> QED BY <1>3, <2>6, <2>7, <2>8 DEF CacheSafe
  <1>5. CASE /\ flush' = [on |-> FALSE, last |-> TRUE, next |-> NSets * Assoc]
             /\ fetch' = [fetch EXCEPT !.busy = FALSE]
             /\ UNCHANGED <<mem, incoming>>
    <2>1. ~ flush'.on /\ ~ fetch'.busy /\ fetch'.onBus = fetch.onBus
      BY <1>5 DEF TypeOK
    <2>2. CleanLinesMatch'
      BY <1>1, <1>2, <1>5 DEF CacheSafe, CleanLinesMatch, lines
    <2>3. FetchIsolated' /\ BusInStep' /\ FlushPassed'
      BY <1>1, <2>1 DEF FetchIsolated, BusInStep, FlushPassed
    <2> QED BY <1>3, <2>2, <2>3 DEF CacheSafe
  <1>6. CASE flush.last
    BY <1>1, <1>6 DEF CacheSafe, BusInStep
  <1> QED BY <1>4, <1>5, <1>6 DEF FlushScan

\* The wait of the flush changes no line.
LEMMA FlushWaitSafe ==
  ASSUME TypeOK, TypeOK', CacheSafe, FlushWait, UNCHANGED stored
  PROVE  CacheSafe'
  <1>1. UNCHANGED <<mem, lines, pointer>> /\ flush.on /\ fetch.onBus
    BY DEF FlushWait
  <1>2. \A m \in Lines : Held(m)' = Held(m)
    BY <1>1 DEF Held, lines
  <1>3. OneLinePerBlock' /\ CleanLinesMatch'
    BY <1>1, <1>2 DEF CacheSafe, OneLinePerBlock, CleanLinesMatch, lines
  <1>4. fetch.busy /\ (flush.last <=> flush.next = NSets * Assoc)
    BY <1>1 DEF CacheSafe, BusInStep, TypeOK
  <1>5. CASE flush' = flush
    <2>1. FlushPassed'
      BY <1>1, <1>2, <1>5 DEF CacheSafe, FlushPassed, lines
    <2>2. \/ fetch' = fetch
          \/ burst' = 0 /\ ~ flush.last /\ fetch'.onBus = FALSE /\ fetch'.busy
      BY <1>4, <1>5 DEF FlushWait, TypeOK
    <2>3. FetchIsolated' /\ BusInStep'
      BY <1>1, <1>4, <1>5, <2>2 DEF FetchIsolated, BusInStep
    <2> QED BY <1>3, <2>1, <2>3 DEF CacheSafe
  <1>6. CASE /\ burst = 1 /\ burst' = 0
             /\ flush' = [flush EXCEPT !.on = FALSE]
             /\ fetch' = [fetch EXCEPT !.onBus = FALSE, !.busy = FALSE]
    <2>1. ~ flush'.on /\ ~ fetch'.busy /\ ~ fetch'.onBus
      BY <1>6 DEF TypeOK
    <2>2. FetchIsolated' /\ BusInStep' /\ FlushPassed'
      BY <1>6, <2>1 DEF FetchIsolated, BusInStep, FlushPassed
    <2> QED BY <1>3, <2>2 DEF CacheSafe
  <1>7. flush' = flush \/ (/\ burst = 1 /\ burst' = 0
                           /\ flush' = [flush EXCEPT !.on = FALSE]
                           /\ fetch' = [fetch EXCEPT !.onBus = FALSE, !.busy = FALSE])
    BY DEF FlushWait
  <1> QED BY <1>5, <1>6, <1>7

\* The steps of the DCMA keep the cache consistent.
LEMMA DcmaTickSafe ==
  ASSUME TypeOK, TypeOK', CacheSafe, DcmaTick
  PROVE  CacheSafe'
  <1>1. UNCHANGED stored
    BY DEF DcmaTick
  <1>2. CASE NoMiss
    BY <1>1, <1>2, CacheFrame DEF NoMiss, lines, bus
  <1> QED BY <1>1, <1>2, StartMissSafe, BurstTickSafe, BusWaitSafe, FlushScanSafe,
             FlushWaitSafe DEF DcmaTick

\* The main memory and the program leave the lines alone, or drop them all.
LEMMA OtherStepSafe ==
  ASSUME TypeOK, TypeOK', CacheSafe, BusTick \/ ProgramStep
  PROVE  CacheSafe'
  <1>1. CASE BusTick
    <2>1. incoming'.read.block = incoming.read.block
      BY <1>1 DEF BusTick, Older, TypeOK
    <2> QED BY <1>1, <2>1, CacheFrame DEF BusTick, lines
  <1>2. CASE CallFlush \/ CallReset \/ PollBusy
    BY <1>2, CacheFrame DEF CallFlush, CallReset, PollBusy, allButIo, lines, bus
  <1>3. CASE WriteFlush
    <2>1. /\ flush'.on /\ ~ flush'.last /\ flush'.next = 0 /\ fetch'.busy
          /\ fetch'.onBus = fetch.onBus
          /\ UNCHANGED <<mem, tag, valid, dirty, bram, burst>>
      BY <1>3 DEF WriteFlush, TypeOK, lines
    <2>2. OneLinePerBlock' /\ CleanLinesMatch'
      BY <2>1 DEF CacheSafe, OneLinePerBlock, CleanLinesMatch, Held
    <2>3. NSets * Assoc # 0
      <3>1. 0 * Assoc + 0 \in 0 .. NSets * Assoc - 1
        BY ComposeBound, GeometryAssumption
      <3> QED BY <3>1, GeometryAssumption
    <2>4. FetchIsolated' /\ BusInStep'
      BY <2>1, <2>3 DEF CacheSafe, FetchIsolated, BusInStep
    <2>5. FlushPassed'
      BY <2>1, GeometryAssumption DEF FlushPassed, Lines
    <2> QED BY <2>2, <2>4, <2>5 DEF CacheSafe
  <1>4. CASE WriteReset
    <2>1. /\ \A l \in Lines : ~ valid'[l] /\ ~ dirty'[l]
          /\ UNCHANGED <<mem, bram, fetch, burst, incoming, flush, stored>>
      BY <1>4 DEF WriteReset, bus
    <2>2. OneLinePerBlock' /\ CleanLinesMatch' /\ BusInStep' /\ FlushPassed'
      BY <2>1 DEF CacheSafe, OneLinePerBlock, CleanLinesMatch, BusInStep, FlushPassed
    <2>3. FetchIsolated'
      <3>1. fetch.line \in Lines
        BY DEF TypeOK
      <3> QED BY <2>1, <3>1, IsolatedAfter DEF CacheSafe, FetchIsolated
    <2> QED BY <2>2, <2>3 DEF CacheSafe
  <1> QED BY <1>1, <1>2, <1>3, <1>4 DEF ProgramStep

\* The invariant holds at the start, when burst_wait_counter is zero.
LEMMA InitSafe ==
  ASSUME Init, burst = 0
  PROVE  CacheSafe
  BY DEF Init, CacheSafe, OneLinePerBlock, CleanLinesMatch, FetchIsolated, BusInStep,
         FlushPassed

\* The invariant is kept by every step.
LEMMA NextSafe ==
  ASSUME TypeOK, TypeOK', CacheSafe, [Next]_vars
  PROVE  CacheSafe'
  <1>1. CASE UNCHANGED vars
    BY <1>1, CacheFrame DEF vars, lines, bus
  <1>2. CASE Next
    BY <1>2, DmaStepSafe, DcmaTickSafe, OtherStepSafe DEF Next, Cycle
  <1> QED BY <1>1, <1>2

\* The cache is coherent with the main memory in every state of every
\* interleaving of DMAs, flushes and resets, provided burst_wait_counter
\* starts at zero: no block in two lines, clean lines equal to the memory,
\* a line being fetched visible to no one, lines passed by a flush written
\* back.
THEOREM CacheCoherent == burst = 0 /\ Spec => []CacheInv
  <1>1. burst = 0 /\ Init => TypeOK /\ CacheSafe
    BY InitTyped, InitSafe
  <1>2. (TypeOK /\ CacheSafe) /\ [Next]_vars => (TypeOK /\ CacheSafe)'
    BY NextTyped, NextSafe
  <1>3. TypeOK /\ CacheSafe => CacheInv
    BY DEF CacheSafe, CacheInv
  <1> QED BY <1>1, <1>2, <1>3, PTL DEF Spec

-----------------------------------------------------------------------------
(* What the DMAs see.                                                      *)

\* The memory the DMAs see is that of the valid lines, and elsewhere the
\* main memory.
Shown ==
  /\ Current \in [Blocks -> Line]
  /\ \A l \in Lines : valid[l] => Current[Held(l)] = bram[l]
  /\ \A b \in Blocks :
       (\A l \in Lines : valid[l] => Held(l) # b) => Current[b] = mem[b]

\* The lookup gives the DMAs exactly that memory.
LEMMA CurrentShown == TypeOK /\ OneLinePerBlock => Shown
  <1> SUFFICES ASSUME TypeOK, OneLinePerBlock PROVE Shown
    OBVIOUS
  <1>1. /\ mem \in [Blocks -> Line] /\ bram \in [Lines -> Line]
    BY DEF TypeOK
  <1>2. ASSUME NEW b \in Blocks, Hit(b)
        PROVE  \E l \in Lines : valid[l] /\ Held(l) = b /\ Current[b] = bram[l]
    BY <1>2, HitLine DEF Current
  <1>3. ASSUME NEW b \in Blocks, ~ Hit(b) PROVE Current[b] = mem[b]
    BY <1>3 DEF Current
  <1>4. ASSUME NEW b \in Blocks PROVE Current[b] \in Line
    BY <1>1, <1>2, <1>3
  <1>5. Current \in [Blocks -> Line]
    BY <1>4 DEF Current
  <1>6. ASSUME NEW l \in Lines, valid[l] PROVE Current[Held(l)] = bram[l]
    <2>1. Held(l) \in Blocks
      BY HeldTyped
    <2>2. Hit(Held(l))
      BY <1>6, <2>1, HitHeld
    <2>3. PICK m \in Lines : valid[m] /\ Held(m) = Held(l) /\ Current[Held(l)] = bram[m]
      BY <1>2, <2>1, <2>2
    <2> QED BY <1>6, <2>3 DEF OneLinePerBlock
  <1>7. ASSUME NEW b \in Blocks, \A l \in Lines : valid[l] => Held(l) # b
        PROVE  Current[b] = mem[b]
    BY <1>3, <1>7, HitHeld
  <1> QED BY <1>5, <1>6, <1>7 DEF Shown

\* The same after a step.
LEMMA CurrentShownAfter == (TypeOK /\ OneLinePerBlock)' => Shown'
  BY CurrentShown, PTL

\* Current is the same after a step that changes no valid line and no block
\* of the main memory that is not in a valid line.
LEMMA SameCurrent ==
  ASSUME Shown, Shown',
         \A b \in Blocks :
           \/ \E l, m \in Lines : /\ valid[l] /\ Held(l) = b /\ valid'[m] /\ Held(m)' = b
                                  /\ bram'[m] = bram[l]
           \/ \E l \in Lines : /\ valid[l] /\ Held(l) = b /\ mem'[b] = bram[l]
                               /\ \A m \in Lines : valid'[m] => Held(m)' # b
           \/ \E m \in Lines : /\ valid'[m] /\ Held(m)' = b /\ bram'[m] = mem[b]
                               /\ \A l \in Lines : valid[l] => Held(l) # b
           \/ /\ \A l \in Lines : valid[l] => Held(l) # b
              /\ \A m \in Lines : valid'[m] => Held(m)' # b
              /\ mem'[b] = mem[b]
  PROVE  Current' = Current
  <1>1. Current \in [Blocks -> Line] /\ Current' \in [Blocks -> Line]
    BY DEF Shown
  <1>2. ASSUME NEW b \in Blocks PROVE Current'[b] = Current[b]
    <2>1. \A l \in Lines : valid[l] /\ Held(l) = b => Current[b] = bram[l]
      BY DEF Shown
    <2>2. \A l \in Lines : valid'[l] /\ Held(l)' = b => Current'[b] = bram'[l]
      BY DEF Shown
    <2>3. (\A l \in Lines : valid[l] => Held(l) # b) => Current[b] = mem[b]
      BY DEF Shown
    <2>4. (\A l \in Lines : valid'[l] => Held(l)' # b) => Current'[b] = mem'[b]
      BY DEF Shown
    <2> QED BY <2>1, <2>2, <2>3, <2>4
  <1> QED BY <1>1, <1>2

\* Steps that leave the lines and the main memory alone.
LEMMA CurrentFrame ==
  ASSUME UNCHANGED <<mem, tag, valid, bram>>
  PROVE  Current' = Current
  BY DEF Current, Hit, Matches

\* "The memory is one memory": the steps of the DMAs load and store ...
LEMMA DmaStepImplements ==
  ASSUME TypeOK, Shown, Shown', NEW c \in Ids, DmaStep(c)
  PROVE  [Memory!MNext]_<<Current, mem, data>>
  <1>1. CASE OpenRequest(c) \/ SkipTurn(c) \/ PollLatency(c) \/ PollNotReady(c)
    <2>1. UNCHANGED <<mem, tag, valid, bram, data>>
      BY <1>1 DEF OpenRequest, SkipTurn, PollLatency, PollNotReady, cacheSide, dmas
    <2> QED BY <2>1, CurrentFrame
  <1>2. CASE MoveWord(c)
    <2> DEFINE w == CurrentWord(c)
               b == BlockOf(w)
               o == OffsetOf(w)
               l == FirstOf(Matches(b))
    <2>1. UNCHANGED <<mem, tag, valid>>
      BY <1>2 DEF MoveWord, cacheSide
    <2>2. l \in Lines /\ valid[l] /\ Held(l) = b /\ b \in Blocks /\ o \in Offsets
      BY <1>2, MoveTyped DEF MoveWord
    <2>3. \/ data' = [data EXCEPT ![c] = bram[l][o]] /\ UNCHANGED bram
          \/ \E v \in Values : /\ bram' = [bram EXCEPT ![l][o] = v]
                               /\ data' = [data EXCEPT ![c] = v]
      BY <1>2 DEF MoveWord
    <2> HIDE DEF w, b, o, l
    <2>4. Current[b] = bram[l]
      BY <2>2 DEF Shown
    <2>5. CASE data' = [data EXCEPT ![c] = bram[l][o]] /\ UNCHANGED bram
      <3>1. Current' = Current
        BY <2>1, <2>5, CurrentFrame
      <3>2. Memory!Load(c, b, o)
        BY <2>1, <2>4, <2>5, <3>1 DEF Memory!Load
      <3> QED BY <2>2, <3>2 DEF Memory!MNext
    <2>6. ASSUME NEW v \in Values,
                 bram' = [bram EXCEPT ![l][o] = v],
                 data' = [data EXCEPT ![c] = v]
          PROVE  Memory!MNext
      <3>1. Current \in [Blocks -> Line] /\ Current' \in [Blocks -> Line]
        BY DEF Shown
      <3>2. \A m \in Lines : Held(m)' = Held(m)
        BY <2>1 DEF Held
      <3>3. /\ bram'[l] = [bram[l] EXCEPT ![o] = v]
            /\ \A m \in Lines \ {l} : bram'[m] = bram[m]
        BY <2>2, <2>6 DEF TypeOK
      <3>4. Current'[b] = [Current[b] EXCEPT ![o] = v]
        BY <2>1, <2>2, <2>4, <3>2, <3>3 DEF Shown
      <3>5. ASSUME NEW a \in Blocks, a # b PROVE Current'[a] = Current[a]
        <4>1. CASE \E m \in Lines : valid[m] /\ Held(m) = a
          <5>1. PICK m \in Lines : valid[m] /\ Held(m) = a
            BY <4>1
          <5>2. Current[a] = bram[m] /\ Current'[a] = bram'[m]
            BY <2>1, <3>2, <5>1 DEF Shown
          <5> QED BY <2>2, <3>3, <3>5, <5>1, <5>2
        <4>2. CASE \A m \in Lines : valid[m] => Held(m) # a
          BY <2>1, <3>2, <4>2 DEF Shown
        <4> QED BY <4>1, <4>2
      <3>6. Current' = [Current EXCEPT ![b][o] = v]
        BY <2>2, <3>1, <3>4, <3>5
      <3>7. Memory!Store(c, b, o, v)
        BY <2>1, <2>6, <3>6 DEF Memory!Store
      <3> QED BY <2>2, <3>7 DEF Memory!MNext
    <2> QED BY <2>3, <2>5, <2>6
  <1> QED BY <1>1, <1>2 DEF DmaStep

\* ... a line that goes to the main memory is a write back ...
LEMMA WriteLineImplements ==
  ASSUME TypeOK, OneLinePerBlock, Shown, Current' = Current, UNCHANGED data,
         NEW l \in Lines, dirty[l], StartWrite(l)
  PROVE  Memory!MNext
  <1>1. valid[l] /\ Held(l) \in Blocks
    BY HeldTyped DEF OneLinePerBlock
  <1>2. mem' = [mem EXCEPT ![Held(l)] = Current[Held(l)]]
    BY <1>1 DEF Shown, StartWrite
  <1>3. Memory!WriteBack(Held(l))
    BY <1>2 DEF Memory!WriteBack
  <1> QED BY <1>1, <1>3 DEF Memory!MNext

\* ... and no step of the DCMA changes what the DMAs see.
LEMMA DcmaTickImplements ==
  ASSUME TypeOK, CacheSafe, TypeOK', CacheSafe', DcmaTick
  PROVE  [Memory!MNext]_<<Current, mem, data>>
  <1>0. Shown /\ Shown' /\ UNCHANGED data /\ OneLinePerBlock
    BY CurrentShown, CurrentShownAfter DEF CacheSafe, DcmaTick, dmas
  <1>1. CASE StartMiss
    <2> DEFINE l == ReplaceLine(SetOf(BlockOf(CurrentWord(pointer))))
    <2>1. l \in Lines
      BY <1>1, MissTyped DEF StartMiss
    <2>2. /\ valid' = [valid EXCEPT ![l] = FALSE]
          /\ UNCHANGED <<tag, bram>>
          /\ (dirty[l] /\ StartWrite(l)) \/ (~ dirty[l] /\ UNCHANGED mem)
      BY <1>1 DEF StartMiss
    <2> HIDE DEF l
    <2>3. ~ valid'[l] /\ \A m \in Lines \ {l} : valid'[m] = valid[m]
      BY <2>1, <2>2 DEF TypeOK
    <2>4. \A m \in Lines : Held(m)' = Held(m) /\ bram'[m] = bram[m]
      BY <2>2 DEF Held
    <2>5. \A m \in Lines : valid[m] /\ valid[l] /\ Held(m) = Held(l) => m = l
      BY <1>0, <2>1 DEF OneLinePerBlock
    <2>6. valid[l] => mem'[Held(l)] = bram[l]
      BY <1>0, <2>1, <2>2, WriteBackSafe DEF CacheSafe, CleanLinesMatch
    <2>7. \A b \in Blocks : ~ (valid[l] /\ Held(l) = b) => mem'[b] = mem[b]
      <3>1. dirty[l] => valid[l]
        BY <1>0, <2>1 DEF OneLinePerBlock
      <3> QED BY <1>0, <2>1, <2>2, <3>1, WriteBackSafe
    <2>8. Current' = Current
      <3>1. ASSUME NEW b \in Blocks
            PROVE  \/ \E k, m \in Lines : /\ valid[k] /\ Held(k) = b /\ valid'[m] /\ Held(m)' = b
                                          /\ bram'[m] = bram[k]
                   \/ \E k \in Lines : /\ valid[k] /\ Held(k) = b /\ mem'[b] = bram[k]
                                       /\ \A m \in Lines : valid'[m] => Held(m)' # b
                   \/ /\ \A k \in Lines : valid[k] => Held(k) # b
                      /\ \A m \in Lines : valid'[m] => Held(m)' # b
                      /\ mem'[b] = mem[b]
        <4>1. CASE valid[l] /\ Held(l) = b
          BY <2>1, <2>3, <2>4, <2>5, <2>6, <4>1
        <4>2. CASE \E k \in Lines \ {l} : valid[k] /\ Held(k) = b
          BY <2>3, <2>4, <4>2
        <4>3. CASE \A k \in Lines : valid[k] => Held(k) # b
          BY <2>1, <2>3, <2>4, <2>7, <4>3
        <4> QED BY <4>1, <4>2, <4>3
      <3> QED BY <1>0, <3>1, SameCurrent
    <2>9. CASE dirty[l] /\ StartWrite(l)
      BY <1>0, <2>1, <2>8, <2>9, WriteLineImplements
    <2>10. CASE UNCHANGED mem
      BY <1>0, <2>8, <2>10
    <2> QED BY <2>2, <2>9, <2>10
  <1>2. CASE NoMiss
    BY <1>0, <1>2, CurrentFrame DEF NoMiss, lines
  <1>3. CASE BurstTick
    <2>0. PICK l \in Lines, b \in Blocks : l = fetch.line /\ b = fetch.block
      BY DEF TypeOK
    <2>1. UNCHANGED <<mem, bram>>
      BY <1>3 DEF BurstTick, lines
    <2>2. CASE UNCHANGED <<tag, valid>>
      BY <1>0, <2>1, <2>2, CurrentFrame
    <2>3. CASE /\ ~ fetch.wdata /\ burst = 1
               /\ valid' = [valid EXCEPT ![l] = TRUE]
               /\ tag' = [tag EXCEPT ![l] = TagOf(b)]
      <3>1. /\ ~ valid[l] /\ l \in LinesOf(SetOf(b)) /\ bram[l] = mem[b]
            /\ \A m \in Lines : valid[m] => Held(m) # b
        BY <1>3, <2>0, <2>3, HitHeld DEF CacheSafe, FetchIsolated, BurstTick
      <3>2. valid'[l] /\ Held(l)' = b
        <4>1. valid'[l] /\ tag'[l] = TagOf(b)
          BY <2>3 DEF TypeOK
        <4>2. SetOfLine(l) = SetOf(b)
          BY <3>1, BlockParts, SetLines
        <4> QED BY <4>1, <4>2, BlockParts DEF Held
      <3>3. \A m \in Lines \ {l} : valid'[m] = valid[m] /\ Held(m)' = Held(m)
        BY <2>3 DEF TypeOK, Held
      <3>4. ASSUME NEW a \in Blocks
            PROVE  \/ \E k, m \in Lines : /\ valid[k] /\ Held(k) = a /\ valid'[m] /\ Held(m)' = a
                                          /\ bram'[m] = bram[k]
                   \/ \E m \in Lines : /\ valid'[m] /\ Held(m)' = a /\ bram'[m] = mem[a]
                                       /\ \A k \in Lines : valid[k] => Held(k) # a
                   \/ /\ \A k \in Lines : valid[k] => Held(k) # a
                      /\ \A m \in Lines : valid'[m] => Held(m)' # a
                      /\ mem'[a] = mem[a]
        <4>1. CASE a = b
          BY <2>1, <3>1, <3>2, <4>1
        <4>2. CASE \E k \in Lines : valid[k] /\ Held(k) = a
          BY <2>1, <3>1, <3>3, <4>2
        <4>3. CASE a # b /\ \A k \in Lines : valid[k] => Held(k) # a
          BY <2>1, <3>2, <3>3, <4>3
        <4> QED BY <4>1, <4>2, <4>3
      <3>5. Current' = Current
        BY <1>0, <3>4, SameCurrent
      <3> QED BY <1>0, <2>1, <3>5
    <2> QED BY <1>3, <2>0, <2>2, <2>3 DEF BurstTick, lines
  <1>4. CASE BusWait
    <2>1. UNCHANGED <<mem, tag, valid>>
      BY <1>4 DEF BusWait
    <2>2. \A m \in Lines : valid[m] => bram'[m] = bram[m]
      BY <1>4 DEF BusWait, CacheSafe, FetchIsolated, TypeOK
    <2>3. \A m \in Lines : Held(m)' = Held(m)
      BY <2>1 DEF Held
    <2>4. Current' = Current
      BY <1>0, <2>1, <2>2, <2>3, SameCurrent
    <2> QED BY <1>0, <2>1, <2>4
  <1>5. CASE FlushScan
    <2>1. UNCHANGED <<tag, valid, bram>>
      BY <1>5 DEF FlushScan, lines
    <2>2. CASE UNCHANGED mem
      BY <1>0, <2>1, <2>2, CurrentFrame
    <2>3. CASE DirtyFrom(flush.next) # {} /\ StartWrite(FirstOf(DirtyFrom(flush.next)))
      <3> DEFINE l == FirstOf(DirtyFrom(flush.next))
      <3>1. l \in Lines /\ dirty[l]
        <4>1. DirtyFrom(flush.next) \subseteq Lines /\ Lines \subseteq Nat
          BY GeometryAssumption DEF DirtyFrom, Lines
        <4>2. l \in DirtyFrom(flush.next)
          BY <2>3, <4>1, FirstIn
        <4> HIDE DEF l
        <4> QED BY <4>1, <4>2 DEF DirtyFrom
      <3>2. StartWrite(l)
        BY <2>3
      <3> HIDE DEF l
      <3>3. \A b \in Blocks : b # Held(l) => mem'[b] = mem[b]
        BY <1>0, <3>1, <3>2, WriteBackSafe
      <3>4. valid[l]
        BY <1>0, <3>1 DEF OneLinePerBlock
      <3>5. \A m \in Lines : Held(m)' = Held(m)
        BY <2>1 DEF Held
      <3>6. Current' = Current
        BY <1>0, <2>1, <3>1, <3>3, <3>4, <3>5, SameCurrent
      <3> QED BY <1>0, <3>1, <3>2, <3>6, WriteLineImplements
    <2> QED BY <1>5, <2>2, <2>3 DEF FlushScan
  <1>6. CASE FlushWait
    BY <1>0, <1>6, CurrentFrame DEF FlushWait, lines
  <1> QED BY <1>1, <1>2, <1>3, <1>4, <1>5, <1>6 DEF DcmaTick

\* A reset drops what was not written back.
LEMMA OtherStepImplements ==
  ASSUME TypeOK, CacheSafe, TypeOK', CacheSafe', BusTick \/ ProgramStep
  PROVE  [Memory!MNext]_<<Current, mem, data>>
  <1>1. CASE WriteReset
    <2>1. Shown'
      BY CurrentShownAfter DEF CacheSafe
    <2>2. \A l \in Lines : ~ valid'[l]
      BY <1>1 DEF WriteReset
    <2>3. mem' = mem /\ UNCHANGED data /\ mem \in [Blocks -> Line]
      BY <1>1 DEF WriteReset, dmas, TypeOK
    <2>4. Current' = mem
      BY <2>1, <2>2, <2>3 DEF Shown
    <2>5. Memory!Drop
      BY <2>3, <2>4 DEF Memory!Drop
    <2> QED BY <2>5 DEF Memory!MNext
  <1>2. CASE BusTick \/ CallFlush \/ CallReset \/ PollBusy \/ WriteFlush
    <2>1. UNCHANGED <<mem, tag, valid, bram, data>>
      BY <1>2 DEF BusTick, CallFlush, CallReset, PollBusy, WriteFlush, allButIo, lines, dmas
    <2> QED BY <2>1, CurrentFrame
  <1> QED BY <1>1, <1>2 DEF ProgramStep

\* At the start the DMAs see the main memory.
LEMMA InitImplements ==
  ASSUME Init, burst = 0
  PROVE  Memory!MInit
  <1>1. TypeOK /\ CacheSafe
    BY InitTyped, InitSafe
  <1>2. Shown
    BY <1>1, CurrentShown DEF CacheSafe
  <1>3. \A l \in Lines : ~ valid[l]
    BY DEF Init
  <1>4. mem \in [Blocks -> Line] /\ data \in [Ids -> Values]
    BY <1>1 DEF TypeOK
  <1>5. Current = mem
    BY <1>2, <1>3, <1>4 DEF Shown
  <1> QED BY <1>4, <1>5 DEF Memory!MInit, Line

\* The DCMA implements one memory: a load returns the last value stored to
\* its word by any DMA, whichever lines were evicted, fetched or flushed in
\* between; only a reset takes back what had not been written to the main
\* memory.
THEOREM DcmaIsOneMemory == burst = 0 /\ Spec => MemorySpec
  <1>1. burst = 0 /\ Init => TypeOK /\ CacheSafe /\ Memory!MInit
    BY InitTyped, InitSafe, InitImplements
  <1>2. (TypeOK /\ CacheSafe) /\ [Next]_vars => (TypeOK /\ CacheSafe)'
    BY NextTyped, NextSafe
  <1>3. TypeOK /\ CacheSafe /\ (TypeOK /\ CacheSafe)' /\ [Next]_vars
          => [Memory!MNext]_(Memory!mvars)
    <2> SUFFICES ASSUME TypeOK, CacheSafe, TypeOK', CacheSafe', [Next]_vars
                 PROVE  [Memory!MNext]_<<Current, mem, data>>
      BY DEF Memory!mvars
    <2>1. Shown /\ Shown'
      BY CurrentShown, CurrentShownAfter DEF CacheSafe
    <2>2. CASE UNCHANGED vars
      BY <2>2, CurrentFrame DEF vars, lines, dmas
    <2>3. CASE Next
      BY <2>1, <2>3, DmaStepImplements, DcmaTickImplements, OtherStepImplements
      DEF Next, Cycle
    <2> QED BY <2>2, <2>3
  <1> QED BY <1>1, <1>2, <1>3, PTL DEF Spec, MemorySpec, Memory!MSpec

-----------------------------------------------------------------------------
(* The flush.                                                              *)

\* A step that ends the flush finds all the lines passed.
LEMMA FlushEndsClean ==
  ASSUME TypeOK, CacheSafe, TypeOK', CacheSafe', [Next]_vars,
         flush.on, ~ flush'.on, ~ stored'
  PROVE  Current' = mem'
  <1>0. DcmaTick
    <2>1. flush' # flush
      OBVIOUS
    <2>2. ~ UNCHANGED vars
      BY <2>1 DEF vars
    <2>3. ASSUME NEW c \in Ids, DmaStep(c) PROVE FALSE
      BY <2>1, <2>3 DEF DmaStep, OpenRequest, SkipTurn, PollLatency, PollNotReady, MoveWord,
                        cacheSide
    <2>4. ~ BusTick
      BY <2>1 DEF BusTick
    <2>5. ~ ProgramStep
      BY <2>1 DEF ProgramStep, CallFlush, CallReset, PollBusy, WriteFlush, WriteReset
    <2> QED BY <2>2, <2>3, <2>4, <2>5 DEF Next, Cycle
  <1>1. FlushScan \/ FlushWait
    <2>1. fetch.busy
      BY DEF CacheSafe, BusInStep
    <2> QED BY <1>0, <2>1 DEF DcmaTick, StartMiss, NoMiss, BurstTick, BusWait
  <1>2. UNCHANGED <<mem, lines, stored>>
    <2>1. UNCHANGED stored
      BY <1>0 DEF DcmaTick
    <2>2. CASE FlushWait
      BY <2>1, <2>2 DEF FlushWait
    <2>3. CASE FlushScan
      <3>1. flush' = [flush EXCEPT !.next = FirstOf(DirtyFrom(flush.next)) + 1,
                                   !.last = (FirstOf(DirtyFrom(flush.next)) + 1 = NSets * Assoc)]
              => flush'.on = flush.on
        BY DEF TypeOK
      <3> QED BY <2>1, <2>3, <3>1 DEF FlushScan
    <2> QED BY <1>1, <2>2, <2>3
  <1>3. \A l \in Lines : valid[l] => bram[l] = mem[Held(l)]
    <2>1. \A l \in Lines : l < flush.next /\ valid[l] => bram[l] = mem[Held(l)]
      BY <1>2 DEF CacheSafe, FlushPassed
    <2>2. CASE DirtyFrom(flush.next) = {}
      <3>1. flush.next \in Nat /\ Lines \subseteq Nat
        BY GeometryAssumption DEF TypeOK, Lines
      <3> QED BY <2>1, <2>2, <3>1 DEF CacheSafe, CleanLinesMatch, DirtyFrom
    <2>3. CASE flush.last
      <3>1. flush.next = NSets * Assoc
        BY <2>3 DEF CacheSafe, BusInStep
      <3> QED BY <2>1, <3>1, GeometryAssumption DEF Lines
    <2>4. DirtyFrom(flush.next) = {} \/ flush.last
      <3>1. CASE FlushScan
        <4>1. flush' = [flush EXCEPT !.next = FirstOf(DirtyFrom(flush.next)) + 1,
                                     !.last = (FirstOf(DirtyFrom(flush.next)) + 1 = NSets * Assoc)]
                => flush'.on = flush.on
          BY DEF TypeOK
        <4> QED BY <3>1, <4>1 DEF FlushScan
      <3>2. CASE FlushWait
        BY <3>2 DEF FlushWait
      <3> QED BY <1>1, <3>1, <3>2
    <2> QED BY <2>2, <2>3, <2>4
  <1>4. Shown
    BY CurrentShown DEF CacheSafe
  <1>5. Current = mem
    <2>1. Current \in [Blocks -> Line] /\ mem \in [Blocks -> Line]
      BY <1>4 DEF Shown, TypeOK
    <2>2. ASSUME NEW b \in Blocks PROVE Current[b] = mem[b]
      BY <1>3, <1>4 DEF Shown
    <2> QED BY <2>1, <2>2
  <1>6. Current' = Current
    BY <1>2, CurrentFrame DEF lines
  <1> QED BY <1>2, <1>5, <1>6

\* A flush during which no DMA stores leaves the whole main memory up to
\* date, for every geometry of the cache and whatever fetch or upload the
\* flush interrupts.
THEOREM FlushWritesBack == burst = 0 /\ Spec => FlushCleans
  <1>1. burst = 0 /\ Init => TypeOK /\ CacheSafe
    BY InitTyped, InitSafe
  <1>2. (TypeOK /\ CacheSafe) /\ [Next]_vars => (TypeOK /\ CacheSafe)'
    BY NextTyped, NextSafe
  <1>3. TypeOK /\ CacheSafe /\ (TypeOK /\ CacheSafe)' /\ [Next]_vars
          => [flush.on /\ ~ flush'.on /\ ~ stored' => Current' = mem']_vars
    BY FlushEndsClean
  <1> QED BY <1>1, <1>2, <1>3, PTL DEF Spec, FlushCleans

-----------------------------------------------------------------------------
(* The end of a download.                                                  *)

\* Only the last word of a download's burst ends a fetch outside a flush.
LEMMA FetchEndsFull ==
  ASSUME TypeOK, CacheSafe, [Next]_vars, fetch.busy, ~ fetch'.busy, ~ flush.on
  PROVE  bram[fetch.line] = mem[fetch.block]
  <1>0. DcmaTick
    <2>1. fetch' # fetch
      OBVIOUS
    <2>2. ~ UNCHANGED vars
      BY <2>1 DEF vars, bus
    <2>3. ASSUME NEW c \in Ids, DmaStep(c) PROVE FALSE
      BY <2>1, <2>3 DEF DmaStep, OpenRequest, SkipTurn, PollLatency, PollNotReady, MoveWord,
                        cacheSide, bus
    <2>4. ~ BusTick
      BY <2>1 DEF BusTick
    <2>5. ~ WriteFlush
      BY DEF WriteFlush, TypeOK
    <2>6. ~ ProgramStep
      BY <2>1, <2>5 DEF ProgramStep, CallFlush, CallReset, PollBusy, WriteReset, allButIo, bus
    <2> QED BY <2>2, <2>3, <2>4, <2>6 DEF Next, Cycle
  <1>1. BurstTick
    <2>1. ~ StartMiss /\ ~ NoMiss
      BY DEF StartMiss, NoMiss
    <2>2. ~ FlushScan /\ ~ FlushWait
      BY DEF FlushScan, FlushWait
    <2>3. ~ BusWait
      BY DEF BusWait
    <2> QED BY <1>0, <2>1, <2>2, <2>3 DEF DcmaTick
  <1>2. burst = 1 /\ ~ fetch.wdata
    <2>1. [fetch EXCEPT !.wdata = FALSE].busy = fetch.busy
      BY DEF TypeOK
    <2> QED BY <1>1, <2>1 DEF BurstTick
  <1> QED BY <1>2 DEF CacheSafe, FetchIsolated

\* When burst_wait_counter starts at zero, a fetch ends only after the line
\* has received the block it was asked for: what the counter starts with is
\* all that can make a line valid too early.
THEOREM DownloadsComplete == burst = 0 /\ Spec => DownloadFinished
  <1>1. burst = 0 /\ Init => TypeOK /\ CacheSafe
    BY InitTyped, InitSafe
  <1>2. (TypeOK /\ CacheSafe) /\ [Next]_vars => (TypeOK /\ CacheSafe)'
    BY NextTyped, NextSafe
  <1>3. TypeOK /\ CacheSafe /\ [Next]_vars
          => [fetch.busy /\ ~ fetch'.busy /\ ~ flush.on
                => bram[fetch.line] = mem[fetch.block]]_vars
    BY FetchEndsFull
  <1> QED BY <1>1, <1>2, <1>3, PTL DEF Spec, DownloadFinished

-----------------------------------------------------------------------------
(* The ports of the brams.                                                 *)

\* Whole lines in front of a word do not change its bram.
LEMMA SameBram ==
  ASSUME NEW x \in Nat, NEW o \in Nat
  PROVE  BramOf(x * LineWords + o) = BramOf(o)
  <1>1. PICK k \in Nat : LineWords = k * (NBrams * PortWords)
    <2> DEFINE m == NBrams * PortWords
    <2>1. m \in Nat \ {0}
      BY GeometryAssumption
    <2>2. LineWords % m = 0
      BY BramAssumption
    <2> HIDE DEF m
    <2>3. LineWords = (LineWords \div m) * m
      BY <2>1, <2>2, DivMod, GeometryAssumption
    <2>4. LineWords \div m \in Nat
      BY <2>1, GeometryAssumption, DivNat
    <2> QED BY <2>3, <2>4 DEF m
  <1> DEFINE q == o \div PortWords
             r == o % PortWords
             h == x * k * NBrams
  <1>2. q \in Nat /\ r \in 0 .. PortWords - 1 /\ o = q * PortWords + r
    <2>1. PortWords \in Nat \ {0} /\ o \in Int
      BY GeometryAssumption
    <2>2. q \in Nat
      BY <2>1, DivNat
    <2> QED BY <2>1, <2>2, DivMod
  <1>3. h \in Nat /\ x * k \in Nat
    BY GeometryAssumption
  <1>4. x * LineWords + o = (h + q) * PortWords + r
    <2>1. k * (NBrams * PortWords) = (k * NBrams) * PortWords
      BY GeometryAssumption
    <2>2. x * ((k * NBrams) * PortWords) = ((x * k) * NBrams) * PortWords
      BY GeometryAssumption
    <2>3. x * LineWords = h * PortWords
      BY <1>1, <2>1, <2>2
    <2> HIDE DEF h, q, r
    <2>4. (h + q) * PortWords = h * PortWords + q * PortWords
      BY <1>2, <1>3, GeometryAssumption
    <2> QED BY <1>2, <1>3, <2>3, <2>4, GeometryAssumption
  <1>5. (x * LineWords + o) \div PortWords = h + q
    <2> HIDE DEF h, q, r
    <2> DEFINE y == h + q
    <2>1. y \in Int /\ PortWords \in Nat \ {0}
      BY <1>2, <1>3, GeometryAssumption
    <2>2. x * LineWords + o = y * PortWords + r
      BY <1>4
    <2> HIDE DEF y
    <2>3. (y * PortWords + r) \div PortWords = y
      BY <1>2, <2>1, DivUnique
    <2> QED BY <2>2, <2>3 DEF y
  <1>6. (h + q) % NBrams = q % NBrams
    <2> DEFINE s == q \div NBrams
               t == q % NBrams
    <2> HIDE DEF q
    <2>1. s \in Nat /\ t \in 0 .. NBrams - 1 /\ q = s * NBrams + t
      <3>1. NBrams \in Nat \ {0} /\ q \in Int
        BY <1>2, GeometryAssumption
      <3>2. s \in Nat
        BY <1>2, <3>1, DivNat
      <3> QED BY <3>1, <3>2, DivMod
    <2> HIDE DEF s, t, r
    <2>2. h + q = (x * k + s) * NBrams + t
      <3>1. (x * k + s) * NBrams = x * k * NBrams + s * NBrams
        BY <1>3, <2>1, GeometryAssumption
      <3> QED BY <1>3, <2>1, <3>1, GeometryAssumption
    <2>3. (h + q) % NBrams = t
      <3> DEFINE y == x * k + s
      <3>1. y \in Nat
        BY <1>3, <2>1
      <3>2. h + q = y * NBrams + t
        BY <2>2
      <3> HIDE DEF h, y
      <3>3. (y * NBrams + t) % NBrams = t
        BY <2>1, <3>1, DivUnique, GeometryAssumption
      <3> QED BY <3>2, <3>3
    <2> QED BY <2>3 DEF t
  <1> QED BY <1>5, <1>6 DEF BramOf

\* A word uses the port of the same bram wherever its line lies.
LEMMA WordBram ==
  ASSUME NEW w \in MemWords, NEW l \in Lines
  PROVE  BramOf(CacheAddr(l, OffsetOf(w))) = BramOf(w)
  <1>1. w \in Nat /\ l \in Nat
    BY GeometryAssumption DEF MemWords, Lines
  <1>2. BlockOf(w) \in Nat /\ OffsetOf(w) \in Nat
        /\ w = BlockOf(w) * LineWords + OffsetOf(w)
    <2>1. LineWords \in Nat \ {0}
      BY GeometryAssumption
    <2>2. w \div LineWords \in Nat
      BY <1>1, <2>1, DivNat
    <2>3. w = (w \div LineWords) * LineWords + (w % LineWords) /\ w % LineWords \in Nat
      BY <1>1, <2>1, DivMod
    <2> QED BY <2>2, <2>3 DEF BlockOf, OffsetOf
  <1>3. BramOf(w) = BramOf(OffsetOf(w))
    <2> DEFINE b == BlockOf(w)
               o == OffsetOf(w)
    <2>1. b \in Nat /\ o \in Nat /\ w = b * LineWords + o
      BY <1>2
    <2> HIDE DEF b, o
    <2>2. BramOf(b * LineWords + o) = BramOf(o)
      BY <2>1, SameBram
    <2> QED BY <2>1, <2>2 DEF o
  <1>4. BramOf(l * LineWords + OffsetOf(w)) = BramOf(OffsetOf(w))
    BY <1>1, <1>2, SameBram
  <1> QED BY <1>3, <1>4 DEF CacheAddr

\* A step uses a port that was found free, or frees all ports.
LEMMA PortsStay ==
  ASSUME TypeOK, BramPortLimit, [Next]_vars
  PROVE  BramPortLimit'
  <1>1. ASSUME NEW c \in Ids, MoveWord(c) PROVE BramPortLimit'
    <2> DEFINE w == CurrentWord(c)
               l == FirstOf(Matches(BlockOf(w)))
               i == BramOf(CacheAddr(l, OffsetOf(w)))
    <2>1. w \in MemWords /\ AccessReady(w)
      BY <1>1, OpenWord DEF MoveWord, Done
    <2>2. l \in Lines
      BY <2>1, HitLine, WordParts DEF AccessReady
    <2>3. i = BramOf(w)
      BY <2>1, <2>2, WordBram
    <2>4. port[i] < PortWords
      BY <2>1, <2>3 DEF AccessReady
    <2>5. port' = [port EXCEPT ![i] = @ + 1]
      BY <1>1 DEF MoveWord
    <2>6. port \in [0 .. NBrams - 1 -> Nat]
      BY DEF TypeOK
    <2> HIDE DEF w, l, i
    <2> QED BY <2>4, <2>5, <2>6, GeometryAssumption DEF BramPortLimit
  <1>2. CASE DcmaTick
    BY <1>2, GeometryAssumption DEF DcmaTick, BramPortLimit
  <1>3. ASSUME UNCHANGED port PROVE BramPortLimit'
    BY <1>3 DEF BramPortLimit
  <1>4. ASSUME NEW c \in Ids, DmaStep(c) PROVE BramPortLimit'
    BY <1>1, <1>3, <1>4 DEF DmaStep, OpenRequest, SkipTurn, PollLatency, PollNotReady
  <1>5. CASE BusTick \/ ProgramStep
    BY <1>3, <1>5 DEF BusTick, ProgramStep, CallFlush, CallReset, PollBusy, WriteFlush,
                      WriteReset, allButIo
  <1>6. CASE UNCHANGED vars
    BY <1>3, <1>6 DEF vars
  <1> QED BY <1>2, <1>4, <1>5, <1>6 DEF Next, Cycle

\* A bram never serves more words in a cycle than one of its words holds,
\* however many DMAs share it: the port looked up with the address in the
\* main memory is the one that is used, with the address in the cache.
THEOREM BramPortSafety == Spec => []BramPortLimit
  <1>1. Init => BramPortLimit
    BY GeometryAssumption DEF Init, BramPortLimit
  <1>2. TypeOK /\ BramPortLimit /\ [Next]_vars => BramPortLimit'
    BY PortsStay
  <1> QED BY <1>1, <1>2, DcmaTypeSafety, PTL DEF Spec
=============================================================================
