-------------------------- MODULE DmaLoopExtension --------------------------
(***************************************************************************)
(* The loop pass: replaces a run of DMA commands that differ in their      *)
(* addresses and masks by a regular step only by a loop command and the    *)
(* first of them, the base; the looper of the DMA front end unrolls it.    *)
(***************************************************************************)
EXTENDS CommandList, DmaLoop

MinLoop == 5   \* shorter loops are not encoded

\* Commands of one run may differ in their addresses and masks.
Loopable(a, b) ==
  /\ IsDma(a) /\ IsDma(b)
  /\ a.dir = b.dir /\ a.bias = b.bias /\ a.kernel = b.kernel
  /\ a.x = b.x /\ a.leap = b.leap /\ a.y = b.y /\ a.pad = b.pad

Groups(list) ==
  Fold(LAMBDA acc, cmd :
             IF acc # <<>> /\ Loopable(Head(Last(acc)), cmd)
             THEN Append(Front(acc), Append(Last(acc), cmd))
             ELSE Append(acc, <<cmd>>),
           <<>>, list)

\* A run at the end of the list loses its last command.
DropTrailing(groups) ==
  IF Len(Last(groups)) = 1 THEN groups ELSE Append(Front(groups), Front(Last(groups)))

-----------------------------------------------------------------------------
(* Masks.                                                                  *)

TrailingZeros(mask) ==
  IF mask = 0 THEN 32 ELSE CHOOSE b \in Bits(mask) : \A d \in Bits(mask) : b <= d

\* other is base moved to the left by "by" bits.  For a move to the right
\* the code shifts by a negative number, which gives no mask of the base.
MaskShift(base, other) ==
  LET by == TrailingZeros(other) - TrailingZeros(base)
  IN  [same |-> by >= 0 /\ base = other \div 2^(IF by < 0 THEN 0 ELSE by), by |-> by % 256]

AsSigned(v, n) == LET low == v % n IN IF 2 * low >= n THEN low - n ELSE low

-----------------------------------------------------------------------------
(* A loop under construction.                                              *)

\* The loop command, in the widths of its fields.
LoopOf(s) ==
  [cluster_len |-> s.clusterLen % 256, cluster_shift |-> AsSigned(s.clusterShift, 256),
   unit_len |-> s.unitLen % 256, unit_shift |-> AsSigned(s.unitShift, 256),
   inter_len |-> s.interLen % 256, lm_incr |-> AsSigned(s.lmIncr, 65536),
   mm_incr |-> s.mmIncr, count |-> Len(s.list) % 65536]

\* The commands the pass expects the loop to stand for.
Unrolled(l, base) ==
  LET k(i) == [inter |-> (i - 1) % (l.inter_len + 1),
               unit |-> ((i - 1) \div (l.inter_len + 1)) % (l.unit_len + 1),
               cluster |-> (i - 1) \div ((l.inter_len + 1) * (l.unit_len + 1))]
  IN  [i \in 1 .. LoopSize(l) |->
         [base EXCEPT !.mm = @ + (i - 1) * l.mm_incr,
                      !.lm = @ + k(i).inter * l.lm_incr,
                      !.unit = @ * 2^(k(i).unit * l.unit_shift),
                      !.cluster = @ * 2^(k(i).cluster * l.cluster_shift)]]

\* Only a loop that stands for exactly its commands is kept.
Verified(s) ==
  /\ LoopOf(s).cluster_shift >= 0 /\ LoopOf(s).unit_shift >= 0
  /\ Unrolled(LoopOf(s), s.base) = s.list

\* Mutant: a loop is kept without comparing what it stands for.
CloseUnverified(s, min) ==
  IF Len(s.list) >= min
  THEN <<[ZeroCommand EXCEPT !.dir = "loop", !.info = <<LoopOf(s)>>], s.base>>
  ELSE s.list

CloseLoop(s, min) ==
  IF Len(s.list) >= min /\ Verified(s)
  THEN <<[ZeroCommand EXCEPT !.dir = "loop", !.info = <<LoopOf(s)>>], s.base>>
  ELSE s.list

NewLoop(base) ==
  [out |-> <<>>, list |-> <<>>, base |-> base, previous |-> base,
   clusterShift |-> 0, clusterSet |-> FALSE, unitShift |-> 0, unitSet |-> FALSE,
   clusterLen |-> 0, unitLen |-> 0, interLen |-> 0, mmIncr |-> 0, lmIncr |-> 0,
   target |-> "inter", clusterLast |-> 0, unitLast |-> 0]

Looping(s) == s.list # <<>>

\* The loop that a command moves on, seen from the base.
Kind(c, u) == IF c.by # 0 THEN "cluster" ELSE IF u.by # 0 THEN "unit" ELSE "inter"

NoteShifts(s, c, u) ==
  LET newCluster == c.same /\ c.by # 0 /\ ~s.clusterSet
      newUnit    == u.same /\ c.by = 0 /\ u.by # 0 /\ ~s.unitSet
  IN  [s EXCEPT !.clusterShift = IF newCluster THEN c.by ELSE @,
                !.clusterSet = @ \/ newCluster,
                !.unitShift = IF newUnit THEN u.by ELSE @,
                !.unitSet = @ \/ newUnit]

Begin(s, second, c, u) ==
  LET len(kind) == IF Kind(c, u) = kind THEN 1 ELSE 0
  IN  [s EXCEPT !.list = <<s.base, second>>,
                !.mmIncr = second.mm - s.base.mm, !.lmIncr = second.lm - s.base.lm,
                !.clusterLen = len("cluster"), !.unitLen = len("unit"), !.interLen = len("inter"),
                !.target = Kind(c, u), !.clusterLast = c.by, !.unitLast = u.by]

\* Which of the three loops is counted after a command that moves kind on.
NextTarget(target, kind) ==
  LET past == IF target = "inter" /\ kind # "inter" THEN "unit" ELSE target
  IN  IF past = "unit" /\ kind = "cluster" THEN "cluster" ELSE past

NewUnit(s, c, u) ==
  Kind(c, u) = "unit" /\ NextTarget(s.target, "unit") = "unit" /\ u.by # s.unitLast

Fits(s, second, c, u) ==
  /\ second.mm - s.previous.mm = s.mmIncr
  /\ s.target = "inter" /\ Kind(c, u) = "inter" => second.lm - s.previous.lm = s.lmIncr
  /\ NewUnit(s, c, u) => u.by > s.unitLast

Continue(s, second, c, u) ==
  LET kind == Kind(c, u)
      newCluster == kind = "cluster" /\ NextTarget(s.target, kind) = "cluster" /\ c.by # s.clusterLast
  IN  [s EXCEPT !.list = Append(@, second),
                !.target = NextTarget(@, kind),
                !.interLen = IF s.target = "inter" /\ kind = "inter" THEN @ + 1 ELSE @,
                !.unitLen = IF NewUnit(s, c, u) THEN @ + 1 ELSE @,
                !.unitLast = IF NewUnit(s, c, u) THEN u.by ELSE @,
                !.clusterLen = IF newCluster THEN @ + 1 ELSE @,
                !.clusterLast = IF newCluster THEN c.by ELSE @]

\* No loop goes on: what was gathered is put out, second is the new base.
Break(s, second) ==
  [s EXCEPT !.out = @ \o (IF Looping(s) THEN CloseLoop(s, MinLoop) ELSE <<s.base>>),
            !.list = <<>>, !.base = second,
            !.clusterSet = IF Looping(s) THEN FALSE ELSE @,
            !.unitSet = IF Looping(s) THEN FALSE ELSE @]

TakeCommand(old, second) ==
  LET c == MaskShift(old.base.cluster, second.cluster)
      u == MaskShift(old.base.unit, second.unit)
      s == NoteShifts(old, c, u)
      next == IF ~(c.same /\ u.same) THEN Break(s, second)
              ELSE IF ~Looping(s) THEN Begin(s, second, c, u)
              ELSE IF Fits(s, second, c, u) THEN Continue(s, second, c, u)
              ELSE Break(s, second)
  IN  [next EXCEPT !.previous = second]

\* At the end a loop needs one command more than inside the run.
ExtractLoops(group) ==
  IF Len(group) = 1 THEN group
  ELSE LET s == Fold(TakeCommand, NewLoop(Head(group)), Tail(group))
       IN  s.out \o (IF Looping(s) THEN CloseLoop(s, MinLoop + 1) ELSE <<s.base>>)

-----------------------------------------------------------------------------
(* The pass.                                                               *)

\* A block counts the structs that follow it.
DmaRun(list, i) ==
  CHOOSE n \in 0 .. Len(list) - i :
    /\ \A j \in i + 1 .. i + n : IsDma(list[j])
    /\ i + n = Len(list) \/ ~IsDma(list[i + n + 1])

Recount(list) ==
  [i \in DOMAIN list |->
     IF list[i].type = "block" THEN [list[i] EXCEPT !.unit = DmaRun(list, i)] ELSE list[i]]

ExtendLoops(list) == Recount(FlattenSeq(Map(ExtractLoops, DropTrailing(Groups(list)))))

\* What the structs of a list stand for in the hardware.
HwCommand(cmd) ==
  [mm |-> cmd.mm, lm |-> cmd.lm, unit |-> Bits(cmd.unit), cluster |-> Bits(cmd.cluster)]

HwUnroll(l, base) ==
  [i \in 1 .. LoopSize(l) |->
     LET cmd == LoopCommand(l, HwCommand(base), i - 1)
     IN  [base EXCEPT !.mm = cmd.mm, !.lm = cmd.lm,
                      !.unit = MaskNumber(cmd.unit), !.cluster = MaskNumber(cmd.cluster)]]

HwCommands(structs) ==
  Fold(LAMBDA acc, cmd :
             IF acc.loops # <<>>
             THEN [out |-> acc.out \o HwUnroll(acc.loops[1], cmd), loops |-> <<>>]
             ELSE IF cmd.dir = "loop" /\ IsDma(cmd)
                  THEN [acc EXCEPT !.loops = cmd.info]
                  ELSE [acc EXCEPT !.out = Append(@, cmd)],
           [out |-> <<>>, loops |-> <<>>], structs).out

\* The pass exits when the unrolled list has another length.
LoopAsserts(list) == Len(HwCommands(ExtendLoops(list))) = Len(list)
=============================================================================
