-------------------------- MODULE DmaStoreSplitter --------------------------
(***************************************************************************)
(* The store splitting pass: the stores of one phase delay the loads that  *)
(* follow them in the DMA queues, so the pass spreads them over all the    *)
(* DMA blocks up to the next phase that begins with stores.                *)
(***************************************************************************)
EXTENDS CommandList

\* The count of a block is taken as it is, and of the commands of a block
\* only the first one is looked at.
ContainsStore(list, i) ==
  /\ list[i].type = "block" /\ list[i].unit > 0
  /\ i < Len(list) /\ list[i + 1].dir \in Stores

\* A segment starts with a block that contains stores.  Scanning stops at
\* the end of the list: a larger count would read past it.
Segments(list) ==
  Fold(LAMBDA acc, i :
             IF i < acc.next THEN acc
             ELSE IF ContainsStore(list, i)
                  THEN LET end == i + list[i].unit
                       IN  [head |-> acc.head, next |-> end + 1,
                            inside |-> acc.inside /\ end <= Len(list),
                            segs |-> Append(acc.segs, SubSeq(list, i, IF end <= Len(list) THEN end ELSE Len(list)))]
                  ELSE IF acc.segs = <<>>
                       THEN [acc EXCEPT !.head = Append(@, list[i]), !.next = i + 1]
                       ELSE [acc EXCEPT !.segs = Append(Front(@), Append(Last(@), list[i])), !.next = i + 1],
           [head |-> <<>>, next |-> 1, inside |-> TRUE, segs |-> <<>>],
           [i \in DOMAIN list |-> i])

\* One store of each cluster after the other, for all DMAs to be busy.
MaskLog2(mask) == CHOOSE b \in Bits(mask) : \A d \in Bits(mask) : d <= b

RoundRobin(stores) ==
  LET rank(i) == Cardinality({j \in 1 .. i - 1 : MaskLog2(stores[j].cluster) = MaskLog2(stores[i].cluster)})
      ranked == [i \in DOMAIN stores |-> [cmd |-> stores[i], rank |-> rank(i)]]
  IN  Map(LAMBDA r : r.cmd, StableSort(ranked, LAMBDA r : <<r.rank, MaskLog2(r.cmd.cluster)>>))

\* Each block takes the next stores; the command right behind a block is
\* passed over without being looked at.
SpreadStores(others, stores, share) ==
  Fold(LAMBDA acc, cmd :
             IF acc.pass \/ cmd.type # "block"
             THEN [acc EXCEPT !.done = Append(@, cmd), !.pass = FALSE]
             ELSE LET n == Smaller(share, Len(acc.left))
                  IN  [done |-> Append(acc.done, [cmd EXCEPT !.unit = @ + n]) \o SubSeq(acc.left, 1, n),
                       left |-> SubSeq(acc.left, n + 1, Len(acc.left)), pass |-> TRUE],
           [done |-> <<>>, left |-> stores, pass |-> FALSE], others).done

\* Mutant: the count of the first block still includes its stores.
SplitKeepingCount(seg) ==
  LET stores == SelectSeq(seg, IsStore)
      others == SelectSeq(seg, LAMBDA cmd : ~IsStore(cmd))
      blocks == SelectSeq(others, LAMBDA cmd : cmd.type = "block")
  IN  SpreadStores(others, RoundRobin(stores), CeilDiv(Len(stores), Len(blocks)))

SplitSegment(seg) ==
  LET stores == SelectSeq(seg, IsStore)
      others == SelectSeq(seg, LAMBDA cmd : ~IsStore(cmd))
      first  == [others EXCEPT ![1].unit = @ - Len(stores)]
      blocks == SelectSeq(others, LAMBDA cmd : cmd.type = "block")
  IN  IF \A i \in 1 .. Len(stores) : IsStore(seg[i + 1])   \* all of them in front
      THEN SpreadStores(first, RoundRobin(stores), CeilDiv(Len(stores), Len(blocks)))
      ELSE seg

SplitStores(list) ==
  LET scan == Segments(list)
  IN  scan.head \o FlattenSeq(Map(SplitSegment, scan.segs))

\* No block reaches past the end of the list.
SplitAsserts(list) == Segments(list).inside
=============================================================================
