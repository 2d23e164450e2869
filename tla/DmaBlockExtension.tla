------------------------- MODULE DmaBlockExtension -------------------------
(***************************************************************************)
(* The blocking pass: between two synchronisations it gathers the DMA      *)
(* commands behind one DMA_BLOCK command, which hands them to the front    *)
(* end of the DMA in one go, turns cluster ids into masks and joins        *)
(* commands that differ in their cluster only into broadcasts.             *)
(***************************************************************************)
EXTENDS CommandList

\* The DMA commands of a phase are cut where a load follows a block that
\* starts with a store.
DirectionBlocks(dmas) ==
  Fold(LAMBDA acc, cmd :
             IF acc = <<>> THEN << <<cmd>> >>
             ELSE IF IsStore(Head(Last(acc))) /\ ~IsStore(cmd)
                  THEN Append(acc, <<cmd>>)
                  ELSE Append(Front(acc), Append(Last(acc), cmd)),
           <<>>, dmas)

\* All clusters take part in a transfer that is the same but for its cluster.
SameTransfer(a, b) ==
  [a EXCEPT !.cluster = 0, !.skip = 0] = [b EXCEPT !.cluster = 0, !.skip = 0]

ForBroadcast(cmd) == <<cmd.mm, cmd.lm, cmd.unit, cmd.cluster>>
LargestFirst(cmd) == <<0 - cmd.x * cmd.y>>

Masked(cmd) == [cmd EXCEPT !.cluster = 2^cmd.cluster]

\* Mutant: the cluster of the first command only.
JoinFirst(last, cmd) ==
  IF SameTransfer(last, cmd) THEN <<last>> ELSE <<last, Masked(cmd)>>

JoinClusters(last, cmd) ==
  IF SameTransfer(last, cmd)
  THEN <<[last EXCEPT !.cluster = @ + 2^cmd.cluster]>>
  ELSE <<last, Masked(cmd)>>

Broadcasts(block) ==
  LET sorted == StableSort(block, ForBroadcast)
  IN  StableSort(Fold(LAMBDA acc, cmd :
                            IF acc = <<>> THEN <<Masked(cmd)>>
                            ELSE Front(acc) \o JoinClusters(Last(acc), cmd),
                          <<>>, sorted), LargestFirst)

\* The comparator and the broadcast assert one direction and new clusters.
BlockAsserts(list) ==
  \A p \in DOMAIN Phases(list) :
    LET blocks == DirectionBlocks(SelectSeq(Phases(list)[p], IsDma))
    IN  \A b \in DOMAIN blocks :
          /\ \A i \in DOMAIN blocks[b] : IsStore(blocks[b][i]) = IsStore(Head(blocks[b]))
          /\ \A i, j \in DOMAIN blocks[b] :
               i # j /\ SameTransfer(blocks[b][i], blocks[b][j])
                 => blocks[b][i].cluster # blocks[b][j].cluster

ExtendPhase(phase) ==
  LET dmas  == FlattenSeq(Map(Broadcasts, DirectionBlocks(SelectSeq(phase, IsDma))))
      vpros == SelectSeq(phase, IsVpro)
      syncs == SelectSeq(phase, IsSync)
  IN  (IF dmas = <<>> THEN <<>> ELSE <<Block(Len(dmas))>>) \o dmas \o vpros \o syncs

ExtendBlocks(list) == FlattenSeq(Map(ExtendPhase, Phases(list)))
=============================================================================
