----------------------- MODULE LayerExecution_proofs -----------------------
(* Proofs about the execution of command lists.                            *)
EXTENDS LayerExecution, SharedTheorems, SequenceTheorems, TLAPS

-----------------------------------------------------------------------------
(* Queues.                                                                 *)

\* What a queue holds after its last and without its first element.
LEMMA RangeAppend ==
  ASSUME NEW S, NEW q \in Seq(S), NEW e \in S
  PROVE  /\ Append(q, e) \in Seq(S)
         /\ Range(Append(q, e)) = Range(q) \cup {e}
  <1>1. Append(q, e) \in Seq(S) /\ Len(Append(q, e)) = Len(q) + 1
        /\ \A n \in 1 .. Len(q) : Append(q, e)[n] = q[n]
        /\ Append(q, e)[Len(q) + 1] = e
    BY AppendProperties
  <1>2. Len(q) \in Nat /\ DOMAIN q = 1 .. Len(q)
        /\ DOMAIN Append(q, e) = 1 .. Len(q) + 1
    BY <1>1, LenProperties
  <1>3. Range(Append(q, e)) \subseteq Range(q) \cup {e}
    BY <1>1, <1>2 DEF Range
  <1>4. Range(q) \cup {e} \subseteq Range(Append(q, e))
    BY <1>1, <1>2 DEF Range
  <1> QED BY <1>1, <1>3, <1>4

LEMMA RangeTail ==
  ASSUME NEW S, NEW q \in Seq(S), q # <<>>
  PROVE  /\ Tail(q) \in Seq(S)
         /\ Head(q) \in Range(q)
         /\ Range(Tail(q)) \subseteq Range(q)
  <1>1. Head(q) \in S /\ Tail(q) \in Seq(S) /\ Len(Tail(q)) = Len(q) - 1
        /\ \A n \in 1 .. Len(Tail(q)) : Tail(q)[n] = q[n + 1]
    BY HeadTailProperties
  <1>2. Len(q) \in Nat /\ DOMAIN q = 1 .. Len(q) /\ DOMAIN Tail(q) = 1 .. Len(q) - 1
        /\ Len(q) # 0
    BY <1>1, LenProperties, EmptySeq
  <1>3. Head(q) = q[1]
    OBVIOUS
  <1> QED BY <1>1, <1>2, <1>3 DEF Range

LEMMA RangeOfEmpty ==
  ASSUME NEW S, NEW q \in Seq(S), Len(q) = 0
  PROVE  Range(q) = {}
  <1>1. DOMAIN q = 1 .. 0
    BY LenProperties
  <1>2. \A x : x \notin Range(q)
    BY <1>1 DEF Range
  <1> QED BY <1>2

LEMMA RangeEmpty == Range(<<>>) = {}
  <1>1. <<>> \in Seq({}) /\ Len(<<>>) = 0
    BY EmptySeq
  <1> QED BY <1>1, RangeOfEmpty

-----------------------------------------------------------------------------
(* The invariant.                                                          *)

\* What a list hands over to the DMAs, and its VPRO commands.
BlocksOf(l) == {i \in DOMAIN l : HandsOver(l[i])}
Handed(l) == UNION {Range(HandedOver(l, i)) : i \in BlocksOf(l)}
Issued(l) == {l[j].info[1] : j \in {j \in DOMAIN l : IsVpro(l[j])}}

\* A list as ProgramsAssumption wants it.
GoodList(L, l) ==
  /\ IsSequence(l)
  /\ \A i \in BlocksOf(l) : IsSequence(HandedOver(l, i))
  /\ \A i \in DOMAIN l : l[i].type = "block" =>
       /\ l[i].unit \in Nat
       /\ \A k \in i + 1 .. i + l[i].unit : k \in DOMAIN l /\ ~IsSync(l[k])
  /\ RaceFree(L, l)

QueuesOK ==
  /\ seg \in Nat \ {0} /\ seg <= Len(list) + 1
  /\ block \in Seq(Handed(list))
  /\ dmas \in [DOMAIN dmas -> Seq(Handed(list))]
  /\ vpros \in [DOMAIN vpros -> Seq(Issued(list))]

ExecInv == GoodList(layer, list) /\ QueuesOK /\ NothingOutlivesSync

LEMMA ListFacts ==
  ASSUME NEW L, NEW l, GoodList(L, l)
  PROVE  Len(l) \in Nat /\ DOMAIN l = 1 .. Len(l)
  BY LenProperties DEF GoodList, IsSequence

\* An interval that ends behind b is one that ends behind a and the rest.
LEMMA IntervalGrows ==
  ASSUME NEW a \in Nat, NEW b \in Nat, b >= a, NEW i \in 1 .. a - 1
  PROVE  /\ i \in 1 .. b - 1
         /\ \A k \in i .. b - 1 : k \in i .. a - 1 \/ k \in a .. b - 1
  OBVIOUS

LEMMA IntervalStart ==
  ASSUME NEW a \in Nat, NEW b \in Nat, b > a
  PROVE  \E i \in a .. b - 1 : i = a
  OBVIOUS

LEMMA IntervalSuffix ==
  ASSUME NEW a \in Nat \ {0}, NEW b \in Nat, NEW i \in a .. b - 1
  PROVE  i \in 1 .. b - 1
  OBVIOUS

\* What the DMAs have waiting has been handed over behind the last
\* synchronisation that waits for them; the same for the units.
DmasFollowSync == \A d \in Waiting : \E i \in 1 .. seg - 1 : DmaSince(d, i)
VprosFollowSync == \A v \in WaitingVpros : \E j \in 1 .. seg - 1 : VproSince(v, j)

\* It stays so when seg moves over segments that do not wait for the DMAs
\* and only the block at seg is added to what waits.
LEMMA DmasKept ==
  ASSUME DmasFollowSync, seg \in Nat \ {0}, seg' \in Nat, seg' >= seg, list' = list,
         \A k \in seg .. seg' - 1 : ~(IsSync(list[k]) /\ WaitsForDma(list[k])),
         \A d \in Waiting' : d \in Waiting \/ \E i \in seg .. seg' - 1 : DmaSince(d, i)'
  PROVE  DmasFollowSync'
  <1> SUFFICES ASSUME NEW d \in Waiting' PROVE \E i \in 1 .. seg' - 1 : DmaSince(d, i)'
    BY DEF DmasFollowSync
  <1>1. CASE d \in Waiting
    <2>1. PICK i \in 1 .. seg - 1 : DmaSince(d, i)
      BY <1>1 DEF DmasFollowSync
    <2>2. i \in 1 .. seg' - 1 /\ \A k \in i .. seg' - 1 : k \in i .. seg - 1 \/ k \in seg .. seg' - 1
      BY IntervalGrows
    <2>3. \A k \in i .. seg' - 1 : ~(IsSync(list[k]) /\ WaitsForDma(list[k]))
      BY <2>1, <2>2 DEF DmaSince
    <2>4. HandsOver(list'[i]) /\ d \in Range(HandedOver(list', i))
      BY <2>1 DEF DmaSince
    <2>5. DmaSince(d, i)'
      BY <2>3, <2>4 DEF DmaSince
    <2> QED BY <2>2, <2>5
  <1>2. CASE d \notin Waiting
    <2>1. PICK i \in seg .. seg' - 1 : DmaSince(d, i)'
      BY <1>2
    <2>2. i \in 1 .. seg' - 1
      BY IntervalSuffix
    <2> QED BY <2>1, <2>2
  <1> QED BY <1>1, <1>2

\* The same for the units.
LEMMA VprosKept ==
  ASSUME VprosFollowSync, seg \in Nat \ {0}, seg' \in Nat, seg' >= seg, list' = list,
         \A k \in seg .. seg' - 1 : ~(IsSync(list[k]) /\ WaitsForVpro(list[k])),
         \A v \in WaitingVpros' : v \in WaitingVpros \/ \E j \in seg .. seg' - 1 : VproSince(v, j)'
  PROVE  VprosFollowSync'
  <1> SUFFICES ASSUME NEW v \in WaitingVpros' PROVE \E j \in 1 .. seg' - 1 : VproSince(v, j)'
    BY DEF VprosFollowSync
  <1>1. CASE v \in WaitingVpros
    <2>1. PICK j \in 1 .. seg - 1 : VproSince(v, j)
      BY <1>1 DEF VprosFollowSync
    <2>2. j \in 1 .. seg' - 1 /\ \A k \in j .. seg' - 1 : k \in j .. seg - 1 \/ k \in seg .. seg' - 1
      BY IntervalGrows
    <2>3. \A k \in j .. seg' - 1 : ~(IsSync(list[k]) /\ WaitsForVpro(list[k]))
      BY <2>1, <2>2 DEF VproSince
    <2>4. IsVpro(list'[j]) /\ v = list'[j].info[1]
      BY <2>1 DEF VproSince
    <2>5. VproSince(v, j)'
      BY <2>3, <2>4 DEF VproSince
    <2> QED BY <2>2, <2>5
  <1>2. CASE v \notin WaitingVpros
    <2>1. PICK j \in seg .. seg' - 1 : VproSince(v, j)'
      BY <1>2
    <2>2. j \in 1 .. seg' - 1
      BY IntervalSuffix
    <2> QED BY <2>1, <2>2
  <1> QED BY <1>1, <1>2

\* Nothing unordered conflicts, and what waits together is unordered.
LEMMA InvImpliesNoConflict == ExecInv => NoBufferConflict
  <1> SUFFICES ASSUME ExecInv, NEW d \in Waiting, NEW v \in WaitingVpros
               PROVE  ~Conflict(layer, d, v)
    BY DEF NoBufferConflict
  <1>1. PICK i \in 1 .. seg - 1 : DmaSince(d, i)
    BY DEF ExecInv, NothingOutlivesSync
  <1>2. PICK j \in 1 .. seg - 1 : VproSince(v, j)
    BY DEF ExecInv, NothingOutlivesSync
  <1>3. i \in DOMAIN list /\ j \in DOMAIN list
    BY ListFacts DEF ExecInv, QueuesOK
  <1>4. Unordered(list, i, j)
    BY <1>1, <1>2, <1>3 DEF Unordered, DmaSince, VproSince, ExecInv, QueuesOK
  <1> QED BY <1>1, <1>2, <1>3, <1>4 DEF ExecInv, GoodList, RaceFree, DmaSince, VproSince

-----------------------------------------------------------------------------
(* The invariant is inductive.                                             *)

LEMMA InitImpliesInv == Init => ExecInv
  <1> SUFFICES ASSUME Init PROVE ExecInv
    OBVIOUS
  <1>1. GoodList(layer, list)
    <2>1. PICK p \in Programs : layer = p.layer /\ list = p.list
      BY DEF Init
    <2> QED BY <2>1, ProgramsAssumption DEF GoodList, BlocksOf
  <1>2. block = <<>> /\ (\A c \in DOMAIN dmas : dmas[c] = <<>>)
        /\ (\A u \in DOMAIN vpros : vpros[u] = <<>>) /\ seg = 1
    BY DEF Init
  <1>3. QueuesOK
    <2>1. Len(list) \in Nat
      BY <1>1, ListFacts
    <2>2. <<>> \in Seq(Handed(list)) /\ <<>> \in Seq(Issued(list))
      BY EmptySeq
    <2>3. dmas \in [DOMAIN dmas -> Seq(Handed(list))]
      BY <1>2, <2>2 DEF Init
    <2>4. vpros \in [DOMAIN vpros -> Seq(Issued(list))]
      BY <1>2, <2>2 DEF Init
    <2> QED BY <1>2, <2>1, <2>2, <2>3, <2>4 DEF QueuesOK
  <1>4. Waiting = {} /\ WaitingVpros = {}
    BY <1>2, RangeEmpty DEF Waiting, WaitingVpros
  <1> QED BY <1>1, <1>3, <1>4 DEF ExecInv, NothingOutlivesSync

\* A sequence over a set is one over a larger set.
LEMMA SeqSubset ==
  ASSUME NEW S, NEW T, S \subseteq T, NEW q \in Seq(S)
  PROVE  q \in Seq(T)
  <1>1. Len(q) \in Nat /\ q \in [1 .. Len(q) -> S]
    BY LenProperties
  <1>2. q \in [1 .. Len(q) -> T]
    BY <1>1
  <1> QED BY <1>1, <1>2, SeqDef

\* A block hands over a sequence of commands of its list.
LEMMA HandedOverType ==
  ASSUME NEW L, NEW l, GoodList(L, l), NEW i \in BlocksOf(l)
  PROVE  HandedOver(l, i) \in Seq(Handed(l))
  <1>1. HandedOver(l, i) \in Seq(Range(HandedOver(l, i)))
    BY DEF GoodList, IsSequence
  <1>2. Range(HandedOver(l, i)) \subseteq Handed(l)
    BY DEF Handed
  <1> QED BY <1>1, <1>2, SeqSubset

\* Transfers that are handed over follow the last synchronisation, when none
\* is skipped.
LEMMA HandOverKeepsInv ==
  ASSUME ExecInv, NEW next, HandOver(next), seg \in BlocksOf(list),
         next \in Nat, next > seg, next <= Len(list) + 1,
         \A k \in seg .. next - 1 : ~IsSync(list[k])
  PROVE  ExecInv'
  <1> USE DEF ExecInv
  <1>1. GoodList(layer, list)' /\ list' = list /\ layer' = layer
    BY DEF HandOver, program
  <1>2. Len(list) \in Nat /\ DOMAIN list = 1 .. Len(list)
    BY ListFacts
  <1>3. seg \in 1 .. Len(list) /\ seg \in BlocksOf(list) /\ HandsOver(list[seg])
    BY <1>2 DEF BlocksOf
  <1>4. seg' \in Nat /\ seg' > seg /\ seg' <= Len(list) + 1
    BY DEF HandOver
  <1>5. \A k \in seg .. seg' - 1 : ~IsSync(list[k])
    BY DEF HandOver
  <1>6. QueuesOK'
    <2>1. block' \in Seq(Handed(list))
      BY <1>3, HandedOverType DEF HandOver
    <2> QED BY <1>1, <1>2, <1>3, <1>4, <2>1 DEF QueuesOK, HandOver
  <1>7. DmasFollowSync'
    <2>1. \A d \in Waiting' : d \in Waiting \/ d \in Range(HandedOver(list, seg))
      BY DEF Waiting, HandOver
    <2>2. ASSUME NEW d \in Range(HandedOver(list, seg))
          PROVE  \E i \in seg .. seg' - 1 : DmaSince(d, i)'
      <3>1. PICK i \in seg .. seg' - 1 : i = seg
        <4>1. seg \in Nat
          BY <1>2, <1>3
        <4> QED BY <4>1, <1>4, IntervalStart
      <3>2. HandsOver(list'[i]) /\ d \in Range(HandedOver(list', i))
        BY <1>1, <1>3, <3>1
      <3>3. \A k \in i .. seg' - 1 : ~(IsSync(list'[k]) /\ WaitsForDma(list'[k]))
        BY <1>1, <1>5, <3>1
      <3>4. DmaSince(d, i)'
        BY <3>2, <3>3 DEF DmaSince
      <3> QED BY <3>4
    <2>3. DmasFollowSync
      BY DEF NothingOutlivesSync, DmasFollowSync
    <2>4. seg \in Nat \ {0} /\ seg' >= seg
      BY <1>3, <1>4
    <2> QED BY <1>1, <1>4, <1>5, <2>1, <2>2, <2>3, <2>4, DmasKept
  <1>8. VprosFollowSync'
    <2>1. VprosFollowSync
      BY DEF NothingOutlivesSync, VprosFollowSync
    <2>2. WaitingVpros' = WaitingVpros
      BY DEF HandOver, WaitingVpros
    <2>3. seg \in Nat \ {0} /\ seg' >= seg
      BY <1>3, <1>4
    <2> QED BY <1>1, <1>4, <1>5, <2>1, <2>2, <2>3, VprosKept
  <1> QED BY <1>1, <1>6, <1>7, <1>8 DEF NothingOutlivesSync, DmasFollowSync, VprosFollowSync

LEMMA TriggerBlockKeepsInv == ExecInv /\ TriggerBlock => ExecInv'
  <1> SUFFICES ASSUME ExecInv, TriggerBlock PROVE ExecInv'
    OBVIOUS
  <1>1. Len(list) \in Nat /\ DOMAIN list = 1 .. Len(list)
    BY ListFacts DEF ExecInv
  <1>2. seg \in 1 .. Len(list) /\ seg \in BlocksOf(list) /\ list[seg].type = "block"
    BY <1>1 DEF ExecInv, TriggerBlock, AtSegment, QueuesOK, BlocksOf, HandsOver
  <1>3. /\ list[seg].unit \in Nat
        /\ \A k \in seg + 1 .. seg + list[seg].unit : k \in DOMAIN list /\ ~IsSync(list[k])
    BY <1>1, <1>2 DEF ExecInv, GoodList
  <1> DEFINE next == BehindBlock(seg)
  <1>4. next = seg + list[seg].unit + 1
    BY DEF BehindBlock
  <1>5. next \in Nat /\ next > seg /\ next <= Len(list) + 1
    <2>1. CASE list[seg].unit = 0
      BY <2>1, <1>1, <1>2, <1>4
    <2>2. CASE list[seg].unit # 0
      <3>1. seg + list[seg].unit \in seg + 1 .. seg + list[seg].unit
        BY <2>2, <1>2, <1>3
      <3>2. seg + list[seg].unit \in 1 .. Len(list)
        BY <3>1, <1>1, <1>3
      <3> QED BY <3>2, <1>1, <1>2, <1>3, <1>4
    <2> QED BY <2>1, <2>2
  <1>6. ASSUME NEW k \in seg .. next - 1 PROVE ~IsSync(list[k])
    <2>1. k = seg \/ k \in seg + 1 .. seg + list[seg].unit
      BY <1>2, <1>3, <1>4
    <2>2. ~IsSync(list[seg])
      BY <1>2 DEF IsSync, Syncs
    <2> QED BY <2>1, <2>2, <1>3
  <1>7. HandOver(next)
    BY DEF TriggerBlock
  <1> HIDE DEF next
  <1> QED BY <1>2, <1>5, <1>6, <1>7, HandOverKeepsInv

LEMMA IssueDmaKeepsInv == ExecInv /\ IssueDma => ExecInv'
  <1> SUFFICES ASSUME ExecInv, IssueDma PROVE ExecInv'
    OBVIOUS
  <1>1. Len(list) \in Nat /\ DOMAIN list = 1 .. Len(list)
    BY ListFacts DEF ExecInv
  <1>2. /\ seg \in 1 .. Len(list) /\ seg \in BlocksOf(list)
        /\ ~IsSync(list[seg])
    BY <1>1 DEF ExecInv, IssueDma, AtSegment, QueuesOK, BlocksOf, HandsOver, IsSync, Syncs
  <1>3. /\ seg + 1 \in Nat /\ seg + 1 > seg /\ seg + 1 <= Len(list) + 1
        /\ \A k \in seg .. (seg + 1) - 1 : ~IsSync(list[k])
    BY <1>1, <1>2
  <1>4. HandOver(seg + 1)
    BY DEF IssueDma
  <1> QED BY <1>2, <1>3, <1>4, HandOverKeepsInv

LEMMA IssueVproKeepsInv == ExecInv /\ IssueVpro => ExecInv'
  <1> SUFFICES ASSUME ExecInv, IssueVpro PROVE ExecInv'
    OBVIOUS
  <1> USE DEF ExecInv
  <1>1. GoodList(layer, list)' /\ list' = list /\ layer' = layer
    BY DEF IssueVpro, program
  <1>2. Len(list) \in Nat /\ DOMAIN list = 1 .. Len(list)
    BY ListFacts
  <1>3. /\ seg \in 1 .. Len(list) /\ seg \in DOMAIN list
        /\ IsVpro(list[seg]) /\ ~IsSync(list[seg])
    BY <1>2 DEF IssueVpro, AtSegment, QueuesOK, IsVpro, IsSync, Syncs
  <1>4. seg \in Nat \ {0} /\ seg' \in Nat \ {0} /\ seg' > seg /\ seg' >= seg
        /\ seg' <= Len(list) + 1
    BY <1>2, <1>3 DEF IssueVpro
  <1>5. \A k \in seg .. seg' - 1 : k = seg
    BY <1>4 DEF IssueVpro
  <1>6. PICK e \in Issued(list) : e = list[seg].info[1]
    BY <1>3 DEF Issued
  <1>7. \A u \in DOMAIN vpros :
          /\ Append(vpros[u], e) \in Seq(Issued(list))
          /\ Range(Append(vpros[u], e)) = Range(vpros[u]) \cup {e}
    BY RangeAppend DEF QueuesOK
  <1>8. vpros' = [u \in DOMAIN vpros |-> Append(vpros[u], e)]
    BY <1>6 DEF IssueVpro
  <1>9. QueuesOK'
    <2>1. block' \in Seq(Handed(list)) /\ dmas' \in [DOMAIN dmas' -> Seq(Handed(list))]
      BY DEF QueuesOK, IssueVpro
    <2>2. vpros' \in [DOMAIN vpros' -> Seq(Issued(list))]
      <3>1. DOMAIN vpros' = DOMAIN vpros
        BY <1>8
      <3> QED BY <1>7, <1>8, <3>1
    <2> QED BY <1>1, <1>4, <2>1, <2>2 DEF QueuesOK
  <1>10. DmasFollowSync'
    <2>1. Waiting' = Waiting
      BY DEF IssueVpro, Waiting
    <2>2. DmasFollowSync
      BY DEF NothingOutlivesSync, DmasFollowSync
    <2> QED BY <1>1, <1>3, <1>4, <1>5, <2>1, <2>2, DmasKept
  <1>11. VprosFollowSync'
    <2>1. \A v \in WaitingVpros' : v \in WaitingVpros \/ v = e
      BY <1>7, <1>8 DEF WaitingVpros
    <2>2. \E j \in seg .. seg' - 1 : VproSince(e, j)'
      <3>1. PICK j \in seg .. seg' - 1 : j = seg
        BY <1>4, IntervalStart
      <3>2. IsVpro(list'[j]) /\ e = list'[j].info[1]
        BY <1>1, <1>3, <1>6, <3>1
      <3>3. \A k \in j .. seg' - 1 : ~(IsSync(list'[k]) /\ WaitsForVpro(list'[k]))
        BY <1>1, <1>3, <1>5, <3>1
      <3> QED BY <3>2, <3>3 DEF VproSince
    <2>3. VprosFollowSync
      BY DEF NothingOutlivesSync, VprosFollowSync
    <2> QED BY <1>1, <1>3, <1>4, <1>5, <2>1, <2>2, <2>3, VprosKept
  <1> QED BY <1>1, <1>9, <1>10, <1>11 DEF NothingOutlivesSync, DmasFollowSync, VprosFollowSync

LEMMA SynchroniseKeepsInv == ExecInv /\ Synchronise => ExecInv'
  <1> SUFFICES ASSUME ExecInv, Synchronise PROVE ExecInv'
    OBVIOUS
  <1> USE DEF ExecInv
  <1>1. GoodList(layer, list)' /\ list' = list /\ layer' = layer
    BY DEF Synchronise, program
  <1>2. Len(list) \in Nat
    BY ListFacts
  <1>3. seg \in Nat \ {0} /\ seg' \in Nat \ {0} /\ seg' >= seg /\ seg' <= Len(list) + 1
    BY <1>2 DEF Synchronise, QueuesOK
  <1>4. \A k \in seg .. seg' - 1 : k = seg
    BY <1>3 DEF Synchronise
  <1>5. QueuesOK'
    BY <1>1, <1>3 DEF QueuesOK, Synchronise
  <1>6. Waiting' = Waiting /\ WaitingVpros' = WaitingVpros
    BY DEF Synchronise, Waiting, WaitingVpros
  <1>7. DmasFollowSync'
    <2>1. CASE WaitsForDma(list[seg])
      <3>1. block = <<>> /\ \A c \in DOMAIN dmas : dmas[c] = <<>>
        BY <2>1 DEF Synchronise, Drained, DmaIdle
      <3>2. Waiting = {}
        BY <3>1, RangeEmpty DEF Waiting
      <3> QED BY <3>2, <1>6 DEF DmasFollowSync
    <2>2. CASE ~WaitsForDma(list[seg])
      <3>1. DmasFollowSync
        BY DEF NothingOutlivesSync, DmasFollowSync
      <3> QED BY <1>1, <1>3, <1>4, <1>6, <2>2, <3>1, DmasKept
    <2> QED BY <2>1, <2>2
  <1>8. VprosFollowSync'
    <2>1. CASE WaitsForVpro(list[seg])
      <3>1. \A u \in DOMAIN vpros : vpros[u] = <<>>
        BY <2>1 DEF Synchronise, Drained, VproIdle
      <3>2. WaitingVpros = {}
        BY <3>1, RangeEmpty DEF WaitingVpros
      <3> QED BY <3>2, <1>6 DEF VprosFollowSync
    <2>2. CASE ~WaitsForVpro(list[seg])
      <3>1. VprosFollowSync
        BY DEF NothingOutlivesSync, VprosFollowSync
      <3> QED BY <1>1, <1>3, <1>4, <1>6, <2>2, <3>1, VprosKept
    <2> QED BY <2>1, <2>2
  <1> QED BY <1>1, <1>5, <1>7, <1>8 DEF NothingOutlivesSync, DmasFollowSync, VprosFollowSync

\* The hardware only takes commands out of what waits.
LEMMA HardwareKeepsInv ==
  ASSUME ExecInv, UNCHANGED <<program, seg>>, QueuesOK',
         Waiting' \subseteq Waiting, WaitingVpros' \subseteq WaitingVpros
  PROVE  ExecInv'
  <1>1. GoodList(layer, list)' /\ list' = list /\ seg' = seg
    BY DEF program, ExecInv
  <1>2. seg \in Nat \ {0} /\ seg' >= seg /\ \A k \in seg .. seg' - 1 : FALSE
    BY <1>1 DEF ExecInv, QueuesOK
  <1>3. DmasFollowSync /\ VprosFollowSync
    BY DEF ExecInv, NothingOutlivesSync, DmasFollowSync, VprosFollowSync
  <1>4. DmasFollowSync'
    BY <1>1, <1>2, <1>3, DmasKept
  <1>5. VprosFollowSync'
    BY <1>1, <1>2, <1>3, VprosKept
  <1> QED BY <1>1, <1>4, <1>5 DEF ExecInv, NothingOutlivesSync, DmasFollowSync, VprosFollowSync

LEMMA SendNextKeepsInv == ExecInv /\ SendNext => ExecInv'
  <1> SUFFICES ASSUME ExecInv, SendNext PROVE ExecInv'
    OBVIOUS
  <1>1. Tail(block) \in Seq(Handed(list)) /\ Head(block) \in Range(block)
        /\ Range(Tail(block)) \subseteq Range(block)
    BY RangeTail DEF ExecInv, QueuesOK, SendNext
  <1>2. PICK h \in Handed(list) : h = Head(block) /\ h \in Range(block)
    <2>1. block \in Seq(Handed(list))
      BY DEF ExecInv, QueuesOK
    <2> QED BY <2>1, <1>1, RangeOfSeq
  <1>3. \A c \in DOMAIN dmas :
          /\ dmas[c] \in Seq(Handed(list)) /\ Append(dmas[c], h) \in Seq(Handed(list))
          /\ Range(Append(dmas[c], h)) = Range(dmas[c]) \cup {h}
    BY RangeAppend DEF ExecInv, QueuesOK
  <1>4. /\ DOMAIN dmas' = DOMAIN dmas
        /\ \A c \in DOMAIN dmas : dmas'[c] = dmas[c] \/ dmas'[c] = Append(dmas[c], h)
        /\ dmas' = [c \in DOMAIN dmas |-> dmas'[c]]
    BY <1>2 DEF SendNext
  <1>5. dmas' \in [DOMAIN dmas' -> Seq(Handed(list))]
    BY <1>3, <1>4
  <1>6. list' = list /\ seg' = seg /\ vpros' = vpros /\ block' = Tail(block)
    BY DEF SendNext, program
  <1>7. QueuesOK'
    BY <1>1, <1>5, <1>6 DEF ExecInv, QueuesOK
  <1>8. Waiting' \subseteq Waiting
    <2>1. \A c \in DOMAIN dmas : Range(dmas'[c]) \subseteq Waiting
      BY <1>2, <1>3, <1>4 DEF Waiting
    <2>2. Range(block') \subseteq Waiting
      BY <1>1, <1>6 DEF Waiting
    <2> QED BY <2>1, <2>2, <1>4 DEF Waiting
  <1>9. WaitingVpros' = WaitingVpros
    BY <1>6 DEF WaitingVpros
  <1> QED BY <1>7, <1>8, <1>9, HardwareKeepsInv DEF SendNext

LEMMA RunDmaKeepsInv == ASSUME ExecInv, NEW c \in DOMAIN dmas, RunDma(c) PROVE ExecInv'
  <1>1. \A x \in DOMAIN dmas : dmas[x] \in Seq(Handed(list))
    BY DEF ExecInv, QueuesOK
  <1>2. Tail(dmas[c]) \in Seq(Handed(list)) /\ Range(Tail(dmas[c])) \subseteq Range(dmas[c])
    BY <1>1, RangeTail DEF RunDma
  <1>3. /\ DOMAIN dmas' = DOMAIN dmas /\ dmas' = [x \in DOMAIN dmas |-> dmas'[x]]
        /\ \A x \in DOMAIN dmas : dmas'[x] = IF x = c THEN Tail(dmas[c]) ELSE dmas[x]
    BY DEF RunDma, ExecInv, QueuesOK
  <1>4. dmas' \in [DOMAIN dmas' -> Seq(Handed(list))]
    BY <1>1, <1>2, <1>3
  <1>5. list' = list /\ seg' = seg /\ vpros' = vpros /\ block' = block
    BY DEF RunDma, program
  <1>6. QueuesOK'
    BY <1>4, <1>5 DEF ExecInv, QueuesOK
  <1>7. \A x \in DOMAIN dmas : Range(dmas'[x]) \subseteq Range(dmas[x])
    BY <1>2, <1>3
  <1>8. Waiting' \subseteq Waiting
    BY <1>3, <1>5, <1>7 DEF Waiting
  <1>9. WaitingVpros' = WaitingVpros
    BY <1>5 DEF WaitingVpros
  <1> QED BY <1>6, <1>8, <1>9, HardwareKeepsInv DEF RunDma

LEMMA RunUnitKeepsInv == ASSUME ExecInv, NEW u \in DOMAIN vpros, RunUnit(u) PROVE ExecInv'
  <1>1. \A x \in DOMAIN vpros : vpros[x] \in Seq(Issued(list))
    BY DEF ExecInv, QueuesOK
  <1>2. Tail(vpros[u]) \in Seq(Issued(list)) /\ Range(Tail(vpros[u])) \subseteq Range(vpros[u])
    BY <1>1, RangeTail DEF RunUnit
  <1>3. /\ DOMAIN vpros' = DOMAIN vpros /\ vpros' = [x \in DOMAIN vpros |-> vpros'[x]]
        /\ \A x \in DOMAIN vpros : vpros'[x] = IF x = u THEN Tail(vpros[u]) ELSE vpros[x]
    BY DEF RunUnit, ExecInv, QueuesOK
  <1>4. vpros' \in [DOMAIN vpros' -> Seq(Issued(list))]
    BY <1>1, <1>2, <1>3
  <1>5. list' = list /\ seg' = seg /\ dmas' = dmas /\ block' = block
    BY DEF RunUnit, program
  <1>6. QueuesOK'
    BY <1>4, <1>5 DEF ExecInv, QueuesOK
  <1>7. \A x \in DOMAIN vpros : Range(vpros'[x]) \subseteq Range(vpros[x])
    BY <1>2, <1>3
  <1>8. WaitingVpros' \subseteq WaitingVpros
    BY <1>3, <1>7 DEF WaitingVpros
  <1>9. Waiting' = Waiting
    BY <1>5 DEF Waiting
  <1> QED BY <1>6, <1>8, <1>9, HardwareKeepsInv DEF RunUnit

LEMMA NextKeepsInv == ExecInv /\ [Next]_vars => ExecInv'
  <1> SUFFICES ASSUME ExecInv, [Next]_vars PROVE ExecInv'
    OBVIOUS
  <1>1. CASE TriggerBlock
    BY <1>1, TriggerBlockKeepsInv
  <1>2. CASE IssueVpro
    BY <1>2, IssueVproKeepsInv
  <1>3. CASE Synchronise
    BY <1>3, SynchroniseKeepsInv
  <1>4. CASE SendNext
    BY <1>4, SendNextKeepsInv
  <1>5. ASSUME NEW c \in DOMAIN dmas, RunDma(c) PROVE ExecInv'
    BY <1>5, RunDmaKeepsInv
  <1>6. ASSUME NEW u \in DOMAIN vpros, RunUnit(u) PROVE ExecInv'
    BY <1>6, RunUnitKeepsInv
  <1>7. CASE UNCHANGED vars
    <2>1. QueuesOK'
      BY <1>7 DEF ExecInv, QueuesOK, vars, program
    <2>2. Waiting' = Waiting /\ WaitingVpros' = WaitingVpros
      BY <1>7 DEF Waiting, WaitingVpros, vars
    <2> QED BY <1>7, <2>1, <2>2, HardwareKeepsInv DEF vars
  <1>8. CASE IssueDma
    BY <1>8, IssueDmaKeepsInv
  <1> QED BY <1>1, <1>2, <1>3, <1>4, <1>5, <1>6, <1>7, <1>8 DEF Next, Program

-----------------------------------------------------------------------------
(* Units: what DMA commands do to them.                                    *)

\* The memories of a vector unit.
IsUnit(L, s) ==
  /\ s = [lm |-> s.lm, rf |-> s.rf]
  /\ s.lm = [w \in LmWords(L) |-> s.lm[w]]
  /\ s.rf = [lane \in 0 .. L.hw.lanes - 1 |-> s.rf[lane]]
  /\ \A lane \in DOMAIN s.rf : DOMAIN s.rf[lane] \subseteq Nat

\* A VPRO and a DMA command as UsesLocalMemory wants them.
VproOK(L, v) ==
  /\ {L.n, KernelSize(L), RfDiscard(L), L.seg.cw, L.seg.ch, L.seg.iw} \subseteq Nat
  /\ v.op \in DOMAIN OpAsDirection \ {"mul"}
  /\ {v.buffer, v.kernel, v.kernel1, v.bias, v.bias1, v.xend, v.yend, v.offset} \subseteq Nat
  /\ VproReads(L, v) \subseteq LmWords(L)

DmaOK(L, d) == {d.lm, CommandWords(d)} \subseteq Nat /\ WordsOf(d) \subseteq LmWords(L)

\* Local memories that hold the same in the words W.
SameWords(f, g, W) == \A w \in W : f[w] = g[w]

\* Units are records of two fields.
LEMMA ExceptLm ==
  ASSUME NEW L, NEW s, IsUnit(L, s), NEW f
  PROVE  [s EXCEPT !.lm = f] = [lm |-> f, rf |-> s.rf]
  <1>1. PICK p, q : s = [lm |-> p, rf |-> q]
    BY DEF IsUnit
  <1>2. [s EXCEPT !.lm = f] = [lm |-> f, rf |-> q]
    BY <1>1
  <1> QED BY <1>1, <1>2

LEMMA ExceptRf ==
  ASSUME NEW L, NEW s, IsUnit(L, s), NEW f
  PROVE  [s EXCEPT !.rf = f] = [lm |-> s.lm, rf |-> f]
  <1>1. PICK p, q : s = [lm |-> p, rf |-> q]
    BY DEF IsUnit
  <1>2. [s EXCEPT !.rf = f] = [lm |-> p, rf |-> f]
    BY <1>1
  <1> QED BY <1>1, <1>2

LEMMA UnitOf ==
  ASSUME NEW L, NEW f, NEW g,
         f = [w \in LmWords(L) |-> f[w]],
         g = [lane \in 0 .. L.hw.lanes - 1 |-> g[lane]],
         \A lane \in DOMAIN g : DOMAIN g[lane] \subseteq Nat
  PROVE  IsUnit(L, [lm |-> f, rf |-> g])
  BY DEF IsUnit

LEMMA FreshIsUnit == ASSUME NEW L PROVE IsUnit(L, FreshUnit(L))
  <1> DEFINE f == [w \in 0 .. L.hw.lm - 1 |-> NoValue]
             g == [lane \in 0 .. L.hw.lanes - 1 |-> [r \in 0 .. L.hw.rf - 1 |-> NoValue]]
  <1>1. f = [w \in LmWords(L) |-> f[w]]
    BY DEF LmWords
  <1>2. \A lane \in DOMAIN g : DOMAIN g[lane] \subseteq Nat
    OBVIOUS
  <1>3. g = [lane \in 0 .. L.hw.lanes - 1 |-> g[lane]]
    OBVIOUS
  <1>4. FreshUnit(L) = [lm |-> f, rf |-> g]
    BY DEF FreshUnit
  <1> HIDE DEF f, g
  <1>5. IsUnit(L, [lm |-> f, rf |-> g])
    BY <1>1, <1>2, <1>3, UnitOf
  <1> QED BY <1>4, <1>5, Zenon

\* A load writes the words of its command, with values that depend on nothing
\* in the unit.
LEMMA LoadFrame ==
  ASSUME NEW L, NEW cmd, NEW s, IsUnit(L, s)
  PROVE  /\ IsUnit(L, LoadUnit(L, cmd, s))
         /\ LoadUnit(L, cmd, s).rf = s.rf
         /\ \A w \in LmWords(L) : LoadUnit(L, cmd, s).lm[w] =
              IF w \in WordsOf(cmd) THEN Loaded(cmd, CommandPadding(L, cmd), w - cmd.lm) ELSE s.lm[w]
  <1> DEFINE f == [w \in LmWords(L) |->
                     IF w \in WordsOf(cmd) THEN Loaded(cmd, CommandPadding(L, cmd), w - cmd.lm) ELSE s.lm[w]]
             f0 == [w \in DOMAIN s.lm |->
                     IF w \in WordsOf(cmd) THEN Loaded(cmd, CommandPadding(L, cmd), w - cmd.lm) ELSE s.lm[w]]
  <1>1. DOMAIN s.lm = LmWords(L)
    BY DEF IsUnit
  <1>2. f0 = f
    BY <1>1
  <1>3. LoadUnit(L, cmd, s) = [s EXCEPT !.lm = f0]
    BY DEF LoadUnit, LoadPadded
  <1>4. LoadUnit(L, cmd, s) = [lm |-> f, rf |-> s.rf]
    <2> HIDE DEF f, f0
    <2> QED BY <1>2, <1>3, ExceptLm
  <1>5. f = [w \in LmWords(L) |-> f[w]]
    OBVIOUS
  <1>6. IsUnit(L, [lm |-> f, rf |-> s.rf])
    <2> HIDE DEF f
    <2> QED BY <1>5, UnitOf DEF IsUnit
  <1>7. LoadUnit(L, cmd, s).rf = s.rf /\ LoadUnit(L, cmd, s).lm = f
    <2> HIDE DEF f
    <2> QED BY <1>4
  <1> QED BY <1>4, <1>6, <1>7

\* Where a store writes does not depend on what it stores.
LEMMA StoredDomain ==
  ASSUME NEW L, NEW cmd, NEW s PROVE DOMAIN Stored(cmd, s) = Addresses(L, cmd)
  BY DEF Stored, Addresses

\* A store reads the words of its command only.
LEMMA StoredFrame ==
  ASSUME NEW L, NEW cmd, DmaOK(L, cmd), NEW s, NEW t, SameWords(s.lm, t.lm, WordsOf(cmd))
  PROVE  Stored(cmd, s) = Stored(cmd, t)
  <1> DEFINE address(n) == cmd.mm + 2 * ((n \div cmd.x) * (cmd.x + cmd.leap - 1) + (n % cmd.x))
             elements == 0 .. CommandWords(cmd) - 1
             A == {address(n) : n \in elements}
             c(a) == CHOOSE n \in elements : address(n) = a
  <1>1. Stored(cmd, s) = [a \in A |-> s.lm[cmd.lm + c(a)]]
    BY DEF Stored
  <1>2. Stored(cmd, t) = [a \in A |-> t.lm[cmd.lm + c(a)]]
    BY DEF Stored
  <1>3. ASSUME NEW a \in A PROVE s.lm[cmd.lm + c(a)] = t.lm[cmd.lm + c(a)]
    <2>1. c(a) \in elements
      <3> HIDE DEF address
      <3>1. \E n \in elements : address(n) = a
        OBVIOUS
      <3> QED BY <3>1, Zenon
    <2> HIDE DEF c, A
    <2>2. cmd.lm \in Nat /\ CommandWords(cmd) \in Nat
      BY DEF DmaOK
    <2>3. cmd.lm + c(a) \in WordsOf(cmd)
      BY <2>1, <2>2 DEF WordsOf
    <2> QED BY <2>3 DEF SameWords
  <1> HIDE DEF c, A
  <1> QED BY <1>1, <1>2, <1>3

-----------------------------------------------------------------------------
(* Units: the convolutions read the words of VproReads and no others.      *)

\* The registers when the kernels and biases are there, and the pixel that
\* dst accumulates.
ConvReady(L, v, lm, lane, rf) ==
  LET kernel == IF lane = 0 THEN v.kernel ELSE v.kernel1
      bias == IF lane = 0 THEN v.bias ELSE v.bias1
  IN  [r \in DOMAIN rf |->
         IF r \in Span(KernelBase(L), KernelSize(L) * L.n) THEN lm[kernel + r - KernelBase(L)]
         ELSE IF v.op = "conv_start" /\ r \in Span(BiasBase(L), L.n) THEN lm[bias + r - BiasBase(L)]
         ELSE rf[r]]

ConvPixel(L, v, lm, regs, dst) ==
  LET z == dst \div Pixels(L)
  IN  <<"conv", regs[IF v.op = "conv_start" THEN BiasBase(L) + z ELSE dst],
        {<<regs[KernelBase(L) + z * KernelSize(L) + t.kernel], lm[v.buffer + t.input]>> :
           t \in Taps(L, dst % Pixels(L))}>>

ConvOrder(L) == [i \in 1 .. Pixels(L) * L.n |-> i]

\* What the accumulation computes for each prefix, as Fold defines it.
ConvBody(L, v, lm, ready, f) ==
  [i \in 0 .. Len(ConvOrder(L)) |->
     IF i = 0 THEN ready
     ELSE CHOOSE next \in {[done EXCEPT ![ConvOrder(L)[i] - 1] = ConvPixel(L, v, lm, done, ConvOrder(L)[i] - 1)] :
                             done \in {f[i - 1]}} : TRUE]

ConvPrefixes(L, v, lm, ready) == CHOOSE f : f = ConvBody(L, v, lm, ready, f)

\* The fold of the model, with its prefixes.
LEMMA ConvLaneIs ==
  ASSUME NEW L, NEW v, NEW lm, NEW lane, NEW rf
  PROVE  ConvLane(L, v, lm, lane, rf)
           = ConvPrefixes(L, v, lm, ConvReady(L, v, lm, lane, rf))[Len(ConvOrder(L))]
  BY Zenon DEF ConvLane, Fold, ConvPrefixes, ConvBody, ConvReady, ConvPixel, ConvOrder

\* The pixels in the order of the accumulation.
LEMMA ConvOrderIs ==
  ASSUME NEW L, {L.n, L.seg.cw, L.seg.ch} \subseteq Nat
  PROVE  /\ Pixels(L) \in Nat /\ Pixels(L) * L.n \in Nat
         /\ Len(ConvOrder(L)) = Pixels(L) * L.n
         /\ \A i \in 1 .. Len(ConvOrder(L)) :
              /\ ConvOrder(L)[i] = i
              /\ Pixels(L) \in Nat \ {0} /\ (i - 1) % Pixels(L) \in 0 .. Pixels(L) - 1
  <1>1. PICK w \in Nat, h \in Nat, n \in Nat : w = L.seg.cw /\ h = L.seg.ch /\ n = L.n
    OBVIOUS
  <1>2. Pixels(L) = w * h
    BY <1>1 DEF Pixels
  <1>3. w * h \in Nat
    OBVIOUS
  <1>4. PICK p \in Nat : p = Pixels(L)
    BY <1>2, <1>3
  <1>5. PICK m \in Nat : m = p * n
    OBVIOUS
  <1>6. ConvOrder(L) = [i \in 1 .. m |-> i]
    BY <1>1, <1>4, <1>5 DEF ConvOrder
  <1>7. Len(ConvOrder(L)) = m
    BY <1>6
  <1>8. ASSUME NEW i \in 1 .. m PROVE p \in Nat \ {0} /\ (i - 1) % p \in 0 .. p - 1
    <2>1. p # 0
      <3>1. CASE p = 0
        <4>1. m = 0
          BY <3>1, <1>5
        <4> QED BY <4>1
      <3> QED BY <3>1
    <2>2. i - 1 \in Int
      OBVIOUS
    <2>3. (i - 1) % p \in 0 .. p - 1
      BY <2>1, <2>2, DivMod
    <2> QED BY <2>1, <2>3
  <1> QED BY <1>1, <1>4, <1>5, <1>6, <1>7, <1>8

\* Each pixel's inputs are words the command reads.
LEMMA ReadsInput ==
  ASSUME NEW L, NEW v, v.op \in {"conv_start", "conv_add", "max_pooling"},
         Pixels(L) \in Nat,
         NEW p \in 0 .. Pixels(L) - 1, NEW t \in Taps(L, p)
  PROVE  v.buffer + t.input \in VproReads(L, v)
  <1> DEFINE T == UNION {Taps(L, q) : q \in 0 .. Pixels(L) - 1}
             inputs == {v.buffer + x.input : x \in T}
  <1>1. t \in T
    OBVIOUS
  <1>2. v.buffer + t.input \in inputs
    BY <1>1
  <1>3. inputs \subseteq VproReads(L, v)
    <2> HIDE DEF T
    <2> QED BY DEF VproReads, T
  <1> QED BY <1>2, <1>3

\* Kernels, biases and pixels come from words that the command reads.
LEMMA ConvReadySame ==
  ASSUME NEW L, NEW v, VproOK(L, v), v.op \in {"conv_start", "conv_add"}, NEW lm1, NEW lm2,
         SameWords(lm1, lm2, VproReads(L, v)), NEW lane, NEW rf
  PROVE  ConvReady(L, v, lm1, lane, rf) = ConvReady(L, v, lm2, lane, rf)
  <1> DEFINE kernel == IF lane = 0 THEN v.kernel ELSE v.kernel1
             bias == IF lane = 0 THEN v.bias ELSE v.bias1
             F(lm) == [r \in DOMAIN rf |->
                IF r \in Span(KernelBase(L), KernelSize(L) * L.n) THEN lm[kernel + r - KernelBase(L)]
                ELSE IF v.op = "conv_start" /\ r \in Span(BiasBase(L), L.n) THEN lm[bias + r - BiasBase(L)]
                ELSE rf[r]]
  <1>1. PICK n \in Nat, k \in Nat, z \in Nat : n = L.n /\ k = KernelSize(L) /\ z = RfDiscard(L)
    BY DEF VproOK
  <1>2. PICK m \in Nat : m = k * n
    OBVIOUS
  <1>3. kernel \in Nat /\ bias \in Nat
    BY DEF VproOK
  <1>4. PICK kb \in Int, bb \in Int : kb = KernelBase(L) /\ bb = BiasBase(L)
    <2>1. z - m \in Int /\ z - m - n \in Int
      OBVIOUS
    <2> QED BY <1>1, <1>2, <2>1 DEF KernelBase, BiasBase
  <1>5. Span(kernel, m) \subseteq VproReads(L, v)
    BY <1>1, <1>2 DEF VproReads
  <1>6. v.op = "conv_start" => Span(bias, n) \subseteq VproReads(L, v)
    BY <1>1, <1>2 DEF VproReads
  <1> HIDE DEF kernel, bias
  <1>7. ASSUME NEW r \in Span(kb, m) PROVE lm1[kernel + r - kb] = lm2[kernel + r - kb]
    <2>1. kernel + r - kb \in Span(kernel, m)
      BY <1>3 DEF Span
    <2> QED BY <2>1, <1>5 DEF SameWords
  <1>8. ASSUME NEW r \in Span(bb, n), v.op = "conv_start" PROVE lm1[bias + r - bb] = lm2[bias + r - bb]
    <2>1. bias + r - bb \in Span(bias, n)
      BY <1>3 DEF Span
    <2> QED BY <2>1, <1>6, <1>8 DEF SameWords
  <1>9. F(lm1) = F(lm2)
    BY <1>1, <1>2, <1>4, <1>7, <1>8
  <1> QED BY <1>9 DEF ConvReady, kernel, bias

LEMMA ConvPixelSame ==
  ASSUME NEW L, NEW v, VproOK(L, v), v.op \in {"conv_start", "conv_add"}, NEW lm1, NEW lm2,
         SameWords(lm1, lm2, VproReads(L, v)), Pixels(L) \in Nat \ {0},
         NEW dst, dst % Pixels(L) \in 0 .. Pixels(L) - 1, NEW regs
  PROVE  ConvPixel(L, v, lm1, regs, dst) = ConvPixel(L, v, lm2, regs, dst)
  <1>1. \A t \in Taps(L, dst % Pixels(L)) : lm1[v.buffer + t.input] = lm2[v.buffer + t.input]
    BY ReadsInput DEF SameWords
  <1> DEFINE z == dst \div Pixels(L)
             T == Taps(L, dst % Pixels(L))
             S(lm) == {<<regs[KernelBase(L) + z * KernelSize(L) + t.kernel], lm[v.buffer + t.input]>> : t \in T}
  <1>2. S(lm1) = S(lm2)
    <2> HIDE DEF T, z
    <2>1. \A t \in T : lm1[v.buffer + t.input] = lm2[v.buffer + t.input]
      BY <1>1 DEF T
    <2> QED BY <2>1
  <1> HIDE DEF S
  <1> QED BY <1>2 DEF ConvPixel, S

\* Local memories that agree in what a convolution reads give the same lane.
LEMMA ConvLaneSame ==
  ASSUME NEW L, NEW v, VproOK(L, v), v.op \in {"conv_start", "conv_add"}, NEW lm1, NEW lm2,
         SameWords(lm1, lm2, VproReads(L, v)), NEW lane, NEW rf
  PROVE  ConvLane(L, v, lm1, lane, rf) = ConvLane(L, v, lm2, lane, rf)
  <1> DEFINE ready == ConvReady(L, v, lm1, lane, rf)
             o == ConvOrder(L)
  <1>0. {L.n, L.seg.cw, L.seg.ch} \subseteq Nat
    BY DEF VproOK
  <1>1. ConvReady(L, v, lm1, lane, rf) = ConvReady(L, v, lm2, lane, rf)
    BY ConvReadySame
  <1> HIDE DEF ready
  <1>2. ASSUME NEW f PROVE ConvBody(L, v, lm1, ready, f) = ConvBody(L, v, lm2, ready, f)
    <2> DEFINE G(lm, i) == IF i = 0 THEN ready
                 ELSE CHOOSE next \in {[done EXCEPT ![o[i] - 1] = ConvPixel(L, v, lm, done, o[i] - 1)] :
                                         done \in {f[i - 1]}} : TRUE
    <2>1. ASSUME NEW i \in 0 .. Len(o) PROVE G(lm1, i) = G(lm2, i)
      <3>1. CASE i = 0
        BY <3>1
      <3>2. CASE i # 0
        <4>1. i \in 1 .. Len(o)
          <5>1. Len(o) \in Nat
            BY <1>0, ConvOrderIs
          <5> QED BY <3>2, <5>1
        <4>2. o[i] = i /\ Pixels(L) \in Nat \ {0} /\ (i - 1) % Pixels(L) \in 0 .. Pixels(L) - 1
          BY <1>0, <4>1, ConvOrderIs
        <4>3. \A done : ConvPixel(L, v, lm1, done, o[i] - 1) = ConvPixel(L, v, lm2, done, o[i] - 1)
          BY <4>2, ConvPixelSame
        <4>4. {[done EXCEPT ![o[i] - 1] = ConvPixel(L, v, lm1, done, o[i] - 1)] : done \in {f[i - 1]}}
              = {[done EXCEPT ![o[i] - 1] = ConvPixel(L, v, lm2, done, o[i] - 1)] : done \in {f[i - 1]}}
          BY <4>3
        <4> HIDE DEF o
        <4> QED BY <3>2, <4>4, Zenon
      <3> QED BY <3>1, <3>2
    <2>2. [i \in 0 .. Len(o) |-> G(lm1, i)] = [i \in 0 .. Len(o) |-> G(lm2, i)]
      <3> HIDE DEF G
      <3> QED BY <2>1
    <2> QED BY <2>2, Zenon DEF ConvBody
  <1>3. ConvPrefixes(L, v, lm1, ready) = ConvPrefixes(L, v, lm2, ready)
    BY <1>2, Zenon DEF ConvPrefixes
  <1>4. ConvLane(L, v, lm1, lane, rf) = ConvPrefixes(L, v, lm1, ready)[Len(o)]
    BY ConvLaneIs, Zenon DEF ready
  <1>5. ConvLane(L, v, lm2, lane, rf) = ConvPrefixes(L, v, lm2, ready)[Len(o)]
    BY <1>1, ConvLaneIs, Zenon DEF ready
  <1> QED BY <1>3, <1>4, <1>5, Zenon

\* The accumulation has a result for each prefix: the registers of the
\* prefix before it, one of them replaced.
LEMMA ConvPrefixesExist ==
  ASSUME NEW L, NEW v, NEW lm, NEW ready, Len(ConvOrder(L)) \in Nat
  PROVE  ConvPrefixes(L, v, lm, ready) = ConvBody(L, v, lm, ready, ConvPrefixes(L, v, lm, ready))
  <1> DEFINE o == ConvOrder(L)
             N == Len(o)
             Next1(done, i) == [done EXCEPT ![o[i] - 1] = ConvPixel(L, v, lm, done, o[i] - 1)]
             Good(h, n) == h[0] = ready /\ \A i \in 1 .. n : h[i] = Next1(h[i - 1], i)
             T == {n \in Nat : \E h : Good(h, n)}
  <1>1. 0 \in T
    <2>1. Good([i \in 0 .. 0 |-> ready], 0)
      OBVIOUS
    <2> QED BY <2>1
  <1> HIDE DEF Next1
  <1>2. ASSUME NEW n \in Nat, n \in T PROVE n + 1 \in T
    <2>1. PICK h : Good(h, n)
      BY <1>2
    <2> DEFINE h1 == [i \in 0 .. n + 1 |-> IF i = n + 1 THEN Next1(h[n], n + 1) ELSE h[i]]
    <2>2. \A i \in 0 .. n : h1[i] = h[i]
      OBVIOUS
    <2>3. h1[n + 1] = Next1(h[n], n + 1)
      OBVIOUS
    <2> HIDE DEF h1
    <2>4. ASSUME NEW i \in 1 .. n + 1 PROVE h1[i] = Next1(h1[i - 1], i)
      <3>1. CASE i = n + 1
        <4>1. h1[i - 1] = h[n]
          BY <2>2, <3>1
        <4> QED BY <4>1, <2>3, <3>1
      <3>2. CASE i \in 1 .. n
        <4>1. h1[i - 1] = h[i - 1] /\ h1[i] = h[i]
          BY <2>2, <3>2
        <4> QED BY <4>1, <2>1, <3>2
      <3> QED BY <3>1, <3>2
    <2>5. Good(h1, n + 1)
      BY <2>1, <2>2, <2>4
    <2> QED BY <2>5
  <1> HIDE DEF T
  <1>3. N \in T
    BY <1>1, <1>2, AllNumbers
  <1>4. PICK h : Good(h, N)
    BY <1>3 DEF T
  <1> DEFINE f == [i \in 0 .. N |-> h[i]]
  <1>5. f = ConvBody(L, v, lm, ready, f)
    <2> DEFINE G(i) == IF i = 0 THEN ready
                 ELSE CHOOSE next \in {[done EXCEPT ![o[i] - 1] = ConvPixel(L, v, lm, done, o[i] - 1)] :
                                         done \in {f[i - 1]}} : TRUE
    <2>1. ASSUME NEW i \in 0 .. N PROVE f[i] = G(i)
      <3>1. CASE i = 0
        BY <3>1, <1>4
      <3>2. CASE i # 0
        <4>1. i \in 1 .. N /\ i - 1 \in 0 .. N /\ f[i - 1] = h[i - 1] /\ f[i] = h[i]
          BY <3>2
        <4>2. h[i] = Next1(h[i - 1], i)
          BY <4>1, <1>4
        <4> HIDE DEF f
        <4>3. {[done EXCEPT ![o[i] - 1] = ConvPixel(L, v, lm, done, o[i] - 1)] : done \in {f[i - 1]}}
              = {Next1(f[i - 1], i)}
          BY DEF Next1
        <4>4. G(i) = Next1(f[i - 1], i)
          BY <3>2, <4>3
        <4> QED BY <4>1, <4>2, <4>4
      <3> QED BY <3>1, <3>2
    <2>2. f = [i \in 0 .. N |-> G(i)]
      <3> HIDE DEF G
      <3> QED BY <2>1
    <2> QED BY <2>2, Zenon DEF ConvBody
  <1> HIDE DEF f
  <1> QED BY <1>5, Zenon DEF ConvPrefixes

\* A convolution replaces registers of a lane and adds none.
LEMMA ConvLaneDomain ==
  ASSUME NEW L, NEW v, NEW lm, NEW lane, NEW rf, {L.n, L.seg.cw, L.seg.ch} \subseteq Nat
  PROVE  DOMAIN ConvLane(L, v, lm, lane, rf) = DOMAIN rf
  <1> DEFINE o == ConvOrder(L)
             N == Len(o)
             ready == ConvReady(L, v, lm, lane, rf)
             f == ConvPrefixes(L, v, lm, ready)
             T == {n \in Nat : n <= N => DOMAIN f[n] = DOMAIN rf}
             G(i) == IF i = 0 THEN ready
                 ELSE CHOOSE next \in {[done EXCEPT ![o[i] - 1] = ConvPixel(L, v, lm, done, o[i] - 1)] :
                                         done \in {f[i - 1]}} : TRUE
  <1>1. N \in Nat
    BY ConvOrderIs
  <1>2. f = [i \in 0 .. N |-> G(i)]
    <2>1. f = ConvBody(L, v, lm, ready, f)
      BY <1>1, ConvPrefixesExist
    <2> QED BY <2>1 DEF ConvBody
  <1>3. DOMAIN ready = DOMAIN rf
    BY DEF ConvReady
  <1> HIDE DEF f, o, ready, N
  <1>10. \A i \in 0 .. N : f[i] = G(i)
    <2> HIDE DEF G
    <2> QED BY <1>2
  <1>4. f[0] = ready
    BY <1>1, <1>10
  <1>5. ASSUME NEW i \in 1 .. N PROVE DOMAIN f[i] = DOMAIN f[i - 1]
    <2>1. f[i] = G(i) /\ i # 0
      <3> HIDE DEF G
      <3> QED BY <1>1, <1>10
    <2> DEFINE d == [f[i - 1] EXCEPT ![o[i] - 1] = ConvPixel(L, v, lm, f[i - 1], o[i] - 1)]
    <2>2. {[done EXCEPT ![o[i] - 1] = ConvPixel(L, v, lm, done, o[i] - 1)] : done \in {f[i - 1]}} = {d}
      OBVIOUS
    <2>3. DOMAIN d = DOMAIN f[i - 1]
      OBVIOUS
    <2> HIDE DEF d
    <2>4. f[i] = d
      BY <2>1, <2>2
    <2> QED BY <2>3, <2>4
  <1> HIDE DEF G
  <1>6. 0 \in T
    BY <1>3, <1>4
  <1>7. ASSUME NEW n \in Nat, n \in T PROVE n + 1 \in T
    <2>1. CASE n + 1 <= N
      <3>1. n + 1 \in 1 .. N /\ n <= N
        BY <2>1, <1>1
      <3>2. DOMAIN f[n + 1] = DOMAIN f[(n + 1) - 1]
        BY <3>1, <1>5
      <3> QED BY <3>1, <3>2, <1>7
    <2>2. CASE ~(n + 1 <= N)
      BY <2>2
    <2> QED BY <2>1, <2>2
  <1> HIDE DEF T
  <1>8. N \in T
    BY <1>1, <1>6, <1>7, AllNumbers
  <1>9. DOMAIN f[N] = DOMAIN rf
    BY <1>1, <1>8 DEF T
  <1> QED BY <1>9, ConvLaneIs, Zenon DEF f, o, N, ready

-----------------------------------------------------------------------------
(* Units: what a VPRO command reads and writes.                            *)

\* Units with the same registers that differ in the words W only.
SameBut(L, a, b, W) ==
  /\ IsUnit(L, a) /\ IsUnit(L, b)
  /\ a.rf = b.rf
  /\ \A w \in LmWords(L) \ W : a.lm[w] = b.lm[w]

\* The commands that write registers only.
RegisterOps == {"conv_start", "conv_add", "max_pooling", "maxpool2x2_fused", "activation_fused", "add"}

\* What a command of RegisterOps makes of the registers of a lane.
LaneAfter(L, v, lm, lane, regs) ==
  CASE v.op \in {"conv_start", "conv_add"} -> ConvLane(L, v, lm, lane, regs)
    [] v.op = "max_pooling" -> MaxLane(L, v, lm, regs)
    [] v.op = "maxpool2x2_fused" -> IF lane \in Bits(v.lanes) THEN PoolLane(v, regs) ELSE regs
    [] v.op = "activation_fused" -> IF lane \in Bits(v.lanes) THEN ActivationLane(v, regs) ELSE regs
    [] OTHER -> IF lane \in {0} THEN AddLane(L, v, lm, regs) ELSE regs

\* They apply LaneAfter to the lanes and leave the local memory alone.
LEMMA RegisterOpIs ==
  ASSUME NEW L, NEW v, v.op \in RegisterOps, NEW s, IsUnit(L, s)
  PROVE  RunVpro(L, v, s) =
           [lm |-> s.lm, rf |-> [lane \in DOMAIN s.rf |-> LaneAfter(L, v, s.lm, lane, s.rf[lane])]]
  <1> DEFINE g == [lane \in DOMAIN s.rf |-> LaneAfter(L, v, s.lm, lane, s.rf[lane])]
  <1>1. RunVpro(L, v, s) = [s EXCEPT !.rf = g]
    <2>1. CASE v.op \in {"conv_start", "conv_add"}
      <3>1. g = [lane \in DOMAIN s.rf |-> ConvLane(L, v, s.lm, lane, s.rf[lane])]
        BY <2>1 DEF LaneAfter
      <3> QED BY <2>1, <3>1 DEF RunVpro
    <2>2. CASE v.op = "max_pooling"
      <3>1. g = [lane \in DOMAIN s.rf |-> IF lane \in DOMAIN s.rf THEN MaxLane(L, v, s.lm, s.rf[lane]) ELSE s.rf[lane]]
        BY <2>2 DEF LaneAfter
      <3> QED BY <2>2, <3>1 DEF RunVpro, OnLanes
    <2>3. CASE v.op = "maxpool2x2_fused"
      <3>1. g = [lane \in DOMAIN s.rf |-> IF lane \in Bits(v.lanes) THEN PoolLane(v, s.rf[lane]) ELSE s.rf[lane]]
        BY <2>3 DEF LaneAfter
      <3> QED BY <2>3, <3>1 DEF RunVpro, OnLanes
    <2>4. CASE v.op = "activation_fused"
      <3>1. g = [lane \in DOMAIN s.rf |-> IF lane \in Bits(v.lanes) THEN ActivationLane(v, s.rf[lane]) ELSE s.rf[lane]]
        BY <2>4 DEF LaneAfter
      <3> QED BY <2>4, <3>1 DEF RunVpro, OnLanes
    <2>5. CASE v.op = "add"
      <3>1. g = [lane \in DOMAIN s.rf |-> IF lane \in {0} THEN AddLane(L, v, s.lm, s.rf[lane]) ELSE s.rf[lane]]
        BY <2>5 DEF LaneAfter
      <3> QED BY <2>5, <3>1 DEF RunVpro, OnLanes
    <2> QED BY <2>1, <2>2, <2>3, <2>4, <2>5 DEF RegisterOps
  <1> HIDE DEF g
  <1>2. [s EXCEPT !.rf = g] = [lm |-> s.lm, rf |-> g]
    BY ExceptRf
  <1> QED BY <1>1, <1>2 DEF g

\* The other commands that read the local memory read words of VproReads only.
LEMMA MaxLaneSame ==
  ASSUME NEW L, NEW v, VproOK(L, v), v.op = "max_pooling", NEW lm1, NEW lm2,
         SameWords(lm1, lm2, VproReads(L, v)), NEW rf, DOMAIN rf \subseteq Nat
  PROVE  MaxLane(L, v, lm1, rf) = MaxLane(L, v, lm2, rf)
  <1> DEFINE S(lm, r) == {lm[v.buffer + t.input] : t \in Taps(L, r)}
  <1>1. Pixels(L) \in Nat
    BY ConvOrderIs DEF VproOK
  <1>2. ASSUME NEW r \in DOMAIN rf, r < Pixels(L) PROVE S(lm1, r) = S(lm2, r)
    <2>1. r \in 0 .. Pixels(L) - 1
      BY <1>1, <1>2
    <2>2. \A t \in Taps(L, r) : lm1[v.buffer + t.input] = lm2[v.buffer + t.input]
      BY <1>1, <2>1, ReadsInput DEF SameWords
    <2> QED BY <2>2
  <1> HIDE DEF S
  <1>3. [r \in DOMAIN rf |-> IF r < Pixels(L) THEN <<"max", S(lm1, r)>> ELSE rf[r]]
        = [r \in DOMAIN rf |-> IF r < Pixels(L) THEN <<"max", S(lm2, r)>> ELSE rf[r]]
    BY <1>2
  <1> QED BY <1>3 DEF MaxLane, S

LEMMA AddLaneSame ==
  ASSUME NEW L, NEW v, VproOK(L, v), v.op = "add", NEW lm1, NEW lm2,
         SameWords(lm1, lm2, VproReads(L, v)), NEW rf, DOMAIN rf \subseteq Nat
  PROVE  AddLane(L, v, lm1, rf) = AddLane(L, v, lm2, rf)
  <1> DEFINE Sum2(lm, x, y) == <<"add", lm[SourceWord(L, v, 1, x, y)], lm[SourceWord(L, v, 2, x, y)]>>
             w == v.xend + 1
             h == v.yend + 1
  <1>1. w \in Nat \ {0} /\ h \in Nat /\ w - 1 = v.xend /\ h - 1 = v.yend
    BY DEF VproOK
  <1>2. ASSUME NEW x \in 0 .. v.xend, NEW y \in 0 .. v.yend PROVE Sum2(lm1, x, y) = Sum2(lm2, x, y)
    <2>1. VproReads(L, v) = {SourceWord(L, v, s, i, j) : s \in 1 .. 2, i \in 0 .. v.xend, j \in 0 .. v.yend}
      BY DEF VproReads
    <2>2. \A s \in 1 .. 2 : SourceWord(L, v, s, x, y) \in VproReads(L, v)
      BY <2>1
    <2>3. lm1[SourceWord(L, v, 1, x, y)] = lm2[SourceWord(L, v, 1, x, y)]
          /\ lm1[SourceWord(L, v, 2, x, y)] = lm2[SourceWord(L, v, 2, x, y)]
      BY <2>2 DEF SameWords
    <2> QED BY <2>3
  <1> HIDE DEF Sum2, w, h
  <1>3. ASSUME NEW r \in DOMAIN rf, r < w * h
        PROVE  Sum2(lm1, r % w, r \div w) = Sum2(lm2, r % w, r \div w)
    <2>1. r \in Nat /\ h * w \in Int /\ h * w = w * h
      BY <1>1
    <2>2. r \in 0 .. h * w - 1
      BY <1>3, <2>1
    <2>3. r % w \in 0 .. w - 1
      BY <1>1, <2>1, DivMod
    <2>4. r \div w \in 0 .. h - 1
      BY <1>1, <2>2, DivBound
    <2> QED BY <1>1, <1>2, <2>3, <2>4
  <1>4. [r \in DOMAIN rf |-> IF r < w * h THEN Sum2(lm1, r % w, r \div w) ELSE rf[r]]
        = [r \in DOMAIN rf |-> IF r < w * h THEN Sum2(lm2, r % w, r \div w) ELSE rf[r]]
    BY <1>3
  <1>5. \A lm : AddLane(L, v, lm, rf) = [r \in DOMAIN rf |-> IF r < w * h THEN Sum2(lm, r % w, r \div w) ELSE rf[r]]
    BY DEF AddLane, Replaced, Sum2, w, h
  <1> QED BY <1>4, <1>5

\* All of them compute the same from local memories that agree in VproReads.
LEMMA LaneAfterSame ==
  ASSUME NEW L, NEW v, VproOK(L, v), v.op \in RegisterOps, NEW lm1, NEW lm2,
         SameWords(lm1, lm2, VproReads(L, v)), NEW lane, NEW regs, DOMAIN regs \subseteq Nat
  PROVE  /\ LaneAfter(L, v, lm1, lane, regs) = LaneAfter(L, v, lm2, lane, regs)
         /\ DOMAIN LaneAfter(L, v, lm1, lane, regs) = DOMAIN regs
  <1>1. CASE v.op \in {"conv_start", "conv_add"}
    <2>1. ConvLane(L, v, lm1, lane, regs) = ConvLane(L, v, lm2, lane, regs)
      BY <1>1, ConvLaneSame
    <2>2. DOMAIN ConvLane(L, v, lm1, lane, regs) = DOMAIN regs
      BY ConvLaneDomain DEF VproOK
    <2> QED BY <1>1, <2>1, <2>2 DEF LaneAfter
  <1>2. CASE v.op = "max_pooling"
    <2>1. MaxLane(L, v, lm1, regs) = MaxLane(L, v, lm2, regs)
      BY <1>2, MaxLaneSame
    <2>2. DOMAIN MaxLane(L, v, lm1, regs) = DOMAIN regs
      BY DEF MaxLane
    <2> QED BY <1>2, <2>1, <2>2 DEF LaneAfter
  <1>3. CASE v.op = "maxpool2x2_fused"
    <2>1. DOMAIN PoolLane(v, regs) = DOMAIN regs
      BY DEF PoolLane
    <2> QED BY <1>3, <2>1 DEF LaneAfter
  <1>4. CASE v.op = "activation_fused"
    <2>1. DOMAIN ActivationLane(v, regs) = DOMAIN regs
      BY DEF ActivationLane
    <2> QED BY <1>4, <2>1 DEF LaneAfter
  <1>5. CASE v.op = "add"
    <2>1. AddLane(L, v, lm1, regs) = AddLane(L, v, lm2, regs)
      BY <1>5, AddLaneSame
    <2>2. DOMAIN AddLane(L, v, lm1, regs) = DOMAIN regs
      BY DEF AddLane, Replaced
    <2> QED BY <1>5, <2>1, <2>2 DEF LaneAfter
  <1> QED BY <1>1, <1>2, <1>3, <1>4, <1>5 DEF RegisterOps

\* What RunVpro promises of two units that differ in words that the command
\* does not read.
Framed(L, v, a, b, W) ==
  /\ SameBut(L, RunVpro(L, v, a), RunVpro(L, v, b), W)
  /\ \A w \in LmWords(L) \ VproWrites(L, v) : RunVpro(L, v, a).lm[w] = a.lm[w]
  /\ \A w \in LmWords(L) \ VproWrites(L, v) : RunVpro(L, v, b).lm[w] = b.lm[w]

\* So they have the frame.
LEMMA RegisterFrame ==
  ASSUME NEW L, NEW v, VproOK(L, v), v.op \in RegisterOps, NEW W, W \cap VproReads(L, v) = {},
         NEW a, NEW b, SameBut(L, a, b, W)
  PROVE  Framed(L, v, a, b, W)
  <1> DEFINE g(s) == [lane \in DOMAIN s.rf |-> LaneAfter(L, v, s.lm, lane, s.rf[lane])]
  <1>1. SameWords(a.lm, b.lm, VproReads(L, v))
    BY DEF SameWords, SameBut, VproOK
  <1>2. IsUnit(L, a) /\ IsUnit(L, b) /\ a.rf = b.rf
    BY DEF SameBut
  <1>3. ASSUME NEW lane \in DOMAIN a.rf
        PROVE  /\ LaneAfter(L, v, a.lm, lane, a.rf[lane]) = LaneAfter(L, v, b.lm, lane, a.rf[lane])
               /\ DOMAIN LaneAfter(L, v, a.lm, lane, a.rf[lane]) \subseteq Nat
    <2>1. DOMAIN a.rf[lane] \subseteq Nat
      BY <1>2 DEF IsUnit
    <2> QED BY <1>1, <2>1, LaneAfterSame
  <1>4. g(a) = g(b)
    BY <1>2, <1>3
  <1>5. g(a) = [lane \in 0 .. L.hw.lanes - 1 |-> g(a)[lane]] /\ \A lane \in DOMAIN g(a) : DOMAIN g(a)[lane] \subseteq Nat
    <2>1. DOMAIN a.rf = 0 .. L.hw.lanes - 1
      BY <1>2 DEF IsUnit
    <2>2. \A lane \in DOMAIN a.rf : g(a)[lane] = LaneAfter(L, v, a.lm, lane, a.rf[lane])
      OBVIOUS
    <2> QED BY <1>3, <2>1, <2>2
  <1>6. RunVpro(L, v, a) = [lm |-> a.lm, rf |-> g(a)] /\ RunVpro(L, v, b) = [lm |-> b.lm, rf |-> g(b)]
    BY <1>2, RegisterOpIs
  <1> HIDE DEF g
  <1>7. PICK ga, gb : ga = g(a) /\ gb = g(b)
    OBVIOUS
  <1>8. IsUnit(L, [lm |-> a.lm, rf |-> ga]) /\ IsUnit(L, [lm |-> b.lm, rf |-> ga])
    <2>1. ga = [lane \in 0 .. L.hw.lanes - 1 |-> ga[lane]] /\ \A lane \in DOMAIN ga : DOMAIN ga[lane] \subseteq Nat
      BY <1>5, <1>7
    <2>2. a.lm = [w \in LmWords(L) |-> a.lm[w]] /\ b.lm = [w \in LmWords(L) |-> b.lm[w]]
      BY <1>2 DEF IsUnit
    <2> QED BY <2>1, <2>2, UnitOf
  <1>9. RunVpro(L, v, a) = [lm |-> a.lm, rf |-> ga] /\ RunVpro(L, v, b) = [lm |-> b.lm, rf |-> ga]
    BY <1>4, <1>6, <1>7
  <1>10. PICK ra, rb : ra = RunVpro(L, v, a) /\ rb = RunVpro(L, v, b)
    OBVIOUS
  <1>11. ra.lm = a.lm /\ rb.lm = b.lm /\ ra.rf = rb.rf /\ IsUnit(L, ra) /\ IsUnit(L, rb)
    BY <1>8, <1>9, <1>10
  <1>12. Framed(L, v, a, b, W) =
        (/\ SameBut(L, ra, rb, W)
         /\ \A w \in LmWords(L) \ VproWrites(L, v) : ra.lm[w] = a.lm[w]
         /\ \A w \in LmWords(L) \ VproWrites(L, v) : rb.lm[w] = b.lm[w])
    BY <1>10 DEF Framed
  <1> QED BY <1>11, <1>12 DEF SameBut

\* The results la and lb of the local memories and g of the registers are
\* as Framed wants them.
FramedParts(L, v, a, b, W, la, lb, g) ==
  /\ RunVpro(L, v, a) = [lm |-> la, rf |-> g] /\ RunVpro(L, v, b) = [lm |-> lb, rf |-> g]
  /\ la = [w \in LmWords(L) |-> la[w]] /\ lb = [w \in LmWords(L) |-> lb[w]]
  /\ g = [lane \in 0 .. L.hw.lanes - 1 |-> g[lane]]
  /\ \A lane \in DOMAIN g : DOMAIN g[lane] \subseteq Nat
  /\ \A w \in LmWords(L) \ W : la[w] = lb[w]
  /\ \A w \in LmWords(L) \ VproWrites(L, v) : la[w] = a.lm[w] /\ lb[w] = b.lm[w]

\* A command with these results has the frame.
LEMMA FramedBy ==
  ASSUME NEW L, NEW v, NEW a, NEW b, NEW W, NEW la, NEW lb, NEW g,
         FramedParts(L, v, a, b, W, la, lb, g)
  PROVE  Framed(L, v, a, b, W)
  <1>1. IsUnit(L, [lm |-> la, rf |-> g]) /\ IsUnit(L, [lm |-> lb, rf |-> g])
    BY UnitOf DEF FramedParts
  <1>2. PICK ra, rb : ra = RunVpro(L, v, a) /\ rb = RunVpro(L, v, b)
    OBVIOUS
  <1>3. ra.lm = la /\ rb.lm = lb /\ ra.rf = rb.rf /\ IsUnit(L, ra) /\ IsUnit(L, rb)
    <2>1. ra = [lm |-> la, rf |-> g] /\ rb = [lm |-> lb, rf |-> g]
      BY <1>2 DEF FramedParts
    <2> QED BY <1>1, <2>1
  <1>5. /\ \A w \in LmWords(L) \ W : la[w] = lb[w]
        /\ \A w \in LmWords(L) \ VproWrites(L, v) : la[w] = a.lm[w] /\ lb[w] = b.lm[w]
    BY DEF FramedParts
  <1>4. Framed(L, v, a, b, W) =
        (/\ SameBut(L, ra, rb, W)
         /\ \A w \in LmWords(L) \ VproWrites(L, v) : ra.lm[w] = a.lm[w]
         /\ \A w \in LmWords(L) \ VproWrites(L, v) : rb.lm[w] = b.lm[w])
    BY <1>2 DEF Framed
  <1> QED BY <1>3, <1>4, <1>5 DEF SameBut

\* The store of a lane's registers.
LEMMA StoreFrame ==
  ASSUME NEW L, NEW v, v.op = "shift_store", NEW W, NEW a, NEW b, SameBut(L, a, b, W)
  PROVE  Framed(L, v, a, b, W)
  <1> DEFINE size == (v.xend + 1) * (v.yend + 1)
             source(lane, w) ==
               LET n == w - v.buffer - lane * v.stride
               IN  CHOOSE r \in 0 .. size * (v.zend + 1) - 1 :
                     (r \div size) * v.bias + (r % size) = n
             written(lane) == StoreWords(L, [v EXCEPT !.lanes = 2^lane])
             value(rf, w) == LET lane == CHOOSE l \in Bits(v.lanes) : w \in written(l)
                             IN  rf[lane][LET r == source(lane, w) IN (r \div size) * v.kernel1 + (r % size)]
             f(s) == [w \in DOMAIN s.lm |-> IF w \in StoreWords(L, v) THEN value(s.rf, w) ELSE s.lm[w]]
  <1>1. \A s : RunVpro(L, v, s) = [s EXCEPT !.lm = f(s)]
    BY DEF RunVpro, StoreResults
  <1> HIDE DEF value
  <1>2. IsUnit(L, a) /\ IsUnit(L, b) /\ a.rf = b.rf /\ DOMAIN a.lm = LmWords(L) /\ DOMAIN b.lm = LmWords(L)
    BY DEF SameBut, IsUnit
  <1>3. VproWrites(L, v) = StoreWords(L, v)
    BY DEF VproWrites
  <1>4. PICK g, la, lb : g = a.rf /\ la = f(a) /\ lb = f(b)
    OBVIOUS
  <1>5. /\ la = [w \in LmWords(L) |-> la[w]] /\ lb = [w \in LmWords(L) |-> lb[w]]
        /\ \A w \in LmWords(L) : la[w] = IF w \in StoreWords(L, v) THEN value(g, w) ELSE a.lm[w]
        /\ \A w \in LmWords(L) : lb[w] = IF w \in StoreWords(L, v) THEN value(g, w) ELSE b.lm[w]
    BY <1>2, <1>4
  <1>6. RunVpro(L, v, a) = [lm |-> la, rf |-> g] /\ RunVpro(L, v, b) = [lm |-> lb, rf |-> g]
    <2> HIDE DEF f
    <2> QED BY <1>1, <1>2, <1>4, ExceptLm
  <1>7. g = [lane \in 0 .. L.hw.lanes - 1 |-> g[lane]] /\ \A lane \in DOMAIN g : DOMAIN g[lane] \subseteq Nat
    BY <1>2, <1>4 DEF IsUnit
  <1>8. /\ \A w \in LmWords(L) \ W : la[w] = lb[w]
        /\ \A w \in LmWords(L) \ VproWrites(L, v) : la[w] = a.lm[w] /\ lb[w] = b.lm[w]
    BY <1>3, <1>5 DEF SameBut
  <1> HIDE DEF f
  <1>20. FramedParts(L, v, a, b, W, la, lb, g)
    BY <1>5, <1>6, <1>7, <1>8 DEF FramedParts
  <1> QED BY <1>20, FramedBy

\* The copy of a channel, which reads and writes the local memory.
LEMMA ConcatFrame ==
  ASSUME NEW L, NEW v, VproOK(L, v), v.op = "concatenate", NEW W, W \cap VproReads(L, v) = {},
         NEW a, NEW b, SameBut(L, a, b, W)
  PROVE  Framed(L, v, a, b, W)
  <1> DEFINE n == L.seg.iw * v.yend + v.xend + 1
             f(s) == [w \in DOMAIN s.lm |-> IF w \in VproWrites(L, v)
                        THEN <<"shift", v.shift, s.lm[w - v.offset + v.buffer]>> ELSE s.lm[w]]
  <1>1. \A s : RunVpro(L, v, s) = [s EXCEPT !.lm = f(s)]
    BY DEF RunVpro
  <1>2. IsUnit(L, a) /\ IsUnit(L, b) /\ a.rf = b.rf /\ DOMAIN a.lm = LmWords(L) /\ DOMAIN b.lm = LmWords(L)
    BY DEF SameBut, IsUnit
  <1>3. VproWrites(L, v) = Span(v.offset, n) /\ VproReads(L, v) = Span(v.buffer, n)
    BY DEF VproWrites, VproReads
  <1>12. n \in Int
    <2>1. L.seg.iw \in Nat /\ v.yend \in Nat /\ v.xend \in Nat
      BY DEF VproOK
    <2>2. L.seg.iw * v.yend \in Nat
      BY <2>1
    <2> QED BY <2>1, <2>2
  <1> HIDE DEF n
  <1>4. ASSUME NEW w \in VproWrites(L, v)
        PROVE  a.lm[w - v.offset + v.buffer] = b.lm[w - v.offset + v.buffer]
    <2>1. v.offset \in Nat /\ v.buffer \in Nat
      BY DEF VproOK
    <2>2. PICK o \in Nat, c \in Nat : o = v.offset /\ c = v.buffer
      BY <2>1
    <2>3. w \in o .. o + n - 1
      BY <1>3, <2>2 DEF Span
    <2>4. w - o + c \in c .. c + n - 1
      BY <1>12, <2>3
    <2>5. w - v.offset + v.buffer \in VproReads(L, v)
      BY <1>3, <2>2, <2>4 DEF Span
    <2> QED BY <2>5 DEF SameBut, VproOK
  <1>5. PICK g, la, lb : g = a.rf /\ la = f(a) /\ lb = f(b)
    OBVIOUS
  <1>6. /\ la = [w \in LmWords(L) |-> la[w]] /\ lb = [w \in LmWords(L) |-> lb[w]]
        /\ \A w \in LmWords(L) : la[w] = IF w \in VproWrites(L, v)
                        THEN <<"shift", v.shift, a.lm[w - v.offset + v.buffer]>> ELSE a.lm[w]
        /\ \A w \in LmWords(L) : lb[w] = IF w \in VproWrites(L, v)
                        THEN <<"shift", v.shift, b.lm[w - v.offset + v.buffer]>> ELSE b.lm[w]
    BY <1>2, <1>5
  <1>7. RunVpro(L, v, a) = [lm |-> la, rf |-> g] /\ RunVpro(L, v, b) = [lm |-> lb, rf |-> g]
    <2> HIDE DEF f
    <2> QED BY <1>1, <1>2, <1>5, ExceptLm
  <1>8. g = [lane \in 0 .. L.hw.lanes - 1 |-> g[lane]] /\ \A lane \in DOMAIN g : DOMAIN g[lane] \subseteq Nat
    BY <1>2, <1>5 DEF IsUnit
  <1>9. /\ \A w \in LmWords(L) \ W : la[w] = lb[w]
        /\ \A w \in LmWords(L) \ VproWrites(L, v) : la[w] = a.lm[w] /\ lb[w] = b.lm[w]
    BY <1>4, <1>6 DEF SameBut
  <1> HIDE DEF f
  <1>20. FramedParts(L, v, a, b, W, la, lb, g)
    BY <1>6, <1>7, <1>8, <1>9 DEF FramedParts
  <1> QED BY <1>20, FramedBy

LEMMA InterleavedSquare ==
  ASSUME NEW w \in SquareWords PROVE Interleaved(w) \in SquareWords
  BY DEF SquareWords, Interleaved

\* Depth to space interleaves the words of a square.
LEMMA SquareFrame ==
  ASSUME NEW L, NEW v, VproOK(L, v), v.op = "depth_to_space", NEW W, W \cap VproReads(L, v) = {},
         NEW a, NEW b, SameBut(L, a, b, W)
  PROVE  Framed(L, v, a, b, W)
  <1> DEFINE f(s) == [w \in DOMAIN s.lm |-> s.lm[IF w \in SquareWords THEN Interleaved(w) ELSE w]]
             regs(lm, rf) == [r \in DOMAIN rf |-> IF r \in SquareWords THEN lm[Interleaved(r)] ELSE rf[r]]
             h(s) == [s.rf EXCEPT ![0] = regs(s.lm, s.rf[0])]
  <1>1. \A s : RunVpro(L, v, s) = [lm |-> f(s), rf |-> h(s)]
    BY DEF RunVpro, RunSquare
  <1>2. IsUnit(L, a) /\ IsUnit(L, b) /\ a.rf = b.rf /\ DOMAIN a.lm = LmWords(L) /\ DOMAIN b.lm = LmWords(L)
    BY DEF SameBut, IsUnit
  <1>3. VproWrites(L, v) = SquareWords /\ VproReads(L, v) = SquareWords
    BY DEF VproWrites, VproReads
  <1>4. ASSUME NEW w \in SquareWords PROVE a.lm[Interleaved(w)] = b.lm[Interleaved(w)]
    BY <1>3, InterleavedSquare DEF SameBut, VproOK
  <1>5. regs(a.lm, a.rf[0]) = regs(b.lm, b.rf[0])
    BY <1>2, <1>4
  <1> HIDE DEF regs
  <1>6. h(a) = h(b)
    BY <1>2, <1>5
  <1>7. PICK la, lb, g : la = f(a) /\ lb = f(b) /\ g = h(a)
    OBVIOUS
  <1>8. /\ la = [w \in LmWords(L) |-> la[w]] /\ lb = [w \in LmWords(L) |-> lb[w]]
        /\ \A w \in LmWords(L) : la[w] = a.lm[IF w \in SquareWords THEN Interleaved(w) ELSE w]
        /\ \A w \in LmWords(L) : lb[w] = b.lm[IF w \in SquareWords THEN Interleaved(w) ELSE w]
    BY <1>2, <1>7
  <1>9. RunVpro(L, v, a) = [lm |-> la, rf |-> g] /\ RunVpro(L, v, b) = [lm |-> lb, rf |-> g]
    <2> HIDE DEF f, h
    <2> QED BY <1>1, <1>6, <1>7
  <1>10. g = [lane \in 0 .. L.hw.lanes - 1 |-> g[lane]] /\ \A lane \in DOMAIN g : DOMAIN g[lane] \subseteq Nat
    <2>1. PICK d : d = regs(a.lm, a.rf[0])
      OBVIOUS
    <2>2. DOMAIN d = DOMAIN a.rf[0]
      BY <2>1 DEF regs
    <2>3. g = [a.rf EXCEPT ![0] = d]
      BY <1>7, <2>1
    <2>4. DOMAIN a.rf = 0 .. L.hw.lanes - 1 /\ \A lane \in DOMAIN a.rf : DOMAIN a.rf[lane] \subseteq Nat
      BY <1>2 DEF IsUnit
    <2>5. DOMAIN g = DOMAIN a.rf /\ \A lane \in DOMAIN a.rf : g[lane] = IF lane = 0 THEN d ELSE a.rf[lane]
      BY <2>3
    <2>6. g = [lane \in DOMAIN a.rf |-> g[lane]]
      BY <2>3
    <2> QED BY <2>2, <2>4, <2>5, <2>6
  <1>11. /\ \A w \in LmWords(L) \ W : la[w] = lb[w]
         /\ \A w \in LmWords(L) \ VproWrites(L, v) : la[w] = a.lm[w] /\ lb[w] = b.lm[w]
    BY <1>3, <1>4, <1>8 DEF SameBut
  <1> HIDE DEF f, h
  <1>20. FramedParts(L, v, a, b, W, la, lb, g)
    BY <1>8, <1>9, <1>10, <1>11 DEF FramedParts
  <1> QED BY <1>20, FramedBy

\* A VPRO command computes the same in two units that differ only in words
\* it does not read, and leaves alone what it does not write.
LEMMA VproFrame ==
  ASSUME NEW L, NEW v, VproOK(L, v), NEW W, W \cap VproReads(L, v) = {},
         NEW a, NEW b, SameBut(L, a, b, W)
  PROVE  Framed(L, v, a, b, W)
  <1>1. v.op \in RegisterOps \cup {"shift_store", "concatenate", "depth_to_space"}
    <2>1. DOMAIN OpAsDirection =
            {"conv_start", "conv_add", "maxpool2x2_fused", "activation_fused", "shift_store",
             "add", "mul", "concatenate", "depth_to_space", "max_pooling"}
      BY DEF OpAsDirection
    <2> QED BY <2>1 DEF VproOK, RegisterOps
  <1>2. CASE v.op \in RegisterOps
    BY <1>2, RegisterFrame
  <1>3. CASE v.op = "shift_store"
    BY <1>3, StoreFrame
  <1>4. CASE v.op = "concatenate"
    BY <1>4, ConcatFrame
  <1>5. CASE v.op = "depth_to_space"
    BY <1>5, SquareFrame
  <1> QED BY <1>1, <1>2, <1>3, <1>4, <1>5

\* A load and a VPRO command that do not conflict commute.
LEMMA LoadCommutes ==
  ASSUME NEW L, NEW d, NEW v, VproOK(L, v), d.dir \in Loads, ~Conflict(L, d, v), NEW s, IsUnit(L, s)
  PROVE  RunVpro(L, v, LoadUnit(L, d, s)) = LoadUnit(L, d, RunVpro(L, v, s))
  <1> DEFINE W == WordsOf(d)
             p == CommandPadding(L, d)
  <1>1. W \cap VproReads(L, v) = {} /\ W \cap VproWrites(L, v) = {}
    BY DEF Conflict
  <1>2. PICK t : t = LoadUnit(L, d, s)
    OBVIOUS
  <1>3. /\ IsUnit(L, t) /\ t.rf = s.rf
        /\ \A w \in LmWords(L) : t.lm[w] = IF w \in W THEN Loaded(d, p, w - d.lm) ELSE s.lm[w]
    BY <1>2, LoadFrame
  <1>4. SameBut(L, s, t, W)
    BY <1>3 DEF SameBut
  <1>5. Framed(L, v, s, t, W)
    BY <1>1, <1>4, VproFrame
  <1>6. PICK x, y : x = RunVpro(L, v, s) /\ y = RunVpro(L, v, t)
    OBVIOUS
  <1>7. /\ IsUnit(L, x) /\ IsUnit(L, y) /\ x.rf = y.rf
        /\ \A w \in LmWords(L) \ W : x.lm[w] = y.lm[w]
        /\ \A w \in LmWords(L) \ VproWrites(L, v) : y.lm[w] = t.lm[w]
    BY <1>5, <1>6 DEF Framed, SameBut
  <1>8. PICK z : z = LoadUnit(L, d, x)
    OBVIOUS
  <1>9. /\ IsUnit(L, z) /\ z.rf = x.rf
        /\ \A w \in LmWords(L) : z.lm[w] = IF w \in W THEN Loaded(d, p, w - d.lm) ELSE x.lm[w]
    BY <1>7, <1>8, LoadFrame
  <1> HIDE DEF W, p
  <1>10. \A w \in LmWords(L) : y.lm[w] = z.lm[w]
    BY <1>1, <1>3, <1>7, <1>9
  <1>11. y.lm = z.lm
    BY <1>7, <1>9, <1>10 DEF IsUnit
  <1>12. y = z
    BY <1>7, <1>9, <1>11 DEF IsUnit
  <1> QED BY <1>2, <1>6, <1>8, <1>12

-----------------------------------------------------------------------------
(* The states that the definitions of the execution in order denote.       *)

\* A unit behind a DMA command.
Transferred(L, u, cmd, s) == IF cmd.dir \in Loads /\ u \in ServedBy(L, cmd) THEN LoadUnit(L, cmd, s) ELSE s

\* It stays a unit.
LEMMA TransferredUnit ==
  ASSUME NEW L, NEW u, NEW cmd, NEW s, IsUnit(L, s)
  PROVE  IsUnit(L, Transferred(L, u, cmd, s))
  BY LoadFrame DEF Transferred

\* UnitStates has a value at each command: that behind it of the one before.
LEMMA UnitStatesAre ==
  ASSUME NEW L, NEW cmds, Len(cmds) \in Nat, NEW u, NEW unit
  PROVE  /\ UnitStates(L, cmds, u, unit)[0] = unit
         /\ \A k \in 1 .. Len(cmds) :
              UnitStates(L, cmds, u, unit)[k] = Transferred(L, u, cmds[k], UnitStates(L, cmds, u, unit)[k - 1])
  <1> DEFINE N == Len(cmds)
             Step(k, s) == Transferred(L, u, cmds[k], s)
             Body(f) == [k \in 0 .. N |-> IF k = 0 THEN unit ELSE Step(k, f[k - 1])]
             Good(h, n) == h[0] = unit /\ \A i \in 1 .. n : h[i] = Step(i, h[i - 1])
             T == {n \in Nat : \E h : Good(h, n)}
  <1>1. UnitStates(L, cmds, u, unit) = CHOOSE f : f = Body(f)
    <2>1. \A f : Body(f) = [k \in 0 .. N |->
                     IF k = 0 THEN unit
                     ELSE IF cmds[k].dir \in Loads /\ u \in ServedBy(L, cmds[k])
                          THEN LoadUnit(L, cmds[k], f[k - 1])
                          ELSE f[k - 1]]
      BY DEF Transferred
    <2> HIDE DEF Body
    <2> QED BY <2>1, Zenon DEF UnitStates
  <1> HIDE DEF Step
  <1>2. 0 \in T
    <2>1. Good([i \in 0 .. 0 |-> unit], 0)
      OBVIOUS
    <2> QED BY <2>1
  <1>3. ASSUME NEW n \in Nat, n \in T PROVE n + 1 \in T
    <2>1. PICK h : Good(h, n)
      BY <1>3
    <2> DEFINE h1 == [i \in 0 .. n + 1 |-> IF i = n + 1 THEN Step(n + 1, h[n]) ELSE h[i]]
    <2>2. \A i \in 0 .. n : h1[i] = h[i]
      OBVIOUS
    <2>3. h1[n + 1] = Step(n + 1, h[n])
      OBVIOUS
    <2> HIDE DEF h1
    <2>4. ASSUME NEW i \in 1 .. n + 1 PROVE h1[i] = Step(i, h1[i - 1])
      <3>1. CASE i = n + 1
        <4>1. h1[i - 1] = h[n]
          BY <2>2, <3>1
        <4> QED BY <4>1, <2>3, <3>1
      <3>2. CASE i \in 1 .. n
        <4>1. h1[i - 1] = h[i - 1] /\ h1[i] = h[i]
          BY <2>2, <3>2
        <4> QED BY <4>1, <2>1, <3>2
      <3> QED BY <3>1, <3>2
    <2>5. Good(h1, n + 1)
      BY <2>1, <2>2, <2>4
    <2> QED BY <2>5
  <1> HIDE DEF T
  <1>4. N \in T
    BY <1>2, <1>3, AllNumbers
  <1>5. PICK h : Good(h, N)
    BY <1>4 DEF T
  <1> DEFINE f == [i \in 0 .. N |-> h[i]]
  <1>6. f = Body(f)
    <2>1. ASSUME NEW i \in 0 .. N PROVE f[i] = IF i = 0 THEN unit ELSE Step(i, f[i - 1])
      <3>1. CASE i = 0
        BY <3>1, <1>5
      <3>2. CASE i # 0
        <4>1. i \in 1 .. N /\ i - 1 \in 0 .. N /\ f[i - 1] = h[i - 1] /\ f[i] = h[i]
          BY <3>2
        <4>2. h[i] = Step(i, h[i - 1])
          BY <4>1, <1>5
        <4> HIDE DEF f
        <4> QED BY <3>2, <4>1, <4>2
      <3> QED BY <3>1, <3>2
    <2> QED BY <2>1
  <1> DEFINE g == UnitStates(L, cmds, u, unit)
  <1> HIDE DEF f
  <1>7. g = Body(g)
    <2> HIDE DEF Body
    <2> QED BY <1>1, <1>6, Zenon
  <1> HIDE DEF g
  <1>8. g[0] = unit
    BY <1>7
  <1>9. \A k \in 1 .. N : g[k] = Step(k, g[k - 1])
    BY <1>7
  <1> QED BY <1>8, <1>9 DEF g, Step

\* The same for the segments of the list.
LEMMA InOrderIs ==
  ASSUME NEW L, NEW l, Len(l) \in Nat
  PROVE  /\ InOrder(L, l)[0] = [at |-> 1, units |-> [u \in Units(L) |-> FreshUnit(L)]]
         /\ \A n \in 1 .. Len(l) : InOrder(L, l)[n] = InOrderStep(L, l, InOrder(L, l)[n - 1])
  <1> DEFINE N == Len(l)
             first == [at |-> 1, units |-> [u \in Units(L) |-> FreshUnit(L)]]
             Body(f) == [n \in 0 .. N |-> IF n = 0 THEN first ELSE InOrderStep(L, l, f[n - 1])]
             Good(h, n) == h[0] = first /\ \A i \in 1 .. n : h[i] = InOrderStep(L, l, h[i - 1])
             T == {n \in Nat : \E h : Good(h, n)}
  <1>1. InOrder(L, l) = CHOOSE f : f = Body(f)
    BY Zenon DEF InOrder
  <1> HIDE DEF first
  <1>2. 0 \in T
    <2>1. Good([i \in 0 .. 0 |-> first], 0)
      OBVIOUS
    <2> QED BY <2>1
  <1>3. ASSUME NEW n \in Nat, n \in T PROVE n + 1 \in T
    <2>1. PICK h : Good(h, n)
      BY <1>3
    <2> DEFINE h1 == [i \in 0 .. n + 1 |-> IF i = n + 1 THEN InOrderStep(L, l, h[n]) ELSE h[i]]
    <2>2. \A i \in 0 .. n : h1[i] = h[i]
      OBVIOUS
    <2>3. h1[n + 1] = InOrderStep(L, l, h[n])
      OBVIOUS
    <2> HIDE DEF h1
    <2>4. ASSUME NEW i \in 1 .. n + 1 PROVE h1[i] = InOrderStep(L, l, h1[i - 1])
      <3>1. CASE i = n + 1
        <4>1. h1[i - 1] = h[n]
          BY <2>2, <3>1
        <4> QED BY <4>1, <2>3, <3>1
      <3>2. CASE i \in 1 .. n
        <4>1. h1[i - 1] = h[i - 1] /\ h1[i] = h[i]
          BY <2>2, <3>2
        <4> QED BY <4>1, <2>1, <3>2
      <3> QED BY <3>1, <3>2
    <2>5. Good(h1, n + 1)
      BY <2>1, <2>2, <2>4
    <2> QED BY <2>5
  <1> HIDE DEF T
  <1>4. N \in T
    BY <1>2, <1>3, AllNumbers
  <1>5. PICK h : Good(h, N)
    BY <1>4 DEF T
  <1> DEFINE f == [i \in 0 .. N |-> h[i]]
  <1>6. f = Body(f)
    <2>1. ASSUME NEW i \in 0 .. N PROVE f[i] = IF i = 0 THEN first ELSE InOrderStep(L, l, f[i - 1])
      <3>1. CASE i = 0
        BY <3>1, <1>5
      <3>2. CASE i # 0
        <4>1. i \in 1 .. N /\ i - 1 \in 0 .. N /\ f[i - 1] = h[i - 1] /\ f[i] = h[i]
          BY <3>2
        <4>2. h[i] = InOrderStep(L, l, h[i - 1])
          BY <4>1, <1>5
        <4> HIDE DEF f
        <4> QED BY <3>2, <4>1, <4>2
      <3> QED BY <3>1, <3>2
    <2> QED BY <2>1
  <1> DEFINE g == InOrder(L, l)
  <1> HIDE DEF f
  <1>7. g = Body(g)
    <2> HIDE DEF Body
    <2> QED BY <1>1, <1>6, Zenon
  <1> HIDE DEF g
  <1>8. g[0] = first
    BY <1>7
  <1>9. \A k \in 1 .. N : g[k] = InOrderStep(L, l, g[k - 1])
    BY <1>7
  <1> QED BY <1>8, <1>9 DEF g, first

\* Behind the last segment nothing happens any more.
LEMMA InOrderEnds ==
  ASSUME NEW L, NEW l, Len(l) \in Nat, NEW n \in 0 .. Len(l), InOrder(L, l)[n].at > Len(l),
         NEW m \in n .. Len(l)
  PROVE  InOrder(L, l)[m].at > Len(l)
  <1> DEFINE S == InOrder(L, l)
             T == {i \in Nat : n + i <= Len(l) => S[n + i].at > Len(l)}
  <1>1. \A i \in 1 .. Len(l) : S[i] = InOrderStep(L, l, S[i - 1])
    <2>1. /\ InOrder(L, l)[0] = [at |-> 1, units |-> [u \in Units(L) |-> FreshUnit(L)]]
          /\ \A k \in 1 .. Len(l) : InOrder(L, l)[k] = InOrderStep(L, l, InOrder(L, l)[k - 1])
      BY InOrderIs
    <2> QED BY <2>1
  <1> HIDE DEF S
  <1>2. 0 \in T
    <2>1. n + 0 = n
      OBVIOUS
    <2>2. S[n].at > Len(l)
      BY DEF S
    <2> QED BY <2>1, <2>2
  <1>3. ASSUME NEW i \in Nat, i \in T PROVE i + 1 \in T
    <2>1. CASE n + (i + 1) <= Len(l)
      <3>1. n + i <= Len(l) /\ n + (i + 1) \in 1 .. Len(l) /\ (n + (i + 1)) - 1 = n + i
        BY <2>1
      <3>2. S[n + i].at > Len(l)
        BY <1>3, <3>1
      <3>3. S[n + (i + 1)] = InOrderStep(L, l, S[n + i])
        BY <1>1, <3>1
      <3>4. InOrderStep(L, l, S[n + i]) = S[n + i]
        BY <3>2 DEF InOrderStep
      <3> QED BY <3>2, <3>3, <3>4
    <2>2. CASE ~(n + (i + 1) <= Len(l))
      BY <2>2
    <2> QED BY <2>1, <2>2
  <1> HIDE DEF T
  <1>4. m - n \in Nat /\ n + (m - n) = m
    OBVIOUS
  <1>5. m - n \in T
    BY <1>2, <1>3, <1>4, AllNumbers
  <1> QED BY <1>4, <1>5 DEF T, S

-----------------------------------------------------------------------------
(* A unit and the commands that wait for it.                               *)

\* What a store writes of the output is right.
StoreRight(L, u, cmd, s) ==
  cmd.dir \notin Loads /\ u \in ServedBy(L, cmd) => Agree(Stored(cmd, s), Output(L))

\* The states of a unit while its DMA, and while the unit executes the commands q.
DmaTrace(L, u, q, t) ==
  /\ IsUnit(L, t[0])
  /\ \A k \in 1 .. Len(q) :
       /\ IsUnit(L, t[k])
       /\ t[k] = Transferred(L, u, q[k], t[k - 1])
       /\ StoreRight(L, u, q[k], t[k - 1])

VproTrace(L, q, t) ==
  /\ IsUnit(L, t[0])
  /\ \A k \in 1 .. Len(q) :
       /\ IsUnit(L, t[k])
       /\ t[k] = RunVpro(L, q[k], t[k - 1])

\* A unit whose state is s gets to last when it executes the VPRO commands
\* vs, then the DMA commands ds and then those of the block bs.
Flows(L, u, s, vs, ds, bs, last) ==
  \E h, g, b :
    /\ h[0] = s /\ VproTrace(L, vs, h)
    /\ g[0] = h[Len(vs)] /\ DmaTrace(L, u, ds, g)
    /\ b[0] = g[Len(ds)] /\ DmaTrace(L, u, bs, b)
    /\ b[Len(bs)] = last

\* Whatever is executed, it stays a unit.
LEMMA TraceUnits ==
  ASSUME NEW L, NEW u, NEW q, Len(q) \in Nat, NEW t
  PROVE  /\ DmaTrace(L, u, q, t) => \A k \in 0 .. Len(q) : IsUnit(L, t[k])
         /\ VproTrace(L, q, t) => \A k \in 0 .. Len(q) : IsUnit(L, t[k])
  <1>1. \A k \in 0 .. Len(q) : k = 0 \/ k \in 1 .. Len(q)
    OBVIOUS
  <1> QED BY <1>1 DEF DmaTrace, VproTrace

\* A VPRO command keeps what a unit holds in the words of a DMA command.
LEMMA StoredKept ==
  ASSUME NEW L, NEW d, DmaOK(L, d), NEW v, VproOK(L, v), ~Conflict(L, d, v), NEW s, IsUnit(L, s)
  PROVE  /\ IsUnit(L, RunVpro(L, v, s))
         /\ SameWords(RunVpro(L, v, s).lm, s.lm, WordsOf(d))
         /\ Stored(d, RunVpro(L, v, s)) = Stored(d, s)
  <1>1. SameBut(L, s, s, {})
    BY DEF SameBut
  <1>2. Framed(L, v, s, s, {})
    BY <1>1, VproFrame
  <1>3. IsUnit(L, RunVpro(L, v, s))
    BY <1>2 DEF Framed, SameBut
  <1>4. WordsOf(d) \cap VproWrites(L, v) = {} /\ WordsOf(d) \subseteq LmWords(L)
    BY DEF Conflict, DmaOK
  <1>5. SameWords(RunVpro(L, v, s).lm, s.lm, WordsOf(d))
    BY <1>2, <1>4 DEF Framed, SameWords
  <1> QED BY <1>3, <1>5, StoredFrame

\* A DMA and a VPRO command that do not conflict: the VPRO command can come
\* before or after it.
LEMMA TransferCommutes ==
  ASSUME NEW L, NEW u, NEW d, DmaOK(L, d), NEW v, VproOK(L, v), ~Conflict(L, d, v), NEW s, IsUnit(L, s)
  PROVE  /\ RunVpro(L, v, Transferred(L, u, d, s)) = Transferred(L, u, d, RunVpro(L, v, s))
         /\ StoreRight(L, u, d, s) => StoreRight(L, u, d, RunVpro(L, v, s))
  <1>1. d.dir \in Loads => RunVpro(L, v, LoadUnit(L, d, s)) = LoadUnit(L, d, RunVpro(L, v, s))
    BY LoadCommutes
  <1>2. RunVpro(L, v, Transferred(L, u, d, s)) = Transferred(L, u, d, RunVpro(L, v, s))
    BY <1>1 DEF Transferred
  <1>3. Stored(d, RunVpro(L, v, s)) = Stored(d, s)
    BY StoredKept
  <1> QED BY <1>2, <1>3 DEF StoreRight

\* The first VPRO command is executed.
LEMMA FlowsRunVpro ==
  ASSUME NEW L, NEW u, NEW s, NEW V, NEW vs \in Seq(V), vs # <<>>, NEW ds, NEW bs, NEW last,
         Flows(L, u, s, vs, ds, bs, last)
  PROVE  Flows(L, u, RunVpro(L, Head(vs), s), Tail(vs), ds, bs, last)
  <1>1. PICK h, g, b :
          /\ h[0] = s /\ VproTrace(L, vs, h)
          /\ g[0] = h[Len(vs)] /\ DmaTrace(L, u, ds, g)
          /\ b[0] = g[Len(ds)] /\ DmaTrace(L, u, bs, b)
          /\ b[Len(bs)] = last
    BY DEF Flows
  <1>2. /\ Len(vs) \in Nat \ {0} /\ Len(Tail(vs)) = Len(vs) - 1 /\ Head(vs) = vs[1]
        /\ \A k \in 1 .. Len(vs) - 1 : Tail(vs)[k] = vs[k + 1]
    OBVIOUS
  <1> DEFINE h1 == [k \in 0 .. Len(vs) - 1 |-> h[k + 1]]
  <1>3. h1[0] = h[1] /\ h1[Len(vs) - 1] = h[Len(vs)]
    BY <1>2
  <1>4. \A k \in 1 .. Len(vs) - 1 : h1[k] = h[k + 1] /\ h1[k - 1] = h[(k + 1) - 1] /\ k + 1 \in 1 .. Len(vs)
    BY <1>2
  <1> HIDE DEF h1
  <1>5. h1[0] = RunVpro(L, Head(vs), s)
    <2>1. 1 \in 1 .. Len(vs) /\ 1 - 1 = 0
      BY <1>2
    <2>2. h[1] = RunVpro(L, vs[1], h[1 - 1])
      BY <1>1, <2>1 DEF VproTrace
    <2> QED BY <1>1, <1>2, <1>3, <2>1, <2>2
  <1>6. VproTrace(L, Tail(vs), h1)
    <2>1. IsUnit(L, h1[0])
      <3>1. 1 \in 1 .. Len(vs)
        BY <1>2
      <3> QED BY <1>1, <1>3, <3>1 DEF VproTrace
    <2>2. ASSUME NEW k \in 1 .. Len(vs) - 1
          PROVE  IsUnit(L, h1[k]) /\ h1[k] = RunVpro(L, Tail(vs)[k], h1[k - 1])
      <3>1. k + 1 \in 1 .. Len(vs)
        BY <1>4
      <3>2. IsUnit(L, h[k + 1]) /\ h[k + 1] = RunVpro(L, vs[k + 1], h[(k + 1) - 1])
        BY <1>1, <3>1 DEF VproTrace
      <3> QED BY <1>2, <1>4, <3>2
    <2> QED BY <1>2, <2>1, <2>2 DEF VproTrace
  <1>7. g[0] = h1[Len(Tail(vs))]
    BY <1>1, <1>2, <1>3
  <1> QED BY <1>1, <1>5, <1>6, <1>7 DEF Flows

\* The first DMA command is executed, before the VPRO commands that wait.
LEMMA FlowsRunDma ==
  ASSUME NEW L, NEW u, NEW s, NEW V, NEW vs \in Seq(V), \A v \in V : VproOK(L, v),
         NEW D, NEW ds \in Seq(D), ds # <<>>, \A d \in D : DmaOK(L, d),
         \A v \in Range(vs) : ~Conflict(L, Head(ds), v),
         NEW bs, NEW last, Flows(L, u, s, vs, ds, bs, last)
  PROVE  /\ Flows(L, u, Transferred(L, u, Head(ds), s), vs, Tail(ds), bs, last)
         /\ StoreRight(L, u, Head(ds), s)
  <1>1. PICK h, g, b :
          /\ h[0] = s /\ VproTrace(L, vs, h)
          /\ g[0] = h[Len(vs)] /\ DmaTrace(L, u, ds, g)
          /\ b[0] = g[Len(ds)] /\ DmaTrace(L, u, bs, b)
          /\ b[Len(bs)] = last
    BY DEF Flows
  <1>2. /\ Len(ds) \in Nat \ {0} /\ Len(Tail(ds)) = Len(ds) - 1 /\ Head(ds) = ds[1]
        /\ \A k \in 1 .. Len(ds) - 1 : Tail(ds)[k] = ds[k + 1]
    OBVIOUS
  <1>3. Len(vs) \in Nat /\ \A k \in 1 .. Len(vs) : vs[k] \in V /\ vs[k] \in Range(vs)
    <2>1. DOMAIN vs = 1 .. Len(vs)
      OBVIOUS
    <2> QED BY <2>1 DEF Range
  <1>4. PICK d \in D : d = Head(ds) /\ d = ds[1]
    BY <1>2
  <1> DEFINE X(x) == Transferred(L, u, d, x)
             h1 == [k \in 0 .. Len(vs) |-> X(h[k])]
             g1 == [k \in 0 .. Len(ds) - 1 |-> g[k + 1]]
  <1>5. \A k \in 0 .. Len(vs) : IsUnit(L, h[k])
    BY <1>1, <1>3, TraceUnits
  <1>6. \A k \in 1 .. Len(vs) : VproOK(L, vs[k]) /\ ~Conflict(L, d, vs[k])
    BY <1>3, <1>4
  <1>7. \A k \in 0 .. Len(vs) : h1[k] = X(h[k])
    OBVIOUS
  <1>8. g1[0] = g[1] /\ g1[Len(ds) - 1] = g[Len(ds)]
    BY <1>2
  <1>9. \A k \in 1 .. Len(ds) - 1 : g1[k] = g[k + 1] /\ g1[k - 1] = g[(k + 1) - 1] /\ k + 1 \in 1 .. Len(ds)
    BY <1>2
  <1> HIDE DEF h1, g1
  <1>10. VproTrace(L, vs, h1)
    <2>1. ASSUME NEW k \in 0 .. Len(vs) PROVE IsUnit(L, h1[k])
      BY <1>5, <1>7, TransferredUnit
    <2>2. ASSUME NEW k \in 1 .. Len(vs) PROVE h1[k] = RunVpro(L, vs[k], h1[k - 1])
      <3>1. k \in 0 .. Len(vs) /\ k - 1 \in 0 .. Len(vs)
        BY <1>3
      <3>2. h[k] = RunVpro(L, vs[k], h[k - 1])
        BY <1>1 DEF VproTrace
      <3>3. IsUnit(L, h[k - 1])
        BY <3>1, <1>5
      <3>4. RunVpro(L, vs[k], X(h[k - 1])) = X(RunVpro(L, vs[k], h[k - 1]))
        BY <3>3, <1>4, <1>6, TransferCommutes
      <3> QED BY <3>1, <3>2, <3>4, <1>7
    <2>3. 0 \in 0 .. Len(vs) /\ \A k \in 1 .. Len(vs) : k \in 0 .. Len(vs)
      BY <1>3
    <2> QED BY <2>1, <2>2, <2>3 DEF VproTrace
  <1>11. g[1] = X(g[0]) /\ StoreRight(L, u, d, g[0]) /\ IsUnit(L, g[1])
    <2>1. 1 \in 1 .. Len(ds) /\ 1 - 1 = 0
      BY <1>2
    <2>2. g[1] = Transferred(L, u, ds[1], g[1 - 1]) /\ StoreRight(L, u, ds[1], g[1 - 1]) /\ IsUnit(L, g[1])
      BY <1>1, <2>1 DEF DmaTrace
    <2> QED BY <2>1, <2>2, <1>4
  <1>12. g1[0] = h1[Len(vs)]
    <2>1. Len(vs) \in 0 .. Len(vs)
      BY <1>3
    <2> QED BY <2>1, <1>1, <1>7, <1>8, <1>11
  <1>13. DmaTrace(L, u, Tail(ds), g1)
    <2>1. IsUnit(L, g1[0])
      BY <1>8, <1>11
    <2>2. ASSUME NEW k \in 1 .. Len(ds) - 1
          PROVE  /\ IsUnit(L, g1[k])
                 /\ g1[k] = Transferred(L, u, Tail(ds)[k], g1[k - 1])
                 /\ StoreRight(L, u, Tail(ds)[k], g1[k - 1])
      <3>1. k + 1 \in 1 .. Len(ds)
        BY <1>9
      <3>2. /\ IsUnit(L, g[k + 1])
            /\ g[k + 1] = Transferred(L, u, ds[k + 1], g[(k + 1) - 1])
            /\ StoreRight(L, u, ds[k + 1], g[(k + 1) - 1])
        BY <1>1, <3>1 DEF DmaTrace
      <3> QED BY <1>2, <1>9, <3>2
    <2> QED BY <1>2, <2>1, <2>2 DEF DmaTrace
  <1>14. h1[0] = X(s) /\ b[0] = g1[Len(Tail(ds))]
    <2>1. 0 \in 0 .. Len(vs)
      BY <1>3
    <2> QED BY <2>1, <1>1, <1>2, <1>7, <1>8
  <1>15. Flows(L, u, X(s), vs, Tail(ds), bs, last)
    <2> HIDE DEF X
    <2> QED BY <1>1, <1>10, <1>12, <1>13, <1>14 DEF Flows
  \* What the store reads is not written by the VPRO commands before it.
  <1>16. StoreRight(L, u, d, s)
    <2> DEFINE T == {k \in Nat : k <= Len(vs) => Stored(d, h[k]) = Stored(d, s)}
    <2>1. 0 \in T
      BY <1>1
    <2>2. ASSUME NEW k \in Nat, k \in T PROVE k + 1 \in T
      <3>1. CASE k + 1 <= Len(vs)
        <4>1. k + 1 \in 1 .. Len(vs) /\ k \in 0 .. Len(vs) /\ (k + 1) - 1 = k
          BY <1>3, <3>1
        <4>2. h[k + 1] = RunVpro(L, vs[k + 1], h[k])
          <5>1. h[k + 1] = RunVpro(L, vs[k + 1], h[(k + 1) - 1])
            BY <1>1, <4>1 DEF VproTrace
          <5> QED BY <4>1, <5>1
        <4>3. Stored(d, RunVpro(L, vs[k + 1], h[k])) = Stored(d, h[k])
          BY <4>1, <1>4, <1>5, <1>6, StoredKept
        <4>4. Stored(d, h[k]) = Stored(d, s)
          BY <2>2, <4>1
        <4> QED BY <4>2, <4>3, <4>4
      <3>2. CASE ~(k + 1 <= Len(vs))
        BY <3>2
      <3> QED BY <3>1, <3>2
    <2> HIDE DEF T
    <2>3. Len(vs) \in T
      BY <1>3, <2>1, <2>2, AllNumbers
    <2>4. Stored(d, g[0]) = Stored(d, s)
      BY <1>1, <1>3, <2>3 DEF T
    <2> QED BY <2>4, <1>11 DEF StoreRight
  <1> QED BY <1>4, <1>15, <1>16

\* The next command of the block goes to the DMA of the unit, or the unit is
\* not one of those that it serves.
LEMMA FlowsSend ==
  ASSUME NEW L, NEW u, NEW s, NEW vs, NEW D, NEW ds \in Seq(D),
         NEW bs \in Seq(D), bs # <<>>,
         NEW last, Flows(L, u, s, vs, ds, bs, last)
  PROVE  /\ Flows(L, u, s, vs, Append(ds, Head(bs)), Tail(bs), last)
         /\ u \notin ServedBy(L, Head(bs)) => Flows(L, u, s, vs, ds, Tail(bs), last)
  <1>1. PICK h, g, b :
          /\ h[0] = s /\ VproTrace(L, vs, h)
          /\ g[0] = h[Len(vs)] /\ DmaTrace(L, u, ds, g)
          /\ b[0] = g[Len(ds)] /\ DmaTrace(L, u, bs, b)
          /\ b[Len(bs)] = last
    BY DEF Flows
  <1>2. /\ Len(bs) \in Nat \ {0} /\ Len(Tail(bs)) = Len(bs) - 1 /\ Head(bs) = bs[1]
        /\ \A k \in 1 .. Len(bs) - 1 : Tail(bs)[k] = bs[k + 1]
        /\ Head(bs) \in D
    OBVIOUS
  <1>3. /\ Len(ds) \in Nat /\ Len(Append(ds, Head(bs))) = Len(ds) + 1
        /\ \A k \in 1 .. Len(ds) : Append(ds, Head(bs))[k] = ds[k]
        /\ Append(ds, Head(bs))[Len(ds) + 1] = Head(bs)
    BY <1>2
  <1> DEFINE b1 == [k \in 0 .. Len(bs) - 1 |-> b[k + 1]]
             g1 == [k \in 0 .. Len(ds) + 1 |-> IF k = Len(ds) + 1 THEN b[1] ELSE g[k]]
  <1>4. b1[0] = b[1] /\ b1[Len(bs) - 1] = b[Len(bs)]
    BY <1>2
  <1>5. \A k \in 1 .. Len(bs) - 1 : b1[k] = b[k + 1] /\ b1[k - 1] = b[(k + 1) - 1] /\ k + 1 \in 1 .. Len(bs)
    BY <1>2
  <1>6. (\A k \in 0 .. Len(ds) : g1[k] = g[k]) /\ g1[Len(ds) + 1] = b[1]
    BY <1>3
  <1> HIDE DEF b1, g1
  <1>7. b[1] = Transferred(L, u, Head(bs), b[0]) /\ StoreRight(L, u, Head(bs), b[0]) /\ IsUnit(L, b[1])
    <2>1. 1 \in 1 .. Len(bs) /\ 1 - 1 = 0
      BY <1>2
    <2>2. b[1] = Transferred(L, u, bs[1], b[1 - 1]) /\ StoreRight(L, u, bs[1], b[1 - 1]) /\ IsUnit(L, b[1])
      BY <1>1, <2>1 DEF DmaTrace
    <2> QED BY <1>2, <2>1, <2>2
  <1>8. DmaTrace(L, u, Tail(bs), b1)
    <2>1. IsUnit(L, b1[0])
      BY <1>4, <1>7
    <2>2. ASSUME NEW k \in 1 .. Len(bs) - 1
          PROVE  /\ IsUnit(L, b1[k])
                 /\ b1[k] = Transferred(L, u, Tail(bs)[k], b1[k - 1])
                 /\ StoreRight(L, u, Tail(bs)[k], b1[k - 1])
      <3>1. k + 1 \in 1 .. Len(bs)
        BY <1>5
      <3>2. /\ IsUnit(L, b[k + 1])
            /\ b[k + 1] = Transferred(L, u, bs[k + 1], b[(k + 1) - 1])
            /\ StoreRight(L, u, bs[k + 1], b[(k + 1) - 1])
        BY <1>1, <3>1 DEF DmaTrace
      <3> QED BY <1>2, <1>5, <3>2
    <2> QED BY <1>2, <2>1, <2>2 DEF DmaTrace
  <1>9. b1[Len(Tail(bs))] = last
    BY <1>1, <1>2, <1>4
  <1>10. Flows(L, u, s, vs, Append(ds, Head(bs)), Tail(bs), last)
    <2> DEFINE q == Append(ds, Head(bs))
    <2>1. \A k \in 1 .. Len(ds) : q[k] = ds[k] /\ g1[k] = g[k] /\ g1[k - 1] = g[k - 1]
      BY <1>3, <1>6
    <2>2. g1[0] = g[0] /\ g1[Len(ds)] = g[Len(ds)] /\ (Len(ds) + 1) - 1 = Len(ds)
      BY <1>3, <1>6
    <2>3. Len(q) = Len(ds) + 1 /\ q[Len(ds) + 1] = Head(bs)
      BY <1>3
    <2> HIDE DEF q
    <2>4. ASSUME NEW k \in 1 .. Len(q)
          PROVE  /\ IsUnit(L, g1[k])
                 /\ g1[k] = Transferred(L, u, q[k], g1[k - 1])
                 /\ StoreRight(L, u, q[k], g1[k - 1])
      <3>1. CASE k = Len(ds) + 1
        BY <3>1, <2>2, <2>3, <1>1, <1>6, <1>7
      <3>2. CASE k \in 1 .. Len(ds)
        <4>1. IsUnit(L, g[k]) /\ g[k] = Transferred(L, u, ds[k], g[k - 1]) /\ StoreRight(L, u, ds[k], g[k - 1])
          BY <1>1, <3>2 DEF DmaTrace
        <4> QED BY <4>1, <2>1, <3>2
      <3> QED BY <3>1, <3>2, <2>3, <1>3
    <2>5. DmaTrace(L, u, q, g1)
      <3>1. IsUnit(L, g1[0])
        BY <2>2, <1>1 DEF DmaTrace
      <3> QED BY <3>1, <2>4 DEF DmaTrace
    <2>6. g1[0] = h[Len(vs)] /\ b1[0] = g1[Len(q)]
      BY <1>1, <1>4, <1>6, <2>2, <2>3
    <2>7. Flows(L, u, s, vs, q, Tail(bs), last)
      BY <1>1, <1>8, <1>9, <2>5, <2>6 DEF Flows
    <2> QED BY <2>7 DEF q
  <1>11. ASSUME u \notin ServedBy(L, Head(bs)) PROVE Flows(L, u, s, vs, ds, Tail(bs), last)
    <2>1. b1[0] = g[Len(ds)]
      BY <1>1, <1>4, <1>7, <1>11 DEF Transferred
    <2> QED BY <1>1, <1>8, <1>9, <2>1 DEF Flows
  <1> QED BY <1>10, <1>11

\* A VPRO command is issued: it can run before the DMA commands that wait.
LEMMA FlowsIssue ==
  ASSUME NEW L, NEW u, NEW s, NEW V, NEW vs \in Seq(V), NEW v \in V, VproOK(L, v),
         NEW D, NEW ds \in Seq(D), NEW bs \in Seq(D), \A d \in D : DmaOK(L, d),
         \A d \in Range(ds) \cup Range(bs) : ~Conflict(L, d, v),
         NEW last, Flows(L, u, s, vs, ds, bs, last)
  PROVE  Flows(L, u, s, Append(vs, v), ds, bs, RunVpro(L, v, last))
  <1>1. PICK h, g, b :
          /\ h[0] = s /\ VproTrace(L, vs, h)
          /\ g[0] = h[Len(vs)] /\ DmaTrace(L, u, ds, g)
          /\ b[0] = g[Len(ds)] /\ DmaTrace(L, u, bs, b)
          /\ b[Len(bs)] = last
    BY DEF Flows
  <1> DEFINE q == Append(vs, v)
  <1>2. /\ Len(vs) \in Nat /\ Len(q) = Len(vs) + 1 /\ q[Len(vs) + 1] = v
        /\ \A k \in 1 .. Len(vs) : q[k] = vs[k]
    OBVIOUS
  <1>3. IsUnit(L, h[Len(vs)])
    <2>1. Len(vs) \in 0 .. Len(vs)
      BY <1>2
    <2> QED BY <1>1, <1>2, <2>1, TraceUnits
  <1>4. \A x : IsUnit(L, x) => IsUnit(L, RunVpro(L, v, x))
    <2> SUFFICES ASSUME NEW x, IsUnit(L, x) PROVE IsUnit(L, RunVpro(L, v, x))
      OBVIOUS
    <2>1. SameBut(L, x, x, {})
      BY DEF SameBut
    <2>2. Framed(L, v, x, x, {})
      BY <2>1, VproFrame
    <2> QED BY <2>2 DEF Framed, SameBut
  \* The states of the DMA, each behind the new command.
  <1>5. ASSUME NEW p \in Seq(D), \A d \in Range(p) : ~Conflict(L, d, v), NEW t, DmaTrace(L, u, p, t),
               NEW t1, \A k \in 0 .. Len(p) : t1[k] = RunVpro(L, v, t[k])
        PROVE  DmaTrace(L, u, p, t1)
    <2>1. Len(p) \in Nat /\ DOMAIN p = 1 .. Len(p) /\ \A k \in 1 .. Len(p) : p[k] \in D
      OBVIOUS
    <2>2. \A k \in 1 .. Len(p) : p[k] \in Range(p)
      BY <2>1 DEF Range
    <2>3. \A k \in 0 .. Len(p) : IsUnit(L, t[k])
      BY <1>5, <2>1, TraceUnits
    <2>4. \A k \in 0 .. Len(p) : IsUnit(L, t1[k])
      BY <1>4, <1>5, <2>3
    <2>5. ASSUME NEW k \in 1 .. Len(p)
          PROVE  t1[k] = Transferred(L, u, p[k], t1[k - 1]) /\ StoreRight(L, u, p[k], t1[k - 1])
      <3>1. k \in 0 .. Len(p) /\ k - 1 \in 0 .. Len(p)
        BY <2>1
      <3>2. t[k] = Transferred(L, u, p[k], t[k - 1]) /\ StoreRight(L, u, p[k], t[k - 1])
        BY <1>5 DEF DmaTrace
      <3>3. IsUnit(L, t[k - 1]) /\ DmaOK(L, p[k]) /\ ~Conflict(L, p[k], v)
        BY <3>1, <1>5, <2>1, <2>2, <2>3
      <3>4. /\ RunVpro(L, v, Transferred(L, u, p[k], t[k - 1])) = Transferred(L, u, p[k], RunVpro(L, v, t[k - 1]))
            /\ StoreRight(L, u, p[k], t[k - 1]) => StoreRight(L, u, p[k], RunVpro(L, v, t[k - 1]))
        BY <3>3, TransferCommutes
      <3>5. t1[k] = RunVpro(L, v, t[k]) /\ t1[k - 1] = RunVpro(L, v, t[k - 1])
        BY <3>1, <1>5
      <3> QED BY <3>2, <3>4, <3>5
    <2>6. 0 \in 0 .. Len(p) /\ \A k \in 1 .. Len(p) : k \in 0 .. Len(p)
      BY <2>1
    <2> QED BY <2>4, <2>5, <2>6 DEF DmaTrace
  <1> DEFINE h1 == [k \in 0 .. Len(vs) + 1 |-> IF k = Len(vs) + 1 THEN RunVpro(L, v, h[Len(vs)]) ELSE h[k]]
             g1 == [k \in 0 .. Len(ds) |-> RunVpro(L, v, g[k])]
             b1 == [k \in 0 .. Len(bs) |-> RunVpro(L, v, b[k])]
  <1>6. (\A k \in 0 .. Len(vs) : h1[k] = h[k]) /\ h1[Len(vs) + 1] = RunVpro(L, v, h[Len(vs)])
    BY <1>2
  <1>7. (\A k \in 0 .. Len(ds) : g1[k] = RunVpro(L, v, g[k])) /\ (\A k \in 0 .. Len(bs) : b1[k] = RunVpro(L, v, b[k]))
    OBVIOUS
  <1> HIDE DEF h1, g1, b1, q
  <1>8. DmaTrace(L, u, ds, g1) /\ DmaTrace(L, u, bs, b1)
    BY <1>1, <1>5, <1>7
  <1>9. VproTrace(L, q, h1)
    <2>1. ASSUME NEW k \in 1 .. Len(q)
          PROVE  IsUnit(L, h1[k]) /\ h1[k] = RunVpro(L, q[k], h1[k - 1])
      <3>1. CASE k = Len(vs) + 1
        <4>1. k - 1 = Len(vs) /\ h1[k - 1] = h[Len(vs)]
          BY <3>1, <1>2, <1>6
        <4> QED BY <4>1, <3>1, <1>2, <1>3, <1>4, <1>6
      <3>2. CASE k \in 1 .. Len(vs)
        <4>1. IsUnit(L, h[k]) /\ h[k] = RunVpro(L, vs[k], h[k - 1])
          BY <1>1, <3>2 DEF VproTrace
        <4>2. h1[k] = h[k] /\ h1[k - 1] = h[k - 1]
          BY <3>2, <1>2, <1>6
        <4> QED BY <4>1, <4>2, <3>2, <1>2
      <3> QED BY <3>1, <3>2, <1>2
    <2>2. h1[0] = h[0] /\ IsUnit(L, h[0])
      BY <1>1, <1>2, <1>6 DEF VproTrace
    <2> QED BY <2>1, <2>2 DEF VproTrace
  <1>10. /\ h1[0] = s /\ g1[0] = h1[Len(q)] /\ b1[0] = g1[Len(ds)] /\ b1[Len(bs)] = RunVpro(L, v, last)
    <2>1. Len(ds) \in Nat /\ Len(bs) \in Nat
      OBVIOUS
    <2>2. 0 \in 0 .. Len(vs) /\ 0 \in 0 .. Len(ds) /\ 0 \in 0 .. Len(bs)
          /\ Len(ds) \in 0 .. Len(ds) /\ Len(bs) \in 0 .. Len(bs)
      BY <1>2, <2>1
    <2> QED BY <2>2, <1>1, <1>2, <1>6, <1>7
  <1>11. Flows(L, u, s, q, ds, bs, RunVpro(L, v, last))
    BY <1>8, <1>9, <1>10 DEF Flows
  <1> QED BY <1>11 DEF q

\* DMA commands are handed over when the block before them has been sent.
LEMMA FlowsHandOver ==
  ASSUME NEW L, NEW u, NEW s, NEW vs, NEW ds, NEW last, Len(ds) \in Nat, Flows(L, u, s, vs, ds, <<>>, last),
         NEW cmds, Len(cmds) \in Nat,
         \A k \in 1 .. Len(cmds) : StoreRight(L, u, cmds[k], UnitStates(L, cmds, u, last)[k - 1])
  PROVE  Flows(L, u, s, vs, ds, cmds, UnitStates(L, cmds, u, last)[Len(cmds)])
  <1>1. PICK h, g, b :
          /\ h[0] = s /\ VproTrace(L, vs, h)
          /\ g[0] = h[Len(vs)] /\ DmaTrace(L, u, ds, g)
          /\ b[0] = g[Len(ds)] /\ DmaTrace(L, u, <<>>, b)
          /\ b[Len(<<>>)] = last
    BY DEF Flows
  <1>2. b[0] = last
    <2>1. Len(<<>>) = 0
      OBVIOUS
    <2> QED BY <1>1, <2>1
  <1> DEFINE t == UnitStates(L, cmds, u, last)
  <1>3. t[0] = last /\ \A k \in 1 .. Len(cmds) : t[k] = Transferred(L, u, cmds[k], t[k - 1])
    BY UnitStatesAre
  <1> HIDE DEF t
  <1>4. \A k \in 0 .. Len(cmds) : IsUnit(L, t[k])
    <2> DEFINE T == {k \in Nat : k <= Len(cmds) => IsUnit(L, t[k])}
    <2>1. 0 \in T
      BY <1>1, <1>2, <1>3 DEF DmaTrace
    <2>2. ASSUME NEW k \in Nat, k \in T PROVE k + 1 \in T
      <3>1. CASE k + 1 <= Len(cmds)
        <4>1. k + 1 \in 1 .. Len(cmds) /\ (k + 1) - 1 = k /\ k <= Len(cmds)
          BY <3>1
        <4>2. t[k + 1] = Transferred(L, u, cmds[k + 1], t[k])
          BY <1>3, <4>1
        <4>3. IsUnit(L, t[k])
          BY <2>2, <4>1
        <4> QED BY <4>2, <4>3, TransferredUnit
      <3>2. CASE ~(k + 1 <= Len(cmds))
        BY <3>2
      <3> QED BY <3>1, <3>2
    <2> HIDE DEF T
    <2>3. Nat \subseteq T
      BY <2>1, <2>2, AllNumbers
    <2> QED BY <2>3 DEF T
  <1>5. DmaTrace(L, u, cmds, t)
    <2>1. \A k \in 1 .. Len(cmds) : StoreRight(L, u, cmds[k], t[k - 1])
      BY DEF t
    <2>2. 0 \in 0 .. Len(cmds) /\ \A k \in 1 .. Len(cmds) : k \in 0 .. Len(cmds)
      OBVIOUS
    <2> QED BY <1>3, <1>4, <2>1, <2>2 DEF DmaTrace
  <1>6. t[0] = g[Len(ds)]
    BY <1>1, <1>2, <1>3
  <1>7. Flows(L, u, s, vs, ds, cmds, t[Len(cmds)])
    BY <1>1, <1>5, <1>6 DEF Flows
  <1> QED BY <1>7 DEF t

-----------------------------------------------------------------------------
(* The execution computes what the list computes in order.                 *)

\* d writes the word a of the output.
StoresTo(L, d, a) == d.dir \notin Loads /\ ServedBy(L, d) # {} /\ a \in Addresses(L, d)

\* With n segments done in order, a word of the output has been written, is
\* written by a waiting command or by one of a later segment.
Covered(n) ==
  \A a \in DOMAIN Output(layer) :
    \/ a \in DOMAIN mm
    \/ \E d \in Waiting : StoresTo(layer, d, a)
    \/ \E m \in n .. Len(list) - 1 : \E d \in Range(HandedAt(layer, list, m)) : StoresTo(layer, d, a)

\* Each unit gets to where n segments in order take it when it executes all
\* that waits: its own commands first, then those of its DMA, then the block.
UnitsFlow(n) ==
  \A u \in Units(layer) :
    Flows(layer, u, units[u], vpros[u], dmas[u[1]], block, InOrder(layer, list)[n].units[u])

\* n segments in order take calcLayer to where it is.
InStep(n) == n < seg /\ InOrder(layer, list)[n].at = seg

\* Each unit and cluster has its queue, and a DMA has commands for it only.
Shape ==
  /\ DOMAIN units = Units(layer) /\ DOMAIN vpros = Units(layer) /\ DOMAIN dmas = ClusterIds(layer)
  /\ \A c \in ClusterIds(layer) : \A d \in Range(dmas[c]) : c \in Bits(d.cluster)

\* The invariant: what has been written is right, and what waits takes every
\* unit to where the list in order takes it, and writes all that is missing.
FlowInv ==
  /\ UsesLocalMemory(layer, list) /\ ComputesInOrder(layer, list)
  /\ Shape
  /\ Agree(mm, Output(layer))
  /\ \E n \in 0 .. Len(list) : InStep(n) /\ UnitsFlow(n) /\ Covered(n)

\* The commands of the queues, and what may be assumed of them.
LEMMA FlowFacts ==
  ASSUME ExecInv, UsesLocalMemory(layer, list), Shape
  PROVE  /\ Len(list) \in Nat /\ DOMAIN list = 1 .. Len(list)
         /\ \A d \in Handed(list) : DmaOK(layer, d)
         /\ \A v \in Issued(list) : VproOK(layer, v)
         /\ block \in Seq(Handed(list))
         /\ \A c \in ClusterIds(layer) : dmas[c] \in Seq(Handed(list))
         /\ \A u \in Units(layer) : u[1] \in ClusterIds(layer) /\ vpros[u] \in Seq(Issued(list))
  <1>1. Len(list) \in Nat /\ DOMAIN list = 1 .. Len(list)
    BY ListFacts DEF ExecInv
  <1>2. \A d \in Handed(list) : DmaOK(layer, d)
    BY DEF UsesLocalMemory, Handed, BlocksOf, DmaOK
  <1>3. \A v \in Issued(list) : VproOK(layer, v)
    BY DEF UsesLocalMemory, Issued, VproOK
  <1>4. block \in Seq(Handed(list)) /\ \A c \in ClusterIds(layer) : dmas[c] \in Seq(Handed(list))
    BY DEF ExecInv, QueuesOK, Shape
  <1>5. \A u \in Units(layer) : u[1] \in ClusterIds(layer) /\ vpros[u] \in Seq(Issued(list))
    BY DEF ExecInv, QueuesOK, Shape, Units
  <1> QED BY <1>1, <1>2, <1>3, <1>4, <1>5

\* How the next segment moves the execution in order on.
LEMMA NextSegment ==
  ASSUME ExecInv, NEW n \in 0 .. Len(list), InStep(n), seg <= Len(list)
  PROVE  /\ n + 1 \in 0 .. Len(list) /\ n \in 0 .. Len(list) - 1
         /\ InOrder(layer, list)[n + 1].at =
              seg + (IF list[seg].type = "block" THEN list[seg].unit ELSE 0) + 1
         /\ \A u \in Units(layer) :
              InOrder(layer, list)[n + 1].units[u] =
                IF HandsOver(list[seg])
                THEN UnitStates(layer, HandedOver(list, seg), u, InOrder(layer, list)[n].units[u])[Len(HandedOver(list, seg))]
                ELSE IF IsVpro(list[seg]) THEN RunVpro(layer, list[seg].info[1], InOrder(layer, list)[n].units[u])
                ELSE InOrder(layer, list)[n].units[u]
  <1>1. Len(list) \in Nat /\ seg \in Nat
    BY ListFacts DEF ExecInv, QueuesOK
  <1>2. n + 1 \in 1 .. Len(list) /\ n \in 0 .. Len(list) - 1 /\ (n + 1) - 1 = n
    BY <1>1 DEF InStep
  <1>3. InOrder(layer, list)[n + 1] = InOrderStep(layer, list, InOrder(layer, list)[n])
    <2>1. /\ InOrder(layer, list)[0] = [at |-> 1, units |-> [u \in Units(layer) |-> FreshUnit(layer)]]
          /\ \A k \in 1 .. Len(list) : InOrder(layer, list)[k] = InOrderStep(layer, list, InOrder(layer, list)[k - 1])
      BY <1>1, InOrderIs
    <2> QED BY <2>1, <1>2
  <1>4. PICK s : s = InOrder(layer, list)[n]
    OBVIOUS
  <1>5. s.at = seg /\ ~(s.at > Len(list))
    BY <1>1, <1>4 DEF InStep
  <1>6. InOrderStep(layer, list, s) =
          [at |-> seg + (IF list[seg].type = "block" THEN list[seg].unit ELSE 0) + 1,
           units |-> [u \in Units(layer) |->
             IF HandsOver(list[seg])
             THEN UnitStates(layer, HandedOver(list, seg), u, s.units[u])[Len(HandedOver(list, seg))]
             ELSE IF IsVpro(list[seg]) THEN RunVpro(layer, list[seg].info[1], s.units[u])
             ELSE s.units[u]]]
    BY <1>5 DEF InOrderStep
  <1> QED BY <1>2, <1>3, <1>4, <1>6

-----------------------------------------------------------------------------
(* The flow is an invariant.                                               *)

\* Nothing waits, nothing is done.
LEMMA FlowsNothing ==
  ASSUME NEW L, NEW u, NEW s, IsUnit(L, s)
  PROVE  Flows(L, u, s, <<>>, <<>>, <<>>, s)
  <1> DEFINE h == [k \in 0 .. 0 |-> s]
  <1>1. h[0] = s /\ Len(<<>>) = 0 /\ \A k \in 1 .. 0 : FALSE
    OBVIOUS
  <1> HIDE DEF h
  <1>2. VproTrace(L, <<>>, h) /\ DmaTrace(L, u, <<>>, h)
    BY <1>1 DEF VproTrace, DmaTrace
  <1> QED BY <1>1, <1>2 DEF Flows

LEMMA InitImpliesFlow == Init => FlowInv
  <1> SUFFICES ASSUME Init PROVE FlowInv
    OBVIOUS
  <1>1. UsesLocalMemory(layer, list) /\ ComputesInOrder(layer, list)
    <2>1. PICK p \in Programs : layer = p.layer /\ list = p.list
      BY DEF Init
    <2> QED BY <2>1, InOrderAssumption
  <1>2. Len(list) \in Nat
    BY InitImpliesInv, ListFacts DEF ExecInv
  <1>3. Shape
    <2>1. \A c \in ClusterIds(layer) : dmas[c] = <<>>
      BY DEF Init
    <2> QED BY <2>1, RangeEmpty DEF Shape, Init
  <1>4. Agree(mm, Output(layer))
    BY DEF Agree, Init
  <1>5. InOrder(layer, list)[0] = [at |-> 1, units |-> [u \in Units(layer) |-> FreshUnit(layer)]]
    <2>1. /\ InOrder(layer, list)[0] = [at |-> 1, units |-> [u \in Units(layer) |-> FreshUnit(layer)]]
          /\ \A k \in 1 .. Len(list) : InOrder(layer, list)[k] = InOrderStep(layer, list, InOrder(layer, list)[k - 1])
      BY <1>2, InOrderIs
    <2> QED BY <2>1
  <1>6. InStep(0)
    BY <1>5 DEF InStep, Init
  <1>7. UnitsFlow(0)
    <2> SUFFICES ASSUME NEW u \in Units(layer)
                 PROVE  Flows(layer, u, units[u], vpros[u], dmas[u[1]], block, InOrder(layer, list)[0].units[u])
      BY DEF UnitsFlow
    <2>1. /\ units[u] = FreshUnit(layer) /\ vpros[u] = <<>> /\ block = <<>>
          /\ InOrder(layer, list)[0].units[u] = FreshUnit(layer)
      BY <1>5 DEF Init
    <2>2. dmas[u[1]] = <<>>
      BY DEF Init, Units
    <2>3. IsUnit(layer, FreshUnit(layer))
      BY FreshIsUnit
    <2> QED BY <2>1, <2>2, <2>3, FlowsNothing
  <1>8. Covered(0)
    BY <1>1 DEF ComputesInOrder, Covered, StoresTo
  <1>9. 0 \in 0 .. Len(list)
    BY <1>2
  <1> QED BY <1>1, <1>3, <1>4, <1>6, <1>7, <1>8, <1>9 DEF FlowInv

\* calcLayer hands over the transfers at seg.
LEMMA HandOverKeepsFlow ==
  ASSUME ExecInv, FlowInv, NEW next, HandOver(next), seg \in BlocksOf(list),
         next = seg + (IF list[seg].type = "block" THEN list[seg].unit ELSE 0) + 1
  PROVE  FlowInv'
  <1>1. layer' = layer /\ list' = list /\ mm' = mm /\ dmas' = dmas /\ vpros' = vpros /\ units' = units
        /\ block = <<>> /\ block' = HandedOver(list, seg) /\ seg' = next
    BY DEF HandOver, program
  <1>2. PICK n \in 0 .. Len(list) : InStep(n) /\ UnitsFlow(n) /\ Covered(n)
    BY DEF FlowInv
  <1>3. UsesLocalMemory(layer, list) /\ ComputesInOrder(layer, list) /\ Shape /\ Agree(mm, Output(layer))
    BY DEF FlowInv
  <1>4. /\ Len(list) \in Nat /\ DOMAIN list = 1 .. Len(list)
        /\ \A c \in ClusterIds(layer) : dmas[c] \in Seq(Handed(list))
        /\ \A u \in Units(layer) : u[1] \in ClusterIds(layer)
    BY <1>3, FlowFacts
  <1>5. seg \in 1 .. Len(list) /\ HandsOver(list[seg])
    BY <1>4 DEF BlocksOf
  <1>6. /\ n + 1 \in 0 .. Len(list) /\ n \in 0 .. Len(list) - 1
        /\ InOrder(layer, list)[n + 1].at = next
        /\ \A u \in Units(layer) :
             InOrder(layer, list)[n + 1].units[u] =
               UnitStates(layer, HandedOver(list, seg), u, InOrder(layer, list)[n].units[u])[Len(HandedOver(list, seg))]
    BY <1>2, <1>5, NextSegment
  <1>7. HandedAt(layer, list, n) = HandedOver(list, seg)
    BY <1>2, <1>4, <1>5 DEF HandedAt, InStep
  <1>8. HandedOver(list, seg) \in Seq(Handed(list))
    BY HandedOverType DEF ExecInv
  <1>9. Len(HandedOver(list, seg)) \in Nat /\ DOMAIN HandedOver(list, seg) = 1 .. Len(HandedOver(list, seg))
    BY <1>8
  <1>10. InStep(n + 1)'
    <2>1. list[seg].type = "block" => list[seg].unit \in Nat
      BY <1>4, <1>5 DEF ExecInv, GoodList
    <2>2. n + 1 < next
      BY <1>2, <1>5, <2>1 DEF InStep
    <2> QED BY <1>1, <1>6, <2>2 DEF InStep
  <1>11. UnitsFlow(n + 1)'
    <2> SUFFICES ASSUME NEW u \in Units(layer)
                 PROVE  Flows(layer, u, units[u], vpros[u], dmas[u[1]], HandedOver(list, seg), InOrder(layer, list)[n + 1].units[u])
      BY <1>1 DEF UnitsFlow
    <2> DEFINE last == InOrder(layer, list)[n].units[u]
               cmds == HandedOver(list, seg)
    <2>1. Flows(layer, u, units[u], vpros[u], dmas[u[1]], <<>>, last)
      BY <1>1, <1>2 DEF UnitsFlow
    <2>2. \A k \in 1 .. Len(cmds) : StoreRight(layer, u, cmds[k], UnitStates(layer, cmds, u, last)[k - 1])
      BY <1>3, <1>6, <1>7, <1>9 DEF ComputesInOrder, StoreRight
    <2>3. Len(dmas[u[1]]) \in Nat
      BY <1>4
    <2>4. Len(cmds) \in Nat
      BY <1>9
    <2>5. InOrder(layer, list)[n + 1].units[u] = UnitStates(layer, cmds, u, last)[Len(cmds)]
      BY <1>6
    <2> HIDE DEF last, cmds
    <2>6. Flows(layer, u, units[u], vpros[u], dmas[u[1]], cmds, UnitStates(layer, cmds, u, last)[Len(cmds)])
      BY <2>1, <2>2, <2>3, <2>4, FlowsHandOver
    <2> QED BY <2>5, <2>6 DEF cmds
  <1>12. Covered(n + 1)'
    <2>1. Waiting \subseteq Waiting' /\ Range(HandedOver(list, seg)) \subseteq Waiting'
      BY <1>1, RangeEmpty DEF Waiting
    <2>2. \A m \in n .. Len(list) - 1 : m = n \/ m \in n + 1 .. Len(list) - 1
      BY <1>4
    <2> QED BY <1>1, <1>2, <1>7, <2>1, <2>2 DEF Covered
  <1>13. Shape'
    BY <1>1, <1>3 DEF Shape
  <1>14. (UsesLocalMemory(layer, list) /\ ComputesInOrder(layer, list) /\ Agree(mm, Output(layer)))'
    BY <1>1, <1>3
  <1>15. \E k \in 0 .. Len(list') : InStep(k)' /\ UnitsFlow(k)' /\ Covered(k)'
    BY <1>1, <1>6, <1>10, <1>11, <1>12
  <1> QED BY <1>13, <1>14, <1>15 DEF FlowInv

LEMMA TriggerBlockKeepsFlow == ExecInv /\ FlowInv /\ TriggerBlock => FlowInv'
  <1> SUFFICES ASSUME ExecInv, FlowInv, TriggerBlock PROVE FlowInv'
    OBVIOUS
  <1>1. Len(list) \in Nat /\ DOMAIN list = 1 .. Len(list)
    BY ListFacts DEF ExecInv
  <1>2. seg \in BlocksOf(list) /\ list[seg].type = "block"
    BY <1>1 DEF ExecInv, TriggerBlock, AtSegment, QueuesOK, BlocksOf, HandsOver
  <1>3. HandOver(BehindBlock(seg)) /\ BehindBlock(seg) = seg + list[seg].unit + 1
    BY DEF TriggerBlock, BehindBlock
  <1> QED BY <1>2, <1>3, HandOverKeepsFlow

LEMMA IssueDmaKeepsFlow == ExecInv /\ FlowInv /\ IssueDma => FlowInv'
  <1> SUFFICES ASSUME ExecInv, FlowInv, IssueDma PROVE FlowInv'
    OBVIOUS
  <1>1. Len(list) \in Nat /\ DOMAIN list = 1 .. Len(list)
    BY ListFacts DEF ExecInv
  <1>2. seg \in BlocksOf(list) /\ list[seg].type = "dma" /\ seg \in Nat
    BY <1>1 DEF ExecInv, IssueDma, AtSegment, QueuesOK, BlocksOf, HandsOver
  <1>3. HandOver(seg + 1) /\ seg + 1 = seg + 0 + 1
    BY <1>2 DEF IssueDma
  <1> QED BY <1>2, <1>3, HandOverKeepsFlow

\* A VPRO command goes to all units.
LEMMA IssueVproKeepsFlow == ExecInv /\ FlowInv /\ IssueVpro => FlowInv'
  <1> SUFFICES ASSUME ExecInv, FlowInv, IssueVpro PROVE FlowInv'
    OBVIOUS
  <1>1. layer' = layer /\ list' = list /\ mm' = mm /\ dmas' = dmas /\ block' = block /\ units' = units
        /\ seg' = seg + 1 /\ vpros' = [u \in DOMAIN vpros |-> Append(vpros[u], list[seg].info[1])]
    BY DEF IssueVpro, program
  <1>2. PICK n \in 0 .. Len(list) : InStep(n) /\ UnitsFlow(n) /\ Covered(n)
    BY DEF FlowInv
  <1>3. UsesLocalMemory(layer, list) /\ ComputesInOrder(layer, list) /\ Shape /\ Agree(mm, Output(layer))
    BY DEF FlowInv
  <1>4. /\ Len(list) \in Nat /\ DOMAIN list = 1 .. Len(list)
        /\ \A d \in Handed(list) : DmaOK(layer, d)
        /\ \A v \in Issued(list) : VproOK(layer, v)
        /\ block \in Seq(Handed(list))
        /\ \A c \in ClusterIds(layer) : dmas[c] \in Seq(Handed(list))
        /\ \A u \in Units(layer) : u[1] \in ClusterIds(layer) /\ vpros[u] \in Seq(Issued(list))
    BY <1>3, FlowFacts
  <1>5. seg \in 1 .. Len(list) /\ IsVpro(list[seg]) /\ ~HandsOver(list[seg]) /\ list[seg].type # "block"
    BY <1>4 DEF ExecInv, QueuesOK, IssueVpro, AtSegment, IsVpro, HandsOver
  <1>6. PICK v \in Issued(list) : v = list[seg].info[1]
    BY <1>4, <1>5 DEF Issued
  <1>7. /\ n + 1 \in 0 .. Len(list) /\ InOrder(layer, list)[n + 1].at = seg + 1
        /\ \A u \in Units(layer) :
             InOrder(layer, list)[n + 1].units[u] = RunVpro(layer, v, InOrder(layer, list)[n].units[u])
    <2>1. /\ n + 1 \in 0 .. Len(list)
          /\ InOrder(layer, list)[n + 1].at =
               seg + (IF list[seg].type = "block" THEN list[seg].unit ELSE 0) + 1
          /\ \A u \in Units(layer) :
               InOrder(layer, list)[n + 1].units[u] =
                 IF HandsOver(list[seg])
                 THEN UnitStates(layer, HandedOver(list, seg), u, InOrder(layer, list)[n].units[u])[Len(HandedOver(list, seg))]
                 ELSE IF IsVpro(list[seg]) THEN RunVpro(layer, list[seg].info[1], InOrder(layer, list)[n].units[u])
                 ELSE InOrder(layer, list)[n].units[u]
      BY <1>2, <1>5, NextSegment
    <2>2. InOrder(layer, list)[n + 1].at = seg + 0 + 1
      BY <2>1, <1>5
    <2>3. seg + 0 + 1 = seg + 1
      BY <1>5
    <2>4. \A u \in Units(layer) :
             InOrder(layer, list)[n + 1].units[u] = RunVpro(layer, v, InOrder(layer, list)[n].units[u])
      BY <2>1, <1>5, <1>6
    <2> QED BY <2>1, <2>2, <2>3, <2>4
  <1>8. InStep(n + 1)'
    <2>1. n + 1 < seg + 1
      BY <1>2, <1>5 DEF InStep
    <2> QED BY <1>1, <1>7, <2>1 DEF InStep
  <1>9. DOMAIN vpros = Units(layer)
    BY <1>3 DEF Shape
  <1>10. UnitsFlow(n + 1)'
    <2> SUFFICES ASSUME NEW u \in Units(layer)
                 PROVE  Flows(layer, u, units[u], Append(vpros[u], v), dmas[u[1]], block, InOrder(layer, list)[n + 1].units[u])
      BY <1>1, <1>6, <1>9 DEF UnitsFlow
    <2> DEFINE last == InOrder(layer, list)[n].units[u]
    <2>1. Flows(layer, u, units[u], vpros[u], dmas[u[1]], block, last)
      BY <1>2 DEF UnitsFlow
    <2>2. u[1] \in ClusterIds(layer) /\ vpros[u] \in Seq(Issued(list)) /\ dmas[u[1]] \in Seq(Handed(list))
          /\ DOMAIN dmas = ClusterIds(layer)
      BY <1>3, <1>4 DEF Shape
    \* What waits does not conflict with the new command.
    <2>3. ASSUME NEW d \in Range(dmas[u[1]]) \cup Range(block) PROVE ~Conflict(layer, d, v)
      <3>1. NoBufferConflict'
        BY IssueVproKeepsInv, InvImpliesNoConflict, PTL
      <3>2. d \in Waiting'
        BY <1>1, <2>2 DEF Waiting
      <3>3. v \in WaitingVpros'
        <4>1. vpros'[u] = Append(vpros[u], v) /\ u \in DOMAIN vpros'
          BY <1>1, <1>6, <1>9
        <4>2. v \in Range(Append(vpros[u], v))
          BY <2>2, RangeAppend
        <4> QED BY <4>1, <4>2 DEF WaitingVpros
      <3> QED BY <1>1, <3>1, <3>2, <3>3 DEF NoBufferConflict
    <2> HIDE DEF last
    <2>4. Flows(layer, u, units[u], Append(vpros[u], v), dmas[u[1]], block, RunVpro(layer, v, last))
      BY <1>4, <2>1, <2>2, <2>3, FlowsIssue
    <2> QED BY <1>7, <2>4 DEF last
  <1>11. Covered(n + 1)'
    <2>1. Waiting' = Waiting
      BY <1>1 DEF Waiting
    <2>2. HandedAt(layer, list, n) = <<>>
      BY <1>2, <1>4, <1>5 DEF HandedAt, InStep
    <2>3. \A m \in n .. Len(list) - 1 : m = n \/ m \in n + 1 .. Len(list) - 1
      BY <1>4
    <2> QED BY <1>1, <1>2, <2>1, <2>2, <2>3, RangeEmpty DEF Covered
  <1>12. Shape'
    BY <1>1, <1>3 DEF Shape
  <1>13. (UsesLocalMemory(layer, list) /\ ComputesInOrder(layer, list) /\ Agree(mm, Output(layer)))'
    BY <1>1, <1>3
  <1>14. \E k \in 0 .. Len(list') : InStep(k)' /\ UnitsFlow(k)' /\ Covered(k)'
    BY <1>1, <1>7, <1>8, <1>10, <1>11
  <1> QED BY <1>12, <1>13, <1>14 DEF FlowInv

\* A synchronisation changes nothing but where calcLayer is.
LEMMA SynchroniseKeepsFlow == ExecInv /\ FlowInv /\ Synchronise => FlowInv'
  <1> SUFFICES ASSUME ExecInv, FlowInv, Synchronise PROVE FlowInv'
    OBVIOUS
  <1>1. layer' = layer /\ list' = list /\ mm' = mm /\ dmas' = dmas /\ block' = block /\ units' = units
        /\ seg' = seg + 1 /\ vpros' = vpros
    BY DEF Synchronise, program
  <1>2. PICK n \in 0 .. Len(list) : InStep(n) /\ UnitsFlow(n) /\ Covered(n)
    BY DEF FlowInv
  <1>3. UsesLocalMemory(layer, list) /\ ComputesInOrder(layer, list) /\ Shape /\ Agree(mm, Output(layer))
    BY DEF FlowInv
  <1>4. Len(list) \in Nat /\ DOMAIN list = 1 .. Len(list)
    BY ListFacts DEF ExecInv
  <1>5. seg \in 1 .. Len(list) /\ ~IsVpro(list[seg]) /\ ~HandsOver(list[seg]) /\ list[seg].type # "block"
    BY <1>4 DEF ExecInv, QueuesOK, Synchronise, IsSync, Syncs, IsVpro, HandsOver
  <1>6. /\ n + 1 \in 0 .. Len(list) /\ InOrder(layer, list)[n + 1].at = seg + 1
        /\ \A u \in Units(layer) :
             InOrder(layer, list)[n + 1].units[u] = InOrder(layer, list)[n].units[u]
    <2>1. /\ n + 1 \in 0 .. Len(list)
          /\ InOrder(layer, list)[n + 1].at =
               seg + (IF list[seg].type = "block" THEN list[seg].unit ELSE 0) + 1
          /\ \A u \in Units(layer) :
               InOrder(layer, list)[n + 1].units[u] =
                 IF HandsOver(list[seg])
                 THEN UnitStates(layer, HandedOver(list, seg), u, InOrder(layer, list)[n].units[u])[Len(HandedOver(list, seg))]
                 ELSE IF IsVpro(list[seg]) THEN RunVpro(layer, list[seg].info[1], InOrder(layer, list)[n].units[u])
                 ELSE InOrder(layer, list)[n].units[u]
      BY <1>2, <1>5, NextSegment
    <2>2. InOrder(layer, list)[n + 1].at = seg + 0 + 1
      BY <2>1, <1>5
    <2>3. seg + 0 + 1 = seg + 1
      BY <1>5
    <2>4. \A u \in Units(layer) : InOrder(layer, list)[n + 1].units[u] = InOrder(layer, list)[n].units[u]
      BY <2>1, <1>5
    <2> QED BY <2>1, <2>2, <2>3, <2>4
  <1>7. InStep(n + 1)'
    <2>1. n + 1 < seg + 1
      BY <1>2, <1>5 DEF InStep
    <2> QED BY <1>1, <1>6, <2>1 DEF InStep
  <1>8. UnitsFlow(n + 1)'
    BY <1>1, <1>2, <1>6 DEF UnitsFlow
  <1>9. Covered(n + 1)'
    <2>1. Waiting' = Waiting
      BY <1>1 DEF Waiting
    <2>2. HandedAt(layer, list, n) = <<>>
      BY <1>2, <1>4, <1>5 DEF HandedAt, InStep
    <2>3. \A m \in n .. Len(list) - 1 : m = n \/ m \in n + 1 .. Len(list) - 1
      BY <1>4
    <2> QED BY <1>1, <1>2, <2>1, <2>2, <2>3, RangeEmpty DEF Covered
  <1>10. Shape'
    BY <1>1, <1>3 DEF Shape
  <1>11. (UsesLocalMemory(layer, list) /\ ComputesInOrder(layer, list) /\ Agree(mm, Output(layer)))'
    BY <1>1, <1>3
  <1>12. \E k \in 0 .. Len(list') : InStep(k)' /\ UnitsFlow(k)' /\ Covered(k)'
    BY <1>1, <1>6, <1>7, <1>8, <1>9
  <1> QED BY <1>10, <1>11, <1>12 DEF FlowInv

\* The hardware: calcLayer stays where it is.
LEMMA HardwareKeepsFlow ==
  ASSUME FlowInv, UNCHANGED <<program, seg>>, Shape', Agree(mm', Output(layer)),
         \A n \in 0 .. Len(list) : UnitsFlow(n) => UnitsFlow(n)',
         DOMAIN mm \subseteq DOMAIN mm',
         \A d \in Waiting : d \in Waiting' \/ \A a : StoresTo(layer, d, a) => a \in DOMAIN mm'
  PROVE  FlowInv'
  <1>1. layer' = layer /\ list' = list /\ seg' = seg
    BY DEF program
  <1>2. PICK n \in 0 .. Len(list) : InStep(n) /\ UnitsFlow(n) /\ Covered(n)
    BY DEF FlowInv
  <1>3. Covered(n)'
    BY <1>1, <1>2 DEF Covered
  <1>4. InStep(n)' /\ UnitsFlow(n)'
    BY <1>1, <1>2 DEF InStep
  <1>5. \E k \in 0 .. Len(list') : InStep(k)' /\ UnitsFlow(k)' /\ Covered(k)'
    BY <1>1, <1>3, <1>4
  <1> QED BY <1>1, <1>5 DEF FlowInv

\* A queue is its first command and the others.
LEMMA RangeHeadTail ==
  ASSUME NEW S, NEW q \in Seq(S), q # <<>>
  PROVE  Range(q) = {Head(q)} \cup Range(Tail(q))
  <1>1. /\ Len(q) \in Nat \ {0} /\ Len(Tail(q)) = Len(q) - 1 /\ Head(q) = q[1]
        /\ DOMAIN q = 1 .. Len(q) /\ DOMAIN Tail(q) = 1 .. Len(q) - 1
        /\ \A k \in 1 .. Len(q) - 1 : Tail(q)[k] = q[k + 1]
    OBVIOUS
  <1>2. ASSUME NEW k \in 1 .. Len(q) PROVE q[k] = q[1] \/ \E j \in 1 .. Len(q) - 1 : q[k] = Tail(q)[j]
    <2>1. k = 1 \/ (k - 1 \in 1 .. Len(q) - 1 /\ (k - 1) + 1 = k)
      BY <1>1
    <2> QED BY <1>1, <2>1
  <1>3. ASSUME NEW j \in 1 .. Len(q) - 1 PROVE \E k \in 1 .. Len(q) : q[k] = Tail(q)[j]
    <2>1. j + 1 \in 1 .. Len(q)
      BY <1>1
    <2> QED BY <1>1, <2>1
  <1>4. 1 \in 1 .. Len(q)
    BY <1>1
  <1>5. q[1] \in Range(q)
    BY <1>1, <1>4 DEF Range
  <1>6. ASSUME NEW x \in Range(q) PROVE x = q[1] \/ x \in Range(Tail(q))
    <2>1. PICK k \in 1 .. Len(q) : x = q[k]
      BY <1>1 DEF Range
    <2>2. CASE \E j \in 1 .. Len(q) - 1 : q[k] = Tail(q)[j]
      BY <1>1, <2>1, <2>2 DEF Range
    <2> QED BY <1>2, <2>1, <2>2
  <1>7. Range(Tail(q)) \subseteq Range(q)
    BY <1>1, <1>3 DEF Range
  <1> QED BY <1>1, <1>5, <1>6, <1>7

\* The next command of the block goes to the DMAs of its clusters.
LEMMA SendNextKeepsFlow == ExecInv /\ FlowInv /\ SendNext => FlowInv'
  <1> SUFFICES ASSUME ExecInv, FlowInv, SendNext PROVE FlowInv'
    OBVIOUS
  <1>1. layer' = layer /\ list' = list /\ mm' = mm /\ units' = units /\ seg' = seg /\ vpros' = vpros
        /\ block # <<>> /\ block' = Tail(block)
    BY DEF SendNext, program
  <1>2. UsesLocalMemory(layer, list) /\ Shape /\ Agree(mm, Output(layer))
    BY DEF FlowInv
  <1>3. /\ block \in Seq(Handed(list))
        /\ \A c \in ClusterIds(layer) : dmas[c] \in Seq(Handed(list))
        /\ \A u \in Units(layer) : u[1] \in ClusterIds(layer)
    BY <1>2, FlowFacts
  <1>4. PICK h \in Handed(list) : h = Head(block)
    BY <1>1, <1>3
  <1>5. DOMAIN dmas' = ClusterIds(layer)
        /\ \A c \in ClusterIds(layer) :
             dmas'[c] = IF c \in Bits(h.cluster) THEN Append(dmas[c], h) ELSE dmas[c]
    BY <1>2, <1>4 DEF SendNext, Shape
  <1>6. \A c \in ClusterIds(layer) :
          /\ Append(dmas[c], h) \in Seq(Handed(list))
          /\ Range(Append(dmas[c], h)) = Range(dmas[c]) \cup {h}
    BY <1>3, RangeAppend
  <1>7. Shape'
    BY <1>1, <1>2, <1>5, <1>6 DEF Shape
  <1>8. ASSUME NEW n \in 0 .. Len(list), UnitsFlow(n) PROVE UnitsFlow(n)'
    <2> SUFFICES ASSUME NEW u \in Units(layer)
                 PROVE  Flows(layer, u, units[u], vpros[u], dmas'[u[1]], Tail(block), InOrder(layer, list)[n].units[u])
      BY <1>1 DEF UnitsFlow
    <2> DEFINE last == InOrder(layer, list)[n].units[u]
    <2>1. Flows(layer, u, units[u], vpros[u], dmas[u[1]], block, last)
      BY <1>8 DEF UnitsFlow
    <2>2. u[1] \in ClusterIds(layer) /\ dmas[u[1]] \in Seq(Handed(list))
      BY <1>3
    <2> HIDE DEF last
    <2>3. /\ Flows(layer, u, units[u], vpros[u], Append(dmas[u[1]], Head(block)), Tail(block), last)
          /\ u \notin ServedBy(layer, Head(block)) => Flows(layer, u, units[u], vpros[u], dmas[u[1]], Tail(block), last)
      BY <1>1, <1>3, <2>1, <2>2, FlowsSend
    <2>4. u[1] \notin Bits(h.cluster) => u \notin ServedBy(layer, Head(block))
      BY <1>4 DEF ServedBy
    <2>5. Flows(layer, u, units[u], vpros[u], dmas'[u[1]], Tail(block), last)
      BY <1>4, <1>5, <2>2, <2>3, <2>4
    <2> QED BY <2>5 DEF last
  <1>9. ASSUME NEW d \in Waiting
        PROVE  d \in Waiting' \/ \A a : StoresTo(layer, d, a) => a \in DOMAIN mm'
    <2>1. \A c \in ClusterIds(layer) : Range(dmas[c]) \subseteq Waiting'
      BY <1>5, <1>6 DEF Waiting
    <2>2. CASE d = h
      <3>1. ASSUME NEW u \in ServedBy(layer, h) PROVE h \in Waiting'
        <4>1. u[1] \in ClusterIds(layer) /\ u[1] \in Bits(h.cluster)
          BY <1>3 DEF ServedBy
        <4>2. h \in Range(dmas'[u[1]])
          BY <4>1, <1>5, <1>6
        <4> QED BY <4>1, <4>2, <1>5 DEF Waiting
      <3> QED BY <2>2, <3>1 DEF StoresTo
    <2>3. CASE d # h /\ d \in Range(block)
      <3>1. d \in Range(Tail(block))
        BY <1>1, <1>3, <1>4, <2>3, RangeHeadTail
      <3> QED BY <1>1, <3>1 DEF Waiting
    <2>4. CASE d \notin Range(block)
      BY <1>2, <2>1, <2>4 DEF Waiting, Shape
    <2> QED BY <2>2, <2>3, <2>4
  <1>10. UNCHANGED <<program, seg>> /\ Agree(mm', Output(layer)) /\ DOMAIN mm \subseteq DOMAIN mm'
    BY <1>1, <1>2 DEF program
  <1> QED BY <1>7, <1>8, <1>9, <1>10, HardwareKeepsFlow

\* A vector unit executes its next command.
LEMMA RunUnitKeepsFlow ==
  ASSUME ExecInv, FlowInv, NEW w \in DOMAIN vpros, RunUnit(w)
  PROVE  FlowInv'
  <1>1. layer' = layer /\ list' = list /\ mm' = mm /\ seg' = seg /\ dmas' = dmas /\ block' = block
        /\ vpros[w] # <<>>
    BY DEF RunUnit, program
  <1>2. UsesLocalMemory(layer, list) /\ Shape /\ Agree(mm, Output(layer))
    BY DEF FlowInv
  <1>3. \A u \in Units(layer) : vpros[u] \in Seq(Issued(list))
    BY <1>2, FlowFacts
  <1>4. /\ DOMAIN units' = Units(layer) /\ DOMAIN vpros' = Units(layer)
        /\ \A u \in Units(layer) :
             /\ units'[u] = IF u = w THEN RunVpro(layer, Head(vpros[w]), units[w]) ELSE units[u]
             /\ vpros'[u] = IF u = w THEN Tail(vpros[w]) ELSE vpros[u]
    BY <1>2 DEF RunUnit, Shape
  <1>5. Shape'
    BY <1>1, <1>2, <1>4 DEF Shape
  <1>6. ASSUME NEW n \in 0 .. Len(list), UnitsFlow(n) PROVE UnitsFlow(n)'
    <2> SUFFICES ASSUME NEW u \in Units(layer)
                 PROVE  Flows(layer, u, units'[u], vpros'[u], dmas[u[1]], block, InOrder(layer, list)[n].units[u])
      BY <1>1 DEF UnitsFlow
    <2>1. Flows(layer, u, units[u], vpros[u], dmas[u[1]], block, InOrder(layer, list)[n].units[u])
      BY <1>6 DEF UnitsFlow
    <2>2. CASE u = w
      <3>1. vpros[u] \in Seq(Issued(list)) /\ vpros[u] # <<>>
        BY <1>1, <1>3, <2>2
      <3>2. Flows(layer, u, RunVpro(layer, Head(vpros[u]), units[u]), Tail(vpros[u]), dmas[u[1]], block,
                  InOrder(layer, list)[n].units[u])
        BY <2>1, <3>1, FlowsRunVpro
      <3> QED BY <1>4, <2>2, <3>2
    <2>3. CASE u # w
      BY <1>4, <2>1, <2>3
    <2> QED BY <2>2, <2>3
  <1>7. Waiting' = Waiting
    BY <1>1 DEF Waiting
  <1>8. UNCHANGED <<program, seg>> /\ Agree(mm', Output(layer)) /\ DOMAIN mm \subseteq DOMAIN mm'
    BY <1>1, <1>2 DEF program
  <1> QED BY <1>5, <1>6, <1>7, <1>8, HardwareKeepsFlow

\* The words of a store are written over those of the main memory.
LEMMA StoreAgrees ==
  ASSUME NEW L, NEW d, NEW s, NEW f, Agree(f, Output(L)), Agree(Stored(d, s), Output(L))
  PROVE  Agree(WriteOver(Stored(d, s), f), Output(L))
  <1> DEFINE g == Stored(d, s)
  <1>1. Agree(g, Output(L))
    OBVIOUS
  <1> HIDE DEF g
  <1>2. Agree(WriteOver(g, f), Output(L))
    BY <1>1 DEF Agree, WriteOver
  <1> QED BY <1>2 DEF g

\* A DMA executes its next command.
LEMMA RunDmaKeepsFlow ==
  ASSUME ExecInv, FlowInv, NEW c \in DOMAIN dmas, RunDma(c)
  PROVE  FlowInv'
  <1>1. layer' = layer /\ list' = list /\ seg' = seg /\ vpros' = vpros /\ block' = block /\ dmas[c] # <<>>
    BY DEF RunDma, program
  <1>2. UsesLocalMemory(layer, list) /\ Shape /\ Agree(mm, Output(layer))
    BY DEF FlowInv
  <1>3. /\ \A x \in Handed(list) : DmaOK(layer, x)
        /\ \A v \in Issued(list) : VproOK(layer, v)
        /\ \A x \in ClusterIds(layer) : dmas[x] \in Seq(Handed(list))
        /\ \A u \in Units(layer) : u[1] \in ClusterIds(layer) /\ vpros[u] \in Seq(Issued(list))
    BY <1>2, FlowFacts
  <1>4. c \in ClusterIds(layer) /\ DOMAIN dmas = ClusterIds(layer) /\ DOMAIN units = Units(layer)
        /\ DOMAIN vpros = Units(layer)
    BY <1>2 DEF Shape
  <1>5. dmas[c] \in Seq(Handed(list))
    BY <1>3, <1>4
  <1>6. Range(dmas[c]) = {Head(dmas[c])} \cup Range(Tail(dmas[c]))
    BY <1>1, <1>5, RangeHeadTail
  <1>7. PICK d \in Handed(list) : d = Head(dmas[c])
    BY <1>1, <1>5
  <1>8. d \in Range(dmas[c]) /\ d \in Waiting /\ c \in Bits(d.cluster)
    BY <1>2, <1>4, <1>6, <1>7 DEF Waiting, Shape
  <1>9. DOMAIN dmas' = ClusterIds(layer)
        /\ \A x \in ClusterIds(layer) : dmas'[x] = IF x = c THEN Tail(dmas[c]) ELSE dmas[x]
    BY <1>4 DEF RunDma
  <1> DEFINE targets == {u \in Units(layer) : u[1] = c /\ u[2] \in Bits(d.unit)}
  <1>10. IF d.dir \in Loads
         THEN /\ units' = [u \in Units(layer) |->
                             IF u \in targets THEN LoadUnit(layer, d, units[u]) ELSE units[u]]
              /\ mm' = mm
         ELSE /\ \E u \in targets : mm' = WriteOver(Stored(d, units[u]), mm)
              /\ units' = units
    BY <1>4, <1>7 DEF RunDma, Transfer
  <1>11. \A u \in Units(layer) : u \in targets <=> u[1] = c /\ u \in ServedBy(layer, d)
    BY <1>8 DEF ServedBy
  <1> HIDE DEF targets
  <1>12. DOMAIN units' = Units(layer)
         /\ \A u \in Units(layer) :
              units'[u] = IF u[1] = c THEN Transferred(layer, u, d, units[u]) ELSE units[u]
    BY <1>4, <1>10, <1>11 DEF Transferred
  <1>13. Shape'
    BY <1>1, <1>2, <1>6, <1>9, <1>12 DEF Shape
  <1>14. NoBufferConflict
    BY InvImpliesNoConflict
  \* What the command does to the units of its cluster.
  <1>15. ASSUME NEW n \in 0 .. Len(list), UnitsFlow(n), NEW u \in Units(layer), u[1] = c
         PROVE  /\ Flows(layer, u, Transferred(layer, u, d, units[u]), vpros[u], Tail(dmas[c]), block,
                         InOrder(layer, list)[n].units[u])
                /\ StoreRight(layer, u, d, units[u])
    <2>1. Flows(layer, u, units[u], vpros[u], dmas[c], block, InOrder(layer, list)[n].units[u])
      BY <1>15 DEF UnitsFlow
    <2>2. \A v \in Range(vpros[u]) : ~Conflict(layer, Head(dmas[c]), v)
      BY <1>4, <1>7, <1>8, <1>14 DEF NoBufferConflict, WaitingVpros
    <2>3. vpros[u] \in Seq(Issued(list))
      BY <1>3
    <2>4. /\ Flows(layer, u, Transferred(layer, u, Head(dmas[c]), units[u]), vpros[u], Tail(dmas[c]), block,
                   InOrder(layer, list)[n].units[u])
          /\ StoreRight(layer, u, Head(dmas[c]), units[u])
      BY <1>1, <1>3, <1>5, <2>1, <2>2, <2>3, FlowsRunDma
    <2> QED BY <1>7, <2>4
  <1>16. ASSUME NEW n \in 0 .. Len(list), UnitsFlow(n) PROVE UnitsFlow(n)'
    <2> SUFFICES ASSUME NEW u \in Units(layer)
                 PROVE  Flows(layer, u, units'[u], vpros[u], dmas'[u[1]], block, InOrder(layer, list)[n].units[u])
      BY <1>1 DEF UnitsFlow
    <2>1. CASE u[1] = c
      BY <1>4, <1>9, <1>12, <1>15, <1>16, <2>1
    <2>2. CASE u[1] # c
      <3>1. units'[u] = units[u] /\ dmas'[u[1]] = dmas[u[1]]
        BY <1>3, <1>9, <1>12, <2>2
      <3> QED BY <3>1, <1>16 DEF UnitsFlow
    <2> QED BY <2>1, <2>2
  <1>17. /\ Agree(mm', Output(layer))
         /\ DOMAIN mm \subseteq DOMAIN mm'
         /\ d.dir \notin Loads => Addresses(layer, d) \subseteq DOMAIN mm'
    <2>1. CASE d.dir \in Loads
      BY <1>2, <1>10, <2>1
    <2>2. CASE d.dir \notin Loads
      <3>1. PICK u \in targets : mm' = WriteOver(Stored(d, units[u]), mm)
        BY <1>10, <2>2
      <3>2. u \in Units(layer) /\ u[1] = c /\ u \in ServedBy(layer, d)
        BY <1>11 DEF targets
      <3>3. PICK n \in 0 .. Len(list) : UnitsFlow(n)
        BY DEF FlowInv
      <3>4. Agree(Stored(d, units[u]), Output(layer))
        BY <1>15, <2>2, <3>2, <3>3 DEF StoreRight
      <3>5. PICK L, s, f : L = layer /\ s = units[u] /\ f = mm
        OBVIOUS
      <3>6. Agree(WriteOver(Stored(d, s), f), Output(L))
        BY <1>2, <3>4, <3>5, StoreAgrees
      <3>7. DOMAIN WriteOver(Stored(d, s), f) = Addresses(L, d) \cup DOMAIN f
        BY StoredDomain DEF WriteOver
      <3> QED BY <3>1, <3>5, <3>6, <3>7
    <2> QED BY <2>1, <2>2
  <1>18. ASSUME NEW x \in Waiting
         PROVE  x \in Waiting' \/ \A a : StoresTo(layer, x, a) => a \in DOMAIN mm'
    <2>1. Waiting \subseteq {d} \cup Waiting'
      BY <1>1, <1>4, <1>6, <1>7, <1>9 DEF Waiting
    <2>2. \A a : StoresTo(layer, d, a) => a \in DOMAIN mm'
      BY <1>17 DEF StoresTo
    <2> QED BY <2>1, <2>2
  <1>19. UNCHANGED <<program, seg>>
    BY <1>1 DEF program
  <1> QED BY <1>13, <1>16, <1>17, <1>18, <1>19, HardwareKeepsFlow

LEMMA NextKeepsFlow == ExecInv /\ FlowInv /\ [Next]_vars => FlowInv'
  <1> SUFFICES ASSUME ExecInv, FlowInv, [Next]_vars PROVE FlowInv'
    OBVIOUS
  <1>1. CASE TriggerBlock
    BY <1>1, TriggerBlockKeepsFlow
  <1>2. CASE IssueDma
    BY <1>2, IssueDmaKeepsFlow
  <1>3. CASE IssueVpro
    BY <1>3, IssueVproKeepsFlow
  <1>4. CASE Synchronise
    BY <1>4, SynchroniseKeepsFlow
  <1>5. CASE SendNext
    BY <1>5, SendNextKeepsFlow
  <1>6. ASSUME NEW c \in DOMAIN dmas, RunDma(c) PROVE FlowInv'
    BY <1>6, RunDmaKeepsFlow
  <1>7. ASSUME NEW u \in DOMAIN vpros, RunUnit(u) PROVE FlowInv'
    BY <1>7, RunUnitKeepsFlow
  <1>8. CASE UNCHANGED vars
    <2>1. UNCHANGED <<layer, list, seg, block, dmas, vpros, units, mm>>
      BY <1>8 DEF vars, program
    <2>2. Shape' /\ Agree(mm', Output(layer)) /\ Waiting' = Waiting
      BY <2>1 DEF FlowInv, Shape, Waiting
    <2>3. ASSUME NEW n \in 0 .. Len(list), UnitsFlow(n) PROVE UnitsFlow(n)'
      BY <2>1, <2>3 DEF UnitsFlow
    <2>4. UNCHANGED <<program, seg>> /\ DOMAIN mm \subseteq DOMAIN mm'
      BY <2>1 DEF program
    <2> QED BY <2>2, <2>3, <2>4, HardwareKeepsFlow
  <1> QED BY <1>1, <1>2, <1>3, <1>4, <1>5, <1>6, <1>7, <1>8 DEF Next, Program

\* When calcLayer returns, all words of the output have been written.
LEMMA AllWritten ==
  ASSUME ExecInv, FlowInv, seg > Len(list)
  PROVE  DOMAIN Output(layer) \subseteq DOMAIN mm
  <1>1. PICK n \in 0 .. Len(list) : InStep(n) /\ Covered(n)
    BY DEF FlowInv
  <1>2. Len(list) \in Nat /\ DOMAIN list = 1 .. Len(list) /\ seg = Len(list) + 1
    BY ListFacts DEF ExecInv, QueuesOK
  \* The list ends when the DMAs are done, and nothing outlives that.
  <1>3. Waiting = {}
    <2> SUFFICES ASSUME NEW d \in Waiting PROVE FALSE
      OBVIOUS
    <2>1. PICK i \in 1 .. seg - 1 : DmaSince(d, i)
      BY DEF ExecInv, NothingOutlivesSync
    <2>2. Len(list) \in i .. seg - 1
      BY <1>2, <2>1
    <2>3. IsSync(list[Len(list)]) /\ WaitsForDma(list[Len(list)])
      BY DEF FlowInv, ComputesInOrder, Last
    <2> QED BY <2>1, <2>2, <2>3 DEF DmaSince
  <1>4. ASSUME NEW m \in n .. Len(list) - 1 PROVE Range(HandedAt(layer, list, m)) = {}
    <2>1. InOrder(layer, list)[n].at > Len(list)
      BY <1>1, <1>2 DEF InStep
    <2>2. m \in n .. Len(list)
      BY <1>2
    <2>3. InOrder(layer, list)[m].at > Len(list)
      BY <1>2, <2>1, <2>2, InOrderEnds
    <2>4. InOrder(layer, list)[m].at \notin DOMAIN list
      BY <1>2, <2>3
    <2> QED BY <2>4, RangeEmpty DEF HandedAt
  <1> QED BY <1>1, <1>3, <1>4 DEF Covered

\* The words written of the output, as the abstract specification sees them.
LEMMA OutputWritten ==
  ASSUME FlowInv
  PROVE  \A a \in DOMAIN mm \cap DOMAIN Output(layer) : mm[a] = Output(layer)[a]
  BY DEF FlowInv, Agree

\* The main memory only gains words.
LEMMA MemoryGrows == ExecInv /\ FlowInv /\ [Next]_vars => DOMAIN mm \subseteq DOMAIN mm'
  <1> SUFFICES ASSUME ExecInv, FlowInv, [Next]_vars PROVE DOMAIN mm \subseteq DOMAIN mm'
    OBVIOUS
  <1>1. ASSUME NEW c \in DOMAIN dmas, RunDma(c) PROVE DOMAIN mm \subseteq DOMAIN mm'
    <2>1. mm' = mm \/ \E f : mm' = WriteOver(f, mm)
      BY <1>1 DEF RunDma, Transfer
    <2>2. ASSUME NEW f, mm' = WriteOver(f, mm) PROVE DOMAIN mm \subseteq DOMAIN mm'
      BY <2>2 DEF WriteOver
    <2> QED BY <2>1, <2>2
  <1>2. CASE mm' = mm
    BY <1>2
  <1> QED BY <1>1, <1>2 DEF Next, Program, TriggerBlock, IssueDma, HandOver, IssueVpro, Synchronise, SendNext,
                            RunUnit, vars

-----------------------------------------------------------------------------
(* The refinement.                                                         *)

\* The output as the abstract specification sees it.
Out == [a \in DOMAIN mm \cap DOMAIN Output(layer) |-> mm[a]]

LEMMA OutputFunction == ASSUME NEW L PROVE Output(L) = [a \in DOMAIN Output(L) |-> Output(L)[a]]
  BY DEF Output

LEMMA OutComplete == ExecInv /\ FlowInv => (seg > Len(list) => Out = Output(layer))
  <1> SUFFICES ASSUME ExecInv, FlowInv, seg > Len(list) PROVE Out = Output(layer)
    OBVIOUS
  <1>1. DOMAIN mm \cap DOMAIN Output(layer) = DOMAIN Output(layer)
    BY AllWritten
  <1>2. \A a \in DOMAIN Output(layer) : mm[a] = Output(layer)[a]
    BY <1>1, OutputWritten
  <1>3. PICK T, f : T = Output(layer) /\ f = mm
    OBVIOUS
  <1>4. T = [a \in DOMAIN T |-> T[a]]
    BY <1>3, OutputFunction
  <1>5. [a \in DOMAIN f \cap DOMAIN T |-> f[a]] = T
    BY <1>1, <1>2, <1>3, <1>4
  <1> QED BY <1>3, <1>5 DEF Out

\* A step writes words of the output, completes the layer or is not seen.
LEMMA StepImplements ==
  ExecInv /\ FlowInv /\ ExecInv' /\ FlowInv' /\ [Next]_vars
    => [Abstract!Write \/ Abstract!Complete]_(Abstract!lvars)
  <1> SUFFICES ASSUME ExecInv, FlowInv, ExecInv', FlowInv', [Next]_vars
               PROVE  \/ Abstract!Write
                      \/ Abstract!Complete
                      \/ UNCHANGED Abstract!lvars
    OBVIOUS
  <1>1. layer' = layer /\ list' = list
    BY DEF Next, Program, TriggerBlock, IssueDma, HandOver, IssueVpro, Synchronise, SendNext, RunDma, RunUnit,
           program, vars
  <1>2. PICK N, i, j \in Nat : N = Len(list) /\ i = seg /\ j = seg'
    BY ListFacts, <1>1 DEF ExecInv, QueuesOK
  <1>3. /\ DOMAIN Out \subseteq DOMAIN Out' /\ DOMAIN Out' \subseteq DOMAIN Output(layer)
        /\ \A a \in DOMAIN Out' : Out'[a] = Output(layer)[a]
    <2>1. DOMAIN mm \subseteq DOMAIN mm'
      BY MemoryGrows
    <2>2. \A a \in DOMAIN mm' \cap DOMAIN Output(layer) : mm'[a] = Output(layer)[a]
      BY <1>1 DEF FlowInv, Agree
    <2> QED BY <1>1, <2>1, <2>2 DEF Out
  <1>4. j > N => Out' = Output(layer)
    <2>1. (seg > Len(list) => Out = Output(layer))'
      BY OutComplete, PTL
    <2> QED BY <2>1, <1>1, <1>2
  <1>5. CASE i > N
    <2>1. Out = Output(layer)
      BY <1>2, <1>5, OutComplete
    <2>2. seg' = seg
      BY <1>2, <1>5 DEF Next, Program, TriggerBlock, IssueDma, AtSegment, IssueVpro, Synchronise, SendNext, RunDma,
                        RunUnit, vars
    <2>3. Out' = Output(layer)
      BY <1>2, <1>5, <1>4, <2>2
    <2> QED BY <1>1, <2>1, <2>2, <2>3 DEF Abstract!lvars, Out
  <1>6. CASE ~(i > N) /\ ~(j > N)
    <2>1. Abstract!Write
      BY <1>1, <1>2, <1>3, <1>6 DEF Abstract!Write, Out
    <2> QED BY <2>1
  <1>7. CASE ~(i > N) /\ j > N
    <2>1. Out' = Output(layer)
      BY <1>7, <1>4
    <2>2. mm' = mm
      BY <1>2, <1>7 DEF Next, Program, TriggerBlock, IssueDma, HandOver, IssueVpro, Synchronise, SendNext, RunDma,
                        RunUnit, vars
    <2>3. Abstract!Complete
      BY <1>1, <1>2, <1>7, <2>1, <2>2 DEF Abstract!Complete, Out
    <2> QED BY <2>3
  <1> QED BY <1>5, <1>6, <1>7


-----------------------------------------------------------------------------
(* The theorems.                                                           *)

LEMMA InvAlways == Spec => []ExecInv
  <1> QED BY InitImpliesInv, NextKeepsInv, PTL DEF Spec

\* Nothing that calcLayer hands over before a synchronisation is still in a
\* queue behind it, whatever the list, the clusters and the units are.
THEOREM SyncsDrain == Spec => []NothingOutlivesSync
  <1>1. ExecInv => NothingOutlivesSync
    BY DEF ExecInv
  <1> QED BY <1>1, InvAlways, PTL

\* A list without races in its text is executed without conflicts: commands
\* the DMAs and the vector units have waiting at the same time do not touch
\* each other's words, so that the order in which they run does not matter.
THEOREM DoubleBufferingSafe == Spec => []NoBufferConflict
  <1> QED BY InvAlways, InvImpliesNoConflict, PTL

\* The runtime computes the layer: in whatever order the extractor, the DMAs
\* and the vector units work through what calcLayer has handed to them, a word
\* of the output is only ever written with the value that the layer defines,
\* and all words are there when calcLayer returns.
THEOREM ExecutionImplementsLayer == Spec => ImplementsLayer
  <1>1. Init => Abstract!LInit
    <2> SUFFICES ASSUME Init PROVE Abstract!LInit
      OBVIOUS
    <2>1. [a \in DOMAIN mm \cap DOMAIN Output(layer) |-> mm[a]] = [a \in {} |-> 0]
      BY DEF Init
    <2>2. (seg > Len(list)) = FALSE
      <3>1. list # <<>> /\ IsSequence(list)
        BY InitImpliesInv, InitImpliesFlow DEF ExecInv, GoodList, FlowInv, ComputesInOrder
      <3>2. Len(list) \in Nat \ {0}
        BY <3>1 DEF IsSequence
      <3> QED BY <3>2 DEF Init
    <2> QED BY <2>1, <2>2 DEF Abstract!LInit
  <1> QED BY <1>1, InitImpliesInv, InitImpliesFlow, NextKeepsInv, NextKeepsFlow, StepImplements, PTL
          DEF Spec, ImplementsLayer, Abstract!LSpec
=============================================================================
