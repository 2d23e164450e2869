-------------------------- MODULE Inference_proofs --------------------------
(* Proofs about the main loop of the runtime and its handshake with the    *)
(* host, for every network, layout, cache line and number of images.       *)
EXTENDS Inference, SharedTheorems, FiniteSetTheorems

-----------------------------------------------------------------------------
(* The layout of the outputs.                                              *)

\* Networks are sequences of layers; every output has cells.
LEMMA NetLayers ==
  ASSUME NEW n \in Nets
  PROVE  /\ DOMAIN n = 1 .. Len(n) /\ Len(n) \in Nat
         /\ \A i \in 1 .. Len(n) :
              /\ n[i].size \in Nat \ {0} /\ n[i].offset \in Nat
              /\ n[i].src \subseteq 1 .. i - 1
              /\ n[i].is_input_layer \in BOOLEAN /\ n[i].produces_binary_data \in BOOLEAN
              /\ n[i].is_input_layer => ~ n[i].produces_binary_data
              /\ ~ n[i].is_input_layer => n[i].src # {}
              /\ Transparent(n[i]) =>
                   \E s \in n[i].src : n[i].src = {s} /\ n[i].offset + n[i].size <= n[s].size
  <1> DEFINE L == [src : SUBSET Nat, is_input_layer : BOOLEAN, produces_binary_data : BOOLEAN,
                   out_is_result : BOOLEAN, size : Nat \ {0}, offset : Nat]
  <1>1. n \in Seq(L)
    BY NetAssumption
  <1>2. DOMAIN n = 1 .. Len(n) /\ Len(n) \in Nat /\ \A i \in 1 .. Len(n) : n[i] \in L
    <2> HIDE DEF L
    <2> QED BY <1>1
  <1>3. \A i \in 1 .. Len(n) :
          /\ n[i].size \in Nat \ {0} /\ n[i].offset \in Nat
          /\ n[i].is_input_layer \in BOOLEAN /\ n[i].produces_binary_data \in BOOLEAN
    BY <1>2
  <1> HIDE DEF L
  <1> QED BY <1>2, <1>3, NetAssumption

\* Aligning moves an address up.
LEMMA AlignUp ==
  ASSUME NEW a \in Nat
  PROVE  Align(a) \in Nat /\ a <= Align(a)
  <1> DEFINE b == a + Alignment - 1
             q == b \div Alignment
             r == b % Alignment
  <1>0. Alignment \in Nat \ {0}
    BY LayoutAssumption
  <1>1. b \in Int /\ Align(a) = q * Alignment
    BY <1>0 DEF Align
  <1>2. b = q * Alignment + r /\ r \in 0 .. Alignment - 1 /\ q \in Int
    <2> HIDE DEF b
    <2> QED BY <1>0, <1>1, DivMod
  <1>3. q * Alignment \in Int
    <2> HIDE DEF q
    <2> QED BY <1>0, <1>2
  <1>4. q * Alignment = b - r
    <2> DEFINE m == q * Alignment
    <2>1. m \in Int /\ b = m + r /\ r \in Int
      BY <1>2, <1>3
    <2> HIDE DEF m, b, r
    <2> QED BY <1>1, <2>1 DEF m
  <1>5. b - r >= a
    <2>1. b = a + Alignment - 1
      OBVIOUS
    <2> HIDE DEF b, r
    <2> QED BY <1>0, <1>2, <2>1
  <1> QED BY <1>1, <1>3, <1>4, <1>5

\* The outputs of the first k layers end where those of one less do, aligned,
\* and the output of layer k.
LEMMA EndRecursion ==
  ASSUME NEW n \in Nets
  PROVE  /\ End(n) \in [0 .. Len(n) -> Nat]
         /\ \A k \in 1 .. Len(n) :
              End(n)[k] = Align(End(n)[k - 1]) + IF Transparent(n[k]) THEN 0 ELSE n[k].size
  <1> DEFINE D == 0 .. Len(n)
             E(f) == [k \in D |-> IF k = 0 THEN 0
                                  ELSE Align(f[k - 1]) + IF Transparent(n[k]) THEN 0 ELSE n[k].size]
             step == [k \in D |-> [f \in [D -> Nat] |-> E(f)[k]]]
  <1>0. Len(n) \in Nat /\ \A k \in 1 .. Len(n) : n[k].size \in Nat
    BY NetLayers
  <1>1. \A f \in [D -> Nat] : E(f) \in [D -> Nat]
    <2> SUFFICES ASSUME NEW f \in [D -> Nat], NEW k \in D PROVE E(f)[k] \in Nat
      OBVIOUS
    <2>1. CASE k = 0
      BY <2>1
    <2>2. CASE k # 0
      <3>1. k - 1 \in D /\ k \in 1 .. Len(n)
        BY <1>0, <2>2
      <3>2. Align(f[k - 1]) \in Nat
        BY <3>1, AlignUp
      <3> QED BY <1>0, <2>2, <3>1, <3>2
    <2> QED BY <2>1, <2>2
  <1>2. step \in [D -> [[D -> Nat] -> Nat]]
    BY <1>1
  <1>3. ASSUME NEW i \in D, NEW f \in [D -> Nat], NEW g \in [D -> Nat],
               \A j \in D : j < i => f[j] = g[j]
        PROVE  step[i][f] = step[i][g]
    <2>1. i # 0 => i - 1 \in D /\ i - 1 < i
      BY <1>0
    <2>2. E(f)[i] = E(g)[i]
      BY <1>3, <2>1
    <2> QED BY <2>2
  <1>4. PICK f \in [D -> Nat] : Solves(f, D, step)
    <2>1. D \in SUBSET (0 .. Len(n)) /\ Nat # {}
      OBVIOUS
    <2> HIDE DEF step, D
    <2> QED BY <1>0, <1>2, <1>3, <2>1, Recursion
  <1>5. f = E(f)
    <2>1. \A i \in D : f[i] = E(f)[i]
      BY <1>4 DEF Solves
    <2> QED BY <2>1
  <1>6. End(n) = E(End(n))
    <2> HIDE DEF D
    <2>1. End(n) = CHOOSE end : end = E(end)
      BY DEF End, D
    <2> HIDE DEF E
    <2> QED BY <1>5, <2>1
  <1>7. End(n) \in [D -> Nat]
    <2> DEFINE T == {k \in Nat : k \in D => End(n)[k] \in Nat}
    <2>1. 0 \in T
      BY <1>0, <1>6
    <2>2. ASSUME NEW k \in Nat, k \in T PROVE k + 1 \in T
      <3> SUFFICES ASSUME k + 1 \in D PROVE End(n)[k + 1] \in Nat
        OBVIOUS
      <3>1. k \in D /\ k + 1 # 0 /\ (k + 1) - 1 = k /\ k + 1 \in 1 .. Len(n)
        BY <1>0
      <3>2. Align(End(n)[k]) \in Nat
        BY <2>2, <3>1, AlignUp
      <3>3. E(End(n))[k + 1] \in Nat
        BY <1>0, <3>1, <3>2
      <3> QED BY <1>6, <3>3
    <2> HIDE DEF T
    <2>3. Nat \subseteq T
      BY <2>1, <2>2, AllNumbers
    <2>4. \A k \in D : End(n)[k] \in Nat
      BY <1>0, <2>3 DEF T
    <2>5. End(n) = [k \in D |-> End(n)[k]]
      BY <1>6
    <2> QED BY <2>4, <2>5
  <1>8. ASSUME NEW k \in 1 .. Len(n)
        PROVE  End(n)[k] = Align(End(n)[k - 1]) + IF Transparent(n[k]) THEN 0 ELSE n[k].size
    <2>1. k \in D /\ k # 0
      BY <1>0
    <2> QED BY <1>6, <2>1
  <1> QED BY <1>7, <1>8

\* The output of a layer lies behind those of the layers before it.
LEMMA EndGrows ==
  ASSUME NEW n \in Nets, NEW i \in 0 .. Len(n), NEW j \in 0 .. Len(n), i <= j
  PROVE  End(n)[i] <= End(n)[j]
  <1> DEFINE T == {k \in Nat : i + k <= Len(n) => End(n)[i] <= End(n)[i + k]}
  <1>0. Len(n) \in Nat /\ End(n) \in [0 .. Len(n) -> Nat]
    BY NetLayers, EndRecursion
  <1>1. 0 \in T
    BY <1>0
  <1>2. ASSUME NEW k \in Nat, k \in T PROVE k + 1 \in T
    <2> SUFFICES ASSUME i + (k + 1) <= Len(n) PROVE End(n)[i] <= End(n)[i + (k + 1)]
      OBVIOUS
    <2> DEFINE m == i + (k + 1)
    <2>1. m \in 1 .. Len(n) /\ m - 1 = i + k /\ i + k \in 0 .. Len(n)
      BY <1>0
    <2> HIDE DEF m
    <2>2. End(n)[m] = Align(End(n)[m - 1]) + IF Transparent(n[m]) THEN 0 ELSE n[m].size
      BY <2>1, EndRecursion
    <2>3. End(n)[m - 1] \in Nat /\ End(n)[i] \in Nat /\ n[m].size \in Nat
      BY <1>0, <2>1, NetLayers
    <2>4. Align(End(n)[m - 1]) \in Nat /\ End(n)[m - 1] <= Align(End(n)[m - 1])
      BY <2>3, AlignUp
    <2>5. End(n)[i] <= End(n)[m - 1]
      BY <1>2, <2>1
    <2>6. End(n)[m - 1] <= End(n)[m]
      BY <2>2, <2>3, <2>4
    <2>7. End(n)[i] <= End(n)[m]
      BY <2>2, <2>3, <2>4, <2>5, <2>6
    <2> QED BY <2>7 DEF m
  <1> HIDE DEF T
  <1>3. j - i \in T
    BY <1>0, <1>1, <1>2, AllNumbers
  <1> QED BY <1>0, <1>3 DEF T

\* A layer that computes, or an input, begins behind the layers before it, a
\* reshape or slice in the output of its source.
LEMMA BaseRecursion ==
  ASSUME NEW n \in Nets
  PROVE  /\ Base(n) \in [1 .. Len(n) -> Nat]
         /\ \A i \in 1 .. Len(n) :
              Base(n)[i] = IF Transparent(n[i])
                           THEN Base(n)[CHOOSE s \in n[i].src : TRUE] + n[i].offset
                           ELSE Align(End(n)[i - 1])
  <1> DEFINE D == 1 .. Len(n)
             E(f) == [i \in D |-> IF Transparent(n[i])
                                  THEN f[CHOOSE s \in n[i].src : TRUE] + n[i].offset
                                  ELSE Align(End(n)[i - 1])]
             step == [i \in D |-> [f \in [D -> Nat] |-> E(f)[i]]]
  <1>0. /\ DOMAIN n = D /\ Len(n) \in Nat
        /\ \A i \in D : n[i].offset \in Nat
        /\ \A i \in D : Transparent(n[i]) =>
             (CHOOSE s \in n[i].src : TRUE) \in D /\ (CHOOSE s \in n[i].src : TRUE) < i
    <2>1. ASSUME NEW i \in D, Transparent(n[i])
          PROVE  (CHOOSE s \in n[i].src : TRUE) \in D /\ (CHOOSE s \in n[i].src : TRUE) < i
      <3>1. (CHOOSE s \in n[i].src : TRUE) \in n[i].src
        BY <2>1, NetLayers
      <3>2. n[i].src \subseteq 1 .. i - 1 /\ Len(n) \in Nat
        BY NetLayers
      <3> QED BY <3>1, <3>2
    <2> QED BY <2>1, NetLayers
  <1>1. ASSUME NEW f \in [D -> Nat] PROVE E(f) \in [D -> Nat]
    <2> SUFFICES ASSUME NEW i \in D PROVE E(f)[i] \in Nat
      OBVIOUS
    <2>1. CASE Transparent(n[i])
      <3>1. f[CHOOSE s \in n[i].src : TRUE] \in Nat /\ n[i].offset \in Nat
        BY <1>0, <2>1
      <3> QED BY <2>1, <3>1
    <2>2. CASE ~ Transparent(n[i])
      <3>1. i - 1 \in 0 .. Len(n)
        BY <1>0
      <3>2. End(n)[i - 1] \in Nat
        BY <3>1, EndRecursion
      <3> QED BY <2>2, <3>2, AlignUp
    <2> QED BY <2>1, <2>2
  <1>2. step \in [D -> [[D -> Nat] -> Nat]]
    BY <1>1
  <1>3. ASSUME NEW i \in D, NEW f \in [D -> Nat], NEW g \in [D -> Nat],
               \A j \in D : j < i => f[j] = g[j]
        PROVE  step[i][f] = step[i][g]
    <2>1. Transparent(n[i]) =>
            f[CHOOSE s \in n[i].src : TRUE] = g[CHOOSE s \in n[i].src : TRUE]
      BY <1>0, <1>3
    <2>2. E(f)[i] = E(g)[i]
      BY <2>1
    <2> QED BY <2>2
  <1>4. PICK f \in [D -> Nat] : Solves(f, D, step)
    <2>1. D \in SUBSET (0 .. Len(n)) /\ Nat # {}
      OBVIOUS
    <2>2. Len(n) \in Nat
      BY <1>0
    <2> HIDE DEF step, D
    <2> QED BY <1>2, <1>3, <2>1, <2>2, Recursion
  <1>5. f = E(f)
    <2>1. \A i \in D : f[i] = E(f)[i]
      BY <1>4 DEF Solves
    <2> QED BY <2>1
  <1>6. Base(n) = E(Base(n))
    <2> HIDE DEF D
    <2>1. Base(n) = CHOOSE base : base = E(base)
      BY <1>0, Zenon DEF Base
    <2> HIDE DEF E
    <2> QED BY <1>5, <2>1
  <1>7. Base(n) \in [D -> Nat]
    <2> DEFINE T == {k \in Nat : \A i \in D : i < k => Base(n)[i] \in Nat}
    <2>1. 0 \in T
      OBVIOUS
    <2>2. ASSUME NEW k \in Nat, k \in T PROVE k + 1 \in T
      <3> SUFFICES ASSUME k \in D PROVE Base(n)[k] \in Nat
        BY <2>2
      <3>1. CASE Transparent(n[k])
        <4>1. Base(n)[CHOOSE s \in n[k].src : TRUE] \in Nat /\ n[k].offset \in Nat
          BY <1>0, <2>2, <3>1
        <4>2. Base(n)[k] = Base(n)[CHOOSE s \in n[k].src : TRUE] + n[k].offset
          BY <1>6, <3>1
        <4> QED BY <4>1, <4>2
      <3>2. CASE ~ Transparent(n[k])
        <4>1. k - 1 \in 0 .. Len(n)
          BY <1>0
        <4>2. End(n)[k - 1] \in Nat
          BY <4>1, EndRecursion
        <4>3. Base(n)[k] = Align(End(n)[k - 1])
          BY <1>6, <3>2
        <4> QED BY <4>2, <4>3, AlignUp
      <3> QED BY <3>1, <3>2
    <2> HIDE DEF T
    <2>3. Len(n) + 1 \in T
      BY <1>0, <2>1, <2>2, AllNumbers
    <2>4. \A k \in D : Base(n)[k] \in Nat
      BY <1>0, <2>3 DEF T
    <2>5. Base(n) = [k \in D |-> Base(n)[k]]
      BY <1>6
    <2> QED BY <2>4, <2>5
  <1>8. \A i \in D : Base(n)[i] = E(Base(n))[i]
    BY <1>6
  <1> QED BY <1>7, <1>8

\* Layers that compute, and inputs, have outputs of their own.
LEMMA OutputsDisjoint ==
  ASSUME NEW n \in Nets, NEW i \in 1 .. Len(n), NEW j \in 1 .. Len(n), i < j,
         ~ Transparent(n[i]), ~ Transparent(n[j])
  PROVE  CellsOf(n, i) \cap CellsOf(n, j) = {}
  <1>1. /\ Len(n) \in Nat /\ n[i].size \in Nat /\ n[j].size \in Nat
        /\ i - 1 \in 0 .. Len(n) /\ j - 1 \in 0 .. Len(n) /\ i \in 0 .. Len(n) /\ i <= j - 1
    BY NetLayers
  <1>2. /\ End(n)[i - 1] \in Nat /\ End(n)[j - 1] \in Nat /\ End(n)[i] \in Nat
        /\ End(n)[i] = Align(End(n)[i - 1]) + n[i].size
    BY <1>1, EndRecursion
  <1>3. Base(n)[i] = Align(End(n)[i - 1]) /\ Base(n)[j] = Align(End(n)[j - 1])
    BY BaseRecursion
  <1>4. End(n)[i] <= End(n)[j - 1]
    BY <1>1, EndGrows
  <1>5. End(n)[j - 1] <= Base(n)[j] /\ Base(n)[j] \in Nat /\ Base(n)[i] \in Nat
    BY <1>2, <1>3, AlignUp
  <1>6. Base(n)[i] + n[i].size <= Base(n)[j]
    BY <1>2, <1>3, <1>4, <1>5
  <1> QED BY <1>1, <1>5, <1>6 DEF CellsOf

\* The output of a reshape or slice is a part of that of its source.
LEMMA TransparentCells ==
  ASSUME NEW n \in Nets, NEW i \in 1 .. Len(n), Transparent(n[i])
  PROVE  \E s \in 1 .. i - 1 : n[i].src = {s} /\ CellsOf(n, i) \subseteq CellsOf(n, s)
  <1>1. PICK s \in n[i].src : n[i].src = {s} /\ n[i].offset + n[i].size <= n[s].size
    BY NetLayers
  <1>2. s \in 1 .. i - 1 /\ s \in 1 .. Len(n) /\ n[i].offset \in Nat /\ n[i].size \in Nat
        /\ n[s].size \in Nat
    BY NetLayers
  <1>3. (CHOOSE t \in n[i].src : TRUE) = s
    <2>1. (CHOOSE t \in n[i].src : TRUE) \in n[i].src
      BY <1>1
    <2> QED BY <1>1, <2>1
  <1>4. Base(n)[i] = Base(n)[s] + n[i].offset /\ Base(n)[s] \in Nat
    <2>1. Base(n)[i] = Base(n)[CHOOSE t \in n[i].src : TRUE] + n[i].offset
      BY BaseRecursion
    <2>2. Base(n)[s] \in Nat
      BY <1>2, BaseRecursion
    <2>3. Base(n)[i] = Base(n)[s] + n[i].offset
      BY <1>3, <2>1, Zenon
    <2> QED BY <2>2, <2>3
  <1>5. CellsOf(n, i) \subseteq CellsOf(n, s)
    <2> DEFINE b == Base(n)[s]
    <2>1. b \in Nat /\ Base(n)[i] = b + n[i].offset
      BY <1>4
    <2> HIDE DEF b
    <2>2. b .. b + n[s].size - 1 = CellsOf(n, s)
      BY DEF CellsOf, b
    <2>3. CellsOf(n, i) = b + n[i].offset .. b + n[i].offset + n[i].size - 1
      BY <2>1 DEF CellsOf
    <2> QED BY <1>1, <1>2, <2>1, <2>2, <2>3
  <1> QED BY <1>1, <1>2, <1>5

\* A layer is transient if it is an input or its source is.
LEMMA TransientRecursion ==
  ASSUME NEW n \in Nets, NEW i \in 1 .. Len(n)
  PROVE  /\ n[i].is_input_layer => IsTransientInput(n, i)
         /\ ~ n[i].produces_binary_data =>
              \A s \in n[i].src : IsTransientInput(n, s) => IsTransientInput(n, i)
  <1> DEFINE D == 1 .. Len(n)
             E(f) == [j \in D |-> \/ n[j].is_input_layer
                                  \/ ~ n[j].produces_binary_data /\ \E s \in n[j].src : f[s]]
             step == [j \in D |-> [f \in [D -> BOOLEAN] |-> E(f)[j]]]
  <1>0. /\ DOMAIN n = D /\ Len(n) \in Nat
        /\ \A j \in D : \A s \in n[j].src : s \in D /\ s < j
    <2>1. ASSUME NEW j \in D, NEW s \in n[j].src PROVE s \in D /\ s < j
      <3>1. n[j].src \subseteq 1 .. j - 1 /\ Len(n) \in Nat
        BY NetLayers
      <3> QED BY <3>1
    <2> QED BY <2>1, NetLayers
  <1>1. ASSUME NEW f \in [D -> BOOLEAN] PROVE E(f) \in [D -> BOOLEAN]
    <2> SUFFICES ASSUME NEW j \in D PROVE E(f)[j] \in BOOLEAN
      OBVIOUS
    <2>1. n[j].is_input_layer \in BOOLEAN
      BY NetLayers
    <2> QED BY <2>1, Zenon
  <1>2. step \in [D -> [[D -> BOOLEAN] -> BOOLEAN]]
    BY <1>1
  <1>3. ASSUME NEW j \in D, NEW f \in [D -> BOOLEAN], NEW g \in [D -> BOOLEAN],
               \A k \in D : k < j => f[k] = g[k]
        PROVE  step[j][f] = step[j][g]
    <2>1. \A s \in n[j].src : f[s] = g[s]
      BY <1>0, <1>3
    <2>2. E(f)[j] = E(g)[j]
      BY <2>1, Zenon
    <2> QED BY <2>2
  <1>4. PICK f \in [D -> BOOLEAN] : Solves(f, D, step)
    <2>1. D \in SUBSET (0 .. Len(n))
      OBVIOUS
    <2>3. BOOLEAN # {}
      BY Zenon
    <2>2. Len(n) \in Nat
      BY <1>0
    <2> HIDE DEF step, D
    <2> QED BY <1>2, <1>3, <2>1, <2>2, <2>3, Recursion
  <1>5. f = E(f)
    <2>1. \A j \in D : f[j] = E(f)[j]
      BY <1>4 DEF Solves
    <2> QED BY <2>1
  <1> DEFINE F == CHOOSE f2 : f2 = E(f2)
  <1>6. F = E(F)
    <2> HIDE DEF E
    <2> QED BY <1>5
  <1>7. ASSUME NEW k PROVE IsTransientInput(n, k) <=> F[k]
    <2> HIDE DEF D
    <2> QED BY <1>0 DEF IsTransientInput
  <1> HIDE DEF F
  <1>8. F[i] = E(F)[i]
    BY <1>6
  <1>9. ASSUME n[i].is_input_layer PROVE F[i]
    <2>1. E(F)[i] = TRUE
      BY <1>9
    <2> HIDE DEF E
    <2> QED BY <1>8, <2>1
  <1>10. ASSUME ~ n[i].produces_binary_data, NEW s \in n[i].src, F[s] PROVE F[i]
    <2>1. E(F)[i] = TRUE
      BY <1>10
    <2> HIDE DEF E
    <2> QED BY <1>8, <2>1
  <1> HIDE DEF E, step, D
  <1> QED BY <1>7, <1>9, <1>10

\* The layers that compute run in the order of their instantiation.
LEMMA ExecutionOrder ==
  ASSUME NEW n \in Nets
  PROVE  /\ \A x \in Executed(n) : /\ LayerExecList(n)[x] \in 1 .. Len(n)
                                   /\ n[LayerExecList(n)[x]].produces_binary_data
         /\ \A i \in 1 .. Len(n) : n[i].produces_binary_data =>
              \E x \in Executed(n) : LayerExecList(n)[x] = i
         /\ \A x, y \in Executed(n) : LayerExecList(n)[x] < LayerExecList(n)[y] => x < y
  <1> DEFINE run == {i \in DOMAIN n : n[i].produces_binary_data}
             upto(i) == {j \in run : j <= i}
             rank == [i \in run |-> Cardinality(upto(i))]
             K == Cardinality(run)
  <1>1. DOMAIN n = 1 .. Len(n) /\ Len(n) \in Nat
    BY NetLayers
  <1>2. IsFiniteSet(1 .. Len(n))
    BY <1>1, FS_Interval
  <1>3. IsFiniteSet(run) /\ K \in Nat
    BY <1>1, <1>2, FS_Subset, FS_CardinalityType
  <1>4. run \subseteq Nat
    BY <1>1
  <1>5. ASSUME NEW i \in run PROVE rank[i] \in 1 .. K /\ IsFiniteSet(upto(i))
    <2>1. upto(i) \in SUBSET run /\ i \in upto(i)
      BY <1>4
    <2> HIDE DEF upto, run
    <2>2. IsFiniteSet(upto(i)) /\ Cardinality(upto(i)) <= K
      BY <1>3, <2>1, FS_Subset
    <2>3. Cardinality(upto(i)) # 0 /\ Cardinality(upto(i)) \in Nat
      BY <2>1, <2>2, FS_EmptySet, FS_CardinalityType
    <2> QED BY <1>3, <2>2, <2>3
  <1>6. ASSUME NEW i \in run, NEW j \in run, i < j PROVE rank[i] < rank[j]
    <2>1. upto(i) \in SUBSET upto(j) /\ j \in upto(j) /\ j \notin upto(i)
      BY <1>4, <1>6
    <2>2. IsFiniteSet(upto(j))
      BY <1>5
    <2>3. rank[i] \in Int /\ rank[j] \in Int
      <3> HIDE DEF rank, run, upto, K
      <3> QED BY <1>3, <1>5
    <2>4. rank[i] = Cardinality(upto(i)) /\ rank[j] = Cardinality(upto(j))
      OBVIOUS
    <2> HIDE DEF upto, rank
    <2>5. Cardinality(upto(i)) <= Cardinality(upto(j))
          /\ Cardinality(upto(i)) # Cardinality(upto(j))
      BY <2>1, <2>2, FS_Subset
    <2> QED BY <2>3, <2>4, <2>5
  <1>7. ASSUME NEW i \in run, NEW j \in run, rank[i] = rank[j] PROVE i = j
    <2>1. i \in Int /\ j \in Int /\ rank[i] \in Int /\ rank[j] \in Int
      <3> HIDE DEF rank, run, upto, K
      <3> QED BY <1>3, <1>4, <1>5
    <2> HIDE DEF rank, run
    <2>2. CASE i < j
      BY <1>6, <1>7, <2>1, <2>2
    <2>3. CASE j < i
      BY <1>6, <1>7, <2>1, <2>3
    <2> QED BY <2>1, <2>2, <2>3
  <1>8. ASSUME NEW x \in 1 .. K PROVE \E i \in run : rank[i] = x
    <2>1. rank \in [run -> 1 .. K]
      BY <1>5
    <2>2. rank \in Injection(run, 1 .. K)
      <3> HIDE DEF rank, run
      <3> QED BY <1>7, <2>1 DEF Injection, IsInjective
    <2>3. IsFiniteSet(1 .. K) /\ Cardinality(1 .. K) = K
      BY <1>3, FS_Interval
    <2> HIDE DEF rank, run
    <2>4. rank \in Surjection(run, 1 .. K)
      BY <2>2, <2>3, FS_Injection DEF K
    <2> QED BY <2>4 DEF Surjection
  <1>9. Executed(n) = 1 .. K
    BY DEF Executed, LayerExecList
  <1> DEFINE lel == LayerExecList(n)
  <1>10. ASSUME NEW x \in 1 .. K PROVE lel[x] \in run /\ rank[lel[x]] = x
    <2>1. lel[x] = CHOOSE i \in run : Cardinality(upto(i)) = x
      BY DEF LayerExecList
    <2>2. \E i \in run : Cardinality(upto(i)) = x
      BY <1>8
    <2> HIDE DEF upto, run, lel
    <2>3. lel[x] \in run /\ Cardinality(upto(lel[x])) = x
      BY <2>1, <2>2
    <2> QED BY <2>3
  <1>11. ASSUME NEW i \in run PROVE \E x \in 1 .. K : lel[x] = i
    <2>1. rank[i] \in 1 .. K
      BY <1>5
    <2> HIDE DEF lel, rank, run, K
    <2>2. lel[rank[i]] = i
      BY <1>7, <1>10, <2>1
    <2> QED BY <2>1, <2>2
  <1>12. ASSUME NEW x \in 1 .. K, NEW y \in 1 .. K, lel[x] < lel[y] PROVE x < y
    <2> HIDE DEF lel, rank, run, K
    <2> QED BY <1>6, <1>10, <1>12
  <1>13. \A x \in Executed(n) : lel[x] \in 1 .. Len(n) /\ n[lel[x]].produces_binary_data
    <2> SUFFICES ASSUME NEW x \in 1 .. K
                 PROVE  lel[x] \in 1 .. Len(n) /\ n[lel[x]].produces_binary_data
      BY <1>9
    <2>1. lel[x] \in run
      BY <1>10
    <2> HIDE DEF lel
    <2> QED BY <1>1, <2>1
  <1>14. \A i \in 1 .. Len(n) : n[i].produces_binary_data => \E x \in Executed(n) : lel[x] = i
    BY <1>1, <1>9, <1>11
  <1>15. \A x, y \in Executed(n) : lel[x] < lel[y] => x < y
    BY <1>9, <1>12
  <1> QED BY <1>13, <1>14, <1>15

\* What a layer reads is a part of an input or of the output of a layer that
\* computes.
LEMMA Roots ==
  ASSUME NEW n \in Nets, NEW i \in 1 .. Len(n)
  PROVE  \/ IsTransientInput(n, i) /\ CellsOf(n, i) \subseteq InputCells(n)
         \/ \E j \in 1 .. i : n[j].produces_binary_data /\ CellsOf(n, i) \subseteq CellsOf(n, j)
  <1> DEFINE R(k) == \/ IsTransientInput(n, k) /\ CellsOf(n, k) \subseteq InputCells(n)
                     \/ \E j \in 1 .. k : /\ n[j].produces_binary_data
                                          /\ CellsOf(n, k) \subseteq CellsOf(n, j)
             T == {m \in Nat : \A k \in 1 .. Len(n) : k <= m => R(k)}
  <1>0. DOMAIN n = 1 .. Len(n) /\ Len(n) \in Nat
    BY NetLayers
  <1>1. 0 \in T
    OBVIOUS
  <1>2. ASSUME NEW m \in Nat, m \in T PROVE m + 1 \in T
    <2> DEFINE k == m + 1
    <2> SUFFICES ASSUME k \in 1 .. Len(n) PROVE R(k)
      BY <1>2
    <2>0. k \in 1 .. k
      OBVIOUS
    <2>1. CASE n[k].is_input_layer
      <3>1. CellsOf(n, k) \subseteq InputCells(n)
        BY <1>0, <2>1 DEF InputCells
      <3> HIDE DEF k
      <3>2. IsTransientInput(n, k)
        BY <2>1, TransientRecursion
      <3> QED BY <3>1, <3>2
    <2>2. CASE n[k].produces_binary_data
      <3> HIDE DEF k
      <3> QED BY <2>0, <2>2
    <2>3. CASE Transparent(n[k]) /\ ~ n[k].produces_binary_data
      <3>1. PICK s \in 1 .. k - 1 : n[k].src = {s} /\ CellsOf(n, k) \subseteq CellsOf(n, s)
        <4> HIDE DEF k
        <4> QED BY <2>3, TransparentCells
      <3>2. s \in 1 .. Len(n) /\ s <= m /\ s < k /\ s \in Nat
        BY <1>0, <3>1
      <3>3. R(s)
        BY <1>2, <3>2
      <3>4. CASE IsTransientInput(n, s) /\ CellsOf(n, s) \subseteq InputCells(n)
        <4> HIDE DEF k
        <4>1. IsTransientInput(n, k)
          BY <2>3, <3>1, <3>4, TransientRecursion
        <4> QED BY <3>1, <3>4, <4>1
      <3>5. ASSUME NEW j \in 1 .. s, n[j].produces_binary_data,
                   CellsOf(n, s) \subseteq CellsOf(n, j)
            PROVE  R(k)
        <4>1. j \in 1 .. k
          BY <3>2
        <4> HIDE DEF k
        <4> QED BY <3>1, <3>5, <4>1
      <3> HIDE DEF k
      <3> QED BY <3>3, <3>4, <3>5
    <2> QED BY <2>1, <2>2, <2>3 DEF Transparent
  <1> HIDE DEF T
  <1>3. i \in T
    BY <1>0, <1>1, <1>2, AllNumbers
  <1> QED BY <1>0, <1>3 DEF T

\* The cells of an output are cells of the memory, and there are some.
LEMMA OutputCells ==
  ASSUME NEW n \in Nets, NEW i \in 1 .. Len(n)
  PROVE  CellsOf(n, i) \subseteq Cells(n) /\ CellsOf(n, i) # {}
  <1>1. DOMAIN n = 1 .. Len(n) /\ n[i].size \in Nat \ {0}
    BY NetLayers
  <1>2. Base(n)[i] \in Nat
    BY BaseRecursion
  <1>3. Base(n)[i] \in CellsOf(n, i)
    BY <1>1, <1>2 DEF CellsOf
  <1> QED BY <1>1, <1>3 DEF Cells

\* The cells of the inputs and results are cells of the memory.
LEMMA HostCells ==
  ASSUME NEW n \in Nets
  PROVE  InputCells(n) \subseteq Cells(n) /\ ResultCells(n) \subseteq Cells(n)
  BY DEF InputCells, ResultCells, Cells

\* A layer reads cells, all of them of an input or computed before it runs.
LEMMA SourceCells ==
  ASSUME NEW n \in Nets, NEW x \in Executed(n)
  PROVE  LET src == UNION {CellsOf(n, s) : s \in n[LayerExecList(n)[x]].src}
         IN  /\ src # {} /\ src \subseteq Cells(n)
             /\ \A c \in src : \/ ReadsInput(n, x) /\ c \in InputCells(n)
                               \/ \E y \in Executed(n) : y < x /\ c \in CellsOf(n, LayerExecList(n)[y])
  <1> DEFINE i == LayerExecList(n)[x]
  <1>1. i \in 1 .. Len(n) /\ n[i].produces_binary_data /\ Len(n) \in Nat
    BY ExecutionOrder, NetLayers
  <1>2. n[i].src # {} /\ n[i].src \subseteq 1 .. i - 1
    <2> HIDE DEF i
    <2>1. /\ n[i].is_input_layer \in BOOLEAN
          /\ n[i].is_input_layer => ~ n[i].produces_binary_data
          /\ ~ n[i].is_input_layer => n[i].src # {}
          /\ n[i].src \subseteq 1 .. i - 1
      BY <1>1, NetLayers
    <2> QED BY <1>1, <2>1
  <1>3. ASSUME NEW s \in n[i].src
        PROVE  s \in 1 .. Len(n) /\ s < i /\ CellsOf(n, s) \subseteq Cells(n) /\ CellsOf(n, s) # {}
    <2>1. s \in 1 .. Len(n) /\ s < i
      <3> HIDE DEF i
      <3> QED BY <1>1, <1>2
    <2> QED BY <2>1, OutputCells
  <1>4. ASSUME NEW s \in n[i].src, NEW c \in CellsOf(n, s)
        PROVE  \/ ReadsInput(n, x) /\ c \in InputCells(n)
               \/ \E y \in Executed(n) : y < x /\ c \in CellsOf(n, LayerExecList(n)[y])
    <2>1. s \in 1 .. Len(n) /\ s < i
      BY <1>3
    <2>2. CASE IsTransientInput(n, s) /\ CellsOf(n, s) \subseteq InputCells(n)
      BY <2>2 DEF ReadsInput
    <2>3. ASSUME NEW j \in 1 .. s, n[j].produces_binary_data, CellsOf(n, s) \subseteq CellsOf(n, j)
          PROVE  \E y \in Executed(n) : y < x /\ c \in CellsOf(n, LayerExecList(n)[y])
      <3>1. j \in 1 .. Len(n) /\ j < i
        <4> HIDE DEF i
        <4> QED BY <1>1, <2>1
      <3>2. PICK y \in Executed(n) : LayerExecList(n)[y] = j
        BY <2>3, <3>1, ExecutionOrder
      <3>3. y < x
        BY <3>1, <3>2, ExecutionOrder
      <3> QED BY <2>3, <3>2, <3>3
    <2> QED BY <2>1, <2>2, <2>3, Roots
  <1>5. UNION {CellsOf(n, s) : s \in n[i].src} # {}
    BY <1>2, <1>3
  <1>6. UNION {CellsOf(n, s) : s \in n[i].src} \subseteq Cells(n)
    BY <1>3
  <1> HIDE DEF i
  <1> QED BY <1>4, <1>5, <1>6 DEF i

\* Results are there to be read, and layers that write results compute them.
LEMMA ResultOutputs ==
  ASSUME NEW n \in Nets, OwnLines(n)
  PROVE  /\ ResultCells(n) # {}
         /\ \A c \in ResultCells(n) : \E y \in Executed(n) :
              WritesResult(n, y) /\ c \in CellsOf(n, LayerExecList(n)[y])
         /\ \A x \in Executed(n) : ~ WritesResult(n, x) =>
              CellsOf(n, LayerExecList(n)[x]) \cap ResultCells(n) = {}
  <1>0. DOMAIN n = 1 .. Len(n) /\ Len(n) \in Nat
    BY NetLayers
  <1>1. ASSUME NEW c \in ResultCells(n)
        PROVE  \E i \in 1 .. Len(n) : /\ n[i].out_is_result /\ n[i].produces_binary_data
                                      /\ c \in CellsOf(n, i)
    BY <1>0 DEF ResultCells, OwnLines
  <1>2. ASSUME NEW c \in ResultCells(n)
        PROVE  \E y \in Executed(n) : WritesResult(n, y) /\ c \in CellsOf(n, LayerExecList(n)[y])
    <2>1. PICK i \in 1 .. Len(n) : /\ n[i].out_is_result /\ n[i].produces_binary_data
                                   /\ c \in CellsOf(n, i)
      BY <1>1
    <2>2. PICK y \in Executed(n) : LayerExecList(n)[y] = i
      BY <2>1, ExecutionOrder
    <2> QED BY <2>1, <2>2 DEF WritesResult
  <1>3. ASSUME NEW x \in Executed(n), ~ WritesResult(n, x), NEW c \in CellsOf(n, LayerExecList(n)[x])
        PROVE  c \notin ResultCells(n)
    <2> SUFFICES ASSUME c \in ResultCells(n) PROVE FALSE
      OBVIOUS
    <2>1. PICK i \in 1 .. Len(n) : /\ n[i].out_is_result /\ n[i].produces_binary_data
                                   /\ c \in CellsOf(n, i)
      BY <1>1
    <2> DEFINE j == LayerExecList(n)[x]
    <2>2. j \in 1 .. Len(n) /\ n[j].produces_binary_data /\ j # i /\ c \in CellsOf(n, j)
      BY <1>3, <2>1, ExecutionOrder DEF WritesResult
    <2>3. ~ Transparent(n[i]) /\ ~ Transparent(n[j])
      BY <2>1, <2>2 DEF Transparent
    <2>4. i < j \/ j < i
      <3> HIDE DEF j
      <3> QED BY <1>0, <2>2
    <2> HIDE DEF j
    <2> QED BY <2>1, <2>2, <2>3, <2>4, OutputsDisjoint
  <1>4. ResultCells(n) # {}
    <2>1. PICK x \in Executed(n) : WritesResult(n, x)
      BY NetAssumption
    <2> DEFINE j == LayerExecList(n)[x]
    <2>2. j \in 1 .. Len(n) /\ n[j].out_is_result
      BY <2>1, ExecutionOrder DEF WritesResult
    <2> HIDE DEF j
    <2>3. CellsOf(n, j) # {} /\ CellsOf(n, j) \subseteq ResultCells(n)
      BY <1>0, <2>2, OutputCells DEF ResultCells
    <2> QED BY <2>3
  <1> QED BY <1>2, <1>3, <1>4

-----------------------------------------------------------------------------
(* The execution list.                                                     *)

\* The execution list has a first entry and a last one.
LEMMA ExecutedInterval ==
  ASSUME NEW n \in Nets
  PROVE  \E k \in Nat \ {0} : Executed(n) = 1 .. k
  <1> DEFINE run == {i \in DOMAIN n : n[i].produces_binary_data}
  <1>1. DOMAIN n = 1 .. Len(n) /\ Len(n) \in Nat
    BY NetAssumption
  <1>2. IsFiniteSet(1 .. Len(n))
    BY <1>1, FS_Interval
  <1>3. IsFiniteSet(run)
    BY <1>1, <1>2, FS_Subset
  <1>4. Cardinality(run) \in Nat
    BY <1>3, FS_CardinalityType
  <1>5. Executed(n) = 1 .. Cardinality(run)
    BY DEF Executed, LayerExecList
  <1>6. \E x \in Executed(n) : ReadsInput(n, x)
    BY NetAssumption
  <1>7. Cardinality(run) # 0
    BY <1>4, <1>5, <1>6
  <1> HIDE DEF run
  <1> QED BY <1>4, <1>5, <1>7

\* The layer after the last one is not in the list.
LEMMA LastLayer ==
  ASSUME NEW n \in Nets, NEW x \in Executed(n), x + 1 \notin Executed(n)
  PROVE  \A y \in Executed(n) : y <= x
  BY ExecutedInterval

\* The list starts at one.
LEMMA FirstLayer ==
  ASSUME NEW n \in Nets
  PROVE  /\ 1 \in Executed(n)
         /\ Executed(n) \subseteq Nat
         /\ \A y \in Executed(n) : 1 <= y
  BY ExecutedInterval

-----------------------------------------------------------------------------
(* The start and the steps of the RISC-V.                                  *)

\* At the start the host owns the input and the place of the results.
LEMMA InitHandshake == Init => HandshakeInv
  BY DEF Init, HandshakeInv, TypeOK, OneOwner, NeedsInput, HoldsResult

\* The test of the loop takes nothing and offers nothing.
LEMMA LoopKeepsInv ==
  ASSUME HandshakeInv, TestLoop
  PROVE  HandshakeInv'
  BY DEF HandshakeInv, TypeOK, OneOwner, NeedsInput, HoldsResult, TestLoop, config, inputs,
         outputs, host

\* The RISC-V takes the input over from arm_input_ready.
LEMMA TakeInputKeepsInv ==
  ASSUME HandshakeInv, TakeInput
  PROVE  HandshakeInv'
  <1> USE DEF HandshakeInv, TakeInput, config, outputs, host
  <1>1. TypeOK'
    BY DEF TypeOK
  <1>2. OneOwner'
    BY DEF OneOwner, NeedsInput, HoldsResult, TypeOK
  <1> QED BY <1>1, <1>2

\* All layers are ahead once the cache has been reset.
LEMMA ResetKeepsInv ==
  ASSUME HandshakeInv, ResetCache
  PROVE  HandshakeInv'
  <1> USE DEF HandshakeInv, ResetCache, config, inputs, outputs, host
  <1>1. net \in Nets
    BY DEF TypeOK
  <1>2. TypeOK'
    BY <1>1, FirstLayer DEF TypeOK
  <1>3. ~ HoldsResult'
    BY <1>1, FirstLayer DEF HoldsResult
  <1>4. OneOwner'
    BY <1>3 DEF OneOwner, NeedsInput
  <1> QED BY <1>2, <1>4

\* A layer before the first result claims nothing.
LEMMA PreLayerKeepsInv ==
  ASSUME HandshakeInv, PreLayer
  PROVE  HandshakeInv'
  <1> USE DEF HandshakeInv, PreLayer, StartLayer, config, inputs, host
  <1>1. net \in Nets /\ xli \in Executed(net) /\ Executed(net) \subseteq Nat
    BY FirstLayer DEF TypeOK
  <1>2. TypeOK'
    BY DEF TypeOK
  <1>3. HoldsResult' => HoldsResult
    <2> SUFFICES ASSUME NEW y \in Executed(net), y <= xli, WritesResult(net, y)
                 PROVE  \E z \in Executed(net) : z < xli /\ WritesResult(net, z)
      BY DEF HoldsResult
    <2>1. CASE y < xli
      BY <2>1
    <2>2. CASE y = xli
      BY <2>2 DEF FirstProducingOutput
    <2> QED BY <1>1, <2>1, <2>2
  <1>4. NeedsInput' => NeedsInput
    BY DEF NeedsInput
  <1>5. OneOwner'
    BY <1>3, <1>4 DEF OneOwner
  <1> QED BY <1>2, <1>5

\* The first layer that writes a result takes the results over from
\* arm_output_parsed.
LEMMA ClaimKeepsInv ==
  ASSUME HandshakeInv, ClaimOutput
  PROVE  HandshakeInv'
  <1> USE DEF HandshakeInv, ClaimOutput, StartLayer, config, inputs, host
  <1>1. TypeOK'
    BY DEF TypeOK
  <1>2. NeedsInput' => NeedsInput
    BY DEF NeedsInput
  <1>3. running => outputParsed
    OBVIOUS
  <1>4. OneOwner'
    BY <1>2, <1>3 DEF OneOwner, TypeOK
  <1> QED BY <1>1, <1>4

\* After the last layer that reads it the input goes back to the host.
LEMMA PostLayerKeepsInv ==
  ASSUME HandshakeInv, PostLayer
  PROVE  HandshakeInv'
  <1> USE DEF HandshakeInv, PostLayer, config, outputs, host
  <1>1. net \in Nets /\ xli \in Executed(net) /\ Executed(net) \subseteq Nat
    BY FirstLayer DEF TypeOK
  <1>2. TypeOK'
    BY DEF TypeOK
  <1>3. NeedsInput' => NeedsInput /\ ~ LastUsingInput(net, xli)
    <2> SUFFICES ASSUME NEW y \in Executed(net), y >= xli + 1, ReadsInput(net, y)
                 PROVE  NeedsInput /\ ~ LastUsingInput(net, xli)
      BY DEF NeedsInput
    <2>1. y > xli /\ y >= xli
      BY <1>1
    <2> QED BY <2>1 DEF NeedsInput, LastUsingInput
  <1>4. LastUsingInput(net, xli) => NeedsInput
    BY <1>1 DEF LastUsingInput, NeedsInput
  <1>5. HoldsResult' => HoldsResult
    <2>1. CASE xli + 1 \in Executed(net)
      BY <1>1, <2>1 DEF HoldsResult
    <2>2. CASE xli + 1 \notin Executed(net)
      <3>1. PICK y \in Executed(net) : WritesResult(net, y)
        BY <1>1, NetAssumption
      <3>2. y <= xli
        BY <1>1, <2>2, LastLayer
      <3> QED BY <3>1, <3>2 DEF HoldsResult
    <2> QED BY <2>1, <2>2
  <1>6. OneOwner'
    BY <1>3, <1>4, <1>5 DEF OneOwner, TypeOK
  <1> QED BY <1>2, <1>6

\* rv_output_ready offers the results to the host.
LEMMA AnnounceKeepsInv ==
  ASSUME HandshakeInv, Announce
  PROVE  HandshakeInv'
  <1> USE DEF HandshakeInv, Announce, config, inputs, host
  <1>1. TypeOK'
    BY DEF TypeOK
  <1>2. ~ NeedsInput' /\ ~ HoldsResult'
    BY DEF NeedsInput, HoldsResult
  <1>3. HoldsResult
    BY DEF HoldsResult
  <1>4. OneOwner'
    BY <1>2, <1>3 DEF OneOwner, TypeOK
  <1> QED BY <1>1, <1>4

\* The layers, the cache and the cells of the host do not touch the handshake.
LEMMA MemoryKeepsInv ==
  ASSUME HandshakeInv,
         UNCHANGED <<config, inputs, outputs, running, pc, xli, feeding, parsing>>
  PROVE  HandshakeInv'
  BY DEF HandshakeInv, TypeOK, OneOwner, NeedsInput, HoldsResult, config, inputs, outputs

-----------------------------------------------------------------------------
(* The steps of the host.                                                  *)

\* Each end of the host takes over what a register offers it, and offers it
\* in turn; a stop gives up every claim.
LEMMA HostKeepsInv ==
  ASSUME HandshakeInv, StartImage \/ HandOver \/ StartResult \/ TakeResult \/ Stop
  PROVE  HandshakeInv'
  <1> USE DEF HandshakeInv, config, inputs, outputs, board
  <1>1. CASE StartImage
    BY <1>1 DEF StartImage, TypeOK, OneOwner, NeedsInput, HoldsResult
  <1>2. CASE HandOver
    BY <1>2 DEF HandOver, TypeOK, OneOwner, NeedsInput, HoldsResult
  <1>3. CASE StartResult
    BY <1>3 DEF StartResult, TypeOK, OneOwner, NeedsInput, HoldsResult
  <1>4. CASE TakeResult
    BY <1>4 DEF TakeResult, TypeOK, OneOwner, NeedsInput, HoldsResult
  <1>5. CASE Stop
    BY <1>5 DEF Stop, TypeOK, OneOwner
  <1> QED BY <1>1, <1>2, <1>3, <1>4, <1>5

-----------------------------------------------------------------------------

\* Every step keeps the invariant of the handshake.
LEMMA NextKeepsInv ==
  ASSUME HandshakeInv, [Next]_vars PROVE HandshakeInv'
  <1>1. CASE TestLoop \/ TakeInput \/ ResetCache \/ PreLayer \/ ClaimOutput \/ PostLayer \/ Announce
    BY <1>1, LoopKeepsInv, TakeInputKeepsInv, ResetKeepsInv, PreLayerKeepsInv, ClaimKeepsInv,
       PostLayerKeepsInv, AnnounceKeepsInv
  <1>2. CASE StartImage \/ HandOver \/ StartResult \/ TakeResult \/ Stop
    BY <1>2, HostKeepsInv
  <1>3. ASSUME NEW c \in Cells(net), Compute(c) \/ FlushLine(LineOf(c)) PROVE HandshakeInv'
    BY <1>3, MemoryKeepsInv DEF Compute, FlushLine, config, inputs, outputs, board, host
  <1>4. ASSUME NEW c \in Cells(net), Evict(LineOf(c)) PROVE HandshakeInv'
    BY <1>4, MemoryKeepsInv DEF Evict, config, inputs, outputs, board, host
  <1>5. ASSUME NEW c \in Cells(net), WriteCell(c) \/ ReadCell(c) PROVE HandshakeInv'
    BY <1>5, MemoryKeepsInv DEF WriteCell, ReadCell, config, inputs, outputs, board
  <1>6. CASE UNCHANGED vars
    BY <1>6, MemoryKeepsInv DEF vars, config, inputs, outputs, board, host
  <1> QED BY <1>1, <1>2, <1>3, <1>4, <1>5, <1>6 DEF Next, RiscV, Host

\* Input and results have one owner at a time until the host stops the
\* board: the registers of runtime.cpp are a token each.
THEOREM HandshakeCorrect == Spec => []HandshakeInv
  <1>1. HandshakeInv /\ [Next]_vars => HandshakeInv'
    BY NextKeepsInv
  <1> QED BY InitHandshake, <1>1, PTL DEF Spec

\* No layer reads the input while the host writes it, and none writes a
\* result while the host reads it, for every network generateNet accepts
\* without a warning.
THEOREM NoRaceCorrect == Spec => []NoRace
  <1>1. HandshakeInv => NoRace
    <2> SUFFICES ASSUME HandshakeInv, running, pc = "layer"
                 PROVE  /\ ReadsInput(net, xli) => ~ feeding
                        /\ WritesResult(net, xli) => ~ parsing
      BY DEF NoRace
    <2>1. net \in Nets /\ xli \in Executed(net) /\ xli \in Nat
      BY FirstLayer DEF HandshakeInv, TypeOK
    <2>2. ReadsInput(net, xli) => NeedsInput
      BY <2>1 DEF NeedsInput
    <2>3. WritesResult(net, xli) => HoldsResult
      BY <2>1 DEF HoldsResult
    <2> QED BY <2>2, <2>3 DEF HandshakeInv, OneOwner
  <1> QED BY HandshakeCorrect, <1>1, PTL

-----------------------------------------------------------------------------
(* The images: what every step does to the cells.                          *)

\* What holds while the host lets the board run a network with lines of its
\* own for the input.
Streaming == HandshakeInv /\ running /\ OwnLines(net) /\ DataInv

\* The facts about the network that the steps need.
LEMMA StreamingFacts ==
  ASSUME Streaming
  PROVE  /\ net \in Nets /\ given \in Nat /\ Taken \in Int /\ Finished \in Int
         /\ mem \in [Cells(net) -> Nat] /\ copy \in [Cells(net) -> Nat]
         /\ InputCells(net) \subseteq Cells(net) /\ ResultCells(net) \subseteq Cells(net)
         /\ \A x \in Executed(net) : CellsOf(net, LayerExecList(net)[x]) \subseteq Cells(net)
         /\ NeedsInput => ~ inputReady /\ ~ feeding /\ Taken = given
         /\ feeding => ~ inputReady
         /\ HoldsResult => ~ outputReady /\ ~ parsing
  <1>1. net \in Nets /\ inputReady \in BOOLEAN
    BY DEF Streaming, HandshakeInv, TypeOK
  <1>2. given \in Nat
    <2>1. Images \in Nat
      BY NetAssumption DEF Images
    <2> QED BY <2>1 DEF Streaming, DataInv, ImagesCounted
  <1>3. Taken \in Int
    BY <1>2 DEF Taken
  <1>4. Finished \in Int
    BY <1>3 DEF Finished
  <1>5. mem \in [Cells(net) -> Nat] /\ copy \in [Cells(net) -> Nat]
    BY DEF Streaming, DataInv, CacheInStep
  <1>6. ASSUME NEW x \in Executed(net) PROVE CellsOf(net, LayerExecList(net)[x]) \subseteq Cells(net)
    BY <1>1, ExecutionOrder, OutputCells
  <1>7. /\ NeedsInput => ~ inputReady /\ ~ feeding /\ Taken = given
        /\ feeding => ~ inputReady
        /\ HoldsResult => ~ outputReady /\ ~ parsing
    BY DEF Streaming, HandshakeInv, OneOwner, Taken
  <1> QED BY <1>1, <1>2, <1>3, <1>4, <1>5, <1>6, <1>7, HostCells

\* Outputs lie apart from the input.
LEMMA OutputNotInput ==
  ASSUME net \in Nets, OwnLines(net), NEW x \in Executed(net),
         NEW d \in CellsOf(net, LayerExecList(net)[x])
  PROVE  d \notin InputCells(net) /\ \A c \in InputCells(net) : LineOf(c) # LineOf(d)
  BY DEF OwnLines

\* ... and so does what has been computed, and the results.
LEMMA ComputedNotInput ==
  ASSUME Streaming
  PROVE  /\ Computed \subseteq Cells(net) \ InputCells(net)
         /\ ResultCells(net) \subseteq Cells(net) \ InputCells(net)
  <1>1. net \in Nets /\ OwnLines(net) /\ (pc = "layer" => xli \in Executed(net))
    BY DEF Streaming, HandshakeInv, TypeOK
  <1>2. ASSUME NEW d \in Computed PROVE \E x \in Executed(net) : d \in CellsOf(net, LayerExecList(net)[x])
    BY <1>1 DEF Computed
  <1>3. ASSUME NEW d \in ResultCells(net)
        PROVE  \E x \in Executed(net) : d \in CellsOf(net, LayerExecList(net)[x])
    BY <1>1, ResultOutputs
  <1> QED BY <1>1, <1>2, <1>3, OutputNotInput, StreamingFacts

\* Steps of the RISC-V that leave the cells and the host alone.
LEMMA ControlKeepsData ==
  ASSUME Streaming, UNCHANGED <<config, inputReady, outputReady, mem, cache, host>>,
         Finished' = Finished,
         NeedsInput' => NeedsInput /\ pc # "reset",
         pc' = "layer" => todo' \subseteq CellsOf(net, LayerExecList(net)[xli'])
                             /\ net' = net,
         Computed' \subseteq Computed
  PROVE  DataInv'
  <1> USE DEF Streaming, DataInv, config, cache, host
  <1>1. ImagesCounted'
    BY DEF ImagesCounted, Images
  <1>2. CacheInStep'
    BY DEF CacheInStep
  <1>3. InputThere'
    BY DEF InputThere, View
  <1>4. OutputsThere'
    <2>1. Taken' = Taken /\ \A c : View(c)' = View(c)
      BY DEF Taken, View
    <2> QED BY <2>1 DEF OutputsThere
  <1>5. ResultsThere'
    BY DEF ResultsThere, View
  <1> QED BY <1>1, <1>2, <1>3, <1>4, <1>5

\* The test of the loop.
LEMMA LoopKeepsData ==
  ASSUME Streaming, TestLoop PROVE DataInv'
  <1>1. /\ UNCHANGED <<config, inputReady, outputReady, mem, cache, host>>
        /\ pc = "loop" /\ pc' \in {"await", "exit"}
    BY DEF TestLoop, inputs, outputs
  <1>2. Finished' = Finished
    BY <1>1 DEF Finished, Taken, host
  <1>3. ~ NeedsInput'
    BY <1>1 DEF NeedsInput
  <1>4. Computed' = {}
    BY <1>1 DEF Computed
  <1> QED BY <1>1, <1>2, <1>3, <1>4, ControlKeepsData

\* A layer begins with all of its cells to compute.
LEMMA StartKeepsData ==
  ASSUME Streaming, PreLayer \/ ClaimOutput PROVE DataInv'
  <1>1. /\ UNCHANGED <<config, inputReady, outputReady, mem, cache, host, xli>>
        /\ pc = "pre" /\ pc' = "layer" /\ todo' = CellsOf(net, LayerExecList(net)[xli])
    BY DEF PreLayer, ClaimOutput, StartLayer, inputs, outputs
  <1>2. Finished' = Finished
    BY <1>1 DEF Finished, Taken, host
  <1>3. NeedsInput' => NeedsInput /\ pc # "reset"
    BY <1>1 DEF NeedsInput, config
  <1>4. Computed' \subseteq Computed
    BY <1>1 DEF Computed, config
  <1> QED BY <1>1, <1>2, <1>3, <1>4, ControlKeepsData DEF config

\* A layer ends with all of its cells computed.
LEMMA PostLayerKeepsData ==
  ASSUME Streaming, PostLayer PROVE DataInv'
  <1>1. /\ UNCHANGED <<config, inputReady, outputReady, mem, cache, host>>
        /\ pc = "layer" /\ todo = {} /\ net' = net
        /\ IF xli + 1 \in Executed(net) THEN pc' = "pre" /\ xli' = xli + 1
           ELSE pc' = "flush" /\ xli' = xli
    BY DEF PostLayer, outputs, config
  <1>2. Finished' = Finished
    BY <1>1 DEF Finished, Taken, host
  <1>3. net \in Nets /\ xli \in Executed(net) /\ Executed(net) \subseteq Nat
    BY <1>1, FirstLayer DEF Streaming, HandshakeInv, TypeOK
  <1>4. NeedsInput' => NeedsInput /\ pc # "reset"
    <2> SUFFICES ASSUME NeedsInput' PROVE NeedsInput
      BY <1>1
    <2>1. pc' = "pre" /\ xli' = xli + 1
      BY <1>1 DEF NeedsInput
    <2>2. PICK y \in Executed(net) : y >= xli + 1 /\ ReadsInput(net, y)
      BY <1>1, <2>1 DEF NeedsInput
    <2>3. y >= xli
      BY <1>3, <2>2
    <2> QED BY <1>1, <2>2, <2>3 DEF NeedsInput
  <1>5. Computed' \subseteq Computed
    <2> SUFFICES ASSUME NEW c \in Computed' PROVE c \in Computed
      OBVIOUS
    <2>1. PICK y \in Executed(net) : /\ c \in CellsOf(net, LayerExecList(net)[y])
                                     /\ y < xli + 1 \/ (pc' = "flush" /\ xli + 1 \notin Executed(net))
      BY <1>1 DEF Computed
    <2>2. y <= xli
      <3>1. CASE y < xli + 1
        BY <1>3, <3>1
      <3>2. CASE xli + 1 \notin Executed(net)
        BY <1>3, <3>2, LastLayer
      <3> QED BY <2>1, <3>1, <3>2
    <2>3. c \in Cells(net)
      BY <1>1 DEF Computed
    <2>4. CASE y < xli
      <3>1. pc \in {"pre", "layer", "flush"}
        BY <1>1
      <3>2. c \in CellsOf(net, LayerExecList(net)[y])
        BY <2>1, Zenon
      <3> QED BY <2>3, <2>4, <3>1, <3>2, Zenon DEF Computed
    <2>5. CASE y = xli
      <3>1. pc = "layer" /\ todo = {}
        BY <1>1
      <3>2. c \in CellsOf(net, LayerExecList(net)[xli]) \ todo
        BY <2>1, <2>5, <3>1, Zenon
      <3> QED BY <2>3, <3>1, <3>2, Zenon DEF Computed
    <2> QED BY <1>3, <2>2, <2>4, <2>5
  <1>6. pc' # "layer"
    BY <1>1
  <1> QED BY <1>1, <1>2, <1>4, <1>5, <1>6, ControlKeepsData

\* The RISC-V takes the image that the register offers.
LEMMA TakeInputKeepsData ==
  ASSUME Streaming, TakeInput PROVE DataInv'
  <1>1. /\ UNCHANGED <<config, outputReady, mem, cache, host>>
        /\ pc = "await" /\ pc' = "reset" /\ inputReady /\ ~ inputReady'
    BY DEF TakeInput, outputs, Streaming
  <1>2. Taken' = given /\ Taken = given - 1 /\ Finished' = Finished /\ given' = given
    BY <1>1, StreamingFacts DEF Finished, Taken, host
  <1> USE DEF Streaming, DataInv, config, cache, host
  <1>3. ImagesCounted'
    BY <1>1, <1>2 DEF ImagesCounted, Images
  <1>4. CacheInStep'
    BY <1>1 DEF CacheInStep
  <1>5. InputThere'
    BY <1>1 DEF InputThere
  <1>6. Computed' = {}
    BY <1>1 DEF Computed
  <1>7. OutputsThere'
    BY <1>1, <1>6 DEF OutputsThere
  <1>8. ResultsThere'
    BY <1>1, <1>2 DEF ResultsThere, View
  <1> QED BY <1>3, <1>4, <1>5, <1>7, <1>8

\* An empty cache shows the memory.
LEMMA ResetKeepsData ==
  ASSUME Streaming, ResetCache PROVE DataInv'
  <1>1. /\ UNCHANGED <<config, inputReady, outputReady, mem, copy, host>>
        /\ pc = "reset" /\ pc' = "pre" /\ xli' = 1 /\ held' = {} /\ dirty' = {}
    BY DEF ResetCache, outputs, inputs
  <1>2. Taken' = Taken /\ Finished' = Finished
    BY <1>1 DEF Finished, Taken, host
  <1>3. \A c : View(c)' = mem[c]
    BY <1>1 DEF View
  <1>4. NeedsInput
    BY <1>1 DEF NeedsInput
  <1>5. Computed' = {}
    <2>1. net \in Nets /\ net' = net
      BY <1>1, StreamingFacts DEF config
    <2>2. \A y \in Executed(net) : ~ (y < 1)
      BY <2>1, FirstLayer
    <2> QED BY <1>1, <2>1, <2>2 DEF Computed
  <1> USE DEF Streaming, DataInv, config, cache, host
  <1>6. ImagesCounted'
    BY <1>1, <1>2 DEF ImagesCounted, Images
  <1>7. CacheInStep'
    BY <1>1 DEF CacheInStep
  <1>8. InputThere'
    BY <1>1, <1>3, <1>4 DEF InputThere
  <1>9. OutputsThere'
    BY <1>1, <1>5 DEF OutputsThere
  <1>10. ResultsThere'
    BY <1>1, <1>2, <1>3 DEF ResultsThere
  <1> QED BY <1>6, <1>7, <1>8, <1>9, <1>10

\* A cell is computed from cells of the image taken last, and is one then.
LEMMA ComputeStep ==
  ASSUME Streaming, NEW c \in Cells(net), Compute(c)
  PROVE  /\ copy' \in [Cells(net) -> Nat] /\ held \subseteq held'
         /\ LineOf(c) \in held' /\ dirty' = dirty \cup {LineOf(c)}
         /\ View(c)' = Taken
         /\ \A d \in Cells(net) \ {c} :
              /\ View(d)' = View(d)
              /\ LineOf(d) \in held' => copy'[d] = View(d)
  <1> DEFINE src == UNION {CellsOf(net, s) : s \in net[LayerExecList(net)[xli]].src}
             ls == {LineOf(d) : d \in src \cup {c}}
             F == Filled(ls)
             tags == {F[d] : d \in src}
  <1>1. /\ copy' = [F EXCEPT ![c] = IF Cardinality(tags) = 1 THEN CHOOSE t \in tags : TRUE ELSE None]
        /\ held' = held \cup ls /\ dirty' = dirty \cup {LineOf(c)} /\ mem' = mem /\ net' = net
        /\ pc = "layer" /\ net \in Nets /\ xli \in Executed(net)
    BY StreamingFacts DEF Compute, config, Streaming, HandshakeInv, TypeOK
  <1>2. /\ mem \in [Cells(net) -> Nat] /\ copy \in [Cells(net) -> Nat]
    BY StreamingFacts
  <1>3. F \in [Cells(net) -> Nat]
    BY <1>2 DEF Filled
  <1>4. ASSUME NEW d \in Cells(net), LineOf(d) \in held \cup ls PROVE F[d] = View(d)
    <2> HIDE DEF ls
    <2> QED BY <1>4 DEF Filled, View
  <1>5. /\ src # {} /\ src \subseteq Cells(net)
        /\ \A d \in src :
             \/ ReadsInput(net, xli) /\ d \in InputCells(net)
             \/ \E y \in Executed(net) : y < xli /\ d \in CellsOf(net, LayerExecList(net)[y])
    BY <1>1, SourceCells
  <1> HIDE DEF F
  <1>6. ASSUME NEW d \in src PROVE F[d] = Taken
    <2>1. d \in Cells(net) /\ LineOf(d) \in ls
      BY <1>5
    <2>2. F[d] = View(d)
      BY <1>4, <2>1
    <2>3. CASE ReadsInput(net, xli) /\ d \in InputCells(net)
      <3>1. NeedsInput
        <4>1. xli >= xli
          BY <1>1, FirstLayer
        <4> QED BY <1>1, <2>3, <4>1 DEF NeedsInput
      <3>2. View(d) = given
        BY <1>1, <2>3, <3>1 DEF Streaming, DataInv, InputThere
      <3> QED BY <2>2, <3>1, <3>2, StreamingFacts
    <2>4. ASSUME NEW y \in Executed(net), y < xli, d \in CellsOf(net, LayerExecList(net)[y])
          PROVE  F[d] = Taken
      <3>1. d \in Computed
        <4>1. pc \in {"pre", "layer", "flush"}
          BY <1>1
        <4> QED BY <2>1, <2>4, <4>1, Zenon DEF Computed
      <3> QED BY <2>2, <3>1 DEF Streaming, DataInv, OutputsThere
    <2> QED BY <1>5, <2>3, <2>4
  <1> HIDE DEF src
  <1>7. tags = {Taken} /\ Taken \in Nat
    <2>1. PICK d \in src : TRUE
      BY <1>5
    <2>2. F[d] \in Nat /\ F[d] = Taken
      BY <1>3, <1>5, <1>6
    <2> QED BY <1>6, <2>1, <2>2
  <1>8. copy' = [F EXCEPT ![c] = Taken]
    <2>1. Cardinality({Taken}) = 1 /\ (CHOOSE t \in {Taken} : TRUE) = Taken
      BY FS_Singleton
    <2> HIDE DEF tags
    <2> QED BY <1>1, <1>7, <2>1
  <1>9. LineOf(c) \in ls
    OBVIOUS
  <1> HIDE DEF ls, tags
  <1>10. View(c)' = Taken
    BY <1>1, <1>3, <1>8, <1>9 DEF View
  <1>11. ASSUME NEW d \in Cells(net) \ {c}
         PROVE  View(d)' = View(d) /\ (LineOf(d) \in held' => copy'[d] = View(d))
    <2>1. copy'[d] = F[d]
      BY <1>3, <1>8, <1>11
    <2>2. CASE LineOf(d) \in held \cup ls
      <3>1. F[d] = View(d)
        BY <1>4, <2>2
      <3>2. LineOf(d) \in held'
        BY <1>1, <2>2
      <3> QED BY <2>1, <3>1, <3>2 DEF View
    <2>3. CASE LineOf(d) \notin held \cup ls
      <3>1. LineOf(d) \notin held' /\ LineOf(d) \notin held /\ mem' = mem
        BY <1>1, <2>3
      <3> QED BY <3>1 DEF View
    <2> QED BY <2>2, <2>3
  <1>12. copy' \in [Cells(net) -> Nat]
    BY <1>3, <1>7, <1>8
  <1> QED BY <1>1, <1>9, <1>10, <1>11, <1>12

\* A layer computes a cell: apart from the input, and from the results that
\* the host may still read.
LEMMA ComputeKeepsData ==
  ASSUME Streaming, NEW c \in Cells(net), Compute(c) PROVE DataInv'
  <1>1. /\ UNCHANGED <<pc, xli, config, inputs, outputs, mem, host>>
        /\ pc = "layer" /\ c \in todo /\ todo' = todo \ {c}
        /\ net \in Nets /\ OwnLines(net) /\ xli \in Executed(net)
    BY DEF Compute, Streaming, HandshakeInv, TypeOK
  <1>2. /\ copy' \in [Cells(net) -> Nat] /\ held \subseteq held'
        /\ LineOf(c) \in held' /\ dirty' = dirty \cup {LineOf(c)}
        /\ View(c)' = Taken
        /\ \A d \in Cells(net) \ {c} :
             /\ View(d)' = View(d)
             /\ LineOf(d) \in held' => copy'[d] = View(d)
    BY ComputeStep
  <1>3. /\ Taken' = Taken /\ Finished' = Finished /\ net' = net /\ once' = once
        /\ NeedsInput' = NeedsInput /\ inputReady' = inputReady
    BY <1>1 DEF Taken, Finished, NeedsInput, inputs, host, config
  <1>4. c \in CellsOf(net, LayerExecList(net)[xli])
    BY <1>1 DEF Streaming, DataInv, OutputsThere
  <1>5. c \notin InputCells(net) /\ \A d \in InputCells(net) : LineOf(d) # LineOf(c)
    BY <1>1, <1>4, OutputNotInput
  <1>6. outputReady \/ parsing => c \notin ResultCells(net)
    <2>1. xli <= xli
      BY <1>1, FirstLayer
    <2>2. WritesResult(net, xli) => HoldsResult
      BY <1>1, <2>1 DEF HoldsResult
    <2> QED BY <1>1, <1>4, <2>2, ResultOutputs, StreamingFacts
  <1>7. Computed' \subseteq Computed \cup {c}
    BY <1>1, <1>3 DEF Computed
  <1>8. Computed \subseteq Cells(net) /\ InputCells(net) \subseteq Cells(net)
        /\ ResultCells(net) \subseteq Cells(net)
    BY ComputedNotInput, StreamingFacts
  <1> USE DEF Streaming, DataInv
  <1>9. ImagesCounted'
    BY <1>1, <1>3 DEF ImagesCounted, Images, host, outputs
  <1>10. CacheInStep'
    <2>1. mem' \in [Cells(net)' -> Nat] /\ copy' \in [Cells(net)' -> Nat] /\ dirty' \subseteq held'
      BY <1>1, <1>2, <1>3 DEF CacheInStep
    <2>2. ASSUME NEW d \in InputCells(net) PROVE LineOf(d) \notin dirty'
      BY <1>2, <1>5 DEF CacheInStep
    <2>3. ASSUME NEW d \in Cells(net) \ InputCells(net), LineOf(d) \in held' \ dirty'
          PROVE  copy'[d] = mem'[d]
      <3>1. d # c /\ LineOf(d) \notin dirty
        BY <1>2, <2>3
      <3>2. copy'[d] = View(d)
        BY <1>2, <2>3, <3>1
      <3>3. View(d) = mem[d]
        BY <3>1 DEF View, CacheInStep
      <3> QED BY <1>1, <3>2, <3>3
    <2> QED BY <1>3, <2>1, <2>2, <2>3 DEF CacheInStep
  <1>11. InputThere'
    <2>1. \A d \in InputCells(net) : View(d)' = View(d)
      BY <1>2, <1>5, <1>8
    <2> QED BY <1>1, <1>3, <2>1 DEF InputThere, host
  <1>12. OutputsThere'
    BY <1>1, <1>2, <1>3, <1>7, <1>8 DEF OutputsThere
  <1>13. ResultsThere'
    <2>1. outputReady \/ parsing => \A d \in ResultCells(net) : View(d)' = View(d)
      BY <1>2, <1>6, <1>8
    <2> QED BY <1>1, <1>3, <2>1 DEF ResultsThere, host, outputs
  <1> QED BY <1>9, <1>10, <1>11, <1>12, <1>13

\* A line goes back to the memory: the layers see what they saw.
LEMMA WriteBackKeepsData ==
  ASSUME Streaming, NEW c \in Cells(net), FlushLine(LineOf(c)) \/ Evict(LineOf(c)) PROVE DataInv'
  <1> PICK l : l = LineOf(c)
    OBVIOUS
  <1>0. /\ mem' = WrittenBack(l) /\ dirty' = dirty \ {l} /\ held' \in {held, held \ {l}}
        /\ UNCHANGED <<copy, board, config, inputs, outputs, host>>
    BY DEF FlushLine, Evict
  <1> USE <1>0
  <1>1. /\ Taken' = Taken /\ Finished' = Finished /\ net' = net /\ once' = once
        /\ NeedsInput' = NeedsInput /\ inputReady' = inputReady /\ Computed' = Computed
        /\ pc' = pc /\ todo' = todo /\ xli' = xli
    BY DEF Taken, Finished, NeedsInput, Computed, inputs, host, config, board
  <1>2. /\ mem \in [Cells(net) -> Nat] /\ copy \in [Cells(net) -> Nat]
        /\ InputCells(net) \subseteq Cells(net) /\ ResultCells(net) \subseteq Cells(net) \ InputCells(net)
        /\ Computed \subseteq Cells(net) \ InputCells(net)
    BY StreamingFacts, ComputedNotInput
  <1>3. mem' \in [Cells(net) -> Nat]
    BY <1>2 DEF WrittenBack
  <1>4. ASSUME NEW d \in Cells(net)
        PROVE  mem'[d] = IF LineOf(d) = l /\ l \in dirty THEN copy[d] ELSE mem[d]
    BY DEF WrittenBack
  <1>5. dirty \subseteq held /\ \A d \in InputCells(net) : LineOf(d) \notin dirty
    BY DEF Streaming, DataInv, CacheInStep
  <1>6. ASSUME NEW d \in Cells(net) \ InputCells(net), LineOf(d) \in held, LineOf(d) \notin dirty
        PROVE  copy[d] = mem[d]
    BY <1>6 DEF Streaming, DataInv, CacheInStep
  <1>7. ASSUME NEW d \in InputCells(net) PROVE mem'[d] = mem[d]
    BY <1>2, <1>4, <1>5
  <1>8. ASSUME NEW d \in Cells(net) \ InputCells(net)
        PROVE  View(d)' = View(d) /\ mem'[d] \in {mem[d], View(d)}
    <2>1. CASE LineOf(d) # l
      BY <1>4, <2>1 DEF View
    <2>2. CASE LineOf(d) = l /\ l \in dirty
      BY <1>4, <1>5, <2>2 DEF View
    <2>3. CASE LineOf(d) = l /\ l \notin dirty
      BY <1>4, <1>6, <2>3 DEF View
    <2> QED BY <2>1, <2>2, <2>3
  <1> USE DEF Streaming, DataInv
  <1>9. ImagesCounted'
    BY <1>1 DEF ImagesCounted, Images, host, outputs
  <1>10. CacheInStep'
    <2>1. ASSUME NEW d \in Cells(net) \ InputCells(net), LineOf(d) \in held' \ dirty'
          PROVE  copy[d] = mem'[d]
      <3>1. CASE LineOf(d) = l /\ l \in dirty
        BY <1>4, <3>1
      <3>2. CASE LineOf(d) \notin dirty
        BY <1>4, <1>6, <2>1, <3>2
      <3> QED BY <2>1, <3>1, <3>2
    <2> QED BY <1>1, <1>2, <1>3, <1>5, <2>1 DEF CacheInStep
  <1>11. InputThere'
    <2>1. ASSUME NEW d \in InputCells(net), NeedsInput PROVE View(d)' \in {View(d), mem[d]}
      BY <1>7, <2>1 DEF View
    <2>2. ASSUME NEW d \in InputCells(net), NeedsInput PROVE mem[d] = given
      BY <2>2 DEF InputThere
    <2> QED BY <1>1, <1>7, <2>1, <2>2 DEF InputThere, host
  <1>12. OutputsThere'
    BY <1>1, <1>2, <1>8 DEF OutputsThere
  <1>13. ResultsThere'
    BY <1>1, <1>2, <1>8 DEF ResultsThere, host, outputs
  <1> QED BY <1>9, <1>10, <1>11, <1>12, <1>13

\* The results are in the memory when they are announced.
LEMMA AnnounceKeepsData ==
  ASSUME Streaming, Announce PROVE DataInv'
  <1>1. /\ UNCHANGED <<config, inputs, mem, cache, host>>
        /\ pc = "flush" /\ dirty = {} /\ outputReady' /\ pc' \in {"loop", "exit"}
        /\ net \in Nets /\ OwnLines(net)
    BY DEF Announce, Streaming, HandshakeInv, TypeOK
  <1>2. ~ outputReady /\ ~ parsing
    BY <1>1, StreamingFacts DEF HoldsResult
  <1>3. /\ Taken' = Taken /\ Finished = Taken - 1 /\ Finished' = Taken /\ Taken \in Int
        /\ net' = net /\ once' = once /\ inputReady' = inputReady
        /\ \A d : View(d)' = View(d)
    BY <1>1, StreamingFacts DEF Taken, Finished, host, config, inputs, View, cache
  <1>4. ~ NeedsInput' /\ Computed' = {}
    BY <1>1 DEF NeedsInput, Computed
  <1>5. ASSUME NEW d \in ResultCells(net) PROVE mem[d] = Taken /\ View(d) = Taken
    <2>1. PICK y \in Executed(net) : d \in CellsOf(net, LayerExecList(net)[y])
      BY <1>1, ResultOutputs
    <2>2. d \in Cells(net) /\ d \notin InputCells(net)
      BY ComputedNotInput
    <2>3. d \in Computed
      <3>1. pc = "flush" /\ pc \in {"pre", "layer", "flush"}
        BY <1>1
      <3> QED BY <2>1, <2>2, <3>1, Zenon DEF Computed
    <2>4. View(d) = Taken
      BY <2>3 DEF Streaming, DataInv, OutputsThere
    <2>5. View(d) = mem[d]
      BY <1>1, <2>2 DEF View, Streaming, DataInv, CacheInStep
    <2> QED BY <2>4, <2>5
  <1> USE DEF Streaming, DataInv
  <1>6. ImagesCounted'
    BY <1>1, <1>2, <1>3 DEF ImagesCounted, Images, host
  <1>7. CacheInStep'
    BY <1>1, <1>3 DEF CacheInStep, cache
  <1>8. InputThere'
    BY <1>1, <1>3, <1>4 DEF InputThere, host
  <1>9. OutputsThere'
    BY <1>1, <1>4 DEF OutputsThere
  <1>10. ResultsThere'
    BY <1>1, <1>2, <1>3, <1>5 DEF ResultsThere, host
  <1> QED BY <1>6, <1>7, <1>8, <1>9, <1>10

\* The host begins to write the next image where no layer reads it any more.
LEMMA StartImageKeepsData ==
  ASSUME Streaming, StartImage PROVE DataInv'
  <1>1. /\ UNCHANGED <<config, inputReady, outputs, mem, cache, board, given, parsing, toRead, seen, results>>
        /\ inputParsed /\ feeding' /\ toWrite' = InputCells(net) /\ given < Images
    BY DEF StartImage
  <1>2. ~ inputReady /\ ~ NeedsInput
    BY <1>1 DEF Streaming, HandshakeInv, OneOwner
  <1>3. /\ Taken' = Taken /\ Finished' = Finished /\ net' = net /\ once' = once
        /\ NeedsInput' = NeedsInput /\ inputReady' = inputReady /\ Computed' = Computed
        /\ \A d : View(d)' = View(d)
    BY <1>1 DEF Taken, Finished, NeedsInput, Computed, config, board, cache, View
  <1> USE DEF Streaming, DataInv
  <1>4. ImagesCounted'
    BY <1>1, <1>3 DEF ImagesCounted, Images, outputs
  <1>5. CacheInStep'
    BY <1>1, <1>3 DEF CacheInStep, cache
  <1>6. InputThere'
    BY <1>1, <1>2, <1>3 DEF InputThere
  <1>7. OutputsThere'
    BY <1>1, <1>3 DEF OutputsThere, board
  <1>8. ResultsThere'
    BY <1>1, <1>3 DEF ResultsThere, outputs
  <1> QED BY <1>4, <1>5, <1>6, <1>7, <1>8

\* The host writes the next image while the layers work on the last one.
LEMMA WriteCellKeepsData ==
  ASSUME Streaming, NEW c \in Cells(net), WriteCell(c) PROVE DataInv'
  <1>1. /\ UNCHANGED <<config, inputs, outputs, cache, board, feeding, given, parsing, toRead, seen, results>>
        /\ c \in toWrite /\ mem' = [mem EXCEPT ![c] = given + 1] /\ toWrite' = toWrite \ {c}
    BY DEF WriteCell
  <1>2. c \in InputCells(net) /\ feeding
    BY <1>1 DEF Streaming, DataInv, InputThere
  <1>3. ~ inputReady /\ ~ NeedsInput
    BY <1>2, StreamingFacts
  <1>4. /\ Taken' = Taken /\ Finished' = Finished /\ net' = net /\ once' = once
        /\ NeedsInput' = NeedsInput /\ inputReady' = inputReady /\ Computed' = Computed
    BY <1>1 DEF Taken, Finished, NeedsInput, Computed, config, inputs, board
  <1>5. /\ mem \in [Cells(net) -> Nat] /\ given \in Nat /\ InputCells(net) \subseteq Cells(net)
        /\ ResultCells(net) \subseteq Cells(net) \ InputCells(net)
        /\ Computed \subseteq Cells(net) \ InputCells(net)
    BY StreamingFacts, ComputedNotInput
  <1>6. mem' \in [Cells(net) -> Nat] /\ mem'[c] = given + 1
        /\ \A d \in Cells(net) \ {c} : mem'[d] = mem[d]
    BY <1>1, <1>5
  <1>7. \A d \in Cells(net) \ InputCells(net) : mem'[d] = mem[d] /\ View(d)' = View(d)
    BY <1>1, <1>2, <1>6 DEF View, cache
  <1> USE DEF Streaming, DataInv
  <1>8. ImagesCounted'
    BY <1>1, <1>4 DEF ImagesCounted, Images, outputs
  <1>9. CacheInStep'
    BY <1>1, <1>4, <1>6, <1>7 DEF CacheInStep, cache
  <1>10. InputThere'
    BY <1>1, <1>2, <1>3, <1>4, <1>5, <1>6 DEF InputThere
  <1>11. OutputsThere'
    BY <1>1, <1>4, <1>5, <1>7 DEF OutputsThere, board
  <1>12. ResultsThere'
    BY <1>1, <1>4, <1>5, <1>7 DEF ResultsThere, outputs
  <1> QED BY <1>8, <1>9, <1>10, <1>11, <1>12

\* The image is there when the host hands it over.
LEMMA HandOverKeepsData ==
  ASSUME Streaming, HandOver PROVE DataInv' /\ Finished' = Finished
  <1>1. /\ UNCHANGED <<config, outputs, mem, cache, board, toWrite, parsing, toRead, seen, results>>
        /\ feeding /\ toWrite = {} /\ inputReady' = TRUE /\ feeding' = FALSE /\ given' = given + 1
    BY DEF HandOver
  <1>2. ~ inputReady /\ ~ NeedsInput /\ given \in Nat /\ Taken = given
    BY <1>1, StreamingFacts DEF Taken
  <1>3. /\ Taken' = Taken /\ net' = net /\ once' = once
        /\ NeedsInput' = NeedsInput /\ Computed' = Computed /\ \A d : View(d)' = View(d)
    BY <1>1, <1>2 DEF Taken, NeedsInput, Computed, config, board, cache, View
  <1>4. Finished' = Finished
    BY <1>1, <1>3 DEF Finished, board
  <1> USE DEF Streaming, DataInv
  <1>5. ImagesCounted'
    <2>1. given < Images /\ Images \in Nat /\ Images' = Images
      BY <1>1, <1>3, NetAssumption DEF ImagesCounted, Images
    <2> QED BY <1>1, <1>2, <1>4, <2>1 DEF ImagesCounted, outputs
  <1>6. CacheInStep'
    BY <1>1, <1>3 DEF CacheInStep, cache
  <1>7. InputThere'
    BY <1>1, <1>2, <1>3 DEF InputThere
  <1>8. OutputsThere'
    BY <1>1, <1>3 DEF OutputsThere, board
  <1>9. ResultsThere'
    BY <1>1, <1>3, <1>4 DEF ResultsThere, outputs
  <1> QED BY <1>4, <1>5, <1>6, <1>7, <1>8, <1>9

\* The host begins to read the results announced.
LEMMA StartResultKeepsData ==
  ASSUME Streaming, StartResult PROVE DataInv'
  <1>1. /\ UNCHANGED <<config, inputs, mem, cache, board, feeding, toWrite, given, results>>
        /\ ~ parsing /\ outputReady /\ ~ outputReady'
        /\ parsing' /\ toRead' = ResultCells(net) /\ seen' = {}
    BY DEF StartResult
  <1>2. /\ Taken' = Taken /\ Finished' = Finished /\ net' = net /\ once' = once
        /\ NeedsInput' = NeedsInput /\ inputReady' = inputReady /\ Computed' = Computed
        /\ \A d : View(d)' = View(d)
    BY <1>1 DEF Taken, Finished, NeedsInput, Computed, config, inputs, board, cache, View
  <1> USE DEF Streaming, DataInv
  <1>3. ImagesCounted'
    BY <1>1, <1>2 DEF ImagesCounted, Images
  <1>4. CacheInStep'
    BY <1>1 DEF CacheInStep, config, cache
  <1>5. InputThere'
    BY <1>1, <1>2 DEF InputThere, board
  <1>6. OutputsThere'
    BY <1>1, <1>2 DEF OutputsThere, board
  <1>7. ResultsThere'
    BY <1>1, <1>2 DEF ResultsThere
  <1> QED BY <1>3, <1>4, <1>5, <1>6, <1>7

\* The host sees the image announced in every result it reads.
LEMMA ReadCellKeepsData ==
  ASSUME Streaming, NEW c \in Cells(net), ReadCell(c) PROVE DataInv'
  <1>1. /\ UNCHANGED <<config, inputs, outputs, mem, cache, board, feeding, toWrite, given, parsing, results>>
        /\ c \in toRead /\ seen' = seen \cup {mem[c]} /\ toRead' = toRead \ {c}
    BY DEF ReadCell
  <1>2. /\ Taken' = Taken /\ Finished' = Finished /\ net' = net /\ once' = once
        /\ NeedsInput' = NeedsInput /\ inputReady' = inputReady /\ Computed' = Computed
        /\ \A d : View(d)' = View(d)
    BY <1>1 DEF Taken, Finished, NeedsInput, Computed, config, inputs, board, cache, View
  <1> USE DEF Streaming, DataInv
  <1>3. ImagesCounted'
    BY <1>1, <1>2 DEF ImagesCounted, Images, outputs
  <1>4. CacheInStep'
    BY <1>1 DEF CacheInStep, config, cache
  <1>5. InputThere'
    BY <1>1, <1>2 DEF InputThere, board
  <1>6. OutputsThere'
    BY <1>1, <1>2 DEF OutputsThere, board
  <1>7. ResultsThere'
    BY <1>1, <1>2 DEF ResultsThere, outputs
  <1> QED BY <1>3, <1>4, <1>5, <1>6, <1>7

\* ... and takes it for the next result.
LEMMA TakeResultKeepsData ==
  ASSUME Streaming, TakeResult
  PROVE  /\ DataInv'
         /\ Len(results) = Finished - 1 /\ Finished <= given
         /\ results' = Append(results, Len(results) + 1) /\ given' = given
  <1>1. /\ UNCHANGED <<config, inputs, outputReady, mem, cache, board, feeding, toWrite, given, toRead>>
        /\ parsing /\ toRead = {} /\ ~ parsing' /\ seen' = {}
        /\ results' = Append(results, IF Cardinality(seen) = 1 THEN CHOOSE t \in seen : TRUE ELSE None)
    BY DEF TakeResult, Streaming, HandshakeInv, TypeOK
  <1>2. ~ outputReady /\ net \in Nets /\ OwnLines(net)
    BY <1>1 DEF Streaming, HandshakeInv, OneOwner, TypeOK
  <1>3. Finished \in Nat /\ seen = {Finished}
    <2>1. PICK c \in ResultCells(net) : TRUE
      BY <1>2, ResultOutputs
    <2>2. mem[c] = Finished /\ mem[c] \in Nat
      BY <1>1, StreamingFacts DEF Streaming, DataInv, ResultsThere
    <2>3. seen \subseteq {Finished} /\ seen # {}
      BY <1>1, <2>1 DEF Streaming, DataInv, ResultsThere
    <2> QED BY <2>2, <2>3
  <1>4. results' = Append(results, Finished)
    <2>1. Cardinality({Finished}) = 1 /\ (CHOOSE t \in {Finished} : TRUE) = Finished
      BY FS_Singleton
    <2> QED BY <1>1, <1>3, <2>1
  <1>5. /\ results \in Seq(Nat) /\ Len(results) = Finished - 1
    BY <1>1, <1>2 DEF Streaming, DataInv, ImagesCounted
  <1>6. /\ Taken' = Taken /\ Finished' = Finished /\ net' = net /\ once' = once
        /\ NeedsInput' = NeedsInput /\ inputReady' = inputReady /\ Computed' = Computed
        /\ \A d : View(d)' = View(d)
    BY <1>1 DEF Taken, Finished, NeedsInput, Computed, config, inputs, board, cache, View
  <1>7. Finished <= given
    BY StreamingFacts DEF Finished, Taken
  <1> USE DEF Streaming, DataInv
  <1>8. ImagesCounted'
    <2>1. results' \in Seq(Nat) /\ Len(results') = Finished
      BY <1>3, <1>4, <1>5
    <2> QED BY <1>1, <1>2, <1>3, <1>6, <2>1 DEF ImagesCounted, Images
  <1>9. CacheInStep'
    BY <1>1 DEF CacheInStep, config, cache
  <1>10. InputThere'
    BY <1>1, <1>6 DEF InputThere, board
  <1>11. OutputsThere'
    BY <1>1, <1>6 DEF OutputsThere, board
  <1>12. ResultsThere'
    BY <1>1, <1>2, <1>6 DEF ResultsThere
  <1> QED BY <1>1, <1>3, <1>4, <1>5, <1>7, <1>8, <1>9, <1>10, <1>11, <1>12

-----------------------------------------------------------------------------

\* At the start nothing has been handed over and nothing computed.
LEMMA InitInv == Init => IInv
  <1> SUFFICES ASSUME Init PROVE HandshakeInv /\ DataInv
    BY DEF IInv
  <1>1. Images \in Nat /\ net \in Nets
    BY NetAssumption DEF Images, Init
  <1>2. Taken = 0 /\ Finished = 0 /\ Computed = {} /\ ~ NeedsInput
    BY DEF Init, Taken, Finished, Computed, NeedsInput
  <1>3. ImagesCounted
    <2>1. given = 0 /\ ~ feeding /\ results = <<>> /\ ~ outputReady /\ ~ parsing
      BY DEF Init
    <2>2. <<>> \in Seq(Nat) /\ Len(<<>>) = 0 /\ 0 \in 0 .. Images
      BY <1>1
    <2>3. (IF outputReady \/ parsing THEN 1 ELSE 0) = 0
      BY <2>1
    <2>4. Len(results) = Finished - (IF outputReady \/ parsing THEN 1 ELSE 0)
      <3>1. Len(results) = 0 /\ Finished = 0
        BY <1>2, <2>1, <2>2, Zenon
      <3> DEFINE k == IF outputReady \/ parsing THEN 1 ELSE 0
      <3>2. k = 0
        BY <2>3
      <3> HIDE DEF k
      <3>3. Len(results) = Finished - k
        BY <3>1, <3>2
      <3> QED BY <3>3 DEF k
    <2>5. given \in 0 .. Images /\ results \in Seq(Nat)
      BY <2>1, <2>2
    <2> QED BY <2>1, <2>4, <2>5, Zenon DEF ImagesCounted
  <1>4. CacheInStep
    BY DEF Init, CacheInStep, None
  <1>5. InputThere /\ OutputsThere /\ ResultsThere
    BY <1>2 DEF Init, InputThere, OutputsThere, ResultsThere
  <1> QED BY <1>3, <1>4, <1>5, InitHandshake DEF DataInv

\* Every step of a board that runs keeps the images apart.
LEMMA NextKeepsData ==
  ASSUME Streaming, [Next]_vars, running' PROVE DataInv'
  <1>1. CASE TestLoop \/ TakeInput \/ ResetCache \/ PreLayer \/ ClaimOutput \/ PostLayer \/ Announce
    BY <1>1, LoopKeepsData, TakeInputKeepsData, ResetKeepsData, StartKeepsData, PostLayerKeepsData,
       AnnounceKeepsData
  <1>2. CASE StartImage \/ HandOver \/ StartResult \/ TakeResult
    BY <1>2, StartImageKeepsData, HandOverKeepsData, StartResultKeepsData, TakeResultKeepsData
  <1>3. ASSUME NEW c \in Cells(net), Compute(c) \/ WriteCell(c) \/ ReadCell(c) PROVE DataInv'
    BY <1>3, ComputeKeepsData, WriteCellKeepsData, ReadCellKeepsData
  <1>4. ASSUME NEW c \in Cells(net), FlushLine(LineOf(c)) \/ Evict(LineOf(c)) PROVE DataInv'
    BY <1>4, WriteBackKeepsData
  <1>5. CASE Stop
    BY <1>5 DEF Stop
  <1>6. CASE UNCHANGED vars
    <2>1. UNCHANGED <<config, inputReady, outputReady, mem, cache, host, board>>
      BY <1>6 DEF vars, inputs, outputs
    <2>2. /\ Finished' = Finished /\ Computed' = Computed /\ NeedsInput' = NeedsInput
          /\ Taken' = Taken /\ \A d : View(d)' = View(d)
      BY <2>1 DEF Finished, Taken, Computed, NeedsInput, View, config, host, board, cache
    <2> USE DEF Streaming, DataInv
    <2>3. ImagesCounted' /\ ResultsThere' /\ InputThere' /\ OutputsThere'
      BY <2>1, <2>2 DEF ImagesCounted, ResultsThere, InputThere, OutputsThere, Images, config, host,
         board
    <2>4. CacheInStep'
      <3>1. UNCHANGED <<net, mem, copy, held, dirty>>
        BY <2>1 DEF config, cache
      <3> QED BY <3>1 DEF CacheInStep
    <2> QED BY <2>3, <2>4
  <1> QED BY <1>1, <1>2, <1>3, <1>4, <1>5, <1>6 DEF Next, RiscV, Host

\* A board that has been stopped stays so, and the network stays.
LEMMA BoardKept ==
  ASSUME HandshakeInv, [Next]_vars PROVE net' = net /\ (running' => running)
  <1> USE DEF vars, config, host
  <1>1. CASE TestLoop \/ TakeInput \/ ResetCache \/ PreLayer \/ ClaimOutput \/ PostLayer \/ Announce
    BY <1>1 DEF TestLoop, TakeInput, ResetCache, PreLayer, ClaimOutput, StartLayer, PostLayer, Announce
  <1>2. CASE \E c \in Cells(net) : Compute(c) \/ FlushLine(LineOf(c)) \/ Evict(LineOf(c))
    BY <1>2 DEF Compute, FlushLine, Evict
  <1>3. CASE Host \/ StartImage \/ Stop
    BY <1>3 DEF Host, StartImage, WriteCell, HandOver, StartResult, ReadCell, TakeResult, Stop
  <1> QED BY <1>1, <1>2, <1>3 DEF Next, RiscV

LEMMA NextKeepsIInv ==
  ASSUME IInv, [Next]_vars PROVE IInv'
  <1>1. HandshakeInv' /\ net' = net /\ (running' => running)
    BY NextKeepsInv, BoardKept DEF IInv
  <1>2. ASSUME running', OwnLines(net) PROVE DataInv'
    BY <1>1, <1>2, NextKeepsData DEF IInv, Streaming
  <1> QED BY <1>1, <1>2 DEF IInv

\* Behind the handshake every image stays apart from the next: who owns the
\* input and the results, and, where the input has lines of its own, what is
\* in them.
THEOREM ImagesApart == Spec => []IInv
  <1>1. IInv /\ [Next]_vars => IInv'
    BY NextKeepsIInv
  <1> QED BY InitInv, <1>1, PTL DEF Spec

\* "allow overwriting of input data" (runtime.cpp): what the host writes after
\* rv_input_parsed is the image it hands over, provided that no line of the
\* DCMA holds cells of the input and of a layer that computes.
THEOREM InputStaysIntact ==
  ASSUME \A n \in Nets : OwnLines(n)
  PROVE  Spec => []InputIntact
  <1>1. IInv => InputIntact
    BY DEF IInv, HandshakeInv, TypeOK, DataInv, InputThere, InputIntact
  <1> QED BY ImagesApart, <1>1, PTL

\* ... and every image comes back as one result, in order and computed from
\* that image alone, with at most three images on the way: calcCnn and the
\* registers implement the stream, for every network, cache line and number
\* of images.
THEOREM ImplementsStream ==
  ASSUME \A n \in Nets : OwnLines(n)
  PROVE  Spec => StreamSpec
  <1>1. Init => Stream!IInit
    BY DEF Init, Stream!IInit
  <1>2. ASSUME IInv, [Next]_vars
        PROVE  [Stream!HandOver \/ Stream!Deliver]_<<given, results>>
    <2>1. CASE HandOver
      <3>1. Streaming
        BY <1>2, <2>1 DEF HandOver, IInv, HandshakeInv, TypeOK, Streaming
      <3>2. given < Images /\ ~ inputReady /\ given \in Nat
        BY <2>1, <3>1, StreamingFacts DEF HandOver, Streaming, DataInv, ImagesCounted
      <3>3. Images <= MaxImages /\ Images \in Nat /\ MaxImages \in Nat
        BY NetAssumption DEF Images
      <3>4. Finished >= given - 1 /\ Finished \in Int
        BY <3>2, StreamingFacts, <3>1 DEF Finished, Taken
      <3>5. Len(results) >= given - 2 /\ Len(results) \in Nat
        BY <3>1, <3>2, <3>4 DEF Streaming, DataInv, ImagesCounted
      <3>6. Stream!HandOver
        BY <2>1, <3>2, <3>3, <3>5 DEF HandOver, Stream!HandOver
      <3> QED BY <3>6
    <2>2. CASE TakeResult
      <3>1. Streaming
        BY <1>2, <2>2 DEF TakeResult, IInv, HandshakeInv, TypeOK, Streaming
      <3>2. /\ Len(results) = Finished - 1 /\ Finished <= given
            /\ results' = Append(results, Len(results) + 1) /\ given' = given
        BY <2>2, <3>1, TakeResultKeepsData
      <3>3. Finished \in Int /\ given \in Nat
        BY <3>1, StreamingFacts
      <3>4. Stream!Deliver
        BY <3>2, <3>3 DEF Stream!Deliver
      <3> QED BY <3>4
    <2>3. CASE ~ HandOver /\ ~ TakeResult
      <3>1. UNCHANGED <<given, results>>
        BY <1>2, <2>3 DEF Next, RiscV, Host, vars, host, TestLoop, TakeInput, ResetCache, PreLayer,
           ClaimOutput, StartLayer, Compute, FlushLine, Evict, PostLayer, Announce, StartImage,
           WriteCell, StartResult, ReadCell, Stop
      <3> QED BY <3>1
    <2> QED BY <2>1, <2>2, <2>3
  <1> QED BY <1>1, <1>2, ImagesApart, PTL DEF Spec, StreamSpec, Stream!ISpec
=============================================================================
