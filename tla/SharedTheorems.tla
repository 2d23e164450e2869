--------------------------- MODULE SharedTheorems ---------------------------
(***************************************************************************)
(* Facts about numbers and sequences that proofs about several components  *)
(* need: division with remainder; induction and recursion over the natural *)
(* numbers without operator parameters (a set of numbers has a least       *)
(* element, a step given as a function can be iterated, and a recursion on *)
(* earlier values has a solution); and what FlattenSeq computes.           *)
(***************************************************************************)
EXTENDS SequencesExt, Integers, WellFoundedInduction, TLAPS

-----------------------------------------------------------------------------
(* Division.                                                               *)

\* Division with remainder.
LEMMA DivMod ==
  ASSUME NEW n \in Nat \ {0}, NEW a \in Int
  PROVE  a = (a \div n) * n + (a % n) /\ a % n \in 0 .. n - 1 /\ a \div n \in Int
  OBVIOUS

\* A quotient of natural numbers is one.
LEMMA DivNat ==
  ASSUME NEW n \in Nat \ {0}, NEW a \in Nat
  PROVE  a \div n \in Nat
  <1> DEFINE q == a \div n
             r == a % n
  <1>1. q \in Int /\ r \in 0 .. n - 1 /\ a = q * n + r
    BY DivMod
  <1> HIDE DEF q, r
  <1>2. ASSUME q < 0 PROVE FALSE
    <2>1. q * n <= (-1) * n
      BY <1>1, <1>2
    <2> QED BY <1>1, <2>1
  <1>3. q \in Nat
    BY <1>1, <1>2
  <1> QED BY <1>3 DEF q

\* A quotient stays below the number of groups.
LEMMA DivBound ==
  ASSUME NEW n \in Nat \ {0}, NEW k \in Nat, NEW a \in 0 .. k * n - 1
  PROVE  a \div n \in 0 .. k - 1
  <1> DEFINE q == a \div n
             r == a % n
  <1>0. k * n \in Int /\ a \in Nat /\ a \in Int /\ a < k * n
    OBVIOUS
  <1>1. q \in Nat /\ r \in 0 .. n - 1 /\ a = q * n + r
    <2>1. q \in Nat
      BY <1>0, DivNat
    <2>2. r \in 0 .. n - 1 /\ a = q * n + r
      BY <1>0, DivMod
    <2> QED BY <2>1, <2>2
  <1> HIDE DEF q, r
  <1>2. ASSUME q >= k PROVE FALSE
    <2>1. q * n >= k * n
      BY <1>1, <1>2
    <2> QED BY <1>0, <1>1, <2>1
  <1>3. q \in 0 .. k - 1
    BY <1>1, <1>2
  <1> QED BY <1>3 DEF q

\* The division undoes the composition.
LEMMA DivUnique ==
  ASSUME NEW n \in Nat \ {0}, NEW q \in Int, NEW r \in 0 .. n - 1
  PROVE  (q * n + r) \div n = q /\ (q * n + r) % n = r
  <1>1. q * n + r \in Int
    OBVIOUS
  <1> DEFINE a == q * n + r
             p == a \div n
             s == a % n
  <1>2. a = p * n + s /\ s \in 0 .. n - 1 /\ p \in Int
    BY <1>1, DivMod
  <1>3. p * n + s = q * n + r
    BY <1>2
  <1> HIDE DEF a, p, s
  <1>4. ASSUME p > q PROVE FALSE
    <2>1. (p - q) * n >= n
      BY <1>2, <1>4
    <2> QED BY <1>2, <1>3, <2>1
  <1>5. ASSUME p < q PROVE FALSE
    <2>1. (q - p) * n >= n
      BY <1>2, <1>5
    <2> QED BY <1>2, <1>3, <2>1
  <1>6. p = q
    BY <1>2, <1>4, <1>5
  <1>7. s = r
    BY <1>2, <1>3, <1>6
  <1> QED BY <1>6, <1>7 DEF a, p, s

\* A remainder can be taken before an addition.
LEMMA ModAdd ==
  ASSUME NEW n \in Nat \ {0}, NEW a \in Int, NEW b \in Int
  PROVE  ((a % n) + b) % n = (a + b) % n
  <1> DEFINE q == a \div n
             r == a % n
             p == (r + b) \div n
             s == (r + b) % n
  <1>1. a = q * n + r /\ q \in Int /\ r \in 0 .. n - 1
    BY DivMod
  <1>2. r + b = p * n + s /\ p \in Int /\ s \in 0 .. n - 1
    <2>1. r + b \in Int
      BY <1>1
    <2> HIDE DEF r
    <2> QED BY <2>1, DivMod
  <1> HIDE DEF q, r, p, s
  <1>3. a + b = (q + p) * n + s
    <2>1. (q + p) * n = q * n + p * n
      BY <1>1, <1>2
    <2> QED BY <1>1, <1>2, <2>1
  <1>4. (a + b) % n = s
    <2> DEFINE t == q + p
    <2>1. t \in Int /\ a + b = t * n + s
      BY <1>1, <1>2, <1>3
    <2> HIDE DEF t
    <2>2. (t * n + s) % n = s
      BY <1>2, <2>1, DivUnique
    <2> QED BY <2>1, <2>2
  <1> QED BY <1>4 DEF r, s

-----------------------------------------------------------------------------
(* Induction and recursion.                                                *)

\* A set of natural numbers that is not empty has a least element.
LEMMA LeastElement ==
  ASSUME NEW T \in SUBSET Nat, T # {}
  PROVE  \E n \in T : \A m \in T : n <= m
  <1> DEFINE R == OpToRel(<, Nat)
  <1>1. IsWellFoundedOn(R, Nat)
    BY NatLessThanWellFounded
  <1> HIDE DEF R
  <1>2. PICK n \in T : \A m \in T : ~ (<<m, n>> \in R)
    BY <1>1, WFMin
  <1>3. ASSUME NEW m \in T PROVE n <= m
    <2>1. n \in Nat /\ m \in Nat
      OBVIOUS
    <2>2. m < n => <<m, n>> \in R
      BY <2>1 DEF R, OpToRel
    <2> QED BY <1>2, <2>1, <2>2
  <1> QED BY <1>3

\* Induction: a set that holds zero and with each number the next holds all.
LEMMA AllNumbers ==
  ASSUME NEW T, 0 \in T, \A n \in Nat : n \in T => n + 1 \in T
  PROVE  Nat \subseteq T
  <1> SUFFICES ASSUME Nat \ T # {} PROVE FALSE
    OBVIOUS
  <1>1. PICK n \in Nat \ T : \A m \in Nat \ T : n <= m
    BY LeastElement
  <1>2. n # 0 /\ n - 1 \in Nat /\ n - 1 \in T
    BY <1>1
  <1> QED BY <1>1, <1>2

\* g iterates a step from its first value.
Iterates(g, first, step) ==
  g[0] = first /\ \A n \in Nat : g[n + 1] = step[n][g[n]]

\* A step can be iterated.
LEMMA Iterate ==
  ASSUME NEW S, NEW first \in S, NEW step \in [Nat -> [S -> S]]
  PROVE  \E g \in [Nat -> S] : Iterates(g, first, step)
  <1> DEFINE A(n) == {h \in [0 .. n -> S] :
                        h[0] = first /\ \A m \in 0 .. n - 1 : h[m + 1] = step[m][h[m]]}
  <1>1. \A n \in Nat : A(n) # {}
    <2> DEFINE T == {n \in Nat : A(n) # {}}
    <2>1. 0 \in T
      <3> [k \in 0 .. 0 |-> first] \in A(0)
        OBVIOUS
      <3> QED OBVIOUS
    <2>2. ASSUME NEW n \in Nat, n \in T PROVE n + 1 \in T
      <3>1. PICK h \in [0 .. n -> S] :
              h[0] = first /\ \A m \in 0 .. n - 1 : h[m + 1] = step[m][h[m]]
        BY <2>2
      <3> DEFINE k == [m \in 0 .. n + 1 |-> IF m <= n THEN h[m] ELSE step[n][h[n]]]
      <3>2. step[n][h[n]] \in S
        BY <3>1
      <3>3. k \in [0 .. n + 1 -> S]
        BY <3>1, <3>2
      <3>4. k[0] = first /\ \A m \in 0 .. n : k[m] = h[m]
        BY <3>1
      <3>5. ASSUME NEW m \in 0 .. n PROVE k[m + 1] = step[m][k[m]]
        <4>1. CASE m < n
          <5>1. m + 1 \in 0 .. n /\ m \in 0 .. n - 1
            BY <4>1
          <5>2. k[m + 1] = h[m + 1] /\ k[m] = h[m]
            BY <3>4, <5>1
          <5> QED BY <3>1, <5>1, <5>2
        <4>2. CASE m = n
          <5>1. n + 1 \in 0 .. n + 1 /\ ~ (n + 1 <= n)
            OBVIOUS
          <5>2. k[n + 1] = step[n][h[n]] /\ k[n] = h[n]
            BY <3>4, <5>1
          <5> QED BY <4>2, <5>2
        <4> QED BY <4>1, <4>2
      <3> HIDE DEF k
      <3>6. k \in A(n + 1)
        BY <3>3, <3>4, <3>5
      <3> QED BY <3>6
    <2> HIDE DEF T
    <2>3. Nat \subseteq T
      BY <2>1, <2>2, AllNumbers
    <2> QED BY <2>3 DEF T
  <1>2. ASSUME NEW n \in Nat, NEW g \in A(n), NEW h \in A(n + 1)
        PROVE  \A m \in 0 .. n : g[m] = h[m]
    <2> DEFINE T == {m \in Nat : m <= n => g[m] = h[m]}
    <2>1. 0 \in T
      OBVIOUS
    <2>2. ASSUME NEW m \in Nat, m \in T PROVE m + 1 \in T
      <3> SUFFICES ASSUME m + 1 <= n PROVE g[m + 1] = h[m + 1]
        OBVIOUS
      <3>1. m \in 0 .. n - 1 /\ m \in 0 .. (n + 1) - 1 /\ m <= n
        OBVIOUS
      <3>2. g[m] = h[m]
        BY <2>2, <3>1
      <3>3. g[m + 1] = step[m][g[m]]
        BY <3>1
      <3>4. h[m + 1] = step[m][h[m]]
        BY <3>1
      <3> QED BY <3>2, <3>3, <3>4
    <2> HIDE DEF T
    <2>3. Nat \subseteq T
      BY <2>1, <2>2, AllNumbers
    <2> QED BY <2>3 DEF T
  <1> DEFINE f == [n \in Nat |-> CHOOSE h : h \in A(n)]
             g == [n \in Nat |-> f[n][n]]
  <1>3. \A n \in Nat : f[n] \in A(n)
    <2> SUFFICES ASSUME NEW n \in Nat PROVE (CHOOSE h : h \in A(n)) \in A(n)
      OBVIOUS
    <2> HIDE DEF A
    <2>1. PICK h : h \in A(n)
      BY <1>1
    <2> QED BY <2>1
  <1>4. g \in [Nat -> S]
    <2> HIDE DEF f
    <2> QED BY <1>3
  <1>5. g[0] = first
    <2> HIDE DEF f
    <2> QED BY <1>3
  <1>6. ASSUME NEW n \in Nat PROVE g[n + 1] = step[n][g[n]]
    <2> HIDE DEF f
    <2>1. f[n] \in A(n) /\ f[n + 1] \in A(n + 1) /\ g[n + 1] = f[n + 1][n + 1]
          /\ g[n] = f[n][n]
      <3> HIDE DEF A
      <3> QED BY <1>3
    <2>2. f[n][n] = f[n + 1][n]
      <3> HIDE DEF A
      <3> QED BY <1>2, <2>1
    <2>3. f[n + 1][n + 1] = step[n][f[n + 1][n]]
      <3>1. n \in 0 .. (n + 1) - 1
        OBVIOUS
      <3> QED BY <2>1, <3>1
    <2> HIDE DEF g
    <2> QED BY <2>1, <2>2, <2>3
  <1> HIDE DEF g
  <1> QED BY <1>4, <1>5, <1>6 DEF Iterates

\* f is defined by recursion: each of its values from those before it.
Solves(f, D, step) == \A i \in D : f[i] = step[i][f]

\* A step that looks at earlier values only defines a function.
LEMMA Recursion ==
  ASSUME NEW N \in Nat, NEW D \in SUBSET (0 .. N), NEW S, S # {},
         NEW step \in [D -> [[D -> S] -> S]],
         \A i \in D : \A f, g \in [D -> S] :
           (\A j \in D : j < i => f[j] = g[j]) => step[i][f] = step[i][g]
  PROVE  \E f \in [D -> S] : Solves(f, D, step)
  <1> DEFINE Solved(k) == {f \in [D -> S] : \A i \in D : i < k => f[i] = step[i][f]}
             T == {k \in Nat : Solved(k) # {}}
  <1>1. 0 \in T
    <2>1. PICK s \in S : TRUE
      OBVIOUS
    <2>2. [i \in D |-> s] \in Solved(0)
      OBVIOUS
    <2> QED BY <2>2
  <1>2. ASSUME NEW k \in Nat, k \in T PROVE k + 1 \in T
    <2>1. PICK f \in [D -> S] : \A i \in D : i < k => f[i] = step[i][f]
      BY <1>2
    <2> DEFINE g == [i \in D |-> IF i = k THEN step[i][f] ELSE f[i]]
    <2>2. g \in [D -> S]
      OBVIOUS
    <2>3. ASSUME NEW i \in D, i < k + 1 PROVE g[i] = step[i][g]
      <3>1. \A j \in D : j < i => f[j] = g[j]
        BY <2>3
      <3>2. step[i][f] = step[i][g]
        <4> HIDE DEF g
        <4> QED BY <2>2, <3>1
      <3>3. g[i] = step[i][f]
        <4>1. CASE i = k
          BY <4>1
        <4>2. CASE i < k
          BY <2>1, <4>2
        <4> QED BY <2>3, <4>1, <4>2
      <3> QED BY <3>2, <3>3
    <2> HIDE DEF g
    <2>4. g \in Solved(k + 1)
      BY <2>2, <2>3
    <2> QED BY <2>4
  <1> HIDE DEF T
  <1>3. N + 1 \in T
    BY <1>1, <1>2, AllNumbers
  <1>4. PICK f \in [D -> S] : \A i \in D : i < N + 1 => f[i] = step[i][f]
    BY <1>3 DEF T
  <1>5. \A i \in D : i < N + 1
    OBVIOUS
  <1> QED BY <1>4, <1>5 DEF Solves

-----------------------------------------------------------------------------
(* Concatenation of a sequence of sequences.                               *)

\* The concatenations of all prefixes, as the recursion in FlattenSeq
\* defines them.
Flattened(s) ==
  CHOOSE f : f = [i \in 1 .. Len(s) |-> IF i = 1 THEN s[i] ELSE f[i - 1] \o s[i]]

\* The recursion has a solution: every prefix is the one before it with the
\* next sequence behind it.
LEMMA FlattenedPrefixes ==
  ASSUME NEW D, NEW s \in Seq(Seq(D))
  PROVE  /\ Flattened(s) \in [1 .. Len(s) -> Seq(D)]
         /\ \A i \in 1 .. Len(s) :
              Flattened(s)[i] = IF i = 1 THEN s[i] ELSE Flattened(s)[i - 1] \o s[i]
  <1> DEFINE E(f) == [i \in 1 .. Len(s) |-> IF i = 1 THEN s[i] ELSE f[i - 1] \o s[i]]
             step == [n \in Nat |-> [x \in Seq(D) |->
                        IF n + 1 \in 1 .. Len(s) THEN x \o s[n + 1] ELSE <<>>]]
  <1>1. step \in [Nat -> [Seq(D) -> Seq(D)]]
    <2> SUFFICES ASSUME NEW n \in Nat, NEW x \in Seq(D)
                 PROVE  (IF n + 1 \in 1 .. Len(s) THEN x \o s[n + 1] ELSE <<>>) \in Seq(D)
      OBVIOUS
    <2>1. CASE n + 1 \in 1 .. Len(s)
      <3>1. s[n + 1] \in Seq(D)
        BY <2>1
      <3>2. x \o s[n + 1] \in Seq(D)
        BY <3>1
      <3> QED BY <2>1, <3>2
    <2>2. <<>> \in Seq(D)
      OBVIOUS
    <2> QED BY <2>1, <2>2
  <1>2. PICK g \in [Nat -> Seq(D)] :
          g[0] = <<>> /\ \A n \in Nat : g[n + 1] = step[n][g[n]]
    <2>1. <<>> \in Seq(D)
      OBVIOUS
    <2> HIDE DEF step
    <2>2. PICK g \in [Nat -> Seq(D)] : Iterates(g, <<>>, step)
      BY <1>1, <2>1, Iterate
    <2> QED BY <2>2 DEF Iterates
  <1>3. \A i \in 1 .. Len(s) : g[i] = IF i = 1 THEN s[i] ELSE g[i - 1] \o s[i]
    <2> SUFFICES ASSUME NEW i \in 1 .. Len(s)
                 PROVE  g[i] = IF i = 1 THEN s[i] ELSE g[i - 1] \o s[i]
      OBVIOUS
    <2>1. i - 1 \in Nat /\ (i - 1) + 1 = i /\ s[i] \in Seq(D)
      OBVIOUS
    <2>2. g[i] = step[i - 1][g[i - 1]]
      <3> HIDE DEF step
      <3> QED BY <1>2, <2>1
    <2>3. g[i - 1] \in Seq(D)
      BY <2>1
    <2>4. g[i] = g[i - 1] \o s[i]
      BY <2>1, <2>2, <2>3
    <2>5. CASE i = 1
      <3>1. g[i - 1] = <<>> /\ <<>> \o s[i] = s[i]
        BY <1>2, <2>1, <2>5
      <3> QED BY <2>4, <2>5, <3>1
    <2> QED BY <2>4, <2>5
  <1> DEFINE h == [i \in 1 .. Len(s) |-> g[i]]
  <1>4. h = E(h)
    <2> SUFFICES ASSUME NEW i \in 1 .. Len(s)
                 PROVE  h[i] = IF i = 1 THEN s[i] ELSE h[i - 1] \o s[i]
      OBVIOUS
    <2>1. i # 1 => i - 1 \in 1 .. Len(s)
      OBVIOUS
    <2> QED BY <1>3, <2>1
  <1> DEFINE F == Flattened(s)
  <1>5. F = E(F)
    <2>1. F = CHOOSE f : f = E(f)
      BY DEF Flattened
    <2> HIDE DEF E, F, h
    <2> QED BY <1>4, <2>1
  <1>6. \A i \in 1 .. Len(s) : F[i] = IF i = 1 THEN s[i] ELSE F[i - 1] \o s[i]
    <2> HIDE DEF F
    <2> QED BY <1>5
  <1>7. \A i \in 1 .. Len(s) : F[i] = g[i]
    <2> DEFINE Q == {n \in Nat : n + 1 \in 1 .. Len(s) => F[n + 1] = g[n + 1]}
    <2> HIDE DEF F
    <2>1. 0 \in Q
      BY <1>3, <1>6
    <2>2. ASSUME NEW n \in Nat, n \in Q PROVE n + 1 \in Q
      <3> SUFFICES ASSUME n + 2 \in 1 .. Len(s) PROVE F[n + 2] = g[n + 2]
        OBVIOUS
      <3>1. n + 2 # 1 /\ (n + 2) - 1 = n + 1 /\ n + 1 \in 1 .. Len(s)
        OBVIOUS
      <3>2. F[n + 1] = g[n + 1]
        BY <2>2, <3>1
      <3>3. F[n + 2] = F[n + 1] \o s[n + 2]
        BY <1>6, <3>1
      <3>4. g[n + 2] = g[n + 1] \o s[n + 2]
        BY <1>3, <3>1
      <3> QED BY <3>2, <3>3, <3>4
    <2> HIDE DEF Q
    <2>3. Nat \subseteq Q
      BY <2>1, <2>2, AllNumbers
    <2> SUFFICES ASSUME NEW i \in 1 .. Len(s) PROVE F[i] = g[i]
      OBVIOUS
    <2>4. i - 1 \in Q /\ (i - 1) + 1 = i
      BY <2>3
    <2> QED BY <2>4 DEF Q
  <1>8. F \in [1 .. Len(s) -> Seq(D)]
    <2>1. F = [i \in 1 .. Len(s) |-> F[i]]
      <3>1. DOMAIN E(F) = 1 .. Len(s) /\ E(F) = [i \in 1 .. Len(s) |-> E(F)[i]]
        OBVIOUS
      <3> HIDE DEF F, E
      <3> QED BY <1>5, <3>1
    <2>2. \A i \in 1 .. Len(s) : F[i] \in Seq(D)
      <3> HIDE DEF F
      <3> QED BY <1>7
    <2> HIDE DEF F
    <2> QED BY <2>1, <2>2
  <1> QED BY <1>6, <1>8

\* FlattenSeq takes the last of them.
LEMMA FlattenIsLast ==
  ASSUME NEW D, NEW s \in Seq(Seq(D))
  PROVE  FlattenSeq(s) = IF s = <<>> THEN <<>> ELSE Flattened(s)[Len(s)]
  <1>1. Len(s) = 0 <=> s = <<>>
    OBVIOUS
  <1>2. FlattenSeq(s) = IF Len(s) = 0 THEN s ELSE Flattened(s)[Len(s)]
    BY Zenon DEF FlattenSeq, Flattened
  <1> QED BY <1>1, <1>2

\* The concatenation is a sequence of the same elements.
LEMMA FlattenType ==
  ASSUME NEW D, NEW s \in Seq(Seq(D))
  PROVE  FlattenSeq(s) \in Seq(D)
  <1>1. CASE s = <<>>
    <2>1. FlattenSeq(s) = <<>>
      BY <1>1, FlattenIsLast, Zenon
    <2>2. <<>> \in Seq(D)
      OBVIOUS
    <2> QED BY <2>1, <2>2
  <1>2. CASE s # <<>>
    <2>1. Len(s) \in 1 .. Len(s)
      BY <1>2
    <2> QED BY <1>2, <2>1, FlattenIsLast, FlattenedPrefixes
  <1> QED BY <1>1, <1>2

\* A prefix that is one longer adds one sequence to the concatenation.
LEMMA FlattenNext ==
  ASSUME NEW D, NEW s \in Seq(Seq(D)), NEW t \in Seq(Seq(D)), NEW n \in Nat,
         Len(s) = n, Len(t) = n + 1, \A i \in 1 .. n : s[i] = t[i]
  PROVE  FlattenSeq(t) = FlattenSeq(s) \o t[n + 1]
  <1> DEFINE F == Flattened(s)
             G == Flattened(t)
  <1>1. \A i \in 1 .. n : F[i] = IF i = 1 THEN s[i] ELSE F[i - 1] \o s[i]
    BY FlattenedPrefixes
  <1>2. \A i \in 1 .. n + 1 : G[i] = IF i = 1 THEN t[i] ELSE G[i - 1] \o t[i]
    BY FlattenedPrefixes
  <1>3. FlattenSeq(s) = (IF s = <<>> THEN <<>> ELSE F[n]) /\ FlattenSeq(t) = G[n + 1]
    <2>1. t # <<>>
      OBVIOUS
    <2> QED BY <2>1, FlattenIsLast
  <1> HIDE DEF F, G
  <1>4. CASE n = 0
    <2>1. s = <<>> /\ t[n + 1] \in Seq(D)
      BY <1>4
    <2>2. G[n + 1] = t[n + 1]
      BY <1>2, <1>4
    <2>3. <<>> \o t[n + 1] = t[n + 1]
      BY <2>1
    <2> QED BY <1>3, <2>1, <2>2, <2>3
  <1>5. CASE n # 0
    <2> DEFINE Q == {m \in Nat : m + 1 \in 1 .. n => F[m + 1] = G[m + 1]}
    <2>1. 0 \in Q
      BY <1>1, <1>2
    <2>2. ASSUME NEW m \in Nat, m \in Q PROVE m + 1 \in Q
      <3> SUFFICES ASSUME m + 2 \in 1 .. n PROVE F[m + 2] = G[m + 2]
        OBVIOUS
      <3>1. m + 2 # 1 /\ (m + 2) - 1 = m + 1 /\ m + 1 \in 1 .. n
        OBVIOUS
      <3>2. F[m + 1] = G[m + 1]
        BY <2>2, <3>1
      <3>3. F[m + 2] = F[m + 1] \o s[m + 2]
        BY <1>1, <3>1
      <3>4. G[m + 2] = G[m + 1] \o t[m + 2]
        <4>1. m + 2 \in 1 .. n + 1
          OBVIOUS
        <4> QED BY <1>2, <3>1, <4>1
      <3> QED BY <3>2, <3>3, <3>4
    <2> HIDE DEF Q
    <2>3. Nat \subseteq Q
      BY <2>1, <2>2, AllNumbers
    <2>4. n - 1 \in Q /\ (n - 1) + 1 = n /\ s # <<>>
      BY <1>5, <2>3
    <2>5. F[n] = G[n]
      BY <1>5, <2>4 DEF Q
    <2>6. G[n + 1] = G[n] \o t[n + 1]
      <3>1. n + 1 \in 1 .. n + 1 /\ n + 1 # 1 /\ (n + 1) - 1 = n
        BY <1>5
      <3> QED BY <1>2, <3>1
    <2> QED BY <1>3, <2>4, <2>5, <2>6
  <1> QED BY <1>4, <1>5
=============================================================================
