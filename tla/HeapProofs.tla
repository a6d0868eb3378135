----------------------------- MODULE HeapProofs -----------------------------
(***************************************************************************)
(* Proofs about Heap, for every finite set of nodes and every set of keys. *)
(*                                                                         *)
(* The invariant says that the links hold some array A of nodes: the       *)
(* children of A[i] are A[2 i] and A[2 i + 1].  The walk from the root by  *)
(* the bits of i then finds A[i], and every operation does to A what it    *)
(* would do to a heap in an array.                                         *)
(***************************************************************************)
EXTENDS Heap, Integers, Functions, FiniteSetTheorems, WellFoundedInduction,
        TLAPS

(* The child links f (s = 0: left, s = 1: right) are those of A. *)
Side(A, m, f, s) ==
    \A i \in 1 .. m : f[A[i]] = IF 2 * i + s <= m THEN A[2 * i + s] ELSE NULL

(* The links to the parents are those of A. *)
Above(A, m, pa) ==
    /\ m >= 1 => pa[A[1]] = NULL
    /\ \A i \in 1 .. m : \A s \in {0, 1} :
          2 * i + s <= m => pa[A[2 * i + s]] = A[i]

(* The nodes of the array. *)
Held(A, m) == {A[i] : i \in 1 .. m}

Distinct(A, m) == \A i, j \in 1 .. m : A[i] = A[j] => i = j

Links == [Nodes -> Nodes \cup {NULL, Stale}]

(* The links hold the m nodes of the array A. *)
Tree(A, m, r, lf, rt, pa) ==
    /\ m \in Nat /\ A \in [1 .. m -> Nodes] /\ Distinct(A, m)
    /\ lf \in Links /\ rt \in Links /\ pa \in Links
    /\ r = IF m = 0 THEN NULL ELSE A[1]
    /\ Side(A, m, lf, 0) /\ Side(A, m, rt, 1) /\ Above(A, m, pa)

(* Every node but nd, which is being moved, is in order with its parent. *)
InOrder(A, m, ky, st, nd) ==
    \A i \in 1 .. m : \A s \in {0, 1} :
        2 * i + s <= m =>
            \/ ky[A[i]] <= ky[A[2 * i + s]]
            \/ st = "up" /\ nd = A[2 * i + s]
            \/ st = "down" /\ nd \in {A[i], A[2 * i + s]}

(* The parent and the children of the moved node are in order: it can go   *)
(* either way without disturbing another pair.                             *)
Bridge(A, m, ky, nd) ==
    \A i \in 1 .. m : \A s, u \in {0, 1} :
        2 * (2 * i + s) + u <= m /\ A[2 * i + s] = nd =>
            ky[A[i]] <= ky[A[2 * (2 * i + s) + u]]

Place(A, m, st, nd) ==
    /\ st \in {"idle", "down", "up"}
    /\ st = "idle" => nd = NULL
    /\ st # "idle" => \E i \in 1 .. m : A[i] = nd

(* The array A is what the heap holds. *)
HeapIs(A) ==
    /\ Tree(A, size, root, left, right, parent)
    /\ key \in [Nodes -> Keys]
    /\ Place(A, size, pc, node)
    /\ InOrder(A, size, key, pc, node)
    /\ pc # "idle" => Bridge(A, size, key, node)

(* The inductive invariant. *)
IInv == \E A : HeapIs(A)
-----------------------------------------------------------------------------
(* The walk.                                                               *)

(* A set of natural numbers that is not empty has a least element. *)
LEMMA LeastNatural ==
    ASSUME NEW T, T \subseteq Nat, T # {}
    PROVE  \E x \in T : \A y \in T : x <= y
<1>1. PICK x \in T : \A y \in T : ~(<<y, x>> \in OpToRel(<, Nat))
  BY NatLessThanWellFounded, WFMin
<1>2. \A y \in T : ~(y < x)
  BY <1>1 DEF OpToRel
<1> QED BY <1>2

(* Every place but the first is a left or a right one below another. *)
LEMMA Halves ==
    /\ \A i \in Nat : i >= 2 =>
          /\ i \div 2 \in Nat /\ i \div 2 >= 1 /\ i \div 2 < i
          /\ i % 2 \in {0, 1} /\ i = 2 * (i \div 2) + (i % 2)
    /\ \A i \in Nat : (2 * i) \div 2 = i /\ (2 * i) % 2 = 0
    /\ \A i \in Nat : (2 * i + 1) \div 2 = i /\ (2 * i + 1) % 2 = 1
<1>1. ASSUME NEW i \in Nat, i >= 2
      PROVE  /\ i \div 2 \in Nat /\ i \div 2 >= 1 /\ i \div 2 < i
             /\ i % 2 \in {0, 1} /\ i = 2 * (i \div 2) + (i % 2)
  <2>1. i % 2 \in 0 .. 1
    OBVIOUS
  <2>2. i \div 2 \in Int
    OBVIOUS
  <2>3. i = 2 * (i \div 2) + (i % 2)
    OBVIOUS
  <2>4. PICK h \in Int, s \in 0 .. 1 : h = i \div 2 /\ s = i % 2
    BY <2>1, <2>2
  <2>5. i = 2 * h + s
    BY <2>3, <2>4
  <2>6. h \in Nat /\ h >= 1 /\ h < i /\ s \in {0, 1}
    BY <1>1, <2>5
  <2> QED BY <2>4, <2>5, <2>6
<1>2. ASSUME NEW i \in Nat PROVE (2 * i) \div 2 = i /\ (2 * i) % 2 = 0
  OBVIOUS
<1>3. ASSUME NEW i \in Nat PROVE (2 * i + 1) \div 2 = i /\ (2 * i + 1) % 2 = 1
  OBVIOUS
<1> QED BY <1>1, <1>2, <1>3

(* There are not more nodes in the array than there are. *)
LEMMA TreeFits ==
    ASSUME NEW m \in Nat, NEW A \in [1 .. m -> Nodes], Distinct(A, m)
    PROVE  /\ Cardinality(Nodes) \in Nat /\ m <= Cardinality(Nodes)
           /\ Cardinality({A[i] : i \in 1 .. m}) = m
           /\ \A n \in Nodes : (\A i \in 1 .. m : A[i] # n) => m < Cardinality(Nodes)
<1> DEFINE R == {A[i] : i \in 1 .. m}
<1>1. IsFiniteSet(Nodes) /\ Cardinality(Nodes) \in Nat
  BY HeapAssumption, FS_CardinalityType
<1>2. IsFiniteSet(1 .. m) /\ Cardinality(1 .. m) = m
  BY FS_Interval
<1>3. R \subseteq Nodes
  OBVIOUS
<1>4. A \in Bijection(1 .. m, R)
  <2>1. A \in [1 .. m -> R]
    OBVIOUS
  <2>2. A \in Injection(1 .. m, R)
    BY <2>1 DEF Injection, IsInjective, Distinct
  <2>3. A \in Surjection(1 .. m, R)
    BY <2>1 DEF Surjection
  <2> QED BY <2>2, <2>3 DEF Bijection
<1>5. IsFiniteSet(R) /\ Cardinality(R) = m
  BY <1>2, <1>4, FS_Bijection DEF ExistsBijection
<1> HIDE DEF R
<1>6. m <= Cardinality(Nodes)
  BY <1>1, <1>3, <1>5, FS_Subset
<1>7. ASSUME NEW n \in Nodes, \A i \in 1 .. m : A[i] # n
      PROVE  m < Cardinality(Nodes)
  <2>1. n \notin R
    BY <1>7 DEF R
  <2>2. Cardinality(R) # Cardinality(Nodes)
    BY <2>1, <1>1, <1>3, FS_Subset
  <2> QED BY <2>2, <1>1, <1>5, <1>6
<1> QED BY <1>1, <1>5, <1>6, <1>7 DEF R

(* The walk by the bits of i leads to the i-th node of the array, and past *)
(* its end to none.                                                        *)
LEMMA WalkFinds ==
    ASSUME NEW A, NEW m, NEW r, NEW lf, NEW rt, NEW pa, Tree(A, m, r, lf, rt, pa)
    PROVE  \A i \in 1 .. Cardinality(Nodes) + 1 :
               NodesOf(r, lf, rt)[i] = IF i <= m THEN A[i] ELSE NULL
<1>1. m \in Nat /\ A \in [1 .. m -> Nodes] /\ Distinct(A, m)
  BY DEF Tree
<1>2. PICK N \in Nat : N = Cardinality(Nodes) /\ m <= N
  BY <1>1, TreeFits
<1> DEFINE D == 1 .. Cardinality(Nodes) + 1
           Step(f, i) == IF i = 1 THEN r
                         ELSE Follow(IF i % 2 = 1 THEN rt ELSE lf, f[i \div 2])
           Solves(f) == f = [i \in D |-> Step(f, i)]
           at == CHOOSE f : Solves(f)
           g == [i \in D |-> IF i <= m THEN A[i] ELSE NULL]
<1>3. D = 1 .. N + 1
  BY <1>2
<1>4. r = (IF m = 0 THEN NULL ELSE A[1])
  BY DEF Tree
<1>5. \A i \in 1 .. m : /\ lf[A[i]] = IF 2 * i <= m THEN A[2 * i] ELSE NULL
                        /\ rt[A[i]] = IF 2 * i + 1 <= m THEN A[2 * i + 1] ELSE NULL
                        /\ A[i] \in Nodes
  <2> SUFFICES ASSUME NEW i \in 1 .. m
               PROVE  /\ lf[A[i]] = IF 2 * i <= m THEN A[2 * i] ELSE NULL
                      /\ rt[A[i]] = IF 2 * i + 1 <= m THEN A[2 * i + 1] ELSE NULL
                      /\ A[i] \in Nodes
    OBVIOUS
  <2>1. 2 * i + 0 = 2 * i /\ i \in Nat
    BY <1>1
  <2>2. lf[A[i]] = IF 2 * i + 0 <= m THEN A[2 * i + 0] ELSE NULL
    BY DEF Tree, Side
  <2>3. rt[A[i]] = IF 2 * i + 1 <= m THEN A[2 * i + 1] ELSE NULL
    BY DEF Tree, Side
  <2> QED BY <1>1, <2>1, <2>2, <2>3
<1> HIDE DEF D
<1>6. Solves(g)
  <2>1. ASSUME NEW i \in D PROVE g[i] = Step(g, i)
    <3>1. CASE i = 1
      BY <3>1, <1>1, <1>3, <1>4
    <3>2. CASE i # 1
      <4>1. PICK k \in Nat, s \in {0, 1} : k = i \div 2 /\ s = i % 2
        <5>1. i \in Nat /\ i >= 2
          BY <3>2, <1>3
        <5>2. i \div 2 \in Nat /\ i % 2 \in {0, 1}
          BY <5>1, Halves
        <5> QED BY <5>2
      <4>2. i \in Nat /\ k \in D /\ k >= 1 /\ i = 2 * k + s /\ k < i
        <5>1. i \in Nat /\ i >= 2 /\ i <= N + 1
          BY <3>2, <1>3
        <5>2. k >= 1 /\ k < i /\ i = 2 * k + s
          BY <5>1, <4>1, Halves
        <5> QED BY <5>1, <5>2, <1>3
      <4>3. CASE k <= m
        <5>1. g[k] = A[k] /\ k \in 1 .. m
          BY <4>2, <4>3
        <5>2. Follow(IF s = 1 THEN rt ELSE lf, A[k]) = IF i <= m THEN A[i] ELSE NULL
          BY <5>1, <4>2, <1>5 DEF Follow
        <5> QED BY <5>1, <5>2, <3>2, <4>1
      <4>4. CASE ~(k <= m)
        <5>1. g[k] = NULL /\ g[i] = NULL
          BY <4>2, <4>4, <1>1
        <5> QED BY <5>1, <3>2, <4>1, HeapAssumption DEF Follow
      <4> QED BY <4>3, <4>4
    <3> QED BY <3>1, <3>2
  <2> HIDE DEF Step
  <2>2. g = [i \in D |-> g[i]]
    OBVIOUS
  <2> HIDE DEF g
  <2> QED BY <2>1, <2>2
<1>7. Solves(at)
  <2> HIDE DEF g, Solves
  <2> QED BY <1>6
<1>8. DOMAIN at = D /\ \A i \in D : at[i] = Step(at, i)
  <2> HIDE DEF at, Step
  <2> QED BY <1>7
<1>9. \A i \in D : at[i] = g[i]
  <2> SUFFICES ASSUME \E i \in D : at[i] # g[i] PROVE FALSE
    OBVIOUS
  <2> DEFINE T == {i \in D : at[i] # g[i]}
  <2>1. T \subseteq Nat /\ T # {}
    <3> HIDE DEF at, g
    <3>1. D \subseteq Nat
      BY <1>3
    <3> QED BY <3>1
  <2>2. PICK k \in T : \A y \in T : k <= y
    BY <2>1, LeastNatural
  <2>3. k \in D /\ at[k] # g[k] /\ k \in Nat
    BY <2>1, <2>2
  <2>6. at[k] = Step(at, k) /\ g[k] = Step(g, k)
    <3> HIDE DEF Step, at
    <3> QED BY <1>6, <1>8, <2>3
  <2>4. CASE k = 1
    BY <2>3, <2>4, <2>6
  <2>5. CASE k # 1
    <3>1. k \div 2 \in D /\ ~(k <= k \div 2)
      BY <2>3, <2>5, <1>3, Halves
    <3>2. at[k \div 2] = g[k \div 2]
      BY <3>1, <2>2
    <3> QED BY <3>2, <2>6, <2>3
  <2> QED BY <2>4, <2>5
<1>10. NodesOf(r, lf, rt) = at
  BY DEF NodesOf, D
<1> HIDE DEF at
<1> QED BY <1>9, <1>10 DEF D
-----------------------------------------------------------------------------
(* A swap of a node with its parent.                                       *)

(* The array after the places p and c changed their nodes. *)
Exchanged(A, p, c) == [A EXCEPT ![p] = A[c], ![c] = A[p]]

(* What heap_swap does to the links f of one side, and to pa. *)
SwapsSide(f, f2, child, par, pa) ==
    /\ f2 \in Links
    /\ f2[par] = f[child]
    /\ f2[child] = IF f[par] = child THEN par ELSE f[par]
    /\ \A n \in Nodes \ {child, par} :
          f2[n] = IF n = pa[par] /\ f[n] = par THEN child ELSE f[n]

SwapsAbove(pa, pa2, lf, rt, child, par) ==
    /\ pa2 \in Links
    /\ pa2[child] = pa[par]
    /\ pa2[par] = child
    /\ \A n \in Nodes \ {child, par} :
          pa2[n] = IF n \in {lf[child], rt[child]} THEN par
                   ELSE IF n \in {lf[par], rt[par]} THEN child ELSE pa[n]

(* The array itself. *)
LEMMA ExchangedFacts ==
    ASSUME NEW m \in Nat, NEW A \in [1 .. m -> Nodes], Distinct(A, m),
           NEW p \in 1 .. m, NEW c \in 1 .. m, p # c
    PROVE  /\ Exchanged(A, p, c) \in [1 .. m -> Nodes]
           /\ Distinct(Exchanged(A, p, c), m)
           /\ Exchanged(A, p, c)[p] = A[c] /\ Exchanged(A, p, c)[c] = A[p]
           /\ \A i \in 1 .. m : i # p /\ i # c => Exchanged(A, p, c)[i] = A[i]
           /\ Held(Exchanged(A, p, c), m) = Held(A, m)
<1> DEFINE B == Exchanged(A, p, c)
<1>1. /\ B \in [1 .. m -> Nodes] /\ B[p] = A[c] /\ B[c] = A[p]
      /\ \A i \in 1 .. m : i # p /\ i # c => B[i] = A[i]
  BY DEF Exchanged
<1> HIDE DEF B
<1>2. Distinct(B, m)
  BY <1>1 DEF Distinct
<1>3. Held(B, m) = Held(A, m)
  BY <1>1 DEF Held
<1> QED BY <1>1, <1>2, <1>3 DEF B

(* One side after the swap. *)
LEMMA SwapSide ==
    ASSUME NEW m \in Nat, NEW A \in [1 .. m -> Nodes], Distinct(A, m),
           NEW s \in {0, 1}, NEW u \in {0, 1}, NEW p \in 1 .. m, NEW c \in 1 .. m,
           c = 2 * p + u, NEW f, NEW f2, NEW pa,
           Side(A, m, f, s), Above(A, m, pa), SwapsSide(f, f2, A[c], A[p], pa)
    PROVE  Side(Exchanged(A, p, c), m, f2, s)
<1>0. p # c /\ p < c
  OBVIOUS
<1>1. PICK B : B = Exchanged(A, p, c)
  OBVIOUS
<1>2. /\ B \in [1 .. m -> Nodes] /\ B[p] = A[c] /\ B[c] = A[p]
      /\ \A i \in 1 .. m : i # p /\ i # c => B[i] = A[i]
  BY <1>0, <1>1, ExchangedFacts
<1>3. PICK child \in Nodes, par \in Nodes : child = A[c] /\ par = A[p]
  OBVIOUS
<1>4. /\ f2[par] = f[child]
      /\ f2[child] = (IF f[par] = child THEN par ELSE f[par])
      /\ \A n \in Nodes \ {child, par} :
            f2[n] = IF n = pa[par] /\ f[n] = par THEN child ELSE f[n]
  BY <1>3 DEF SwapsSide
<1> SUFFICES ASSUME NEW i \in 1 .. m
             PROVE  f2[B[i]] = IF 2 * i + s <= m THEN B[2 * i + s] ELSE NULL
  BY <1>1 DEF Side
<1>5. PICK k \in Nat : k = 2 * i + s
  OBVIOUS
<1>6. f[A[i]] = IF k <= m THEN A[k] ELSE NULL
  BY <1>5 DEF Side
<1>7. k > i /\ (k <= m => k \in 1 .. m)
  BY <1>5
<1>8. CASE i = p
  <2>1. B[i] = child /\ A[i] = par
    BY <1>2, <1>3, <1>8
  <2>2. f[par] = child <=> k = c
    BY <1>3, <1>6, <1>7, <2>1, HeapAssumption DEF Distinct
  <2>3. k # p
    BY <1>7, <1>8
  <2> QED BY <1>2, <1>3, <1>4, <1>5, <1>6, <1>7, <2>1, <2>2, <2>3
<1>9. CASE i = c
  <2>1. B[i] = par /\ A[i] = child
    BY <1>2, <1>3, <1>9
  <2>2. k # p /\ k # c
    BY <1>0, <1>7, <1>9
  <2> QED BY <1>2, <1>4, <1>5, <1>6, <1>7, <2>1, <2>2
<1>10. CASE i # p /\ i # c
  <2>1. B[i] = A[i] /\ A[i] \in Nodes \ {child, par}
    BY <1>2, <1>3, <1>10 DEF Distinct
  <2>2. k # c
    BY <1>5, <1>10
  <2>3. CASE k = p
    <3>1. f[A[i]] = par /\ k <= m
      BY <1>3, <1>6, <2>3
    <3>2. pa[par] = A[i]
      BY <1>3, <1>5, <2>3, <3>1 DEF Above
    <3>3. f2[B[i]] = child
      BY <1>4, <2>1, <3>1, <3>2
    <3> QED BY <1>2, <1>3, <1>5, <2>3, <3>1, <3>3
  <2>4. CASE k # p
    <3>1. f[A[i]] # par
      BY <1>3, <1>6, <1>7, <2>4, HeapAssumption DEF Distinct
    <3>2. f2[B[i]] = f[A[i]]
      BY <1>4, <2>1, <3>1
    <3> QED BY <1>2, <1>5, <1>6, <1>7, <2>2, <2>4, <3>2
  <2> QED BY <2>3, <2>4
<1> QED BY <1>8, <1>9, <1>10

(* The links to the parents after the swap. *)
LEMMA SwapAbove ==
    ASSUME NEW m \in Nat, NEW A \in [1 .. m -> Nodes], Distinct(A, m),
           NEW u \in {0, 1}, NEW p \in 1 .. m, NEW c \in 1 .. m,
           c = 2 * p + u, NEW lf, NEW rt, NEW pa, NEW pa2,
           Side(A, m, lf, 0), Side(A, m, rt, 1), Above(A, m, pa),
           SwapsAbove(pa, pa2, lf, rt, A[c], A[p])
    PROVE  Above(Exchanged(A, p, c), m, pa2)
<1>0. p # c /\ p < c /\ c >= 2
  OBVIOUS
<1>1. PICK B : B = Exchanged(A, p, c)
  OBVIOUS
<1>2. /\ B \in [1 .. m -> Nodes] /\ B[p] = A[c] /\ B[c] = A[p]
      /\ \A i \in 1 .. m : i # p /\ i # c => B[i] = A[i]
  BY <1>0, <1>1, ExchangedFacts
<1>3. PICK child \in Nodes, par \in Nodes : child = A[c] /\ par = A[p]
  OBVIOUS
<1>4. /\ pa2[child] = pa[par] /\ pa2[par] = child
      /\ \A n \in Nodes \ {child, par} :
            pa2[n] = IF n \in {lf[child], rt[child]} THEN par
                     ELSE IF n \in {lf[par], rt[par]} THEN child ELSE pa[n]
  BY <1>3 DEF SwapsAbove
<1>5. ASSUME NEW k \in 1 .. m, NEW i \in 1 .. m
      PROVE  A[k] \in {lf[A[i]], rt[A[i]]} <=> k = 2 * i \/ k = 2 * i + 1
  <2>1. 2 * i + 0 = 2 * i /\ i \in Nat
    OBVIOUS
  <2>2. lf[A[i]] = IF 2 * i <= m THEN A[2 * i] ELSE NULL
    BY <2>1 DEF Side
  <2>3. rt[A[i]] = IF 2 * i + 1 <= m THEN A[2 * i + 1] ELSE NULL
    BY DEF Side
  <2>4. A[k] # NULL
    BY HeapAssumption
  <2>5. A[k] = lf[A[i]] <=> k = 2 * i
    BY <2>1, <2>2, <2>4 DEF Distinct
  <2>6. A[k] = rt[A[i]] <=> k = 2 * i + 1
    BY <2>1, <2>3, <2>4 DEF Distinct
  <2> QED BY <2>5, <2>6
<1>6. \A k \in 1 .. m : k # p /\ k # c =>
         /\ A[k] \in Nodes \ {child, par} /\ B[k] = A[k]
         /\ pa2[B[k]] = IF k = 2 * c \/ k = 2 * c + 1 THEN par
                        ELSE IF k = 2 * p \/ k = 2 * p + 1 THEN child ELSE pa[A[k]]
  <2> SUFFICES ASSUME NEW k \in 1 .. m, k # p, k # c
               PROVE  /\ A[k] \in Nodes \ {child, par} /\ B[k] = A[k]
                      /\ pa2[B[k]] = IF k = 2 * c \/ k = 2 * c + 1 THEN par
                                     ELSE IF k = 2 * p \/ k = 2 * p + 1 THEN child
                                     ELSE pa[A[k]]
    OBVIOUS
  <2>1. A[k] \in Nodes \ {child, par} /\ B[k] = A[k]
    BY <1>2, <1>3 DEF Distinct
  <2>2. A[k] \in {lf[child], rt[child]} <=> k = 2 * c \/ k = 2 * c + 1
    BY <1>3, <1>5
  <2>3. A[k] \in {lf[par], rt[par]} <=> k = 2 * p \/ k = 2 * p + 1
    BY <1>3, <1>5
  <2> QED BY <1>4, <2>1, <2>2, <2>3
<1>7. m >= 1 => pa2[B[1]] = NULL
  <2> SUFFICES ASSUME m >= 1 PROVE pa2[B[1]] = NULL
    OBVIOUS
  <2>1. pa[A[1]] = NULL /\ 1 \in 1 .. m
    BY DEF Above
  <2>2. CASE p = 1
    BY <1>2, <1>3, <1>4, <2>1, <2>2
  <2>3. CASE p # 1
    <3>1. 1 # c /\ 1 # 2 * c /\ 1 # 2 * c + 1 /\ 1 # 2 * p /\ 1 # 2 * p + 1
      BY <1>0
    <3> QED BY <1>6, <2>1, <2>3, <3>1
  <2> QED BY <2>2, <2>3
<1>8. ASSUME NEW i \in 1 .. m, NEW s \in {0, 1}, 2 * i + s <= m
      PROVE  pa2[B[2 * i + s]] = B[i]
  <2>1. PICK k \in 1 .. m : k = 2 * i + s
    BY <1>8
  <2>2. pa[A[k]] = A[i]
    BY <1>8, <2>1 DEF Above
  <2>3. CASE k = p
    <3>1. i # p /\ i # c
      BY <1>0, <2>1, <2>3
    <3> QED BY <1>2, <1>3, <1>4, <2>1, <2>2, <2>3, <3>1
  <2>4. CASE k = c
    <3>1. i = p
      BY <2>1, <2>4
    <3> QED BY <1>2, <1>3, <1>4, <2>1, <2>4, <3>1
  <2>5. CASE k # p /\ k # c
    <3>1. /\ k = 2 * c \/ k = 2 * c + 1 <=> i = c
          /\ k = 2 * p \/ k = 2 * p + 1 <=> i = p
      BY <2>1
    <3>2. pa2[B[k]] = IF i = c THEN par ELSE IF i = p THEN child ELSE pa[A[k]]
      BY <1>6, <2>5, <3>1
    <3> QED BY <1>0, <1>2, <1>3, <2>1, <2>2, <3>2
  <2> QED BY <2>3, <2>4, <2>5
<1> QED BY <1>1, <1>7, <1>8 DEF Above

(* The parent link of the node at place p. *)
LEMMA AboveFacts ==
    ASSUME NEW m \in Nat, NEW A \in [1 .. m -> Nodes], Distinct(A, m),
           NEW p \in 1 .. m, NEW pa, Above(A, m, pa)
    PROVE  /\ p = 1 => pa[A[p]] = NULL
           /\ p # 1 => \E i \in 1 .. m : \E s \in {0, 1} :
                 p = 2 * i + s /\ i < p /\ pa[A[p]] = A[i] /\ pa[A[p]] \in Nodes
<1>1. CASE p = 1
  BY <1>1 DEF Above
<1>2. CASE p # 1
  <2>1. PICK i \in Nat, s \in {0, 1} : i >= 1 /\ i < p /\ p = 2 * i + s
    <3>1. p \in Nat /\ p >= 2
      BY <1>2
    <3> QED BY <3>1, Halves
  <2>2. i \in 1 .. m
    BY <2>1
  <2>4. 2 * i + s <= m
    BY <2>1
  <2>5. pa[A[2 * i + s]] = A[i]
    BY <2>2, <2>4 DEF Above
  <2>3. pa[A[p]] = A[i]
    BY <2>1, <2>5
  <2> QED BY <1>2, <2>1, <2>2, <2>3
<1> QED BY <1>1, <1>2

(* heap_swap exchanges two places of the array. *)
LEMMA SwapKeeps ==
    ASSUME NEW A, NEW m, Tree(A, m, root, left, right, parent),
           NEW u \in {0, 1}, NEW p \in 1 .. m, NEW c \in 1 .. m, c = 2 * p + u,
           heap_swap(A[c], A[p])
    PROVE  Tree(Exchanged(A, p, c), m, root', left', right', parent')
<1>1. /\ m \in Nat /\ A \in [1 .. m -> Nodes] /\ Distinct(A, m)
      /\ left \in Links /\ right \in Links /\ parent \in Links
      /\ root = (IF m = 0 THEN NULL ELSE A[1])
      /\ Side(A, m, left, 0) /\ Side(A, m, right, 1) /\ Above(A, m, parent)
  BY DEF Tree
<1>2. PICK child \in Nodes, par \in Nodes : child = A[c] /\ par = A[p]
  BY <1>1
<1>3. p # c /\ p < c
  BY <1>1
<1>4. child # par
  BY <1>1, <1>2, <1>3 DEF Distinct
<1>5. heap_swap(child, par)
  BY <1>2
<1>6. ASSUME NEW n \in Nodes, n = parent[par]
      PROVE  left[n] # par <=> right[n] = par
  <2>1. PICK i \in 1 .. m, s \in {0, 1} : p = 2 * i + s /\ n = A[i]
    BY <1>1, <1>2, <1>6, AboveFacts, HeapAssumption
  <2>2. i \in Nat /\ 2 * i + 0 = 2 * i
    BY <1>1
  <2>3. left[n] = IF 2 * i <= m THEN A[2 * i] ELSE NULL
    BY <1>1, <2>1, <2>2 DEF Side
  <2>4. right[n] = IF 2 * i + 1 <= m THEN A[2 * i + 1] ELSE NULL
    BY <1>1, <2>1 DEF Side
  <2>5. CASE s = 0
    <3>1. left[n] = par
      BY <1>2, <1>1, <2>1, <2>2, <2>3, <2>5
    <3>2. right[n] # par
      BY <1>1, <1>2, <2>1, <2>2, <2>4, <2>5, HeapAssumption DEF Distinct
    <3> QED BY <3>1, <3>2
  <2>6. CASE s = 1
    <3>1. right[n] = par
      BY <1>2, <1>1, <2>1, <2>2, <2>4, <2>6
    <3>2. left[n] # par
      BY <1>1, <1>2, <2>1, <2>2, <2>3, <2>6, HeapAssumption DEF Distinct
    <3> QED BY <3>1, <3>2
  <2> QED BY <2>5, <2>6
<1>7. SwapsSide(left, left', child, par, parent)
  <2> DEFINE above == {parent[par]} \cap Nodes
             hangs == {n \in above : left[n] = par}
  <2>1. left' = SwapChildren(left, child, par, hangs)
    BY <1>5 DEF heap_swap
  <2>2. \A n \in Nodes : n \in hangs <=> n = parent[par] /\ left[n] = par
    OBVIOUS
  <2> HIDE DEF hangs
  <2>3. \A n \in Nodes :
           left'[n] = IF n = par THEN left[child]
                      ELSE IF n = child
                      THEN (IF left[par] = child THEN par ELSE left[par])
                      ELSE IF n \in hangs THEN child ELSE left[n]
    BY <1>4, <2>1 DEF SwapChildren
  <2>4. left' = [n \in Nodes |-> left'[n]]
    BY <2>1 DEF SwapChildren
  <2>5. \A n \in Nodes : left'[n] \in Nodes \cup {NULL, Stale}
    BY <1>1, <2>3 DEF Links
  <2>6. left' \in Links
    BY <2>4, <2>5 DEF Links
  <2>7. left'[par] = left[child]
    BY <2>3
  <2>8. left'[child] = IF left[par] = child THEN par ELSE left[par]
    BY <1>4, <2>3
  <2>9. \A n \in Nodes \ {child, par} :
           left'[n] = IF n = parent[par] /\ left[n] = par THEN child ELSE left[n]
    BY <2>2, <2>3
  <2> QED BY <2>6, <2>7, <2>8, <2>9 DEF SwapsSide
<1>8. SwapsSide(right, right', child, par, parent)
  <2> DEFINE above == {parent[par]} \cap Nodes
             hangs == above \ {n \in above : left[n] = par}
  <2>1. right' = SwapChildren(right, child, par, hangs)
    BY <1>5 DEF heap_swap
  <2>2. \A n \in Nodes : n \in hangs <=> n = parent[par] /\ right[n] = par
    BY <1>6
  <2> HIDE DEF hangs
  <2>3. \A n \in Nodes :
           right'[n] = IF n = par THEN right[child]
                       ELSE IF n = child
                       THEN (IF right[par] = child THEN par ELSE right[par])
                       ELSE IF n \in hangs THEN child ELSE right[n]
    BY <1>4, <2>1 DEF SwapChildren
  <2>4. right' = [n \in Nodes |-> right'[n]]
    BY <2>1 DEF SwapChildren
  <2>5. \A n \in Nodes : right'[n] \in Nodes \cup {NULL, Stale}
    BY <1>1, <2>3 DEF Links
  <2>6. right' \in Links
    BY <2>4, <2>5 DEF Links
  <2>7. right'[par] = right[child]
    BY <2>3
  <2>8. right'[child] = IF right[par] = child THEN par ELSE right[par]
    BY <1>4, <2>3
  <2>9. \A n \in Nodes \ {child, par} :
           right'[n] = IF n = parent[par] /\ right[n] = par THEN child ELSE right[n]
    BY <2>2, <2>3
  <2> QED BY <2>6, <2>7, <2>8, <2>9 DEF SwapsSide
<1>9. SwapsAbove(parent, parent', left, right, child, par)
  <2>1. parent' = [[n \in Nodes |-> IF n \in {left[child], right[child]} THEN par
                                    ELSE IF n \in {left[par], right[par]} THEN child
                                    ELSE parent[n]]
                      EXCEPT ![child] = parent[par], ![par] = child]
    BY <1>5 DEF heap_swap
  <2>2. \A n \in Nodes :
           parent'[n] = IF n = child THEN parent[par]
                        ELSE IF n = par THEN child
                        ELSE IF n \in {left[child], right[child]} THEN par
                        ELSE IF n \in {left[par], right[par]} THEN child
                        ELSE parent[n]
    BY <1>4, <2>1
  <2>3. parent' = [n \in Nodes |-> parent'[n]]
    BY <2>1
  <2>4. \A n \in Nodes : parent'[n] \in Nodes \cup {NULL, Stale}
    BY <1>1, <2>2 DEF Links
  <2>5. parent' \in Links
    BY <2>3, <2>4 DEF Links
  <2>6. parent'[child] = parent[par] /\ parent'[par] = child
    BY <1>4, <2>2
  <2>7. \A n \in Nodes \ {child, par} :
           parent'[n] = IF n \in {left[child], right[child]} THEN par
                        ELSE IF n \in {left[par], right[par]} THEN child ELSE parent[n]
    BY <2>2
  <2> QED BY <2>5, <2>6, <2>7 DEF SwapsAbove
<1>10. PICK B : B = Exchanged(A, p, c)
  OBVIOUS
<1>11. B \in [1 .. m -> Nodes] /\ Distinct(B, m) /\ B[p] = child
       /\ \A i \in 1 .. m : i # p /\ i # c => B[i] = A[i]
  BY <1>1, <1>2, <1>3, <1>10, ExchangedFacts
<1>12. Side(B, m, left', 0) /\ Side(B, m, right', 1)
  BY <1>1, <1>2, <1>7, <1>8, <1>10, SwapSide
<1>13. Above(B, m, parent')
  BY <1>1, <1>2, <1>9, <1>10, SwapAbove
<1>14. root' = IF m = 0 THEN NULL ELSE B[1]
  <2>1. root' = IF parent[par] = NULL THEN child ELSE root
    BY <1>5 DEF heap_swap
  <2>2. CASE p = 1
    BY <1>1, <1>2, <1>11, <2>1, <2>2, AboveFacts
  <2>3. CASE p # 1
    <3>1. parent[par] # NULL
      BY <1>1, <1>2, <2>3, AboveFacts, HeapAssumption
    <3>2. m # 0 /\ 1 \in 1 .. m /\ 1 # p /\ 1 # c
      BY <1>1, <1>3, <2>3
    <3> QED BY <1>1, <1>11, <2>1, <3>1, <3>2
  <2> QED BY <2>2, <2>3
<1>15. left' \in Links /\ right' \in Links /\ parent' \in Links
  BY <1>7, <1>8, <1>9 DEF SwapsSide, SwapsAbove
<1> QED BY <1>1, <1>10, <1>11, <1>12, <1>13, <1>14, <1>15 DEF Tree
-----------------------------------------------------------------------------
(* A node is added at the end, taken from the end, or put in the place of  *)
(* another one.                                                            *)

Grown(A, m, n) == [i \in 1 .. m + 1 |-> IF i = m + 1 THEN n ELSE A[i]]

Shrunk(A, m) == [i \in 1 .. m - 1 |-> A[i]]

(* The array with n at its end. *)
LEMMA GrownFacts ==
    ASSUME NEW m \in Nat, NEW A \in [1 .. m -> Nodes], NEW n \in Nodes
    PROVE  /\ \A i \in 1 .. m : Grown(A, m, n)[i] = A[i]
           /\ Grown(A, m, n)[m + 1] = n
           /\ Held(Grown(A, m, n), m + 1) = Held(A, m) \cup {n}
<1>1. /\ \A i \in 1 .. m : Grown(A, m, n)[i] = A[i]
      /\ Grown(A, m, n)[m + 1] = n
  BY DEF Grown
<1>2. /\ \A i \in 1 .. m : i \in 1 .. m + 1
      /\ \A i \in 1 .. m + 1 : i \in 1 .. m \/ i = m + 1
      /\ m + 1 \in 1 .. m + 1
  OBVIOUS
<1> QED BY <1>1, <1>2 DEF Held

(* The array without its last place. *)
LEMMA ShrunkFacts ==
    ASSUME NEW m \in Nat \ {0}, NEW A \in [1 .. m -> Nodes], Distinct(A, m)
    PROVE  /\ \A i \in 1 .. m - 1 : Shrunk(A, m)[i] = A[i]
           /\ Held(Shrunk(A, m), m - 1) = Held(A, m) \ {A[m]}
<1>1. \A i \in 1 .. m - 1 : Shrunk(A, m)[i] = A[i]
  BY DEF Shrunk
<1>2. /\ \A i \in 1 .. m - 1 : i \in 1 .. m /\ i # m
      /\ \A i \in 1 .. m : i \in 1 .. m - 1 \/ i = m
      /\ m \in 1 .. m
  OBVIOUS
<1>3. \A i \in 1 .. m - 1 : A[i] # A[m]
  BY <1>2 DEF Distinct
<1> QED BY <1>1, <1>2, <1>3 DEF Held

(* The links of the two sides and to the parents after n was hung below    *)
(* last, on the side v.                                                    *)
GrowsSide(f, f2, n, last, s, v) ==
    /\ f2 \in Links /\ f2[n] = NULL
    /\ \A x \in Nodes \ {n} : f2[x] = IF s = v /\ x = last THEN n ELSE f[x]

GrowsAbove(pa, pa2, n, last) ==
    /\ pa2 \in Links /\ pa2[n] = last
    /\ \A x \in Nodes \ {n} : pa2[x] = pa[x]

(* last is the node below which the next one is to hang. *)
HangsBelow(A, m, last, h, v) ==
    /\ h \in Nat /\ v \in {0, 1} /\ m + 1 = 2 * h + v
    /\ m = 0 => last = NULL
    /\ m # 0 => last = A[h]

(* A tree with one more node. *)
LEMMA GrowKeeps ==
    ASSUME NEW A, NEW m, NEW r, NEW lf, NEW rt, NEW pa, Tree(A, m, r, lf, rt, pa),
           NEW r2, NEW lf2, NEW rt2, NEW pa2,
           NEW n \in Nodes, n \notin Held(A, m),
           NEW h, NEW v, NEW last, HangsBelow(A, m, last, h, v),
           r2 = IF m = 0 THEN n ELSE r,
           GrowsSide(lf, lf2, n, last, 0, v), GrowsSide(rt, rt2, n, last, 1, v),
           GrowsAbove(pa, pa2, n, last)
    PROVE  Tree(Grown(A, m, n), m + 1, r2, lf2, rt2, pa2)
<1>1. /\ m \in Nat /\ A \in [1 .. m -> Nodes] /\ Distinct(A, m)
      /\ r = (IF m = 0 THEN NULL ELSE A[1])
      /\ Side(A, m, lf, 0) /\ Side(A, m, rt, 1) /\ Above(A, m, pa)
  BY DEF Tree
<1>0. /\ h \in Nat /\ v \in {0, 1} /\ m + 1 = 2 * h + v
      /\ m = 0 => last = NULL
      /\ m # 0 => last = A[h]
  BY DEF HangsBelow
<1>13. \A i \in 1 .. m : A[i] # n
  BY DEF Held
<1>2. PICK B : B = Grown(A, m, n)
  OBVIOUS
<1>3. /\ B \in [1 .. m + 1 -> Nodes] /\ B[m + 1] = n /\ m + 1 \in 1 .. m + 1
      /\ \A i \in 1 .. m : B[i] = A[i] /\ i \in 1 .. m + 1 /\ i # m + 1
      /\ \A i \in 1 .. m + 1 : i \in 1 .. m \/ i = m + 1
  BY <1>1, <1>2 DEF Grown
<1>4. Distinct(B, m + 1)
  BY <1>1, <1>3, <1>13 DEF Distinct
<1>6. m # 0 => h \in 1 .. m
  BY <1>0, <1>1
<1>7. ASSUME NEW s \in {0, 1}, NEW f, NEW f2, Side(A, m, f, s),
             GrowsSide(f, f2, n, last, s, v)
      PROVE  Side(B, m + 1, f2, s)
  <2>1. f2[n] = NULL /\ \A x \in Nodes \ {n} : f2[x] = IF s = v /\ x = last THEN n ELSE f[x]
    BY <1>7 DEF GrowsSide
  <2> SUFFICES ASSUME NEW i \in 1 .. m + 1
               PROVE  f2[B[i]] = IF 2 * i + s <= m + 1 THEN B[2 * i + s] ELSE NULL
    BY DEF Side
  <2>2. PICK k \in Nat : k = 2 * i + s
    OBVIOUS
  <2>3. CASE i = m + 1
    <3>1. ~(k <= m + 1)
      BY <1>1, <2>2, <2>3
    <3> QED BY <1>3, <2>1, <2>2, <2>3, <3>1
  <2>4. CASE i \in 1 .. m
    <3>1. B[i] = A[i] /\ A[i] \in Nodes \ {n}
      BY <1>1, <1>3, <1>13, <2>4
    <3>2. f[A[i]] = IF k <= m THEN A[k] ELSE NULL
      BY <1>7, <2>2, <2>4 DEF Side
    <3>3. m # 0 /\ last = A[h] /\ h \in 1 .. m
      BY <1>0, <1>1, <1>6, <2>4
    <3>4. k = m + 1 <=> s = v /\ i = h
      BY <1>0, <2>2, <3>3
    <3>5. A[i] = last <=> i = h
      BY <1>1, <2>4, <3>3 DEF Distinct
    <3>6. CASE k = m + 1
      BY <1>3, <2>1, <2>2, <3>1, <3>4, <3>5, <3>6
    <3>7. CASE k # m + 1
      <4>1. f2[B[i]] = f[A[i]]
        BY <2>1, <3>1, <3>4, <3>5, <3>7
      <4>2. k <= m + 1 => k \in 1 .. m /\ k <= m
        BY <1>1, <2>2, <3>7
      <4>3. ~(k <= m + 1) => ~(k <= m)
        BY <1>1
      <4> QED BY <1>3, <2>2, <3>2, <4>1, <4>2, <4>3
    <3> QED BY <3>6, <3>7
  <2> QED BY <1>3, <2>3, <2>4
<1>8. Side(B, m + 1, lf2, 0) /\ Side(B, m + 1, rt2, 1)
  BY <1>1, <1>7
<1>9. Above(B, m + 1, pa2)
  <2>1. pa2[n] = last /\ \A x \in Nodes \ {n} : pa2[x] = pa[x]
    BY DEF GrowsAbove
  <2>2. pa2[B[1]] = NULL
    <3>1. CASE m = 0
      BY <1>0, <1>3, <2>1, <3>1
    <3>2. CASE m # 0
      <4>1. 1 \in 1 .. m /\ pa[A[1]] = NULL
        BY <1>1, <3>2 DEF Above
      <4> QED BY <1>1, <1>3, <1>13, <2>1, <4>1
    <3> QED BY <3>1, <3>2
  <2>3. ASSUME NEW i \in 1 .. m + 1, NEW s \in {0, 1}, 2 * i + s <= m + 1
        PROVE  pa2[B[2 * i + s]] = B[i]
    <3>1. PICK k \in 1 .. m + 1 : k = 2 * i + s
      BY <1>1, <2>3
    <3>2. i \in 1 .. m /\ m # 0
      BY <1>1, <3>1
    <3>3. CASE k = m + 1
      <4>1. i = h
        BY <1>0, <1>1, <3>1, <3>3
      <4> QED BY <1>0, <1>3, <2>1, <3>1, <3>2, <3>3, <4>1
    <3>4. CASE k # m + 1
      <4>1. k \in 1 .. m
        BY <1>1, <3>4
      <4>2. pa[A[k]] = A[i]
        <5>1. 2 * i + s <= m
          BY <3>1, <4>1
        <5>2. pa[A[2 * i + s]] = A[i]
          BY <1>1, <3>2, <5>1 DEF Above
        <5> QED BY <3>1, <5>2
      <4> QED BY <1>1, <1>3, <1>13, <2>1, <3>1, <3>2, <4>1, <4>2
    <3> QED BY <3>3, <3>4
  <2> QED BY <2>2, <2>3 DEF Above
<1>10. r2 = IF m + 1 = 0 THEN NULL ELSE B[1]
  <2>1. CASE m = 0
    BY <1>3, <2>1
  <2>2. CASE m # 0
    <3>1. 1 \in 1 .. m
      BY <1>1, <2>2
    <3> QED BY <1>1, <1>3, <2>2, <3>1
  <2> QED BY <2>1, <2>2
<1>11. lf2 \in Links /\ rt2 \in Links /\ pa2 \in Links /\ m + 1 \in Nat
  BY <1>1 DEF GrowsSide, GrowsAbove
<1> QED BY <1>2, <1>3, <1>4, <1>8, <1>9, <1>10, <1>11 DEF Tree

(* The links after the last node was unlinked. *)
ShrinksSide(f, f2, last, pa) ==
    /\ f2 \in Links
    /\ \A x \in Nodes \ {last} :
          f2[x] = IF x = pa[last] /\ f[x] = last THEN NULL ELSE f[x]

ShrinksAbove(pa, pa2, last) ==
    /\ pa2 \in Links
    /\ \A x \in Nodes \ {last} : pa2[x] = pa[x]

(* A tree without its last node. *)
LEMMA ShrinkKeeps ==
    ASSUME NEW A, NEW m, NEW r, NEW lf, NEW rt, NEW pa, Tree(A, m, r, lf, rt, pa),
           m # 0, NEW r2, NEW lf2, NEW rt2, NEW pa2, NEW last, last = A[m],
           m = 1 => r2 = NULL, m # 1 => r2 = r,
           ShrinksSide(lf, lf2, last, pa), ShrinksSide(rt, rt2, last, pa),
           ShrinksAbove(pa, pa2, last)
    PROVE  Tree(Shrunk(A, m), m - 1, r2, lf2, rt2, pa2)
<1>1. /\ m \in Nat \ {0} /\ A \in [1 .. m -> Nodes] /\ Distinct(A, m)
      /\ r = (IF m = 0 THEN NULL ELSE A[1])
      /\ Side(A, m, lf, 0) /\ Side(A, m, rt, 1) /\ Above(A, m, pa)
  BY DEF Tree
<1>2. PICK B : B = Shrunk(A, m)
  OBVIOUS
<1>3. /\ B \in [1 .. m - 1 -> Nodes] /\ m \in 1 .. m
      /\ \A i \in 1 .. m - 1 : B[i] = A[i] /\ i \in 1 .. m /\ i # m
      /\ \A i \in 1 .. m : i \in 1 .. m - 1 \/ i = m
  <2>1. \A i \in 1 .. m - 1 : i \in 1 .. m /\ i # m
    BY <1>1
  <2> QED BY <1>1, <1>2, <2>1 DEF Shrunk
<1>4. Distinct(B, m - 1)
  BY <1>1, <1>3 DEF Distinct
<1>12. \A i \in 1 .. m - 1 : A[i] \in Nodes \ {last}
  BY <1>1, <1>3 DEF Distinct
<1>7. ASSUME NEW s \in {0, 1}, NEW f, NEW f2, Side(A, m, f, s),
             ShrinksSide(f, f2, last, pa)
      PROVE  Side(B, m - 1, f2, s)
  <2>1. \A x \in Nodes \ {last} :
           f2[x] = IF x = pa[last] /\ f[x] = last THEN NULL ELSE f[x]
    BY <1>7 DEF ShrinksSide
  <2> SUFFICES ASSUME NEW i \in 1 .. m - 1
               PROVE  f2[B[i]] = IF 2 * i + s <= m - 1 THEN B[2 * i + s] ELSE NULL
    BY DEF Side
  <2>2. PICK k \in Nat : k = 2 * i + s /\ k >= 1
    OBVIOUS
  <2>3. B[i] = A[i] /\ i \in 1 .. m /\ A[i] \in Nodes \ {last}
    BY <1>3, <1>12
  <2>4. f[A[i]] = IF k <= m THEN A[k] ELSE NULL
    BY <1>7, <2>2, <2>3 DEF Side
  <2>5. CASE k = m
    <3>1. f[A[i]] = last /\ ~(k <= m - 1)
      BY <1>1, <2>4, <2>5
    <3>2. pa[last] = A[i]
      <4>1. 2 * i + s <= m
        BY <1>1, <2>2, <2>5
      <4>2. pa[A[2 * i + s]] = A[i]
        BY <1>1, <2>3, <4>1 DEF Above
      <4> QED BY <2>2, <2>5, <4>2
    <3> QED BY <2>1, <2>2, <2>3, <3>1, <3>2
  <2>6. CASE k # m /\ k <= m
    <3>1. k \in 1 .. m - 1 /\ k <= m - 1
      BY <1>1, <2>2, <2>6
    <3>2. f[A[i]] = A[k] /\ A[k] # last /\ B[k] = A[k]
      BY <1>3, <1>12, <2>4, <2>6, <3>1
    <3> QED BY <2>1, <2>2, <2>3, <3>1, <3>2
  <2>7. CASE ~(k <= m)
    <3>1. ~(k <= m - 1)
      BY <1>1, <2>7
    <3>2. f[A[i]] = NULL
      BY <2>4, <2>7
    <3>3. f2[B[i]] = NULL
      BY <2>1, <2>3, <3>2
    <3> QED BY <2>2, <3>1, <3>3
  <2> QED BY <2>5, <2>6, <2>7
<1>8. Side(B, m - 1, lf2, 0) /\ Side(B, m - 1, rt2, 1)
  BY <1>1, <1>7
<1>9. Above(B, m - 1, pa2)
  <2>1. \A x \in Nodes \ {last} : pa2[x] = pa[x]
    BY DEF ShrinksAbove
  <2>2. ASSUME m - 1 >= 1 PROVE pa2[B[1]] = NULL
    <3>1. 1 \in 1 .. m - 1 /\ pa[A[1]] = NULL
      BY <1>1, <2>2 DEF Above
    <3> QED BY <1>3, <1>12, <2>1, <3>1
  <2>3. ASSUME NEW i \in 1 .. m - 1, NEW s \in {0, 1}, 2 * i + s <= m - 1
        PROVE  pa2[B[2 * i + s]] = B[i]
    <3>1. PICK k \in 1 .. m - 1 : k = 2 * i + s /\ 2 * i + s <= m
      BY <1>1, <2>3
    <3>2. pa[A[k]] = A[i]
      BY <1>1, <1>3, <3>1 DEF Above
    <3> QED BY <1>3, <1>12, <2>1, <3>1, <3>2
  <2> QED BY <2>2, <2>3 DEF Above
<1>10. r2 = IF m - 1 = 0 THEN NULL ELSE B[1]
  <2>1. CASE m = 1
    BY <2>1
  <2>2. CASE m # 1
    <3>1. 1 \in 1 .. m - 1 /\ m - 1 # 0
      BY <1>1, <2>2
    <3> QED BY <1>1, <1>3, <2>2, <3>1
  <2> QED BY <2>1, <2>2
<1>11. lf2 \in Links /\ rt2 \in Links /\ pa2 \in Links /\ m - 1 \in Nat
  BY <1>1 DEF ShrinksSide, ShrinksAbove
<1> QED BY <1>2, <1>3, <1>4, <1>8, <1>9, <1>10, <1>11 DEF Tree

(* The links after x took the place of n. *)
ReplacesSide(f, f2, n, x, pa) ==
    /\ f2 \in Links /\ f2[x] = f[n]
    /\ \A y \in Nodes \ {n, x} : f2[y] = IF y = pa[n] /\ f[y] = n THEN x ELSE f[y]

ReplacesAbove(pa, pa2, n, x, lf, rt) ==
    /\ pa2 \in Links /\ pa2[x] = pa[n]
    /\ \A y \in Nodes \ {n, x} : pa2[y] = IF y \in {lf[n], rt[n]} THEN x ELSE pa[y]

(* A tree with another node in one place. *)
LEMMA ReplaceKeeps ==
    ASSUME NEW A, NEW m, NEW r, NEW lf, NEW rt, NEW pa, Tree(A, m, r, lf, rt, pa),
           NEW r2, NEW lf2, NEW rt2, NEW pa2, NEW j \in 1 .. m, NEW n, n = A[j],
           NEW x \in Nodes, \A i \in 1 .. m : A[i] # x,
           pa[n] = NULL => r2 = x, pa[n] # NULL => r2 = r,
           ReplacesSide(lf, lf2, n, x, pa), ReplacesSide(rt, rt2, n, x, pa),
           ReplacesAbove(pa, pa2, n, x, lf, rt)
    PROVE  Tree([A EXCEPT ![j] = x], m, r2, lf2, rt2, pa2)
<1>1. /\ m \in Nat /\ A \in [1 .. m -> Nodes] /\ Distinct(A, m)
      /\ r = (IF m = 0 THEN NULL ELSE A[1])
      /\ Side(A, m, lf, 0) /\ Side(A, m, rt, 1) /\ Above(A, m, pa)
  BY DEF Tree
<1>2. PICK B : B = [A EXCEPT ![j] = x]
  OBVIOUS
<1>3. /\ B \in [1 .. m -> Nodes] /\ B[j] = x
      /\ \A i \in 1 .. m : i # j => B[i] = A[i]
  BY <1>1, <1>2
<1>4. \A i \in 1 .. m : i # j => A[i] \in Nodes \ {n, x}
  BY <1>1 DEF Distinct
<1>5. Distinct(B, m)
  BY <1>1, <1>3, <1>4 DEF Distinct
<1>7. ASSUME NEW s \in {0, 1}, NEW f, NEW f2, Side(A, m, f, s),
             ReplacesSide(f, f2, n, x, pa)
      PROVE  Side(B, m, f2, s)
  <2>1. /\ f2[x] = f[n]
        /\ \A y \in Nodes \ {n, x} : f2[y] = IF y = pa[n] /\ f[y] = n THEN x ELSE f[y]
    BY <1>7 DEF ReplacesSide
  <2> SUFFICES ASSUME NEW i \in 1 .. m
               PROVE  f2[B[i]] = IF 2 * i + s <= m THEN B[2 * i + s] ELSE NULL
    BY DEF Side
  <2>2. PICK k \in Nat : k = 2 * i + s /\ k > i
    BY <1>1
  <2>3. f[A[i]] = IF k <= m THEN A[k] ELSE NULL
    BY <1>7, <2>2 DEF Side
  <2>4. k <= m => k \in 1 .. m
    BY <1>1, <2>2
  <2>5. CASE i = j
    <3>1. k # j
      BY <2>2, <2>5
    <3>2. f2[B[i]] = f[A[i]]
      BY <1>3, <2>1, <2>5
    <3> QED BY <1>3, <2>2, <2>3, <2>4, <3>1, <3>2
  <2>6. CASE i # j /\ k = j
    <3>1. 2 * i + s <= m
      BY <1>1, <2>2, <2>6
    <3>2. pa[A[2 * i + s]] = A[i]
      BY <1>1, <3>1 DEF Above
    <3>3. pa[n] = A[i] /\ f[A[i]] = n /\ k <= m
      BY <2>2, <2>3, <2>6, <3>1, <3>2
    <3>4. B[i] = A[i] /\ A[i] \in Nodes \ {n, x}
      BY <1>3, <1>4, <2>6
    <3>5. f2[B[i]] = x
      BY <2>1, <3>3, <3>4
    <3> QED BY <1>3, <2>2, <2>6, <3>1, <3>5
  <2>7. CASE i # j /\ k # j
    <3>1. B[i] = A[i] /\ A[i] \in Nodes \ {n, x}
      BY <1>3, <1>4, <2>7
    <3>2. f[A[i]] # n
      BY <1>1, <1>4, <2>3, <2>4, <2>7, HeapAssumption
    <3>3. f2[B[i]] = f[A[i]]
      BY <2>1, <3>1, <3>2
    <3> QED BY <1>3, <2>2, <2>3, <2>4, <2>7, <3>3
  <2> QED BY <2>5, <2>6, <2>7
<1>8. Side(B, m, lf2, 0) /\ Side(B, m, rt2, 1)
  BY <1>1, <1>7
<1>9. Above(B, m, pa2)
  <2>1. /\ pa2[x] = pa[n]
        /\ \A y \in Nodes \ {n, x} : pa2[y] = IF y \in {lf[n], rt[n]} THEN x ELSE pa[y]
    BY DEF ReplacesAbove
  <2>2. ASSUME NEW k \in 1 .. m
        PROVE  A[k] \in {lf[n], rt[n]} <=> k = 2 * j \/ k = 2 * j + 1
    <3>1. 2 * j + 0 = 2 * j /\ j \in Nat
      BY <1>1
    <3>2. lf[A[j]] = IF 2 * j <= m THEN A[2 * j] ELSE NULL
      BY <1>1, <3>1 DEF Side
    <3>3. rt[A[j]] = IF 2 * j + 1 <= m THEN A[2 * j + 1] ELSE NULL
      BY <1>1 DEF Side
    <3>4. A[k] # NULL
      BY <1>1, HeapAssumption
    <3>5. A[k] = lf[A[j]] <=> k = 2 * j
      BY <1>1, <3>1, <3>2, <3>4 DEF Distinct
    <3>6. A[k] = rt[A[j]] <=> k = 2 * j + 1
      BY <1>1, <3>1, <3>3, <3>4 DEF Distinct
    <3> QED BY <3>5, <3>6
  <2>3. m >= 1 => pa2[B[1]] = NULL
    <3> SUFFICES ASSUME m >= 1 PROVE pa2[B[1]] = NULL
      OBVIOUS
    <3>1. pa[A[1]] = NULL /\ 1 \in 1 .. m
      BY <1>1 DEF Above
    <3>2. CASE j = 1
      BY <1>3, <2>1, <3>1, <3>2
    <3>3. CASE j # 1
      <4>1. 1 # 2 * j /\ 1 # 2 * j + 1
        OBVIOUS
      <4>2. A[1] \notin {lf[n], rt[n]}
        BY <2>2, <3>1, <4>1
      <4> QED BY <1>3, <1>4, <2>1, <3>1, <3>3, <4>2
    <3> QED BY <3>2, <3>3
  <2>4. ASSUME NEW i \in 1 .. m, NEW s \in {0, 1}, 2 * i + s <= m
        PROVE  pa2[B[2 * i + s]] = B[i]
    <3>1. PICK k \in 1 .. m : k = 2 * i + s /\ k > i
      BY <1>1, <2>4
    <3>2. pa[A[2 * i + s]] = A[i]
      BY <1>1, <2>4 DEF Above
    <3>3. pa[A[k]] = A[i]
      BY <3>1, <3>2
    <3>4. CASE k = j
      <4>1. B[i] = A[i]
        BY <1>3, <3>1, <3>4
      <4> QED BY <1>3, <2>1, <3>1, <3>3, <3>4, <4>1
    <3>5. CASE k # j
      <4>1. k = 2 * j \/ k = 2 * j + 1 <=> i = j
        BY <3>1
      <4>2. A[k] \in {lf[n], rt[n]} <=> i = j
        BY <2>2, <4>1
      <4>3. pa2[B[k]] = IF i = j THEN x ELSE pa[A[k]]
        BY <1>3, <1>4, <2>1, <3>5, <4>2
      <4> QED BY <1>3, <3>1, <3>3, <4>3
    <3> QED BY <3>4, <3>5
  <2> QED BY <2>3, <2>4 DEF Above
<1>10. r2 = IF m = 0 THEN NULL ELSE B[1]
  <2>1. m # 0 /\ 1 \in 1 .. m
    BY <1>1
  <2>2. CASE j = 1
    BY <1>1, <1>3, <2>1, <2>2, AboveFacts
  <2>3. CASE j # 1
    <3>1. pa[n] # NULL
      BY <1>1, <2>3, AboveFacts, HeapAssumption
    <3> QED BY <1>1, <1>3, <2>1, <2>3, <3>1
  <2> QED BY <2>2, <2>3
<1>11. lf2 \in Links /\ rt2 \in Links /\ pa2 \in Links
  BY DEF ReplacesSide, ReplacesAbove
<1> QED BY <1>1, <1>2, <1>3, <1>5, <1>8, <1>9, <1>10, <1>11 DEF Tree
-----------------------------------------------------------------------------
(* The operations do to the array what they would do to a heap in one.     *)

(* The members are the nodes of the array. *)
LEMMA WalkCovers ==
    ASSUME NEW A, NEW m, NEW r, NEW lf, NEW rt, NEW pa, Tree(A, m, r, lf, rt, pa)
    PROVE  /\ \A i \in 1 .. m : NodesOf(r, lf, rt)[i] = A[i]
           /\ {NodesOf(r, lf, rt)[i] : i \in 1 .. m} = Held(A, m)
<1>1. m \in Nat /\ A \in [1 .. m -> Nodes] /\ Distinct(A, m)
  BY DEF Tree
<1>2. PICK N \in Nat : N = Cardinality(Nodes) /\ m <= N
  BY <1>1, TreeFits
<1>3. \A i \in 1 .. N + 1 : NodesOf(r, lf, rt)[i] = IF i <= m THEN A[i] ELSE NULL
  BY <1>2, WalkFinds
<1>4. \A i \in 1 .. m : NodesOf(r, lf, rt)[i] = A[i]
  <2> SUFFICES ASSUME NEW i \in 1 .. m PROVE NodesOf(r, lf, rt)[i] = A[i]
    OBVIOUS
  <2>1. i \in 1 .. N + 1 /\ i <= m
    BY <1>1, <1>2
  <2> QED BY <1>3, <2>1
<1> QED BY <1>4 DEF Held

(* heap_insert hangs the new node at the end. *)
LEMMA InsertKeeps ==
    ASSUME NEW A, Tree(A, size, root, left, right, parent),
           NEW n \in Nodes, NEW k, heap_insert(n, k)
    PROVE  /\ Tree(Grown(A, size, n), size', root', left', right', parent')
           /\ \A i \in 1 .. size : A[i] # n /\ Grown(A, size, n)[i] = A[i]
           /\ Held(Grown(A, size, n), size') = Held(A, size) \cup {n}
           /\ Grown(A, size, n)[size'] = n /\ size' = size + 1
<1>1. /\ size \in Nat /\ A \in [1 .. size -> Nodes] /\ Distinct(A, size)
      /\ left \in Links /\ right \in Links /\ parent \in Links
      /\ root = (IF size = 0 THEN NULL ELSE A[1])
      /\ Side(A, size, left, 0) /\ Side(A, size, right, 1)
  BY DEF Tree
<1>2. \A i \in 1 .. size : A[i] # n
  <2>1. n \notin {NodesOf(root, left, right)[i] : i \in 1 .. size}
    BY DEF heap_insert, Members, NodeAt
  <2> QED BY <2>1, WalkCovers DEF Held
<1>3. PICK h \in Nat, v \in {0, 1} :
         /\ size + 1 = 2 * h + v /\ h = (size + 1) \div 2
         /\ size # 0 => h \in 1 .. size
  <2>1. CASE size = 0
    <3>1. (0 + 1) \div 2 = 0 /\ 0 + 1 = 2 * 0 + 1
      OBVIOUS
    <3> QED BY <2>1, <3>1
  <2>2. CASE size # 0
    <3>1. size + 1 \in Nat /\ size + 1 >= 2
      BY <1>1, <2>2
    <3>2. PICK h \in Nat, v \in {0, 1} : h = (size + 1) \div 2 /\ v = (size + 1) % 2
      BY <3>1, Halves
    <3>3. size + 1 = 2 * h + v /\ h >= 1 /\ h < size + 1
      BY <3>1, <3>2, Halves
    <3>4. h \in 1 .. size
      BY <1>1, <3>3
    <3> QED BY <3>2, <3>3, <3>4
  <2> QED BY <2>1, <2>2
<1>4. PICK last : last = IF root = NULL THEN NULL ELSE NodeAt[(size + 1) \div 2]
  OBVIOUS
<1>5. root = NULL <=> size = 0
  <2>1. size # 0 => A[1] \in Nodes
    BY <1>1
  <2> QED BY <1>1, <2>1, HeapAssumption
<1>6. /\ size = 0 => last = NULL
      /\ size # 0 => last = A[h] /\ last \in Nodes /\ last # NULL
  <2>1. CASE size = 0
    BY <1>4, <1>5, <2>1
  <2>2. CASE size # 0
    <3>1. NodesOf(root, left, right)[h] = A[h]
      BY <1>3, <2>2, WalkCovers
    <3> QED BY <1>1, <1>3, <1>4, <1>5, <2>2, <3>1, HeapAssumption DEF NodeAt
  <2> QED BY <2>1, <2>2
<1>7. size # 0 => (left[last] = NULL <=> v = 0)
  <2> SUFFICES ASSUME size # 0 PROVE left[last] = NULL <=> v = 0
    OBVIOUS
  <2>1. h \in Nat /\ 2 * h + 0 = 2 * h
    BY <1>3
  <2>2. left[A[h]] = IF 2 * h <= size THEN A[2 * h] ELSE NULL
    BY <1>1, <1>3, <2>1 DEF Side
  <2>3. CASE v = 0
    <3>1. ~(2 * h <= size)
      BY <1>1, <1>3, <2>3
    <3> QED BY <1>6, <2>2, <2>3, <3>1
  <2>4. CASE v = 1
    <3>1. 2 * h <= size /\ 2 * h \in 1 .. size
      BY <1>1, <1>3, <2>4
    <3> QED BY <1>1, <1>6, <2>2, <2>4, <3>1, HeapAssumption
  <2> QED BY <2>3, <2>4
<1>8. /\ left' = [x \in Nodes |-> IF x = n THEN NULL
                                  ELSE IF x = last /\ last # NULL /\ left[last] = NULL
                                  THEN n ELSE left[x]]
      /\ right' = [x \in Nodes |-> IF x = n THEN NULL
                                   ELSE IF x = last /\ last # NULL
                                              /\ ~(last # NULL /\ left[last] = NULL)
                                   THEN n ELSE right[x]]
      /\ parent' = [parent EXCEPT ![n] = last]
      /\ root' = (IF root = NULL THEN n ELSE root) /\ size' = size + 1
  BY <1>4 DEF heap_insert
<1>9. \A x \in Nodes : x = last => size # 0
  BY <1>6, HeapAssumption
<1>10. GrowsSide(left, left', n, last, 0, v)
  <2>1. \A x \in Nodes \ {n} : left'[x] = IF 0 = v /\ x = last THEN n ELSE left[x]
    BY <1>6, <1>7, <1>8, <1>9
  <2>2. left' \in Links
    BY <1>1, <1>8 DEF Links
  <2>3. left'[n] = NULL
    BY <1>8
  <2> QED BY <2>1, <2>2, <2>3 DEF GrowsSide
<1>11. GrowsSide(right, right', n, last, 1, v)
  <2>1. \A x \in Nodes \ {n} : right'[x] = IF 1 = v /\ x = last THEN n ELSE right[x]
    BY <1>6, <1>7, <1>8, <1>9
  <2>2. right' \in Links
    BY <1>1, <1>8 DEF Links
  <2>3. right'[n] = NULL
    BY <1>8
  <2> QED BY <2>1, <2>2, <2>3 DEF GrowsSide
<1>12. GrowsAbove(parent, parent', n, last)
  <2>1. last \in Nodes \cup {NULL, Stale}
    BY <1>6
  <2> QED BY <1>1, <1>8, <2>1 DEF GrowsAbove, Links
<1>13. root' = IF size = 0 THEN n ELSE root
  BY <1>5, <1>8
<1>14. size' = size + 1
  BY <1>8
<1>15. HangsBelow(A, size, last, h, v) /\ n \notin Held(A, size)
  BY <1>2, <1>3, <1>6 DEF HangsBelow, Held
<1>16. Tree(Grown(A, size, n), size + 1, root', left', right', parent')
  BY <1>10, <1>11, <1>12, <1>13, <1>15, GrowKeeps
<1>17. /\ Held(Grown(A, size, n), size + 1) = Held(A, size) \cup {n}
       /\ \A i \in 1 .. size : Grown(A, size, n)[i] = A[i]
       /\ Grown(A, size, n)[size + 1] = n
  BY <1>1, GrownFacts
<1> QED BY <1>2, <1>14, <1>16, <1>17

(* The removal of the last node. *)
LEMMA RemoveLastKeeps ==
    ASSUME NEW A, Tree(A, size, root, left, right, parent),
           NEW n \in Nodes, n \in Members, size' = size - 1, RemoveLast(n)
    PROVE  /\ size \in Nat \ {0} /\ n = A[size]
           /\ Tree(Shrunk(A, size), size', root', left', right', parent')
<1>1. /\ size \in Nat /\ A \in [1 .. size -> Nodes] /\ Distinct(A, size)
      /\ left \in Links /\ right \in Links /\ parent \in Links
  BY DEF Tree
<1>2. size # 0
  <2>1. n \in Held(A, size)
    BY WalkCovers DEF Members, NodeAt
  <2> QED BY <1>1, <2>1 DEF Held
<1>3. n = A[size]
  <2>1. size \in 1 .. size
    BY <1>1, <1>2
  <2>2. NodesOf(root, left, right)[size] = A[size]
    BY <2>1, WalkCovers
  <2> QED BY <2>2 DEF RemoveLast, NodeAt
<1>4. ASSUME NEW f, NEW f2, f \in Links, f2 = [Unlinked(f, n) EXCEPT ![n] = Stale]
      PROVE  ShrinksSide(f, f2, n, parent)
  <2>1. \A x \in Nodes : f[x] \in Nodes \cup {NULL, Stale}
    BY <1>4 DEF Links
  <2>2. \A x \in Nodes \ {n} :
           f2[x] = IF x = parent[n] /\ f[x] = n THEN NULL ELSE f[x]
    BY <1>4 DEF Unlinked
  <2>3. f2 \in Links
    BY <1>4, <2>1 DEF Links, Unlinked
  <2> QED BY <2>2, <2>3 DEF ShrinksSide
<1>5. ShrinksSide(left, left', n, parent) /\ ShrinksSide(right, right', n, parent)
  BY <1>1, <1>4 DEF RemoveLast
<1>6. ShrinksAbove(parent, parent', n)
  BY <1>1 DEF RemoveLast, ShrinksAbove, Links
<1>7. (size = 1 => root' = NULL) /\ (size # 1 => root' = root)
  BY DEF RemoveLast
<1>8. Tree(Shrunk(A, size), size - 1, root', left', right', parent')
  BY <1>2, <1>3, <1>5, <1>6, <1>7, ShrinkKeeps
<1> QED BY <1>1, <1>2, <1>3, <1>8

(* The array after the last node was put in the place j. *)
Filled(A, m, j) == [Shrunk(A, m) EXCEPT ![j] = A[m]]

(* The removal of another node. *)
LEMMA RemoveInnerKeeps ==
    ASSUME NEW A, Tree(A, size, root, left, right, parent),
           NEW n \in Nodes, n \in Members, size' = size - 1, RemoveInner(n)
    PROVE  \E j \in 1 .. size - 1 :
               /\ size \in Nat \ {0} /\ n = A[j] /\ node' = A[size]
               /\ Tree(Filled(A, size, j), size', root', left', right', parent')
<1>1. /\ size \in Nat /\ A \in [1 .. size -> Nodes] /\ Distinct(A, size)
      /\ left \in Links /\ right \in Links /\ parent \in Links
  BY DEF Tree
<1>2. PICK j \in 1 .. size : n = A[j]
  <2>1. n \in Held(A, size)
    BY WalkCovers DEF Members, NodeAt
  <2> QED BY <2>1 DEF Held
<1>3. size \in Nat \ {0} /\ size \in 1 .. size
  BY <1>1, <1>2
<1>4. PICK last \in Nodes : last = A[size] /\ last = NodeAt[size]
  <2>1. NodesOf(root, left, right)[size] = A[size]
    BY <1>3, WalkCovers
  <2> QED BY <1>1, <1>3, <2>1 DEF NodeAt
<1>5. PICK l, r : l = Unlinked(left, last) /\ r = Unlinked(right, last)
  OBVIOUS
<1>6. /\ n # last /\ node' = last
      /\ root' = (IF parent[n] = NULL THEN last ELSE root)
      /\ left' = Replaced(l, n, last) /\ right' = Replaced(r, n, last)
      /\ parent' = [[x \in Nodes |-> IF x \in {l[n], r[n]} THEN last ELSE parent[x]]
                       EXCEPT ![n] = Stale, ![last] = parent[n]]
  BY <1>4, <1>5 DEF RemoveInner
<1>7. j \in 1 .. size - 1 /\ size # 1
  <2>1. j # size
    BY <1>2, <1>4, <1>6
  <2> QED BY <1>1, <2>1
<1>8. ASSUME NEW f, NEW f2, f \in Links, f2 = Unlinked(f, last)
      PROVE  ShrinksSide(f, f2, last, parent) /\ f2 \in Links
  <2>1. \A x \in Nodes : f[x] \in Nodes \cup {NULL, Stale}
    BY <1>8 DEF Links
  <2>2. \A x \in Nodes \ {last} :
           f2[x] = IF x = parent[last] /\ f[x] = last THEN NULL ELSE f[x]
    BY <1>8 DEF Unlinked
  <2>3. f2 \in Links
    BY <1>8, <2>1 DEF Links, Unlinked
  <2> QED BY <2>2, <2>3 DEF ShrinksSide
<1>9. /\ ShrinksSide(left, l, last, parent) /\ l \in Links
      /\ ShrinksSide(right, r, last, parent) /\ r \in Links
  BY <1>1, <1>5, <1>8
<1>10. ShrinksAbove(parent, parent, last)
  BY <1>1 DEF ShrinksAbove
<1>11. PICK C : C = Shrunk(A, size)
  OBVIOUS
<1>12. Tree(C, size - 1, root, l, r, parent)
  BY <1>3, <1>4, <1>7, <1>9, <1>10, <1>11, ShrinkKeeps
<1>13. /\ C[j] = n /\ \A i \in 1 .. size - 1 : C[i] # last
  <2>1. \A i \in 1 .. size - 1 : C[i] = A[i]
    BY <1>1, <1>3, <1>11, ShrunkFacts
  <2>2. \A i \in 1 .. size - 1 : i \in 1 .. size /\ i # size
    BY <1>1
  <2>3. \A i \in 1 .. size - 1 : A[i] # last
    BY <1>1, <1>3, <1>4, <2>2 DEF Distinct
  <2> QED BY <1>2, <1>7, <2>1, <2>3
<1>14. ASSUME NEW f, NEW f2, f \in Links, f2 = Replaced(f, n, last)
       PROVE  ReplacesSide(f, f2, n, last, parent)
  <2>1. \A x \in Nodes : f[x] \in Nodes \cup {NULL, Stale}
    BY <1>14 DEF Links
  <2>2. \A y \in Nodes \ {n, last} :
           f2[y] = IF y = parent[n] /\ f[y] = n THEN last ELSE f[y]
    BY <1>14 DEF Replaced
  <2>3. f2[last] = f[n]
    BY <1>14 DEF Replaced
  <2>4. f2 \in Links
    <3>1. \A y \in Nodes : f2[y] \in Nodes \cup {NULL, Stale}
      BY <1>14, <2>1 DEF Replaced
    <3>2. f2 = [y \in Nodes |-> f2[y]]
      BY <1>14 DEF Replaced
    <3> QED BY <3>1, <3>2 DEF Links
  <2> QED BY <2>2, <2>3, <2>4 DEF ReplacesSide
<1>15. ReplacesSide(l, left', n, last, parent) /\ ReplacesSide(r, right', n, last, parent)
  BY <1>6, <1>9, <1>14
<1>16. ReplacesAbove(parent, parent', n, last, l, r)
  <2>1. \A x \in Nodes : parent[x] \in Nodes \cup {NULL, Stale}
    BY <1>1 DEF Links
  <2>2. \A y \in Nodes \ {n, last} :
           parent'[y] = IF y \in {l[n], r[n]} THEN last ELSE parent[y]
    BY <1>6
  <2>3. parent'[last] = parent[n]
    BY <1>6
  <2>4. parent' \in Links
    <3>1. \A y \in Nodes : parent'[y] \in Nodes \cup {NULL, Stale}
      BY <1>6, <2>1
    <3>2. parent' = [y \in Nodes |-> parent'[y]]
      BY <1>6
    <3> QED BY <3>1, <3>2 DEF Links
  <2> QED BY <2>2, <2>3, <2>4 DEF ReplacesAbove
<1>17. (parent[n] = NULL => root' = last) /\ (parent[n] # NULL => root' = root)
  BY <1>6
<1>18. Tree([C EXCEPT ![j] = last], size - 1, root', left', right', parent')
  BY <1>7, <1>12, <1>13, <1>15, <1>16, <1>17, ReplaceKeeps
<1>19. Tree(Filled(A, size, j), size', root', left', right', parent')
  BY <1>4, <1>11, <1>18 DEF Filled
<1> QED BY <1>2, <1>3, <1>4, <1>6, <1>7, <1>19
-----------------------------------------------------------------------------
(* The order.                                                              *)

(* Two places, one below the other. *)
LEMMA PairInOrder ==
    ASSUME NEW A, NEW m \in Nat, NEW ky, NEW st, NEW nd, InOrder(A, m, ky, st, nd),
           NEW i \in 1 .. m, NEW k \in 1 .. m, NEW s \in {0, 1}, k = 2 * i + s
    PROVE  \/ ky[A[i]] <= ky[A[k]]
           \/ st = "up" /\ nd = A[k]
           \/ st = "down" /\ nd \in {A[i], A[k]}
<1>1. 2 * i + s <= m
  OBVIOUS
<1>2. \/ ky[A[i]] <= ky[A[2 * i + s]]
      \/ st = "up" /\ nd = A[2 * i + s]
      \/ st = "down" /\ nd \in {A[i], A[2 * i + s]}
  BY <1>1 DEF InOrder
<1> QED BY <1>2

(* Three places, each below the other, the moved node in the middle. *)
LEMMA PairBridged ==
    ASSUME NEW A, NEW m \in Nat, NEW ky, NEW nd, Bridge(A, m, ky, nd),
           NEW i \in 1 .. m, NEW c \in 1 .. m, NEW k \in 1 .. m,
           NEW s \in {0, 1}, NEW u \in {0, 1}, c = 2 * i + s, k = 2 * c + u, A[c] = nd
    PROVE  ky[A[i]] <= ky[A[k]]
<1>1. 2 * (2 * i + s) + u <= m /\ A[2 * i + s] = nd
  OBVIOUS
<1>2. ky[A[i]] <= ky[A[2 * (2 * i + s) + u]]
  BY <1>1 DEF Bridge
<1> QED BY <1>2

(* The places two levels below another. *)
LEMMA TwoBelow ==
    ASSUME NEW m \in Nat, NEW i \in 1 .. m, NEW s \in {0, 1}, NEW u \in {0, 1},
           2 * (2 * i + s) + u <= m
    PROVE  \E c, k \in 1 .. m :
               /\ c = 2 * i + s /\ k = 2 * (2 * i + s) + u
               /\ k = 2 * c + u /\ i < c /\ c < k
<1>1. PICK c \in Nat : c = 2 * i + s /\ i < c
  OBVIOUS
<1>2. PICK k \in Nat : k = 2 * c + u /\ c < k
  BY <1>1
<1>3. k <= m /\ k = 2 * (2 * i + s) + u
  BY <1>1, <1>2
<1>4. c \in 1 .. m /\ k \in 1 .. m
  BY <1>1, <1>2, <1>3
<1> QED BY <1>1, <1>2, <1>3, <1>4

(* The moved node is the only one that need not be in order: a new leaf. *)
LEMMA OrderGrown ==
    ASSUME NEW m \in Nat, NEW A \in [1 .. m -> Nodes], NEW n \in Nodes,
           \A i \in 1 .. m : A[i] # n, NEW ky, NEW ky2, NEW nd,
           \A x \in Nodes \ {n} : ky2[x] = ky[x], InOrder(A, m, ky, "idle", nd)
    PROVE  /\ InOrder(Grown(A, m, n), m + 1, ky2, "up", n)
           /\ Bridge(Grown(A, m, n), m + 1, ky2, n)
<1>1. PICK B : B = Grown(A, m, n)
  OBVIOUS
<1>2. B[m + 1] = n /\ \A i \in 1 .. m : B[i] = A[i] /\ A[i] # n /\ ky2[B[i]] = ky[A[i]]
  BY <1>1, GrownFacts
<1>3. ASSUME NEW i \in 1 .. m + 1, NEW s \in {0, 1}, 2 * i + s <= m + 1
      PROVE  ky2[B[i]] <= ky2[B[2 * i + s]] \/ n = B[2 * i + s]
  <2>1. PICK k \in Nat : k = 2 * i + s
    OBVIOUS
  <2>2. i \in 1 .. m /\ (k # m + 1 => k \in 1 .. m)
    BY <1>3, <2>1
  <2>3. CASE k = m + 1
    BY <1>2, <2>1, <2>3
  <2>4. CASE k # m + 1
    <3>1. ky[A[i]] <= ky[A[k]]
      BY <2>1, <2>2, <2>4, PairInOrder
    <3> QED BY <1>2, <2>1, <2>2, <2>4, <3>1
  <2> QED BY <2>3, <2>4
<1>4. InOrder(B, m + 1, ky2, "up", n)
  BY <1>3 DEF InOrder
<1>5. Bridge(B, m + 1, ky2, n)
  <2> SUFFICES ASSUME NEW i \in 1 .. m + 1, NEW s \in {0, 1}, NEW u \in {0, 1},
                      2 * (2 * i + s) + u <= m + 1, B[2 * i + s] = n
               PROVE  FALSE
    BY DEF Bridge
  <2>1. PICK c \in Nat : c = 2 * i + s
    OBVIOUS
  <2>2. c \in 1 .. m
    BY <2>1
  <2> QED BY <1>2, <2>1, <2>2
<1> QED BY <1>1, <1>4, <1>5

(* Without the last node. *)
LEMMA OrderShrunk ==
    ASSUME NEW m \in Nat \ {0}, NEW A \in [1 .. m -> Nodes], Distinct(A, m),
           NEW ky, NEW nd, InOrder(A, m, ky, "idle", nd)
    PROVE  InOrder(Shrunk(A, m), m - 1, ky, "idle", nd)
<1>1. PICK B : B = Shrunk(A, m)
  OBVIOUS
<1>2. \A i \in 1 .. m - 1 : B[i] = A[i]
  BY <1>1, ShrunkFacts
<1>3. ASSUME NEW i \in 1 .. m - 1, NEW s \in {0, 1}, 2 * i + s <= m - 1
      PROVE  ky[B[i]] <= ky[B[2 * i + s]]
  <2>1. PICK k \in 1 .. m - 1 : k = 2 * i + s
    BY <1>3
  <2>2. i \in 1 .. m /\ k \in 1 .. m
    OBVIOUS
  <2>3. ky[A[i]] <= ky[A[k]]
    BY <2>1, <2>2, PairInOrder
  <2> QED BY <1>2, <2>1, <2>3
<1> QED BY <1>1, <1>3 DEF InOrder

(* With the last node in the place of another one. *)
LEMMA OrderFilled ==
    ASSUME NEW m \in Nat \ {0}, NEW A \in [1 .. m -> Nodes], Distinct(A, m),
           NEW j \in 1 .. m - 1, NEW ky, \A x \in Nodes : ky[x] \in Nat,
           NEW nd, InOrder(A, m, ky, "idle", nd)
    PROVE  /\ InOrder(Filled(A, m, j), m - 1, ky, "down", A[m])
           /\ Bridge(Filled(A, m, j), m - 1, ky, A[m])
           /\ Filled(A, m, j)[j] = A[m]
           /\ Held(Filled(A, m, j), m - 1) = Held(A, m) \ {A[j]}
<1>1. PICK C : C = Shrunk(A, m)
  OBVIOUS
<1>2. PICK B : B = Filled(A, m, j)
  OBVIOUS
<1>3. /\ C \in [1 .. m - 1 -> Nodes] /\ (\A i \in 1 .. m - 1 : C[i] = A[i])
      /\ Held(C, m - 1) = Held(A, m) \ {A[m]}
  <2>1. \A i \in 1 .. m - 1 : i \in 1 .. m
    OBVIOUS
  <2>2. C \in [1 .. m - 1 -> Nodes]
    BY <1>1, <2>1 DEF Shrunk
  <2> QED BY <1>1, <2>2, ShrunkFacts
<1>4. \A i \in 1 .. m - 1 : i \in 1 .. m /\ A[i] # A[m] /\ A[i] \in Nodes
  <2>1. \A i \in 1 .. m - 1 : i \in 1 .. m /\ i # m
    OBVIOUS
  <2>2. m \in 1 .. m
    OBVIOUS
  <2> QED BY <2>1, <2>2 DEF Distinct
<1>5. Distinct(C, m - 1)
  BY <1>3, <1>4 DEF Distinct
<1>6. B = [C EXCEPT ![j] = A[m]] /\ A[m] \in Nodes /\ m - 1 \in Nat /\ m \in 1 .. m
  BY <1>1, <1>2 DEF Filled
<1>7. B[j] = A[m] /\ \A i \in 1 .. m - 1 : i # j => B[i] = A[i]
  BY <1>3, <1>6
<1>8. Held(B, m - 1) = Held(A, m) \ {A[j]}
  <2>1. ASSUME NEW i \in 1 .. m - 1 PROVE B[i] \in Held(A, m) \ {A[j]}
    <3>1. CASE i = j
      BY <1>4, <1>6, <1>7, <3>1 DEF Held
    <3>2. CASE i # j
      BY <1>4, <1>7, <3>2 DEF Held, Distinct
    <3> QED BY <3>1, <3>2
  <2>2. ASSUME NEW i \in 1 .. m, A[i] # A[j] PROVE A[i] \in Held(B, m - 1)
    <3>1. CASE i = m
      BY <1>7, <3>1 DEF Held
    <3>2. CASE i # m
      <4>1. i \in 1 .. m - 1 /\ i # j
        BY <2>2, <3>2
      <4> QED BY <1>7, <4>1 DEF Held
    <3> QED BY <3>1, <3>2
  <2> QED BY <2>1, <2>2 DEF Held
<1>9. ASSUME NEW i \in 1 .. m - 1, NEW k \in 1 .. m - 1, NEW s \in {0, 1}, k = 2 * i + s
      PROVE  ky[A[i]] <= ky[A[k]]
  <2>1. i \in 1 .. m /\ k \in 1 .. m
    BY <1>4
  <2> QED BY <1>9, <2>1, PairInOrder
<1>10. InOrder(B, m - 1, ky, "down", A[m])
  <2> SUFFICES ASSUME NEW i \in 1 .. m - 1, NEW s \in {0, 1}, 2 * i + s <= m - 1
               PROVE  ky[B[i]] <= ky[B[2 * i + s]] \/ A[m] \in {B[i], B[2 * i + s]}
    BY DEF InOrder
  <2>1. PICK k \in 1 .. m - 1 : k = 2 * i + s
    OBVIOUS
  <2>2. CASE i = j \/ k = j
    BY <1>7, <2>1, <2>2
  <2>3. CASE i # j /\ k # j
    <3>1. ky[A[i]] <= ky[A[k]]
      BY <1>9, <2>1
    <3> QED BY <1>7, <2>1, <2>3, <3>1
  <2> QED BY <2>2, <2>3
<1>11. Bridge(B, m - 1, ky, A[m])
  <2> SUFFICES ASSUME NEW i \in 1 .. m - 1, NEW s \in {0, 1}, NEW u \in {0, 1},
                      2 * (2 * i + s) + u <= m - 1, B[2 * i + s] = A[m]
               PROVE  ky[B[i]] <= ky[B[2 * (2 * i + s) + u]]
    BY DEF Bridge
  <2>1. PICK c \in 1 .. m - 1, k \in 1 .. m - 1 :
           /\ c = 2 * i + s /\ k = 2 * (2 * i + s) + u
           /\ k = 2 * c + u /\ i < c /\ c < k
    BY TwoBelow
  <2>2. c = j
    BY <1>4, <1>7, <2>1
  <2>3. ky[A[i]] <= ky[A[c]] /\ ky[A[c]] <= ky[A[k]]
    BY <1>9, <2>1
  <2>4. ky[A[i]] <= ky[A[k]]
    BY <1>4, <2>3
  <2> QED BY <1>7, <2>1, <2>2, <2>4
<1> QED BY <1>2, <1>7, <1>8, <1>10, <1>11

(* No child of the node at place p comes before x. *)
LeastBelow(A, m, ky, p, x) ==
    \A t \in {0, 1} : 2 * p + t <= m => ky[x] <= ky[A[2 * p + t]]

(* The moved node goes down. *)
LEMMA OrderSunk ==
    ASSUME NEW m \in Nat, NEW A \in [1 .. m -> Nodes], Distinct(A, m),
           NEW ky, \A x \in Nodes : ky[x] \in Nat,
           NEW u \in {0, 1}, NEW p \in 1 .. m, NEW c \in 1 .. m, c = 2 * p + u,
           LeastBelow(A, m, ky, p, A[c]),
           InOrder(A, m, ky, "down", A[p]), Bridge(A, m, ky, A[p])
    PROVE  /\ InOrder(Exchanged(A, p, c), m, ky, "down", A[p])
           /\ Bridge(Exchanged(A, p, c), m, ky, A[p])
<1>0. p # c
  OBVIOUS
<1>1. PICK B, nd : B = Exchanged(A, p, c) /\ nd = A[p]
  OBVIOUS
<1>2. B[p] = A[c] /\ B[c] = nd /\ \A i \in 1 .. m : i # p /\ i # c => B[i] = A[i]
  <2>1. B[p] = A[c] /\ B[c] = A[p] /\ \A i \in 1 .. m : i # p /\ i # c => B[i] = A[i]
    BY <1>0, <1>1 DEF Exchanged
  <2> QED BY <1>1, <2>1
<1>3. ASSUME NEW i \in 1 .. m, NEW k \in 1 .. m, NEW s \in {0, 1}, k = 2 * i + s,
             i # p, k # p
      PROVE  ky[A[i]] <= ky[A[k]]
  <2>1. ky[A[i]] <= ky[A[k]] \/ A[p] \in {A[i], A[k]}
    BY <1>3, PairInOrder
  <2> QED BY <1>3, <2>1 DEF Distinct
<1>4. InOrder(B, m, ky, "down", nd)
  <2> SUFFICES ASSUME NEW i \in 1 .. m, NEW s \in {0, 1}, 2 * i + s <= m
               PROVE  ky[B[i]] <= ky[B[2 * i + s]] \/ nd \in {B[i], B[2 * i + s]}
    BY DEF InOrder
  <2>1. PICK k \in 1 .. m : k = 2 * i + s /\ k # i
    OBVIOUS
  <2>2. CASE i = c \/ k = c
    BY <1>2, <2>1, <2>2
  <2>3. CASE k = p
    <3>1. ky[A[i]] <= ky[A[c]]
      BY <2>1, <2>3, PairBridged
    <3>2. i # p /\ i # c
      BY <2>1, <2>3
    <3> QED BY <1>2, <2>1, <2>3, <3>1, <3>2
  <2>4. CASE i = p /\ k # c
    <3>1. ky[A[c]] <= ky[A[2 * p + s]]
      BY <2>1, <2>4 DEF LeastBelow
    <3> QED BY <1>2, <2>1, <2>4, <3>1
  <2>5. CASE i # c /\ k # c /\ i # p /\ k # p
    <3>1. ky[A[i]] <= ky[A[k]]
      BY <1>3, <2>1, <2>5
    <3> QED BY <1>2, <2>1, <2>5, <3>1
  <2> QED BY <2>2, <2>3, <2>4, <2>5
<1>5. Bridge(B, m, ky, nd)
  <2> SUFFICES ASSUME NEW i \in 1 .. m, NEW s \in {0, 1}, NEW t \in {0, 1},
                      2 * (2 * i + s) + t <= m, B[2 * i + s] = nd
               PROVE  ky[B[i]] <= ky[B[2 * (2 * i + s) + t]]
    BY DEF Bridge
  <2>1. PICK d \in 1 .. m, k \in 1 .. m :
           /\ d = 2 * i + s /\ k = 2 * (2 * i + s) + t
           /\ k = 2 * d + t /\ i < d /\ d < k
    BY TwoBelow
  <2>2. d = c
    BY <1>1, <1>2, <2>1 DEF Distinct
  <2>3. i = p
    BY <2>1, <2>2
  <2>4. k # p /\ k # c
    BY <2>1, <2>2
  <2>5. ky[A[c]] <= ky[A[k]]
    BY <1>0, <1>3, <2>1, <2>2, <2>4
  <2> QED BY <1>2, <2>1, <2>3, <2>4, <2>5
<1> QED BY <1>1, <1>4, <1>5

(* The moved node goes up. *)
LEMMA OrderRisen ==
    ASSUME NEW m \in Nat, NEW A \in [1 .. m -> Nodes], Distinct(A, m),
           NEW ky, \A x \in Nodes : ky[x] \in Nat,
           NEW u \in {0, 1}, NEW p \in 1 .. m, NEW c \in 1 .. m, c = 2 * p + u,
           ky[A[c]] <= ky[A[p]],
           InOrder(A, m, ky, "up", A[c]), Bridge(A, m, ky, A[c])
    PROVE  /\ InOrder(Exchanged(A, p, c), m, ky, "up", A[c])
           /\ Bridge(Exchanged(A, p, c), m, ky, A[c])
<1>0. p # c
  OBVIOUS
<1>1. PICK B, nd : B = Exchanged(A, p, c) /\ nd = A[c]
  OBVIOUS
<1>2. B[p] = nd /\ B[c] = A[p] /\ \A i \in 1 .. m : i # p /\ i # c => B[i] = A[i]
  BY <1>0, <1>1, ExchangedFacts
<1>3. ASSUME NEW i \in 1 .. m, NEW k \in 1 .. m, NEW s \in {0, 1}, k = 2 * i + s,
             k # c
      PROVE  ky[A[i]] <= ky[A[k]]
  <2>1. ky[A[i]] <= ky[A[k]] \/ A[c] = A[k]
    BY <1>3, PairInOrder
  <2> QED BY <1>3, <2>1 DEF Distinct
<1>6. \A i \in 1 .. m : ky[A[i]] \in Nat
  OBVIOUS
<1>7. ASSUME NEW k \in 1 .. m, NEW s \in {0, 1}, k = 2 * p + s, k # c
      PROVE  ky[A[c]] <= ky[A[k]] /\ ky[A[p]] <= ky[A[k]]
  <2>1. ky[A[p]] <= ky[A[k]]
    BY <1>3, <1>7
  <2> QED BY <1>6, <2>1
<1>4. InOrder(B, m, ky, "up", nd)
  <2> SUFFICES ASSUME NEW i \in 1 .. m, NEW s \in {0, 1}, 2 * i + s <= m
               PROVE  ky[B[i]] <= ky[B[2 * i + s]] \/ nd = B[2 * i + s]
    BY DEF InOrder
  <2>1. PICK k \in 1 .. m : k = 2 * i + s /\ k # i
    OBVIOUS
  <2>2. CASE k = p
    BY <1>2, <2>1, <2>2
  <2>3. CASE k = c
    <3>1. i = p
      BY <2>1, <2>3
    <3> QED BY <1>1, <1>2, <2>1, <2>3, <3>1
  <2>4. CASE i = p /\ k # c
    <3>1. ky[A[c]] <= ky[A[k]]
      BY <1>7, <2>1, <2>4
    <3> QED BY <1>1, <1>2, <2>1, <2>4, <3>1
  <2>5. CASE i = c
    <3>1. ky[A[p]] <= ky[A[k]]
      BY <2>1, <2>5, PairBridged
    <3>2. k # p /\ k # c
      BY <2>1, <2>5
    <3> QED BY <1>2, <2>1, <2>5, <3>1, <3>2
  <2>6. CASE i # c /\ k # c /\ i # p /\ k # p
    <3>1. ky[A[i]] <= ky[A[k]]
      BY <1>3, <2>1, <2>6
    <3> QED BY <1>2, <2>1, <2>6, <3>1
  <2> QED BY <2>2, <2>3, <2>4, <2>5, <2>6
<1>5. Bridge(B, m, ky, nd)
  <2> SUFFICES ASSUME NEW i \in 1 .. m, NEW s \in {0, 1}, NEW t \in {0, 1},
                      2 * (2 * i + s) + t <= m, B[2 * i + s] = nd
               PROVE  ky[B[i]] <= ky[B[2 * (2 * i + s) + t]]
    BY DEF Bridge
  <2>1. PICK d \in 1 .. m, k \in 1 .. m :
           /\ d = 2 * i + s /\ k = 2 * (2 * i + s) + t
           /\ k = 2 * d + t /\ i < d /\ d < k
    BY TwoBelow
  <2>2. d = p
    BY <1>0, <1>1, <1>2, <2>1 DEF Distinct
  <2>3. i # p /\ i # c /\ k # p /\ d # c
    BY <1>0, <2>1, <2>2
  <2>4. ky[A[i]] <= ky[A[p]]
    BY <1>3, <2>1, <2>2, <2>3
  <2>5. CASE k = c
    BY <1>2, <2>1, <2>3, <2>4, <2>5
  <2>6. CASE k # c
    <3>1. ky[A[p]] <= ky[A[k]]
      BY <1>7, <2>1, <2>2, <2>6
    <3>2. ky[A[i]] <= ky[A[k]]
      BY <1>6, <2>4, <3>1
    <3> QED BY <1>2, <2>1, <2>3, <2>6, <3>2
  <2> QED BY <2>5, <2>6
<1> QED BY <1>1, <1>4, <1>5

(* The moved node has gone down far enough. *)
LEMMA OrderSettled ==
    ASSUME NEW m \in Nat, NEW A \in [1 .. m -> Nodes], Distinct(A, m), NEW ky,
           NEW p \in 1 .. m, InOrder(A, m, ky, "down", A[p]),
           LeastBelow(A, m, ky, p, A[p])
    PROVE  InOrder(A, m, ky, "up", A[p])
<1> SUFFICES ASSUME NEW i \in 1 .. m, NEW s \in {0, 1}, 2 * i + s <= m
             PROVE  ky[A[i]] <= ky[A[2 * i + s]] \/ A[p] = A[2 * i + s]
  BY DEF InOrder
<1>1. PICK k \in 1 .. m : k = 2 * i + s
  OBVIOUS
<1>2. ky[A[i]] <= ky[A[k]] \/ A[p] \in {A[i], A[k]}
  BY <1>1, PairInOrder
<1>3. CASE i = p
  BY <1>3 DEF LeastBelow
<1>4. CASE i # p
  BY <1>1, <1>2, <1>4 DEF Distinct
<1> QED BY <1>3, <1>4

(* The moved node has gone up far enough. *)
LEMMA OrderRestored ==
    ASSUME NEW m \in Nat, NEW A \in [1 .. m -> Nodes], Distinct(A, m), NEW ky,
           NEW c \in 1 .. m, InOrder(A, m, ky, "up", A[c]), NEW nd,
           \A i \in 1 .. m : \A s \in {0, 1} : c = 2 * i + s => ky[A[i]] <= ky[A[c]]
    PROVE  InOrder(A, m, ky, "idle", nd)
<1> SUFFICES ASSUME NEW i \in 1 .. m, NEW s \in {0, 1}, 2 * i + s <= m
             PROVE  ky[A[i]] <= ky[A[2 * i + s]]
  BY DEF InOrder
<1>1. PICK k \in 1 .. m : k = 2 * i + s
  OBVIOUS
<1>2. ky[A[i]] <= ky[A[k]] \/ A[c] = A[k]
  BY <1>1, PairInOrder
<1>3. CASE k = c
  BY <1>1, <1>3
<1>4. CASE k # c
  BY <1>1, <1>2, <1>4 DEF Distinct
<1> QED BY <1>3, <1>4
-----------------------------------------------------------------------------
(* The steps.                                                              *)

(* The keys are numbers. *)
LEMMA KeysAreNumbers ==
    ASSUME NEW ky, ky \in [Nodes -> Keys]
    PROVE  \A x \in Nodes : ky[x] \in Nat
BY HeapAssumption

(* What the invariant says at rest and during a move. *)
LEMMA HeapFacts ==
    ASSUME NEW A, HeapIs(A)
    PROVE  /\ size \in Nat /\ A \in [1 .. size -> Nodes] /\ Distinct(A, size)
           /\ left \in Links /\ right \in Links /\ parent \in Links
           /\ Side(A, size, left, 0) /\ Side(A, size, right, 1)
           /\ Above(A, size, parent)
           /\ root = (IF size = 0 THEN NULL ELSE A[1])
           /\ \A x \in Nodes : key[x] \in Nat
           /\ pc # "idle" => \E p \in 1 .. size : A[p] = node
<1>1. \A x \in Nodes : key[x] \in Nat
  BY KeysAreNumbers DEF HeapIs
<1> QED BY <1>1 DEF HeapIs, Tree, Place

(* heap_insert puts the new node at the end; it is then moved up. *)
LEMMA InsertStep ==
    ASSUME NEW A, HeapIs(A), NEW n \in Nodes, NEW k \in Keys, heap_insert(n, k)
    PROVE  \E B : HeapIs(B)' /\ Held(B, size') = Held(A, size) \cup {n}
<1>1. Tree(A, size, root, left, right, parent) /\ key \in [Nodes -> Keys]
  BY DEF HeapIs
<1>2. PICK B : B = Grown(A, size, n)
  OBVIOUS
<1>3. /\ Tree(B, size', root', left', right', parent')
      /\ \A i \in 1 .. size : A[i] # n
      /\ Held(B, size') = Held(A, size) \cup {n}
      /\ B[size'] = n /\ size' = size + 1
  BY <1>1, <1>2, InsertKeeps
<1>4. pc = "idle" /\ key' = [key EXCEPT ![n] = k] /\ pc' = "up" /\ node' = n
  BY DEF heap_insert
<1>5. /\ key' \in [Nodes -> Keys]
      /\ \A x \in Nodes \ {n} : key'[x] = key[x]
  BY <1>1, <1>4
<1>6. InOrder(A, size, key, "idle", node)
  BY <1>4 DEF HeapIs
<1>7. /\ InOrder(B, size + 1, key', "up", n)
      /\ Bridge(B, size + 1, key', n)
  BY <1>2, <1>3, <1>5, <1>6, HeapFacts, OrderGrown
<1>8. Place(B, size', "up", n)
  <2>1. size' \in 1 .. size'
    BY <1>3, HeapFacts
  <2> QED BY <1>3, <2>1 DEF Place
<1>9. HeapIs(B)'
  BY <1>3, <1>4, <1>5, <1>7, <1>8 DEF HeapIs
<1> QED BY <1>3, <1>9

(* heap_remove takes out the node it is given; the last node fills the     *)
(* gap, if there is one, and is then moved.                                *)
LEMMA RemoveStep ==
    ASSUME NEW A, HeapIs(A), NEW n \in Nodes, heap_remove(n)
    PROVE  \E B : HeapIs(B)' /\ Held(B, size') = Held(A, size) \ {n}
<1>1. Tree(A, size, root, left, right, parent) /\ key \in [Nodes -> Keys]
  BY DEF HeapIs
<1>2. pc = "idle" /\ n \in Members /\ size' = size - 1 /\ key' = key
  BY DEF heap_remove
<1>3. InOrder(A, size, key, "idle", node) /\ node = NULL
  BY <1>2 DEF HeapIs, Place
<1>4. CASE RemoveLast(n)
  <2>1. PICK B : B = Shrunk(A, size)
    OBVIOUS
  <2>2. /\ size \in Nat \ {0} /\ n = A[size]
        /\ Tree(B, size', root', left', right', parent')
    BY <1>1, <1>2, <1>4, <2>1, RemoveLastKeeps
  <2>3. InOrder(B, size - 1, key, "idle", node)
    BY <1>3, <2>1, <2>2, HeapFacts, OrderShrunk
  <2>4. Held(B, size - 1) = Held(A, size) \ {n}
    BY <2>1, <2>2, HeapFacts, ShrunkFacts
  <2>5. pc' = "idle" /\ node' = node
    BY <1>2, <1>4 DEF RemoveLast
  <2>6. Place(B, size', "idle", NULL)
    BY DEF Place
  <2>7. HeapIs(B)'
    BY <1>1, <1>2, <1>3, <2>2, <2>3, <2>5, <2>6 DEF HeapIs
  <2> QED BY <1>2, <2>4, <2>7
<1>5. CASE RemoveInner(n)
  <2>1. PICK j \in 1 .. size - 1 :
           /\ size \in Nat \ {0} /\ n = A[j] /\ node' = A[size]
           /\ Tree(Filled(A, size, j), size', root', left', right', parent')
    BY <1>1, <1>2, <1>5, RemoveInnerKeeps
  <2>2. PICK B : B = Filled(A, size, j)
    OBVIOUS
  <2>3. /\ InOrder(B, size - 1, key, "down", A[size])
        /\ Bridge(B, size - 1, key, A[size])
        /\ B[j] = A[size]
        /\ Held(B, size - 1) = Held(A, size) \ {A[j]}
    BY <1>3, <2>1, <2>2, HeapFacts, OrderFilled
  <2>4. pc' = "down"
    BY <1>5 DEF RemoveInner
  <2>5. Place(B, size', "down", A[size])
    BY <1>2, <2>3 DEF Place
  <2>6. HeapIs(B)'
    BY <1>1, <1>2, <2>1, <2>2, <2>3, <2>4, <2>5 DEF HeapIs
  <2> QED BY <1>2, <2>1, <2>3, <2>6
<1> QED BY <1>4, <1>5 DEF heap_remove

(* The child that may go up is a least one. *)
LEMMA SwapNodeIs ==
    ASSUME NEW A, HeapIs(A), NEW p \in 1 .. size, node = A[p]
    PROVE  \/ /\ SwapNode = NULL
              /\ \A t \in {0, 1} : ~(2 * p + t <= size)
           \/ /\ SwapNode # NULL
              /\ \E u \in {0, 1} : \E c \in 1 .. size :
                    /\ c = 2 * p + u /\ SwapNode = A[c]
                    /\ LeastBelow(A, size, key, p, A[c])
<1>1. /\ size \in Nat /\ A \in [1 .. size -> Nodes]
      /\ \A x \in Nodes : key[x] \in Nat
  BY HeapFacts
<1>2. p \in Nat /\ 2 * p + 0 = 2 * p
  BY <1>1
<1>3. left[node] = IF 2 * p <= size THEN A[2 * p] ELSE NULL
  BY <1>2, HeapFacts DEF Side
<1>4. right[node] = IF 2 * p + 1 <= size THEN A[2 * p + 1] ELSE NULL
  BY HeapFacts DEF Side
<1>5. CASE ~(2 * p <= size)
  <2>1. ~(2 * p + 1 <= size) /\ \A t \in {0, 1} : ~(2 * p + t <= size)
    BY <1>1, <1>2, <1>5
  <2>2. left[node] = NULL /\ right[node] = NULL
    BY <1>3, <1>4, <1>5, <2>1
  <2> QED BY <2>1, <2>2 DEF SwapNode
<1>6. CASE 2 * p <= size /\ ~(2 * p + 1 <= size)
  <2>1. 2 * p \in 1 .. size /\ A[2 * p] \in Nodes /\ A[2 * p] # NULL
    BY <1>1, <1>2, <1>6, HeapAssumption
  <2>2. SwapNode = A[2 * p]
    BY <1>3, <1>4, <1>6, <2>1 DEF SwapNode
  <2>3. LeastBelow(A, size, key, p, A[2 * p])
    <3> SUFFICES ASSUME NEW t \in {0, 1}, 2 * p + t <= size
                 PROVE  key[A[2 * p]] <= key[A[2 * p + t]]
      BY DEF LeastBelow
    <3>1. t = 0
      BY <1>6
    <3> QED BY <1>1, <1>2, <2>1, <3>1
  <2> QED BY <1>2, <2>1, <2>2, <2>3
<1>7. CASE 2 * p <= size /\ 2 * p + 1 <= size
  <2>1. /\ 2 * p \in 1 .. size /\ A[2 * p] \in Nodes /\ A[2 * p] # NULL
        /\ 2 * p + 1 \in 1 .. size /\ A[2 * p + 1] \in Nodes /\ A[2 * p + 1] # NULL
    BY <1>1, <1>2, <1>7, HeapAssumption
  <2>2. PICK a \in Nodes, b \in Nodes : a = A[2 * p] /\ b = A[2 * p + 1]
    BY <2>1
  <2>3. key[a] \in Nat /\ key[b] \in Nat
    BY <1>1
  <2>4. SwapNode = IF key[a] < key[b] THEN a ELSE b
    BY <1>3, <1>4, <1>7, <2>1, <2>2 DEF SwapNode, Before
  <2>5. ASSUME NEW x \in Nodes, key[x] <= key[a], key[x] <= key[b]
        PROVE  LeastBelow(A, size, key, p, x)
    <3> SUFFICES ASSUME NEW t \in {0, 1}, 2 * p + t <= size
                 PROVE  key[x] <= key[A[2 * p + t]]
      BY DEF LeastBelow
    <3> QED BY <1>2, <2>2, <2>5
  <2>6. CASE key[a] < key[b]
    <3>1. key[a] <= key[a] /\ key[a] <= key[b]
      BY <2>3, <2>6
    <3>2. LeastBelow(A, size, key, p, a) /\ SwapNode = a
      BY <2>4, <2>5, <2>6, <3>1
    <3> QED BY <1>2, <2>1, <2>2, <3>2
  <2>7. CASE ~(key[a] < key[b])
    <3>1. key[b] <= key[a] /\ key[b] <= key[b]
      BY <2>3, <2>7
    <3>2. LeastBelow(A, size, key, p, b) /\ SwapNode = b
      BY <2>4, <2>5, <2>7, <3>1
    <3> QED BY <2>1, <2>2, <3>2
  <2> QED BY <2>6, <2>7
<1> QED BY <1>1, <1>2, <1>5, <1>6, <1>7

(* A step of the loop that moves a node down. *)
LEMMA DownStep ==
    ASSUME NEW A, HeapIs(A), SwapDown
    PROVE  \E B : HeapIs(B)' /\ Held(B, size') = Held(A, size)
<1>1. Tree(A, size, root, left, right, parent) /\ key \in [Nodes -> Keys]
  BY DEF HeapIs
<1>2. /\ pc = "down" /\ SwapNode # NULL /\ heap_swap(SwapNode, node)
      /\ size' = size /\ key' = key /\ pc' = "down" /\ node' = node
  BY DEF SwapDown, MustSink
<1>3. PICK p \in 1 .. size : A[p] = node
  BY <1>2, HeapFacts
<1>4. PICK u \in {0, 1}, c \in 1 .. size :
         /\ c = 2 * p + u /\ SwapNode = A[c] /\ LeastBelow(A, size, key, p, A[c])
  BY <1>2, <1>3, SwapNodeIs
<1>5. PICK B : B = Exchanged(A, p, c)
  OBVIOUS
<1>6. heap_swap(A[c], A[p])
  BY <1>2, <1>3, <1>4
<1>7. Tree(B, size, root', left', right', parent')
  BY <1>1, <1>4, <1>5, <1>6, SwapKeeps
<1>8. InOrder(A, size, key, "down", A[p]) /\ Bridge(A, size, key, A[p])
  BY <1>2, <1>3 DEF HeapIs
<1>9. InOrder(B, size, key, "down", A[p]) /\ Bridge(B, size, key, A[p])
  BY <1>4, <1>5, <1>8, HeapFacts, OrderSunk
<1>10. p # c
  BY <1>4
<1>11. B[c] = A[p] /\ Held(B, size) = Held(A, size)
  BY <1>5, <1>10, HeapFacts, ExchangedFacts
<1>12. Place(B, size, "down", A[p])
  BY <1>11 DEF Place
<1>13. HeapIs(B)'
  BY <1>1, <1>2, <1>3, <1>7, <1>9, <1>12 DEF HeapIs
<1> QED BY <1>2, <1>11, <1>13

(* A step of the loop that moves a node up. *)
LEMMA UpStep ==
    ASSUME NEW A, HeapIs(A), SwapUp
    PROVE  \E B : HeapIs(B)' /\ Held(B, size') = Held(A, size)
<1>1. Tree(A, size, root, left, right, parent) /\ key \in [Nodes -> Keys]
  BY DEF HeapIs
<1>2. /\ pc = "up" /\ parent[node] # NULL /\ heap_swap(node, parent[node])
      /\ key[node] < key[parent[node]]
      /\ size' = size /\ key' = key /\ pc' = "up" /\ node' = node
  BY DEF SwapUp, MustRise, Before
<1>3. PICK c \in 1 .. size : A[c] = node
  BY <1>2, HeapFacts
<1>4. PICK p \in 1 .. size, u \in {0, 1} : c = 2 * p + u /\ parent[node] = A[p]
  BY <1>2, <1>3, HeapFacts, AboveFacts
<1>5. PICK B : B = Exchanged(A, p, c)
  OBVIOUS
<1>6. heap_swap(A[c], A[p])
  BY <1>2, <1>3, <1>4
<1>7. Tree(B, size, root', left', right', parent')
  BY <1>1, <1>4, <1>5, <1>6, SwapKeeps
<1>8. InOrder(A, size, key, "up", A[c]) /\ Bridge(A, size, key, A[c])
  BY <1>2, <1>3 DEF HeapIs
<1>9. key[A[c]] <= key[A[p]]
  <2>1. key[A[c]] \in Nat /\ key[A[p]] \in Nat
    BY HeapFacts
  <2> QED BY <1>2, <1>3, <1>4, <2>1
<1>10. InOrder(B, size, key, "up", A[c]) /\ Bridge(B, size, key, A[c])
  BY <1>4, <1>5, <1>8, <1>9, HeapFacts, OrderRisen
<1>11. p # c
  BY <1>4
<1>12. B[p] = A[c] /\ Held(B, size) = Held(A, size)
  BY <1>5, <1>11, HeapFacts, ExchangedFacts
<1>13. Place(B, size, "up", A[c])
  BY <1>12 DEF Place
<1>14. HeapIs(B)'
  BY <1>1, <1>2, <1>3, <1>7, <1>10, <1>13 DEF HeapIs
<1> QED BY <1>2, <1>12, <1>14

(* The loops end with the node where it belongs. *)
LEMMA EndStep ==
    ASSUME NEW A, HeapIs(A), DownEnds \/ UpEnds
    PROVE  HeapIs(A)' /\ Held(A, size') = Held(A, size)
<1>1. Tree(A, size, root, left, right, parent) /\ key \in [Nodes -> Keys]
  BY DEF HeapIs
<1>2. /\ size' = size /\ root' = root /\ key' = key
      /\ left' = left /\ right' = right /\ parent' = parent
  BY DEF DownEnds, UpEnds, links
<1>3. PICK p \in 1 .. size : A[p] = node
  <2>1. pc # "idle"
    BY DEF DownEnds, UpEnds
  <2> QED BY <2>1, HeapFacts
<1>4. CASE DownEnds
  <2>1. pc = "down" /\ ~MustSink /\ pc' = "up" /\ node' = node
    BY <1>4 DEF DownEnds
  <2>2. LeastBelow(A, size, key, p, A[p])
    <3>1. CASE SwapNode = NULL
      <4>1. \A t \in {0, 1} : ~(2 * p + t <= size)
        BY <1>3, <3>1, SwapNodeIs
      <4> QED BY <4>1 DEF LeastBelow
    <3>2. CASE SwapNode # NULL
      <4>1. PICK c \in 1 .. size : SwapNode = A[c] /\ LeastBelow(A, size, key, p, A[c])
        BY <1>3, <3>2, SwapNodeIs
      <4>2. key[A[p]] < key[A[c]]
        BY <1>3, <2>1, <3>2, <4>1 DEF MustSink, Before
      <4> SUFFICES ASSUME NEW t \in {0, 1}, 2 * p + t <= size
                   PROVE  key[A[p]] <= key[A[2 * p + t]]
        BY DEF LeastBelow
      <4>3. key[A[c]] <= key[A[2 * p + t]]
        BY <4>1 DEF LeastBelow
      <4>4. PICK k \in 1 .. size : k = 2 * p + t
        BY HeapFacts
      <4>5. key[A[p]] \in Nat /\ key[A[c]] \in Nat /\ key[A[k]] \in Nat
        BY HeapFacts
      <4> QED BY <4>2, <4>3, <4>4, <4>5
    <3> QED BY <3>1, <3>2
  <2>3. InOrder(A, size, key, "down", A[p]) /\ Bridge(A, size, key, A[p])
    BY <1>3, <2>1 DEF HeapIs
  <2>4. InOrder(A, size, key, "up", A[p])
    BY <2>2, <2>3, HeapFacts, OrderSettled
  <2>5. Place(A, size, "up", A[p])
    BY DEF Place
  <2> QED BY <1>1, <1>2, <1>3, <2>1, <2>3, <2>4, <2>5 DEF HeapIs
<1>5. CASE UpEnds
  <2>1. pc = "up" /\ ~MustRise /\ pc' = "idle" /\ node' = NULL
    BY <1>5 DEF UpEnds
  <2>2. \A i \in 1 .. size : \A s \in {0, 1} : p = 2 * i + s => key[A[i]] <= key[A[p]]
    <3> SUFFICES ASSUME NEW i \in 1 .. size, NEW s \in {0, 1}, p = 2 * i + s
                 PROVE  key[A[i]] <= key[A[p]]
      OBVIOUS
    <3>1. 2 * i + s <= size
      BY HeapFacts
    <3>2. parent[A[2 * i + s]] = A[i]
      BY <3>1, HeapFacts DEF Above
    <3>3. parent[node] = A[i] /\ A[i] # NULL
      BY <1>3, <3>2, HeapFacts, HeapAssumption
    <3>4. ~(key[node] < key[A[i]])
      BY <2>1, <3>3 DEF MustRise, Before
    <3>5. key[A[p]] \in Nat /\ key[A[i]] \in Nat
      BY HeapFacts
    <3> QED BY <1>3, <3>4, <3>5
  <2>3. InOrder(A, size, key, "up", A[p])
    BY <1>3, <2>1 DEF HeapIs
  <2>4. InOrder(A, size, key, "idle", NULL)
    BY <2>2, <2>3, HeapFacts, OrderRestored
  <2>5. Place(A, size, "idle", NULL)
    BY DEF Place
  <2> QED BY <1>1, <1>2, <2>1, <2>4, <2>5 DEF HeapIs
<1> QED BY <1>4, <1>5
-----------------------------------------------------------------------------
(* The invariant.                                                          *)

(* The empty heap holds the empty array. *)
LEMMA Start == Init => IInv
<1> SUFFICES ASSUME Init PROVE IInv
  OBVIOUS
<1>1. PICK A : A = [i \in 1 .. 0 |-> 0]
  OBVIOUS
<1>2. A \in [1 .. 0 -> Nodes]
  BY <1>1
<1>3. Tree(A, size, root, left, right, parent)
  <2>1. left \in Links /\ right \in Links /\ parent \in Links
    BY DEF Init, Links
  <2>2. root = NULL /\ size = 0
    BY DEF Init
  <2>3. Distinct(A, 0) /\ Side(A, 0, left, 0) /\ Side(A, 0, right, 1) /\ Above(A, 0, parent)
    BY DEF Distinct, Side, Above
  <2> QED BY <1>2, <2>1, <2>2, <2>3 DEF Tree
<1>4. key \in [Nodes -> Keys]
  BY HeapAssumption DEF Init
<1>5. Place(A, size, pc, node) /\ InOrder(A, size, key, pc, node) /\ pc = "idle"
  BY DEF Init, Place, InOrder
<1>6. HeapIs(A)
  BY <1>3, <1>4, <1>5 DEF HeapIs
<1> QED BY <1>6 DEF IInv

(* A pop removes the root. *)
LEMMA PopStep ==
    ASSUME NEW A, HeapIs(A), heap_pop
    PROVE  \E B : HeapIs(B)' /\ Held(B, size') = Held(A, size) \ {root}
<1>1. root \in Nodes
  <2>1. root # NULL
    BY DEF heap_pop
  <2>2. size \in Nat /\ size # 0 /\ root = A[1] /\ A \in [1 .. size -> Nodes]
    BY <2>1, HeapFacts
  <2>3. 1 \in 1 .. size
    BY <2>2
  <2> QED BY <2>2, <2>3
<1> QED BY <1>1, RemoveStep DEF heap_pop

(* The loops keep the nodes. *)
LEMMA MoveStep ==
    ASSUME NEW A, HeapIs(A), SwapDown \/ DownEnds \/ SwapUp \/ UpEnds
    PROVE  \E B : HeapIs(B)' /\ Held(B, size') = Held(A, size)
BY DownStep, UpStep, EndStep

(* Every step keeps the invariant. *)
LEMMA Inductive == IInv /\ [Next]_vars => IInv'
<1> SUFFICES ASSUME IInv, [Next]_vars PROVE \E B : HeapIs(B)'
  BY DEF IInv
<1>1. PICK A : HeapIs(A)
  BY DEF IInv
<1>2. CASE UNCHANGED vars
  <2>1. HeapIs(A)'
    BY <1>1, <1>2 DEF vars, links, HeapIs
  <2> QED BY <2>1
<1>3. ASSUME NEW n \in Nodes, NEW k \in Keys, heap_insert(n, k)
      PROVE  \E B : HeapIs(B)'
  BY <1>1, <1>3, InsertStep
<1>4. ASSUME NEW n \in Nodes, heap_remove(n)
      PROVE  \E B : HeapIs(B)'
  BY <1>1, <1>4, RemoveStep
<1>5. CASE heap_pop
  BY <1>1, <1>5, PopStep
<1>6. CASE SwapDown \/ DownEnds \/ SwapUp \/ UpEnds
  BY <1>1, <1>6, MoveStep
<1> QED BY <1>2, <1>3, <1>4, <1>5, <1>6 DEF Next

(* At any time the links hold an array that is a heap but for the moved    *)
(* node.                                                                   *)
THEOREM Invariance == Spec => []IInv
BY Start, Inductive, PTL DEF Spec

(* The variables keep the shape the code gives them, and size never        *)
(* exceeds the number of nodes.                                            *)
THEOREM TypeCorrect == Spec => []TypeOK
<1>1. IInv => TypeOK
  <2> SUFFICES ASSUME NEW A, HeapIs(A) PROVE TypeOK
    BY DEF IInv
  <2>1. size \in 0 .. Cardinality(Nodes)
    <3>1. size \in Nat /\ A \in [1 .. size -> Nodes] /\ Distinct(A, size)
      BY HeapFacts
    <3>2. Cardinality(Nodes) \in Nat /\ size <= Cardinality(Nodes)
      BY <3>1, TreeFits
    <3> QED BY <3>1, <3>2
  <2>2. root \in Nodes \cup {NULL}
    <3>1. size # 0 => 1 \in 1 .. size
      BY HeapFacts
    <3> QED BY <3>1, HeapFacts
  <2>3. node \in Nodes \cup {NULL} /\ pc \in {"idle", "down", "up"}
    <3>1. pc \in {"idle", "down", "up"} /\ (pc = "idle" => node = NULL)
      BY DEF HeapIs, Place
    <3> QED BY <3>1, HeapFacts
  <2>4. left \in Links /\ right \in Links /\ parent \in Links
    BY HeapFacts
  <2>5. key \in [Nodes -> Keys]
    BY DEF HeapIs
  <2> QED BY <2>1, <2>2, <2>3, <2>4, <2>5 DEF TypeOK, Links
<1> QED BY <1>1, Invariance, PTL

(* Between any two swaps of heap.h the links are one complete binary tree  *)
(* of size nodes, whatever was inserted and removed, in any order: the     *)
(* walk by the bits of size finds the last node.                           *)
THEOREM TreeIsComplete == Spec => []Shape
<1>1. IInv => Shape
  <2> SUFFICES ASSUME NEW A, HeapIs(A) PROVE Shape
    BY DEF IInv
  <2>1. Tree(A, size, root, left, right, parent)
    BY DEF HeapIs
  <2>2. Members = Held(A, size) /\ \A i \in 1 .. size : NodeAt[i] = A[i]
    BY <2>1, WalkCovers DEF Members, NodeAt
  <2>3. Cardinality(Members) = size /\ Members \subseteq Nodes
    BY <2>2, HeapFacts, TreeFits DEF Held
  <2>4. ASSUME NEW i \in 1 .. size
        PROVE  /\ parent[A[i]] = IF i = 1 THEN NULL ELSE NodeAt[i \div 2]
               /\ 2 * i > size => left[A[i]] = NULL
               /\ 2 * i + 1 > size => right[A[i]] = NULL
    <3>1. size \in Nat /\ i \in Nat /\ 2 * i + 0 = 2 * i
      BY HeapFacts
    <3>2. left[A[i]] = IF 2 * i <= size THEN A[2 * i] ELSE NULL
      BY <3>1, HeapFacts DEF Side
    <3>3. right[A[i]] = IF 2 * i + 1 <= size THEN A[2 * i + 1] ELSE NULL
      BY HeapFacts DEF Side
    <3>4. parent[A[i]] = IF i = 1 THEN NULL ELSE NodeAt[i \div 2]
      <4>1. CASE i = 1
        BY <4>1, HeapFacts, AboveFacts
      <4>2. CASE i # 1
        <5>1. PICK h \in 1 .. size, s \in {0, 1} : i = 2 * h + s /\ parent[A[i]] = A[h]
          BY <4>2, HeapFacts, AboveFacts
        <5>2. h \in Nat /\ (2 * h + 0) \div 2 = h /\ (2 * h + 1) \div 2 = h
          BY <3>1
        <5>3. i \div 2 = h
          BY <5>1, <5>2
        <5> QED BY <2>2, <4>2, <5>1, <5>3
      <4> QED BY <4>1, <4>2
    <3> QED BY <3>1, <3>2, <3>3, <3>4
  <2> QED BY <2>2, <2>3, <2>4 DEF Shape
<1> QED BY <1>1, Invariance, PTL

(* At rest no node comes before its parent, so the root is a least node;   *)
(* during a move only the moved node may be out of order.                  *)
THEOREM HeapIsOrdered == Spec => []HeapOrder
<1>1. IInv => HeapOrder
  <2> SUFFICES ASSUME NEW A, HeapIs(A), NEW i \in 2 .. size
               PROVE  \/ ~Before(NodeAt[i], NodeAt[i \div 2])
                      \/ pc = "up" /\ node = NodeAt[i]
                      \/ pc = "down" /\ node \in {NodeAt[i], NodeAt[i \div 2]}
    BY DEF IInv, HeapOrder
  <2>1. Tree(A, size, root, left, right, parent) /\ InOrder(A, size, key, pc, node)
    BY DEF HeapIs
  <2>2. size \in Nat /\ i \in Nat /\ i >= 2 /\ i \in 1 .. size
    BY HeapFacts
  <2>3. PICK h \in Nat, s \in {0, 1} : h = i \div 2 /\ s = i % 2
    BY <2>2, Halves
  <2>4. h \in 1 .. size /\ i = 2 * h + s
    BY <2>2, <2>3, Halves
  <2>5. NodeAt[i] = A[i] /\ NodeAt[i \div 2] = A[h]
    BY <2>1, <2>2, <2>3, <2>4, WalkCovers DEF NodeAt
  <2>6. \/ key[A[h]] <= key[A[i]]
        \/ pc = "up" /\ node = A[i]
        \/ pc = "down" /\ node \in {A[h], A[i]}
    BY <2>1, <2>2, <2>4, PairInOrder
  <2>7. key[A[h]] \in Nat /\ key[A[i]] \in Nat
    BY <2>2, <2>4, HeapFacts
  <2> QED BY <2>5, <2>6, <2>7 DEF Before
<1> QED BY <1>1, Invariance, PTL

(* The node that heap_peek returns. *)
RootLeast == pc = "idle" => \A n \in Members : ~Before(n, root)

(* At rest the root is a least node of the whole heap, not only of its     *)
(* children: pd_timers_run looks at no other timer to decide that nothing  *)
(* is due, and Timers models heap_peek as any least timer.                 *)
THEOREM RootIsLeast == Spec => []RootLeast
<1>1. IInv => RootLeast
  <2> SUFFICES ASSUME NEW A, HeapIs(A), pc = "idle", NEW n \in Members
               PROVE  ~Before(n, root)
    BY DEF IInv, RootLeast
  <2>1. Tree(A, size, root, left, right, parent) /\ InOrder(A, size, key, "idle", node)
    BY DEF HeapIs
  <2>2. size \in Nat /\ A \in [1 .. size -> Nodes]
    BY HeapFacts
  <2>3. \A i \in 1 .. size : key[A[i]] \in Nat
    BY HeapFacts
  <2>4. PICK j \in 1 .. size : n = A[j]
    BY <2>1, WalkCovers DEF Members, NodeAt, Held
  <2>5. 1 \in 1 .. size /\ root = A[1]
    <3>1. size # 0 /\ 1 \in 1 .. size
      BY <2>2
    <3> QED BY <3>1, HeapFacts
  <2>6. ASSUME key[A[j]] < key[A[1]] PROVE FALSE
    <3> DEFINE T == {i \in 1 .. size : key[A[i]] < key[A[1]]}
    <3>1. T \subseteq Nat /\ T # {}
      BY <2>2, <2>6
    <3>2. PICK i \in T : \A y \in T : i <= y
      BY <3>1, LeastNatural
    <3>3. i \in 1 .. size /\ key[A[i]] < key[A[1]] /\ i # 1
      BY <2>3, <2>5, <3>2
    <3>4. i \in Nat /\ i >= 2
      BY <2>2, <3>3
    <3>5. PICK h \in Nat, s \in {0, 1} : h = i \div 2 /\ s = i % 2
      BY <3>4, Halves
    <3>6. i = 2 * h + s /\ h >= 1 /\ h < i
      BY <3>4, <3>5, Halves
    <3>7. h \in 1 .. size
      BY <2>2, <3>3, <3>6
    <3>8. key[A[h]] <= key[A[i]]
      BY <2>1, <2>2, <3>3, <3>6, <3>7, PairInOrder
    <3>9. h \in T
      BY <2>3, <2>5, <3>3, <3>7, <3>8
    <3> QED BY <3>2, <3>4, <3>6, <3>9
  <2> QED BY <2>4, <2>5, <2>6 DEF Before
<1> QED BY <1>1, Invariance, PTL

(* An insertion adds the node it is given and a removal takes out the node *)
(* it is given, wherever it is in the tree; the swaps of heap.h lose and   *)
(* duplicate none.                                                         *)
THEOREM MembersAreExact == Spec => MembersExact
<1> DEFINE P == /\ \A n \in Nodes : heap_remove(n) => Members' = Members \ {n}
                /\ \A n \in Nodes, k \in Keys :
                      heap_insert(n, k) => Members' = Members \cup {n}
                /\ pc # "idle" => Members' = Members
<1>1. ASSUME IInv, Next PROVE P
  <2>1. PICK A : HeapIs(A)
    BY <1>1 DEF IInv
  <2>2. Members = Held(A, size)
    BY <2>1, WalkCovers DEF Members, NodeAt, HeapIs
  <2>3. ASSUME NEW B, HeapIs(B)' PROVE Members' = Held(B, size')
    <3>1. Tree(B, size', root', left', right', parent')
      BY <2>3 DEF HeapIs
    <3>2. {NodesOf(root', left', right')[i] : i \in 1 .. size'} = Held(B, size')
      BY <3>1, WalkCovers
    <3> QED BY <3>2 DEF Members, NodeAt
  <2>4. ASSUME NEW n \in Nodes, heap_remove(n) PROVE Members' = Members \ {n}
    <3>1. PICK B : HeapIs(B)' /\ Held(B, size') = Held(A, size) \ {n}
      BY <2>1, <2>4, RemoveStep
    <3> QED BY <2>2, <2>3, <3>1
  <2>5. ASSUME NEW n \in Nodes, NEW k \in Keys, heap_insert(n, k)
        PROVE  Members' = Members \cup {n}
    <3>1. PICK B : HeapIs(B)' /\ Held(B, size') = Held(A, size) \cup {n}
      BY <2>1, <2>5, InsertStep
    <3> QED BY <2>2, <2>3, <3>1
  <2>6. ASSUME pc # "idle" PROVE Members' = Members
    <3>1. SwapDown \/ DownEnds \/ SwapUp \/ UpEnds
      BY <1>1, <2>6 DEF Next, heap_insert, heap_remove, heap_pop
    <3>2. PICK B : HeapIs(B)' /\ Held(B, size') = Held(A, size)
      BY <2>1, <3>1, MoveStep
    <3> QED BY <2>2, <2>3, <3>2
  <2> QED BY <2>4, <2>5, <2>6
<1>2. IInv /\ [Next]_vars => [P]_vars
  BY <1>1
<1> QED BY <1>2, Invariance, PTL DEF Spec, MembersExact
=============================================================================
