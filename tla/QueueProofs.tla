---------------------------- MODULE QueueProofs ----------------------------
(***************************************************************************)
(* Proofs about Queue, for every set of queues and every finite set of     *)
(* nodes.                                                                  *)
(*                                                                         *)
(* The invariant says that some function C from queues to sequences is     *)
(* represented by the fields; a walk along the links then finds C, and     *)
(* every operation does to C what FifoQueues says.                         *)
(***************************************************************************)
EXTENDS Queue, Functions, Integers, FiniteSetTheorems, SequenceTheorems,
        WellFoundedInduction, TLAPS

(* Node n is in the sequence c. *)
In(c, n) == \E i \in 1 .. Len(c) : c[i] = n

Distinct(c) == \A i, j \in 1 .. Len(c) : c[i] = c[j] => i = j

(* first and last are the ends of c, and its nodes are linked in order. *)
Ends(c, first, last) ==
    /\ c = <<>> => first = NULL /\ last = NULL
    /\ c # <<>> => first = c[1] /\ last = c[Len(c)]

Forward(c, nx) ==
    \A i \in 1 .. Len(c) : nx[c[i]] = IF i = Len(c) THEN NULL ELSE c[i + 1]

Backward(c, pv) ==
    \A i \in 1 .. Len(c) : pv[c[i]] = IF i = 1 THEN NULL ELSE c[i - 1]

Apart(C) == \A q, r \in Queues : \A n \in Nodes :
                In(C[q], n) /\ In(C[r], n) => q = r

Unlinked(C, nx, pv) ==
    \A n \in Nodes : (\A q \in Queues : ~In(C[q], n)) => nx[n] = NULL /\ pv[n] = NULL

FieldTypes(h, t, nx, pv) ==
    /\ h \in [Queues -> Nodes \cup {NULL}] /\ t \in [Queues -> Nodes \cup {NULL}]
    /\ nx \in [Nodes -> Nodes \cup {NULL}] /\ pv \in [Nodes -> Nodes \cup {NULL}]

(* The fields h, t, nx, pv hold the sequences C. *)
Represents(C, h, t, nx, pv) ==
    /\ C \in [Queues -> Seq(Nodes)]
    /\ FieldTypes(h, t, nx, pv)
    /\ \A q \in Queues : /\ Distinct(C[q]) /\ Ends(C[q], h[q], t[q])
                         /\ Forward(C[q], nx) /\ Backward(C[q], pv)
    /\ Apart(C) /\ Unlinked(C, nx, pv)

(* What queue_push and queue_pop do to the ends of the queue and to the    *)
(* links.                                                                  *)
PushesOne(n, first, last, nx, pv, first2, nx2, pv2) ==
    /\ first2 = IF first = NULL THEN n ELSE first
    /\ nx2 = IF first = NULL THEN nx ELSE [nx EXCEPT ![last] = n]
    /\ pv2 = IF first = NULL THEN pv ELSE [pv EXCEPT ![n] = last]

PopsOne(first, last, nx, pv, first2, last2, nx2, pv2) ==
    /\ first2 = IF first = last THEN NULL ELSE nx[first]
    /\ last2 = IF first = last THEN NULL ELSE last
    /\ nx2 = [nx EXCEPT ![first] = NULL]
    /\ pv2 = [k \in Nodes |-> IF k = first \/ (first # last /\ k = nx[first])
                              THEN NULL ELSE pv[k]]

(* The same with the fields of all the queues. *)
Pushes(q, n, h, t, nx, pv, h2, t2, nx2, pv2) ==
    /\ h2 = IF h[q] = NULL THEN [h EXCEPT ![q] = n] ELSE h
    /\ t2 = [t EXCEPT ![q] = n]
    /\ nx2 = IF h[q] = NULL THEN nx ELSE [nx EXCEPT ![t[q]] = n]
    /\ pv2 = IF h[q] = NULL THEN pv ELSE [pv EXCEPT ![n] = t[q]]

Pops(q, h, t, nx, pv, h2, t2, nx2, pv2) ==
    /\ h2 = [h EXCEPT ![q] = IF h[q] = t[q] THEN NULL ELSE nx[h[q]]]
    /\ t2 = [t EXCEPT ![q] = IF h[q] = t[q] THEN NULL ELSE t[q]]
    /\ nx2 = [nx EXCEPT ![h[q]] = NULL]
    /\ pv2 = [k \in Nodes |-> IF k = h[q] \/ (h[q] # t[q] /\ k = nx[h[q]])
                              THEN NULL ELSE pv[k]]

(* The inductive invariant. *)
IInv == \E C : Represents(C, head, tail, next, prev)
-----------------------------------------------------------------------------
(* The walk.                                                               *)

(* A set of natural numbers that is not empty has a least element. *)
LEMMA LeastNatural ==
    ASSUME NEW T, T \subseteq Nat, T # {}
    PROVE  \E x \in T : \A y \in T : x <= y
<1>1. PICK x \in T : \A y \in T : ~(<<y, x>> \in OpToRel(<, Nat))
  BY NatLessThanWellFounded, WFMin
<1>2. \A y \in T : ~(y < x)
  BY <1>1 DEF OpToRel
<1> QED BY <1>2

(* A walk along the links of a sequence meets that sequence: the links     *)
(* determine the function the walk computes, step by step.                 *)
LEMMA WalkMeets ==
    ASSUME NEW c \in Seq(Nodes), NEW first, NEW last, NEW nx,
           Distinct(c), Ends(c, first, last), Forward(c, nx)
    PROVE  WalkFrom(first, nx) = c /\ Len(c) <= Cardinality(Nodes)
<1>1. PICK m \in Nat : m = Len(c)
  OBVIOUS
<1>2. PICK N \in Nat : N = Cardinality(Nodes)
  BY QueueAssumption, FS_CardinalityType
<1>3. DOMAIN c = 1 .. m /\ \A i \in 1 .. m : c[i] \in Nodes
  BY <1>1
<1>4. m <= N
  <2>1. c \in [1 .. m -> Nodes]
    BY <1>1
  <2>2. c \in Injection(1 .. m, Nodes)
    BY <2>1, <1>1, <1>3 DEF Injection, IsInjective, Distinct
  <2>3. Cardinality(1 .. m) <= Cardinality(Nodes)
    BY <2>2, QueueAssumption, FS_Injection
  <2>4. Cardinality(1 .. m) = m
    BY FS_Interval
  <2> QED BY <2>3, <2>4, <1>2
<1> DEFINE D == 1 .. Cardinality(Nodes) + 2
           Step(f, i) == IF i = 1 THEN first
                         ELSE IF f[i - 1] \in Nodes THEN nx[f[i - 1]] ELSE NULL
           Solves(f) == f = [i \in D |-> Step(f, i)]
           from == CHOOSE f : Solves(f)
           g == [i \in D |-> IF i <= m THEN c[i] ELSE NULL]
<1>5. D = 1 .. N + 2
  BY <1>2
<1>6. first = (IF m = 0 THEN NULL ELSE c[1])
  BY <1>1 DEF Ends
<1>7. \A i \in 1 .. m : nx[c[i]] = IF i = m THEN NULL ELSE c[i + 1]
  BY <1>1 DEF Forward
<1> HIDE DEF D
<1>8. Solves(g)
  <2>1. ASSUME NEW i \in D PROVE g[i] = Step(g, i)
    <3>1. CASE i = 1
      BY <3>1, <1>4, <1>5, <1>6
    <3>2. CASE i # 1
      <4>1. i \in Nat /\ i - 1 \in D /\ i - 1 \in Nat /\ i - 1 >= 1 /\ (i - 1) + 1 = i
        BY <3>2, <1>5
      <4>2. CASE i - 1 <= m
        <5>1. g[i - 1] = c[i - 1] /\ c[i - 1] \in Nodes /\ i - 1 \in 1 .. m
          BY <4>1, <4>2, <1>3
        <5>2. nx[c[i - 1]] = IF i - 1 = m THEN NULL ELSE c[i]
          BY <5>1, <4>1, <1>7
        <5>3. g[i] = IF i - 1 = m THEN NULL ELSE c[i]
          BY <4>1, <4>2
        <5> QED BY <5>1, <5>2, <5>3, <3>2
      <4>3. CASE ~(i - 1 <= m)
        <5>1. g[i - 1] = NULL /\ g[i] = NULL
          BY <4>1, <4>3
        <5> QED BY <5>1, <3>2, QueueAssumption
      <4> QED BY <4>2, <4>3
    <3> QED BY <3>1, <3>2
  <2> HIDE DEF Step
  <2>2. g = [i \in D |-> g[i]]
    OBVIOUS
  <2> HIDE DEF g
  <2> QED BY <2>1, <2>2
<1>9. Solves(from)
  <2> HIDE DEF g, Solves
  <2> QED BY <1>8
<1>10. DOMAIN from = D /\ \A i \in D : from[i] = Step(from, i)
  <2> HIDE DEF from, Step
  <2> QED BY <1>9
<1>11. \A i \in D : from[i] = g[i]
  <2> SUFFICES ASSUME \E i \in D : from[i] # g[i] PROVE FALSE
    OBVIOUS
  <2> DEFINE T == {i \in D : from[i] # g[i]}
  <2>1. T \subseteq Nat /\ T # {}
    <3> HIDE DEF from, g
    <3>1. D \subseteq Nat
      BY <1>5
    <3> QED BY <3>1
  <2>2. PICK k \in T : \A y \in T : k <= y
    BY <2>1, LeastNatural
  <2>3. k \in D /\ from[k] # g[k] /\ k \in Nat
    BY <2>1, <2>2
  <2>4. CASE k = 1
    <3>1. from[k] = first /\ g[k] = first
      BY <2>3, <2>4, <1>8, <1>10
    <3> QED BY <3>1, <2>3
  <2>5. CASE k # 1
    <3>1. k - 1 \in D /\ ~(k <= k - 1)
      BY <2>3, <2>5, <1>5
    <3>2. from[k - 1] = g[k - 1]
      BY <3>1, <2>2
    <3>3. from[k] = Step(from, k) /\ g[k] = Step(g, k)
      <4> HIDE DEF Step, from
      <4> QED BY <1>8, <1>10, <2>3
    <3> QED BY <3>2, <3>3, <2>3
  <2> QED BY <2>4, <2>5
<1>12. Cardinality({i \in DOMAIN from : from[i] # NULL}) = m
  <2>1. {i \in DOMAIN from : from[i] # NULL} = 1 .. m
    <3>1. \A i \in D : from[i] # NULL <=> i <= m
      <4> HIDE DEF from
      <4> QED BY <1>11, <1>5, <1>3, QueueAssumption
    <3> HIDE DEF from
    <3> QED BY <3>1, <1>10, <1>5, <1>4
  <2>2. Cardinality(1 .. m) = m
    BY FS_Interval
  <2> HIDE DEF from
  <2> QED BY <2>1, <2>2
<1>13. WalkFrom(first, nx) = [i \in 1 .. m |-> from[i]]
  BY <1>12 DEF WalkFrom, D
<1>14. [i \in 1 .. m |-> from[i]] = c
  <2>1. \A i \in 1 .. m : from[i] = c[i]
    <3> HIDE DEF from
    <3> QED BY <1>11, <1>4, <1>5
  <2> HIDE DEF from
  <2>2. c = [i \in 1 .. m |-> c[i]]
    BY <1>1
  <2> QED BY <2>1, <2>2
<1> QED BY <1>13, <1>14, <1>1, <1>2, <1>4

(* Every walk finds the sequence that the fields hold. *)
LEMMA WalkFinds ==
    ASSUME NEW C, NEW h, NEW t, NEW nx, NEW pv, Represents(C, h, t, nx, pv)
    PROVE  \A q \in Queues : WalkFrom(h[q], nx) = C[q] /\ Len(C[q]) <= Cardinality(Nodes)
<1> SUFFICES ASSUME NEW q \in Queues
             PROVE  WalkFrom(h[q], nx) = C[q] /\ Len(C[q]) <= Cardinality(Nodes)
  OBVIOUS
<1>1. /\ C[q] \in Seq(Nodes) /\ Distinct(C[q]) /\ Ends(C[q], h[q], t[q])
      /\ Forward(C[q], nx)
  BY DEF Represents
<1> QED BY <1>1, WalkMeets
-----------------------------------------------------------------------------
(* The operations on one sequence.                                         *)

(* A node is pushed: the new last node, and the links around it. *)
LEMMA PushOne ==
    ASSUME NEW c \in Seq(Nodes), NEW n \in Nodes, NEW first, NEW last,
           NEW nx \in [Nodes -> Nodes \cup {NULL}], NEW pv \in [Nodes -> Nodes \cup {NULL}],
           NEW nx2, NEW pv2, NEW first2,
           Distinct(c), Ends(c, first, last), Forward(c, nx), Backward(c, pv),
           ~In(c, n), nx[n] = NULL, pv[n] = NULL,
           PushesOne(n, first, last, nx, pv, first2, nx2, pv2)
    PROVE  /\ Append(c, n) \in Seq(Nodes) /\ Distinct(Append(c, n))
           /\ Ends(Append(c, n), first2, n)
           /\ Forward(Append(c, n), nx2) /\ Backward(Append(c, n), pv2)
           /\ \A k : In(Append(c, n), k) <=> In(c, k) \/ k = n
           /\ nx2 \in [Nodes -> Nodes \cup {NULL}] /\ pv2 \in [Nodes -> Nodes \cup {NULL}]
           /\ \A k \in Nodes : ~In(c, k) /\ k # n => nx2[k] = nx[k] /\ pv2[k] = pv[k]
<1> DEFINE d == Append(c, n)
<1>1. PICK m \in Nat : m = Len(c)
  OBVIOUS
<1>2. /\ d \in Seq(Nodes) /\ Len(d) = m + 1 /\ d[m + 1] = n /\ d # <<>>
      /\ \A i \in 1 .. m : d[i] = c[i] /\ c[i] \in Nodes
  BY <1>1
<1> HIDE DEF d
<1>3. \A i \in 1 .. m + 1 : i \in 1 .. m \/ i = m + 1
  OBVIOUS
<1>4. \A i \in 1 .. m : c[i] # n
  BY <1>1 DEF In
<1>5. Distinct(d)
  <2>1. \A i, j \in 1 .. m : c[i] = c[j] => i = j
    BY <1>1 DEF Distinct
  <2> QED BY <1>2, <1>3, <1>4, <2>1 DEF Distinct
<1>6. \A k : In(d, k) <=> In(c, k) \/ k = n
  <2>1. \A i \in 1 .. m : i \in 1 .. m + 1
    OBVIOUS
  <2>2. m + 1 \in 1 .. m + 1
    OBVIOUS
  <2> QED BY <1>1, <1>2, <1>3, <2>1, <2>2 DEF In
<1>7. CASE m = 0
  <2>5. c = <<>>
    BY <1>1, <1>7, EmptySeq
  <2>1. first = NULL
    BY <2>5 DEF Ends
  <2>2. nx2 = nx /\ pv2 = pv /\ first2 = n
    BY <2>1 DEF PushesOne
  <2>3. Len(d) = 1 /\ d[1] = n
    BY <1>2, <1>7
  <2>4. Ends(d, first2, n) /\ Forward(d, nx2) /\ Backward(d, pv2)
    <3>1. Ends(d, first2, n)
      BY <1>2, <2>2, <2>3 DEF Ends
    <3>2. \A i \in 1 .. Len(d) : i = 1 /\ d[i] = n
      BY <2>3
    <3>3. Forward(d, nx2)
      BY <2>2, <2>3, <3>2 DEF Forward
    <3>4. Backward(d, pv2)
      BY <2>2, <3>2 DEF Backward
    <3> QED BY <3>1, <3>3, <3>4
  <2> QED BY <1>2, <1>5, <1>6, <2>2, <2>4 DEF d
<1>8. CASE m # 0
  <2>1. /\ c # <<>> /\ first = c[1] /\ last = c[m] /\ 1 \in 1 .. m /\ m \in 1 .. m
        /\ first # NULL /\ last \in Nodes /\ last # n
    BY <1>1, <1>2, <1>4, <1>8, QueueAssumption DEF Ends
  <2>2. /\ first2 = first /\ nx2 = [nx EXCEPT ![last] = n]
        /\ pv2 = [pv EXCEPT ![n] = last]
    BY <2>1 DEF PushesOne
  <2>3. /\ nx2[last] = n /\ \A k \in Nodes \ {last} : nx2[k] = nx[k]
        /\ pv2[n] = last /\ \A k \in Nodes \ {n} : pv2[k] = pv[k]
        /\ nx2 \in [Nodes -> Nodes \cup {NULL}] /\ pv2 \in [Nodes -> Nodes \cup {NULL}]
    BY <2>1, <2>2
  <2>4. Ends(d, first2, n)
    BY <1>2, <2>1, <2>2 DEF Ends
  <2>5. \A i \in 1 .. m : c[i] = last => i = m
    BY <1>1, <2>1 DEF Distinct
  <2>6. Forward(d, nx2)
    <3> SUFFICES ASSUME NEW i \in 1 .. m + 1
                 PROVE  nx2[d[i]] = IF i = m + 1 THEN NULL ELSE d[i + 1]
      BY <1>2 DEF Forward
    <3>1. CASE i = m + 1
      BY <3>1, <1>2, <2>1, <2>3
    <3>2. CASE i = m
      BY <3>2, <1>2, <2>1, <2>3
    <3>3. CASE i \in 1 .. m /\ i # m
      <4>1. nx[c[i]] = c[i + 1] /\ i + 1 \in 1 .. m /\ i # m + 1
        BY <1>1, <3>3 DEF Forward
      <4>2. d[i] = c[i] /\ d[i + 1] = c[i + 1] /\ c[i] \in Nodes \ {last}
        BY <1>2, <4>1, <3>3, <2>5
      <4> QED BY <4>1, <4>2, <2>3
    <3> QED BY <1>3, <3>1, <3>2, <3>3
  <2>7. Backward(d, pv2)
    <3> SUFFICES ASSUME NEW i \in 1 .. m + 1
                 PROVE  pv2[d[i]] = IF i = 1 THEN NULL ELSE d[i - 1]
      BY <1>2 DEF Backward
    <3>1. CASE i = m + 1
      <4>1. i - 1 = m /\ i # 1
        BY <3>1, <1>8
      <4> QED BY <3>1, <4>1, <1>2, <2>1, <2>3
    <3>2. CASE i \in 1 .. m
      <4>1. pv[c[i]] = IF i = 1 THEN NULL ELSE c[i - 1]
        BY <1>1, <3>2 DEF Backward
      <4>2. d[i] = c[i] /\ c[i] \in Nodes \ {n} /\ (i # 1 => i - 1 \in 1 .. m)
        BY <1>2, <3>2, <1>4
      <4>3. i # 1 => d[i - 1] = c[i - 1]
        BY <1>2, <4>2
      <4> QED BY <4>1, <4>2, <4>3, <2>3
    <3> QED BY <1>3, <3>1, <3>2
  <2>8. \A k \in Nodes : ~In(c, k) => k # last
    BY <1>1, <2>1 DEF In
  <2> QED BY <1>2, <1>5, <1>6, <2>3, <2>4, <2>6, <2>7, <2>8 DEF d
<1> QED BY <1>7, <1>8

(* The sequence d, its ends and its links after first left c. *)
PoppedOne(c, d, first, nx, pv, first2, last2, nx2, pv2) ==
    /\ d \in Seq(Nodes) /\ Distinct(d) /\ Ends(d, first2, last2)
    /\ Forward(d, nx2) /\ Backward(d, pv2)
    /\ first = Head(c) /\ first \in Nodes /\ In(c, first)
    /\ \A k : In(d, k) <=> In(c, k) /\ k # first
    /\ nx2 \in [Nodes -> Nodes \cup {NULL}] /\ pv2 \in [Nodes -> Nodes \cup {NULL}]
    /\ nx2[first] = NULL /\ pv2[first] = NULL
    /\ \A k \in Nodes : ~In(c, k) => nx2[k] = nx[k] /\ pv2[k] = pv[k]

(* The first node is popped: its links are cleared, and the link back to   *)
(* it.                                                                     *)
LEMMA PopOne ==
    ASSUME NEW c \in Seq(Nodes), c # <<>>, NEW first, NEW last,
           NEW nx \in [Nodes -> Nodes \cup {NULL}], NEW pv \in [Nodes -> Nodes \cup {NULL}],
           NEW nx2, NEW pv2, NEW first2, NEW last2,
           Distinct(c), Ends(c, first, last), Forward(c, nx), Backward(c, pv),
           PopsOne(first, last, nx, pv, first2, last2, nx2, pv2)
    PROVE  PoppedOne(c, Tail(c), first, nx, pv, first2, last2, nx2, pv2)
<1> DEFINE d == Tail(c)
<1>1. PICK m \in Nat : m = Len(c) /\ m >= 1
  BY EmptySeq
<1>2. /\ d \in Seq(Nodes) /\ Len(d) = m - 1 /\ Head(c) = c[1]
      /\ \A i \in 1 .. m - 1 : d[i] = c[i + 1]
      /\ \A i \in 1 .. m : c[i] \in Nodes
  BY <1>1
<1> HIDE DEF d
<1>3. /\ \A i \in 1 .. m - 1 : i + 1 \in 1 .. m /\ i \in 1 .. m /\ i + 1 # 1 /\ i # m
      /\ \A i \in 1 .. m : i = 1 \/ (i - 1 \in 1 .. m - 1 /\ (i - 1) + 1 = i)
      /\ 1 \in 1 .. m /\ m \in 1 .. m
  BY <1>1
<1>4. \A i, j \in 1 .. m : c[i] = c[j] => i = j
  BY <1>1 DEF Distinct
<1>5. /\ first = c[1] /\ last = c[m] /\ first \in Nodes /\ In(c, first)
      /\ (first = last <=> m = 1)
  BY <1>1, <1>2, <1>3, <1>4 DEF Ends, In
<1>6. Distinct(d)
  <2> SUFFICES ASSUME NEW i \in 1 .. m - 1, NEW j \in 1 .. m - 1, d[i] = d[j]
               PROVE  i = j
    BY <1>2 DEF Distinct
  <2>1. i + 1 = j + 1
    BY <1>2, <1>3, <1>4
  <2> QED BY <2>1
<1>7. \A k : In(d, k) <=> In(c, k) /\ k # first
  <2>1. ASSUME NEW i \in 1 .. m - 1
        PROVE  In(c, d[i]) /\ d[i] # first
    <3>1. d[i] = c[i + 1] /\ i + 1 \in 1 .. m /\ i + 1 # 1 /\ 1 \in 1 .. m
      BY <1>2, <1>3
    <3>2. d[i] # first
      BY <3>1, <1>4, <1>5
    <3> QED BY <3>1, <3>2, <1>1 DEF In
  <2>2. ASSUME NEW i \in 1 .. m, c[i] # first
        PROVE  In(d, c[i])
    <3>1. i - 1 \in 1 .. m - 1 /\ (i - 1) + 1 = i
      BY <1>3, <1>5, <2>2
    <3>2. d[i - 1] = c[i]
      BY <1>2, <3>1
    <3> QED BY <1>2, <3>1, <3>2 DEF In
  <2>3. \A k : In(d, k) => \E i \in 1 .. m - 1 : d[i] = k
    BY <1>2 DEF In
  <2>4. \A k : In(c, k) => \E i \in 1 .. m : c[i] = k
    BY <1>1 DEF In
  <2> QED BY <2>1, <2>2, <2>3, <2>4
<1>8. /\ nx2[first] = NULL /\ \A k \in Nodes \ {first} : nx2[k] = nx[k]
      /\ nx2 \in [Nodes -> Nodes \cup {NULL}]
  BY <1>5 DEF PopsOne
<1>9. /\ pv2[first] = NULL /\ pv2 \in [Nodes -> Nodes \cup {NULL}]
      /\ \A k \in Nodes : pv2[k] = IF k = first \/ (first # last /\ k = nx[first])
                                   THEN NULL ELSE pv[k]
  BY <1>5 DEF PopsOne
<1>15. /\ first2 = (IF m = 1 THEN NULL ELSE nx[first])
       /\ last2 = (IF m = 1 THEN NULL ELSE last)
  BY <1>5 DEF PopsOne
<1>10. m # 1 => nx[first] = c[2] /\ 2 \in 1 .. m
  <2>1. nx[c[1]] = IF 1 = m THEN NULL ELSE c[1 + 1]
    BY <1>1, <1>3 DEF Forward
  <2> QED BY <1>1, <1>5, <2>1
<1>11. \A k \in Nodes : ~In(c, k) => nx2[k] = nx[k] /\ pv2[k] = pv[k]
  <2>1. m # 1 => In(c, nx[first])
    BY <1>1, <1>10 DEF In
  <2> QED BY <2>1, <1>5, <1>8, <1>9
<1>12. Ends(d, first2, last2)
  <2>1. CASE m = 1
    <3>1. d = <<>>
      BY <2>1, <1>2, EmptySeq
    <3> QED BY <3>1, <2>1, <1>15 DEF Ends
  <2>2. CASE m # 1
    <3>1. first2 = c[2] /\ last2 = c[m] /\ 1 \in 1 .. m - 1 /\ m - 1 \in 1 .. m - 1
      BY <2>2, <1>1, <1>5, <1>10, <1>15
    <3>2. d[1] = c[1 + 1] /\ d[m - 1] = c[(m - 1) + 1] /\ (m - 1) + 1 = m
      BY <3>1, <1>2
    <3>3. d # <<>>
      BY <3>1, <1>2
    <3> QED BY <3>1, <3>2, <3>3, <1>2 DEF Ends
  <2> QED BY <2>1, <2>2
<1>13. Forward(d, nx2)
  <2> SUFFICES ASSUME NEW i \in 1 .. m - 1
               PROVE  nx2[d[i]] = IF i = m - 1 THEN NULL ELSE d[i + 1]
    BY <1>2 DEF Forward
  <2>1. d[i] = c[i + 1] /\ i + 1 \in 1 .. m /\ c[i + 1] \in Nodes \ {first}
    BY <1>2, <1>3, <1>4, <1>5
  <2>2. nx[c[i + 1]] = IF i + 1 = m THEN NULL ELSE c[(i + 1) + 1]
    BY <1>1, <2>1 DEF Forward
  <2>3. (i + 1 = m <=> i = m - 1) /\ (i # m - 1 => i + 1 \in 1 .. m - 1)
    OBVIOUS
  <2>4. i # m - 1 => d[i + 1] = c[(i + 1) + 1]
    BY <1>2, <2>3
  <2> QED BY <2>1, <2>2, <2>3, <2>4, <1>8
<1>14. Backward(d, pv2)
  <2> SUFFICES ASSUME NEW i \in 1 .. m - 1
               PROVE  pv2[d[i]] = IF i = 1 THEN NULL ELSE d[i - 1]
    BY <1>2 DEF Backward
  <2>1. d[i] = c[i + 1] /\ i + 1 \in 1 .. m /\ c[i + 1] \in Nodes \ {first}
    BY <1>2, <1>3, <1>4, <1>5
  <2>5. (i + 1) - 1 = i /\ m # 1 /\ i \in Nat /\ i + 1 # 1
    OBVIOUS
  <2>6. pv[c[i + 1]] = IF i + 1 = 1 THEN NULL ELSE c[(i + 1) - 1]
    BY <1>1, <2>1 DEF Backward
  <2>2. pv[c[i + 1]] = c[i] /\ m # 1 /\ i \in Nat
    BY <2>5, <2>6
  <2>3. CASE i = 1
    <3>1. c[i + 1] = nx[first] /\ first # last
      BY <2>2, <2>3, <1>5, <1>10
    <3> QED BY <3>1, <2>1, <2>3, <1>9
  <2>4. CASE i # 1
    <3>1. c[i + 1] # nx[first]
      <4>1. i + 1 # 2
        BY <2>2, <2>4
      <4> QED BY <4>1, <2>1, <2>2, <1>4, <1>10
    <3>2. i - 1 \in 1 .. m - 1 /\ (i - 1) + 1 = i
      BY <2>2, <2>4
    <3>3. d[i - 1] = c[i]
      BY <1>2, <3>2
    <3> QED BY <2>1, <2>2, <2>4, <3>1, <3>3, <1>9
  <2> QED BY <2>3, <2>4
<1>16. PoppedOne(c, d, first, nx, pv, first2, last2, nx2, pv2)
  BY <1>2, <1>5, <1>6, <1>7, <1>8, <1>9, <1>11, <1>12, <1>13, <1>14 DEF PoppedOne
<1> QED BY <1>16 DEF d
-----------------------------------------------------------------------------
(* The operations on all the queues.                                       *)

(* The nodes of one sequence are linked as before when their own links     *)
(* are.                                                                    *)
LEMMA SameLinks ==
    ASSUME NEW c \in Seq(Nodes), NEW nx, NEW pv, NEW nx2, NEW pv2,
           Forward(c, nx), Backward(c, pv),
           \A k \in Nodes : In(c, k) => nx2[k] = nx[k] /\ pv2[k] = pv[k]
    PROVE  Forward(c, nx2) /\ Backward(c, pv2)
<1>1. \A i \in 1 .. Len(c) : c[i] \in Nodes /\ In(c, c[i])
  BY DEF In
<1>2. \A i \in 1 .. Len(c) : nx2[c[i]] = nx[c[i]] /\ pv2[c[i]] = pv[c[i]]
  BY <1>1
<1> QED BY <1>2 DEF Forward, Backward

(* queue_push of a node that is in no queue appends it to one sequence. *)
LEMMA PushKeeps ==
    ASSUME NEW C, NEW h, NEW t, NEW nx, NEW pv, NEW h2, NEW t2, NEW nx2, NEW pv2,
           Represents(C, h, t, nx, pv),
           NEW q \in Queues, NEW n \in Nodes, \A r \in Queues : ~In(C[r], n),
           Pushes(q, n, h, t, nx, pv, h2, t2, nx2, pv2)
    PROVE  Represents([C EXCEPT ![q] = Append(@, n)], h2, t2, nx2, pv2)
<1> DEFINE D == [C EXCEPT ![q] = Append(@, n)]
           d == Append(C[q], n)
<1>1. /\ C \in [Queues -> Seq(Nodes)]
      /\ h \in [Queues -> Nodes \cup {NULL}] /\ t \in [Queues -> Nodes \cup {NULL}]
      /\ nx \in [Nodes -> Nodes \cup {NULL}] /\ pv \in [Nodes -> Nodes \cup {NULL}]
  BY DEF Represents, FieldTypes
<1>2. /\ C[q] \in Seq(Nodes) /\ Distinct(C[q]) /\ Ends(C[q], h[q], t[q])
      /\ Forward(C[q], nx) /\ Backward(C[q], pv)
      /\ ~In(C[q], n) /\ nx[n] = NULL /\ pv[n] = NULL
  BY <1>1 DEF Represents, Unlinked
<1>3. PICK first2 : first2 = IF h[q] = NULL THEN n ELSE h[q]
  OBVIOUS
<1>4. /\ d \in Seq(Nodes) /\ Distinct(d) /\ Ends(d, first2, n)
      /\ Forward(d, nx2) /\ Backward(d, pv2)
      /\ \A k : In(d, k) <=> In(C[q], k) \/ k = n
      /\ nx2 \in [Nodes -> Nodes \cup {NULL}] /\ pv2 \in [Nodes -> Nodes \cup {NULL}]
      /\ \A k \in Nodes : ~In(C[q], k) /\ k # n => nx2[k] = nx[k] /\ pv2[k] = pv[k]
  <2>1. PICK c \in Seq(Nodes) : c = C[q]
    BY <1>2
  <2>6. PICK first, last : first = h[q] /\ last = t[q]
    OBVIOUS
  <2>2. /\ Distinct(c) /\ Ends(c, first, last) /\ Forward(c, nx) /\ Backward(c, pv)
        /\ ~In(c, n) /\ nx[n] = NULL /\ pv[n] = NULL
    BY <1>2, <2>1, <2>6
  <2>5. PushesOne(n, first, last, nx, pv, first2, nx2, pv2)
    BY <1>3, <2>1, <2>6 DEF Pushes, PushesOne
  <2> DEFINE e == Append(c, n)
  <2>3. /\ e \in Seq(Nodes) /\ Distinct(e) /\ Ends(e, first2, n)
        /\ Forward(e, nx2) /\ Backward(e, pv2)
        /\ \A k : In(e, k) <=> In(c, k) \/ k = n
        /\ nx2 \in [Nodes -> Nodes \cup {NULL}] /\ pv2 \in [Nodes -> Nodes \cup {NULL}]
        /\ \A k \in Nodes : ~In(c, k) /\ k # n => nx2[k] = nx[k] /\ pv2[k] = pv[k]
    BY <1>1, <2>2, <2>5, PushOne
  <2>4. e = d
    BY <2>1
  <2> HIDE DEF e, d
  <2> QED BY <2>1, <2>3, <2>4
<1>5. h2[q] = first2 /\ \A r \in Queues \ {q} : h2[r] = h[r]
  BY <1>1, <1>3 DEF Pushes
<1>6. h2 \in [Queues -> Nodes \cup {NULL}] /\ t2 \in [Queues -> Nodes \cup {NULL}]
  BY <1>1 DEF Pushes
<1>7. t2[q] = n /\ \A r \in Queues \ {q} : t2[r] = t[r]
  BY <1>1 DEF Pushes
<1> HIDE DEF d
<1>8. /\ D \in [Queues -> Seq(Nodes)] /\ D[q] = d
      /\ \A r \in Queues \ {q} : D[r] = C[r]
  BY <1>1, <1>4 DEF d
<1> HIDE DEF D
<1>9. ASSUME NEW r \in Queues
      PROVE  /\ Distinct(D[r]) /\ Ends(D[r], h2[r], t2[r])
             /\ Forward(D[r], nx2) /\ Backward(D[r], pv2)
  <2>1. CASE r = q
    BY <2>1, <1>4, <1>5, <1>7, <1>8
  <2>2. CASE r # q
    <3>1. D[r] = C[r] /\ h2[r] = h[r] /\ t2[r] = t[r] /\ C[r] \in Seq(Nodes)
      BY <2>2, <1>1, <1>5, <1>7, <1>8
    <3>2. /\ Distinct(C[r]) /\ Ends(C[r], h[r], t[r])
          /\ Forward(C[r], nx) /\ Backward(C[r], pv)
      BY DEF Represents
    <3>6. \A k \in Nodes : In(C[r], k) /\ In(C[q], k) => r = q
      BY DEF Represents, Apart
    <3>3. \A k \in Nodes : In(C[r], k) => ~In(C[q], k) /\ k # n
      BY <2>2, <3>6
    <3>4. \A k \in Nodes : In(C[r], k) => nx2[k] = nx[k] /\ pv2[k] = pv[k]
      BY <3>3, <1>4
    <3>5. Forward(C[r], nx2) /\ Backward(C[r], pv2)
      <4>1. PICK c \in Seq(Nodes) : c = C[r]
        BY <3>1
      <4>2. /\ Forward(c, nx) /\ Backward(c, pv)
            /\ \A k \in Nodes : In(c, k) => nx2[k] = nx[k] /\ pv2[k] = pv[k]
        BY <3>2, <3>4, <4>1
      <4>3. Forward(c, nx2) /\ Backward(c, pv2)
        BY <4>2, SameLinks
      <4> QED BY <4>1, <4>3
    <3> QED BY <3>1, <3>2, <3>5
  <2> QED BY <2>1, <2>2
<1>10. Apart(D)
  BY <1>4, <1>8 DEF Represents, Apart
<1>11. Unlinked(D, nx2, pv2)
  <2> SUFFICES ASSUME NEW k \in Nodes, \A r \in Queues : ~In(D[r], k)
               PROVE  nx2[k] = NULL /\ pv2[k] = NULL
    BY DEF Unlinked
  <2>1. ~In(C[q], k) /\ k # n /\ \A r \in Queues : ~In(C[r], k)
    BY <1>4, <1>8
  <2>2. nx[k] = NULL /\ pv[k] = NULL
    BY <2>1 DEF Represents, Unlinked
  <2> QED BY <2>1, <2>2, <1>4
<1>12. Represents(D, h2, t2, nx2, pv2)
  BY <1>4, <1>6, <1>8, <1>9, <1>10, <1>11 DEF Represents, FieldTypes
<1> QED BY <1>12 DEF D

(* queue_pop takes the first node of one sequence, which then is in no     *)
(* queue and has no links.                                                 *)
LEMMA PopKeeps ==
    ASSUME NEW C, NEW h, NEW t, NEW nx, NEW pv, NEW h2, NEW t2, NEW nx2, NEW pv2,
           Represents(C, h, t, nx, pv),
           NEW q \in Queues, h[q] # NULL,
           Pops(q, h, t, nx, pv, h2, t2, nx2, pv2)
    PROVE  /\ Represents([C EXCEPT ![q] = Tail(@)], h2, t2, nx2, pv2)
           /\ C[q] # <<>> /\ h[q] = Head(C[q]) /\ h[q] \in Nodes
           /\ \A r \in Queues : ~In([C EXCEPT ![q] = Tail(@)][r], h[q])
<1> DEFINE D == [C EXCEPT ![q] = Tail(@)]
           d == Tail(C[q])
<1>1. /\ C \in [Queues -> Seq(Nodes)]
      /\ h \in [Queues -> Nodes \cup {NULL}] /\ t \in [Queues -> Nodes \cup {NULL}]
      /\ nx \in [Nodes -> Nodes \cup {NULL}] /\ pv \in [Nodes -> Nodes \cup {NULL}]
  BY DEF Represents, FieldTypes
<1>2. /\ C[q] \in Seq(Nodes) /\ Distinct(C[q]) /\ Ends(C[q], h[q], t[q])
      /\ Forward(C[q], nx) /\ Backward(C[q], pv)
  BY <1>1 DEF Represents
<1>14. C[q] # <<>>
  BY <1>2 DEF Ends
<1>3. /\ h2[q] = (IF h[q] = t[q] THEN NULL ELSE nx[h[q]])
      /\ t2[q] = (IF h[q] = t[q] THEN NULL ELSE t[q])
      /\ \A r \in Queues \ {q} : h2[r] = h[r] /\ t2[r] = t[r]
  BY <1>1 DEF Pops
<1>4. /\ d \in Seq(Nodes) /\ Distinct(d) /\ Ends(d, h2[q], t2[q])
      /\ Forward(d, nx2) /\ Backward(d, pv2)
      /\ h[q] = Head(C[q]) /\ h[q] \in Nodes /\ In(C[q], h[q])
      /\ \A k : In(d, k) <=> In(C[q], k) /\ k # h[q]
      /\ nx2 \in [Nodes -> Nodes \cup {NULL}] /\ pv2 \in [Nodes -> Nodes \cup {NULL}]
      /\ nx2[h[q]] = NULL /\ pv2[h[q]] = NULL
      /\ \A k \in Nodes : ~In(C[q], k) => nx2[k] = nx[k] /\ pv2[k] = pv[k]
  <2>1. PICK c \in Seq(Nodes) : c = C[q]
    BY <1>2
  <2>6. PICK first, last, first2, last2 :
           first = h[q] /\ last = t[q] /\ first2 = h2[q] /\ last2 = t2[q]
    OBVIOUS
  <2>2. /\ c # <<>> /\ Distinct(c) /\ Ends(c, first, last)
        /\ Forward(c, nx) /\ Backward(c, pv)
    BY <1>2, <1>14, <2>1, <2>6
  <2>5. PopsOne(first, last, nx, pv, first2, last2, nx2, pv2)
    BY <1>3, <2>1, <2>6 DEF Pops, PopsOne
  <2> DEFINE e == Tail(c)
  <2>3. PoppedOne(c, e, first, nx, pv, first2, last2, nx2, pv2)
    BY <1>1, <2>2, <2>5, PopOne
  <2>4. e = d
    BY <2>1
  <2> HIDE DEF e, d
  <2> QED BY <2>1, <2>3, <2>4, <2>6 DEF PoppedOne
<1>6. h2 \in [Queues -> Nodes \cup {NULL}] /\ t2 \in [Queues -> Nodes \cup {NULL}]
  <2>1. nx[h[q]] \in Nodes \cup {NULL}
    BY <1>1, <1>4
  <2> QED BY <1>1, <2>1 DEF Pops
<1> HIDE DEF d
<1>8. /\ D \in [Queues -> Seq(Nodes)] /\ D[q] = d
      /\ \A r \in Queues \ {q} : D[r] = C[r]
  BY <1>1, <1>4 DEF d
<1> HIDE DEF D
<1>9. ASSUME NEW r \in Queues
      PROVE  /\ Distinct(D[r]) /\ Ends(D[r], h2[r], t2[r])
             /\ Forward(D[r], nx2) /\ Backward(D[r], pv2)
  <2>1. CASE r = q
    BY <2>1, <1>4, <1>8
  <2>2. CASE r # q
    <3>1. D[r] = C[r] /\ h2[r] = h[r] /\ t2[r] = t[r] /\ C[r] \in Seq(Nodes)
      BY <2>2, <1>1, <1>3, <1>8
    <3>2. /\ Distinct(C[r]) /\ Ends(C[r], h[r], t[r])
          /\ Forward(C[r], nx) /\ Backward(C[r], pv)
      BY DEF Represents
    <3>6. \A k \in Nodes : In(C[r], k) /\ In(C[q], k) => r = q
      BY DEF Represents, Apart
    <3>3. \A k \in Nodes : In(C[r], k) => ~In(C[q], k)
      BY <2>2, <3>6
    <3>4. \A k \in Nodes : In(C[r], k) => nx2[k] = nx[k] /\ pv2[k] = pv[k]
      BY <3>3, <1>4
    <3>5. Forward(C[r], nx2) /\ Backward(C[r], pv2)
      <4>1. PICK c \in Seq(Nodes) : c = C[r]
        BY <3>1
      <4>2. /\ Forward(c, nx) /\ Backward(c, pv)
            /\ \A k \in Nodes : In(c, k) => nx2[k] = nx[k] /\ pv2[k] = pv[k]
        BY <3>2, <3>4, <4>1
      <4>3. Forward(c, nx2) /\ Backward(c, pv2)
        BY <4>2, SameLinks
      <4> QED BY <4>1, <4>3
    <3> QED BY <3>1, <3>2, <3>5
  <2> QED BY <2>1, <2>2
<1>10. Apart(D)
  BY <1>4, <1>8 DEF Represents, Apart
<1>11. Unlinked(D, nx2, pv2)
  <2> SUFFICES ASSUME NEW k \in Nodes, \A r \in Queues : ~In(D[r], k)
               PROVE  nx2[k] = NULL /\ pv2[k] = NULL
    BY DEF Unlinked
  <2>1. CASE k = h[q]
    BY <2>1, <1>4
  <2>2. CASE k # h[q]
    <3>1. \A r \in Queues : ~In(C[r], k)
      BY <2>2, <1>4, <1>8
    <3>2. nx[k] = NULL /\ pv[k] = NULL
      BY <3>1 DEF Represents, Unlinked
    <3> QED BY <3>1, <3>2, <1>4
  <2> QED BY <2>1, <2>2
<1>12. Represents(D, h2, t2, nx2, pv2)
  BY <1>4, <1>6, <1>8, <1>9, <1>10, <1>11 DEF Represents, FieldTypes
<1>13. \A r \in Queues : ~In(D[r], h[q])
  <2>1. \A r \in Queues : r # q => ~In(C[r], h[q])
    BY <1>4 DEF Represents, Apart
  <2> QED BY <1>4, <1>8, <2>1
<1> QED BY <1>4, <1>12, <1>13, <1>14 DEF D
-----------------------------------------------------------------------------
(* The theorems.                                                           *)

(* The operations as steps from the sequences C to the sequences D. *)
FifoStep(C, D) ==
    \/ \E q \in Queues, n \in Nodes :
          (\A r \in Queues : ~In(C[r], n)) /\ D = [C EXCEPT ![q] = Append(@, n)]
    \/ \E q \in Queues : C[q] # <<>> /\ D = [C EXCEPT ![q] = Tail(@)]
    \/ \E from, to \in Queues :
          /\ from # to /\ C[from] # <<>>
          /\ D = [[C EXCEPT ![from] = Tail(@)] EXCEPT ![to] = Append(@, Head(C[from]))]

(* A node is in some queue when it is in one of the sequences. *)
LEMMA QueuedIsIn ==
    ASSUME NEW C, Represents(C, head, tail, next, prev), NEW n \in Nodes
    PROVE  InSomeQueue(n) <=> \E q \in Queues : In(C[q], n)
<1>1. \A q \in Queues : Walk(q) = C[q] /\ C[q] \in Seq(Nodes)
  BY WalkFinds DEF Walk, Represents
<1>2. \A q \in Queues : DOMAIN C[q] = 1 .. Len(C[q])
  BY <1>1
<1> QED BY <1>1, <1>2 DEF InSomeQueue, In

(* Every step takes the sequences to those that a step of the abstract     *)
(* queues leads to.                                                        *)
LEMMA StepKeeps ==
    ASSUME NEW C, Represents(C, head, tail, next, prev), Next
    PROVE  \E D : Represents(D, head', tail', next', prev') /\ FifoStep(C, D)
<1>t. /\ C \in [Queues -> Seq(Nodes)]
      /\ next \in [Nodes -> Nodes \cup {NULL}] /\ prev \in [Nodes -> Nodes \cup {NULL}]
  BY DEF Represents, FieldTypes
<1>1. ASSUME NEW q \in Queues, NEW n \in Nodes, queue_push(q, n)
      PROVE  \E D : Represents(D, head', tail', next', prev') /\ FifoStep(C, D)
  <2>1. \A r \in Queues : ~In(C[r], n)
    BY <1>1, QueuedIsIn DEF queue_push
  <2>2. next[n] = NULL /\ prev[n] = NULL
    BY <2>1 DEF Represents, Unlinked
  <2>3. [next EXCEPT ![n] = NULL] = next /\ [prev EXCEPT ![n] = NULL] = prev
    BY <1>t, <2>2
  <2>4. Pushed(q, n, head, tail, next, prev)
    BY <1>1, <2>3 DEF queue_push
  <2>5. Pushes(q, n, head, tail, next, prev, head', tail', next', prev')
    BY <2>4 DEF Pushed, Pushes
  <2>6. Represents([C EXCEPT ![q] = Append(@, n)], head', tail', next', prev')
    BY <2>1, <2>5, PushKeeps
  <2>7. FifoStep(C, [C EXCEPT ![q] = Append(@, n)])
    BY <2>1 DEF FifoStep
  <2> QED BY <2>6, <2>7
<1>2. ASSUME NEW q \in Queues, head[q] # NULL, NEW h, NEW t, NEW nx, NEW pv,
             h = HeadPopped(q), t = TailPopped(q),
             nx = NextPopped(q), pv = PrevPopped(q)
      PROVE  /\ Represents([C EXCEPT ![q] = Tail(@)], h, t, nx, pv)
             /\ C[q] # <<>> /\ head[q] = Head(C[q]) /\ head[q] \in Nodes
             /\ \A r \in Queues : ~In([C EXCEPT ![q] = Tail(@)][r], head[q])
  <2>1. Pops(q, head, tail, next, prev, h, t, nx, pv)
    BY <1>2 DEF Pops, HeadPopped, TailPopped, NextPopped, PrevPopped
  <2>2. head[q] # NULL
    BY <1>2
  <2> QED BY <2>1, <2>2, PopKeeps
<1>3. ASSUME NEW q \in Queues, queue_pop(q)
      PROVE  \E D : Represents(D, head', tail', next', prev') /\ FifoStep(C, D)
  <2>1. /\ Represents([C EXCEPT ![q] = Tail(@)], head', tail', next', prev')
        /\ C[q] # <<>>
    BY <1>2, <1>3 DEF queue_pop
  <2>2. FifoStep(C, [C EXCEPT ![q] = Tail(@)])
    BY <2>1 DEF FifoStep
  <2> QED BY <2>1, <2>2
<1>4. ASSUME NEW from \in Queues, NEW to \in Queues, Transfer(from, to)
      PROVE  \E D : Represents(D, head', tail', next', prev') /\ FifoStep(C, D)
  <2>1. PICK h, t, nx, pv : /\ h = HeadPopped(from) /\ t = TailPopped(from)
                            /\ nx = NextPopped(from) /\ pv = PrevPopped(from)
    OBVIOUS
  <2>2. head[from] # NULL
    <3>1. Ends(C[from], head[from], tail[from]) /\ C[from] \in Seq(Nodes)
      BY DEF Represents
    <3>2. CASE C[from] = <<>>
      BY <1>4, <3>1, <3>2 DEF Transfer, queue_empty, Ends
    <3>3. CASE C[from] # <<>>
      <4>1. C[from][1] \in Nodes
        BY <3>1, <3>3
      <4> QED BY <3>1, <3>3, <4>1, QueueAssumption DEF Ends
    <3> QED BY <3>2, <3>3
  <2>3. PICK n, P : n = head[from] /\ P = [C EXCEPT ![from] = Tail(@)]
    OBVIOUS
  <2>4. /\ Represents(P, h, t, nx, pv) /\ C[from] # <<>>
        /\ n = Head(C[from]) /\ n \in Nodes /\ \A r \in Queues : ~In(P[r], n)
    BY <1>2, <2>1, <2>2, <2>3
  <2>5. Pushed(to, n, h, t, nx, pv) /\ from # to
    BY <1>4, <2>1, <2>3 DEF Transfer
  <2>6. Pushes(to, n, h, t, nx, pv, head', tail', next', prev')
    BY <2>5 DEF Pushed, Pushes
  <2>7. Represents([P EXCEPT ![to] = Append(@, n)], head', tail', next', prev')
    BY <2>4, <2>6, PushKeeps
  <2>8. [P EXCEPT ![to] = Append(@, n)]
            = [[C EXCEPT ![from] = Tail(@)] EXCEPT ![to] = Append(@, Head(C[from]))]
    BY <2>3, <2>4
  <2>9. FifoStep(C, [P EXCEPT ![to] = Append(@, n)])
    BY <2>4, <2>5, <2>8 DEF FifoStep
  <2> QED BY <2>7, <2>9
<1> QED BY <1>1, <1>3, <1>4 DEF Next

(* The fields always hold some sequences. *)
LEMMA Invariance == Spec => []IInv
<1>1. Init => IInv
  <2> SUFFICES ASSUME Init PROVE IInv
    OBVIOUS
  <2> DEFINE C == [q \in Queues |-> <<>>]
  <2>1. FieldTypes(head, tail, next, prev)
    BY DEF Init, FieldTypes
  <2>2. C \in [Queues -> Seq(Nodes)] /\ \A q \in Queues : C[q] = <<>>
    OBVIOUS
  <2> HIDE DEF C
  <2>3. \A q \in Queues : Len(C[q]) = 0 /\ head[q] = NULL /\ tail[q] = NULL
    BY <2>2 DEF Init
  <2>4. \A q \in Queues : 1 .. Len(C[q]) = {}
    BY <2>3
  <2>5. \A q \in Queues : /\ Distinct(C[q]) /\ Ends(C[q], head[q], tail[q])
                          /\ Forward(C[q], next) /\ Backward(C[q], prev)
    BY <2>2, <2>3, <2>4 DEF Distinct, Ends, Forward, Backward
  <2>6. Apart(C)
    BY <2>4 DEF Apart, In
  <2>7. Unlinked(C, next, prev)
    BY DEF Init, Unlinked
  <2>8. Represents(C, head, tail, next, prev)
    BY <2>1, <2>2, <2>5, <2>6, <2>7 DEF Represents
  <2> QED BY <2>8 DEF IInv
<1>2. IInv /\ [Next]_vars => IInv'
  <2>1. CASE Next
    BY <2>1, StepKeeps DEF IInv
  <2>2. CASE UNCHANGED vars
    BY <2>2 DEF IInv, vars
  <2> QED BY <2>1, <2>2
<1> QED BY <1>1, <1>2, PTL DEF Spec

(* The links stay sound: the tail is the last node the head leads to, prev *)
(* is the inverse of next, and a node that left a queue has no links.      *)
THEOREM QueuesAreWellLinked == Spec => []WellLinked
<1>1. IInv => WellLinked
  <2> SUFFICES ASSUME NEW C, Represents(C, head, tail, next, prev) PROVE WellLinked
    BY DEF IInv
  <2>1. \A q \in Queues : /\ Walk(q) = C[q] /\ Len(C[q]) <= Cardinality(Nodes)
                          /\ C[q] \in Seq(Nodes)
    BY WalkFinds DEF Walk, Represents
  <2>2. ASSUME NEW q \in Queues
        PROVE  /\ tail[q] = (IF C[q] = <<>> THEN NULL ELSE C[q][Len(C[q])])
               /\ \A i \in DOMAIN C[q] :
                     prev[C[q][i]] = IF i = 1 THEN NULL ELSE C[q][i - 1]
    <3>1. Ends(C[q], head[q], tail[q]) /\ Backward(C[q], prev)
      BY DEF Represents
    <3>2. DOMAIN C[q] = 1 .. Len(C[q])
      BY <2>1
    <3> QED BY <3>1, <3>2 DEF Ends, Backward
  <2>3. ASSUME NEW n \in Nodes, ~InSomeQueue(n)
        PROVE  next[n] = NULL /\ prev[n] = NULL
    BY <2>3, QueuedIsIn DEF Represents, Unlinked
  <2> QED BY <2>1, <2>2, <2>3 DEF WellLinked
<1> QED BY <1>1, Invariance, PTL

(* The contents of the queues are what FifoQueues says. *)
LEMMA FifoRefined ==
    ASSUME NEW C, NEW D, Represents(C, head, tail, next, prev),
           Represents(D, head', tail', next', prev'), FifoStep(C, D)
    PROVE  Fifo!Next
<1>1. /\ C \in [Queues -> Seq(Nodes)] /\ D \in [Queues -> Seq(Nodes)]
      /\ \A q \in Queues : WalkFrom(head[q], next) = C[q]
      /\ \A q \in Queues : WalkFrom(head'[q], next') = D[q]
  BY WalkFinds DEF Represents
<1>2. /\ [q \in Queues |-> Walk(q)] = C
      /\ [q \in Queues |-> Walk(q)]' = D
  BY <1>1 DEF Walk
<1>3. ASSUME NEW q \in Queues, NEW n \in Nodes, \A r \in Queues : ~In(C[r], n),
             D = [C EXCEPT ![q] = Append(@, n)]
      PROVE  Fifo!Push(q, n)
  <2>1. \A r \in Queues : DOMAIN C[r] = 1 .. Len(C[r])
    BY <1>1
  <2>2. ~Fifo!Queued(n)
    BY <1>2, <1>3, <2>1 DEF Fifo!Queued, In
  <2> QED BY <1>2, <1>3, <2>2 DEF Fifo!Push
<1>4. ASSUME NEW q \in Queues, C[q] # <<>>, D = [C EXCEPT ![q] = Tail(@)]
      PROVE  Fifo!Pop(q)
  BY <1>2, <1>4 DEF Fifo!Pop
<1>5. ASSUME NEW from \in Queues, NEW to \in Queues, from # to, C[from] # <<>>,
             D = [[C EXCEPT ![from] = Tail(@)] EXCEPT ![to] = Append(@, Head(C[from]))]
      PROVE  Fifo!Move(from, to)
  BY <1>2, <1>5 DEF Fifo!Move
<1> QED BY <1>3, <1>4, <1>5 DEF FifoStep, Fifo!Next

(* The linked nodes implement the abstract queues: what is pushed comes    *)
(* out once, in order, also when pd__task_done moves it from one queue to  *)
(* another with the links that queue_pop left.                             *)
THEOREM ImplementsFifo == Spec => FifoSpec
<1>1. Init => Fifo!Init
  <2> SUFFICES ASSUME Init PROVE Fifo!Init
    OBVIOUS
  <2>1. \A q \in Queues : head[q] = NULL
    BY DEF Init
  <2>7. <<>> \in Seq(Nodes)
    OBVIOUS
  <2>2. PICK c \in Seq(Nodes) : c = <<>>
    BY <2>7, Zenon
  <2>3. Len(c) = 0 /\ 1 .. Len(c) = {}
    BY <2>2
  <2>4. Distinct(c) /\ Ends(c, NULL, NULL) /\ Forward(c, next)
    BY <2>2, <2>3 DEF Distinct, Ends, Forward
  <2>5. WalkFrom(NULL, next) = <<>>
    BY <2>2, <2>4, WalkMeets
  <2>6. [q \in Queues |-> Walk(q)] = [q \in Queues |-> <<>>]
    BY <2>1, <2>5 DEF Walk
  <2> QED BY <2>6 DEF Fifo!Init
<1>2. IInv /\ [Next]_vars => [Fifo!Next]_([q \in Queues |-> Walk(q)])
  <2>1. CASE IInv /\ Next
    <3>1. PICK C : Represents(C, head, tail, next, prev)
      BY <2>1 DEF IInv
    <3>2. PICK D : Represents(D, head', tail', next', prev') /\ FifoStep(C, D)
      BY <2>1, <3>1, StepKeeps
    <3> QED BY <3>1, <3>2, FifoRefined
  <2>2. CASE UNCHANGED vars
    BY <2>2 DEF vars, Walk
  <2> QED BY <2>1, <2>2
<1> QED BY <1>1, <1>2, Invariance, PTL DEF Spec, FifoSpec, Fifo!Spec
=============================================================================
