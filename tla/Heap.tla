-------------------------------- MODULE Heap --------------------------------
(***************************************************************************)
(* The binary heap of include/pandio/heap.h: a complete binary tree of     *)
(* nodes that the user embeds in his own structs (pd_timer_t), linked by   *)
(* pointers in both directions.  The loops that move a node up or down are *)
(* sequences of steps, one per heap_swap, so that the state between two    *)
(* swaps can be looked at.                                                 *)
(***************************************************************************)
EXTENDS Naturals, FiniteSets

CONSTANTS Nodes,   \* the heap_node objects
          Keys,    \* what the comparator compares: timeouts
          NULL,
          Stale    \* a link of a node outside the heap, never to be followed

ASSUME HeapAssumption ==
    /\ IsFiniteSet(Nodes) /\ Keys \subseteq Nat /\ 0 \in Keys
    /\ NULL \notin Nodes /\ Stale \notin Nodes /\ NULL # Stale

VARIABLES root, size,            \* fields of the heap
          left, right, parent,   \* fields of each node
          key,                   \* the struct around it
          pc,                    \* "idle", or in a loop: "down", "up"
          node                   \* the node that is being moved, or NULL

links == <<left, right, parent>>
vars == <<root, size, links, key, pc, node>>

Init ==
    /\ root = NULL /\ size = 0
    /\ left = [n \in Nodes |-> NULL]
    /\ right = [n \in Nodes |-> NULL]
    /\ parent = [n \in Nodes |-> NULL]
    /\ key = [n \in Nodes |-> 0]
    /\ pc = "idle" /\ node = NULL

(* pd_timers_comparator *)
Before(a, b) == key[a] < key[b]

(* The node a path of links leads to.  The program would crash on a link   *)
(* that is not a node; here the path ends.                                 *)
Follow(f, n) == IF n \in Nodes THEN f[n] ELSE NULL

(* The i-th node, level by level, of the tree that r, lf and rt hold.  The *)
(* bits of i after the first one are the turns on the way from the root:   *)
(* the loops that build mask from the lowest bit reverse them, and the     *)
(* walk takes them in turn.                                                *)
NodesOf(r, lf, rt) ==
    LET at[i \in 1 .. Cardinality(Nodes) + 1] ==
            IF i = 1 THEN r ELSE Follow(IF i % 2 = 1 THEN rt ELSE lf, at[i \div 2])
    IN at

NodeAt == NodesOf(root, left, right)

Members == {NodeAt[i] : i \in 1 .. size}
-----------------------------------------------------------------------------
(* f (left or right) after a swap; above is the node whose f was par.      *)
SwapChildren(f, child, par, above) ==
    [[n \in Nodes |-> IF n \in above THEN child ELSE f[n]]
        EXCEPT ![par] = f[child],
               ![child] = IF f[par] = child THEN par ELSE f[par]]

heap_swap(child, par) ==
    LET above == {parent[par]} \cap Nodes
        hangsLeft == {n \in above : left[n] = par}
    IN /\ left' = SwapChildren(left, child, par, hangsLeft)
       /\ right' = SwapChildren(right, child, par, above \ hangsLeft)
       /\ parent' = [[n \in Nodes |-> IF n \in {left[child], right[child]} THEN par
                                      ELSE IF n \in {left[par], right[par]} THEN child
                                      ELSE parent[n]]
                        EXCEPT ![child] = parent[par], ![par] = child]
       /\ root' = IF parent[par] = NULL THEN child ELSE root

(* Mutant: a node that returns to the heap keeps its old links. *)
InsertKeepsLinks(n, k) ==
    LET last == IF root = NULL THEN NULL ELSE NodeAt[(size + 1) \div 2]
        isLeft == last # NULL /\ left[last] = NULL
        isRight == last # NULL /\ ~isLeft
    IN /\ pc = "idle" /\ n \notin Members
       /\ key' = [key EXCEPT ![n] = k]
       /\ root' = IF root = NULL THEN n ELSE root
       /\ size' = size + 1
       /\ left' = [m \in Nodes |-> IF m = last /\ isLeft THEN n ELSE left[m]]
       /\ right' = [m \in Nodes |-> IF m = last /\ isRight THEN n ELSE right[m]]
       /\ parent' = [parent EXCEPT ![n] = last]
       /\ pc' = "up" /\ node' = n

(* Up to the loop that moves the new node up. *)
heap_insert(n, k) ==
    LET last == IF root = NULL THEN NULL ELSE NodeAt[(size + 1) \div 2]
        isLeft == last # NULL /\ left[last] = NULL
        isRight == last # NULL /\ ~isLeft
    IN /\ pc = "idle" /\ n \notin Members
       /\ key' = [key EXCEPT ![n] = k]
       /\ root' = IF root = NULL THEN n ELSE root
       /\ size' = size + 1
       /\ left' = [m \in Nodes |-> IF m = n THEN NULL
                                   ELSE IF m = last /\ isLeft THEN n ELSE left[m]]
       /\ right' = [m \in Nodes |-> IF m = n THEN NULL
                                    ELSE IF m = last /\ isRight THEN n ELSE right[m]]
       /\ parent' = [parent EXCEPT ![n] = last]
       /\ pc' = "up" /\ node' = n

(* f after last was unlinked from its parent. *)
Unlinked(f, last) == [m \in Nodes |-> IF m = parent[last] /\ f[m] = last THEN NULL ELSE f[m]]

(* f (left or right) after last took the place of n. *)
Replaced(f, n, last) ==
    [[m \in Nodes |-> IF m = parent[n] /\ f[m] = n THEN last ELSE f[m]]
        EXCEPT ![n] = Stale, ![last] = f[n]]

(* The removed node is the last one, or the only one. *)
RemoveLast(n) ==
    /\ n = NodeAt[size]
    /\ root' = IF size = 1 THEN NULL ELSE root
    /\ left' = [Unlinked(left, n) EXCEPT ![n] = Stale]
    /\ right' = [Unlinked(right, n) EXCEPT ![n] = Stale]
    /\ parent' = [parent EXCEPT ![n] = Stale]
    /\ UNCHANGED <<pc, node>>

(* The last node takes the place of the removed one, then it is moved.     *)
RemoveInner(n) ==
    LET last == NodeAt[size]
        l == Unlinked(left, last)
        r == Unlinked(right, last)
    IN /\ n # last
       /\ root' = IF parent[n] = NULL THEN last ELSE root
       /\ left' = Replaced(l, n, last)
       /\ right' = Replaced(r, n, last)
       /\ parent' = [[m \in Nodes |-> IF m \in {l[n], r[n]} THEN last ELSE parent[m]]
                        EXCEPT ![n] = Stale, ![last] = parent[n]]
       /\ pc' = "down" /\ node' = last

(* Mutant: the last node does not take the place of the removed one. *)
RemoveDropsLast(n) ==
    /\ pc = "idle" /\ n \in Members
    /\ size' = size - 1
    /\ RemoveLast(NodeAt[size])
    /\ UNCHANGED key

(* The links a removed node is left with are marked stale. *)
heap_remove(n) ==
    /\ pc = "idle" /\ n \in Members
    /\ size' = size - 1
    /\ RemoveLast(n) \/ RemoveInner(n)
    /\ UNCHANGED key

heap_pop == root # NULL /\ heap_remove(root)

(* The child that may go up; of two equal ones the right one. *)
SwapNode ==
    IF left[node] # NULL /\ right[node] # NULL
    THEN IF Before(left[node], right[node]) THEN left[node] ELSE right[node]
    ELSE IF left[node] # NULL THEN left[node] ELSE right[node]

MustSink == SwapNode # NULL /\ ~Before(node, SwapNode)

SwapDown ==
    /\ pc = "down" /\ MustSink
    /\ heap_swap(SwapNode, node)
    /\ UNCHANGED <<size, key, pc, node>>

(* Mutant: a removal does not move the last node up. *)
DownReturns ==
    /\ pc = "down" /\ ~MustSink
    /\ pc' = "idle" /\ node' = NULL
    /\ UNCHANGED <<root, size, links, key>>

DownEnds ==
    /\ pc = "down" /\ ~MustSink
    /\ pc' = "up"
    /\ UNCHANGED <<root, size, links, key, node>>

MustRise == parent[node] # NULL /\ Before(node, parent[node])

SwapUp ==
    /\ pc = "up" /\ MustRise
    /\ heap_swap(node, parent[node])
    /\ UNCHANGED <<size, key, pc, node>>

UpEnds ==
    /\ pc = "up" /\ ~MustRise
    /\ pc' = "idle" /\ node' = NULL
    /\ UNCHANGED <<root, size, links, key>>

Next == \/ \E n \in Nodes, k \in Keys : heap_insert(n, k)
        \/ \E n \in Nodes : heap_remove(n)
        \/ heap_pop
        \/ SwapDown \/ DownEnds \/ SwapUp \/ UpEnds

Spec == Init /\ [][Next]_vars
-----------------------------------------------------------------------------
(* Correctness.                                                            *)

(* Every variable has the shape the code gives it. *)
TypeOK ==
    /\ root \in Nodes \cup {NULL} /\ size \in 0 .. Cardinality(Nodes)
    /\ left \in [Nodes -> Nodes \cup {NULL, Stale}]
    /\ right \in [Nodes -> Nodes \cup {NULL, Stale}]
    /\ parent \in [Nodes -> Nodes \cup {NULL, Stale}]
    /\ key \in [Nodes -> Keys]
    /\ pc \in {"idle", "down", "up"}
    /\ node \in Nodes \cup {NULL}

(* Also between two swaps the links form one complete tree of size nodes:  *)
(* every level but the last is full, the last one is filled from the left, *)
(* parent is the inverse of left and right, and no link leads elsewhere.   *)
(* The walk to the last node by the bits of size relies on it.             *)
Shape ==
    /\ Cardinality(Members) = size /\ Members \subseteq Nodes
    /\ \A i \in 1 .. size :
          LET n == NodeAt[i]
          IN /\ parent[n] = IF i = 1 THEN NULL ELSE NodeAt[i \div 2]
             /\ 2 * i > size => left[n] = NULL
             /\ 2 * i + 1 > size => right[n] = NULL

(* Every node but the one that is being moved is in order with its parent; *)
(* when the removal fills the gap with the last node of another subtree,   *)
(* that node may have to go down or up.                                    *)
(* At rest the root is therefore a least node: pd_timers_run looks at no   *)
(* other one to decide that nothing is due, pd_timers_next computes the    *)
(* poll from it.                                                           *)
HeapOrder ==
    \A i \in 2 .. size :
        LET n == NodeAt[i]
            p == NodeAt[i \div 2]
        IN \/ ~Before(n, p)
           \/ pc = "up" /\ node = n
           \/ pc = "down" /\ node \in {n, p}

(* An insertion adds the node it is given; a removal takes out the node it *)
(* is given, from wherever that is, and no other; a swap loses and         *)
(* duplicates nothing.                                                     *)
MembersExact ==
    [][/\ \A n \in Nodes : heap_remove(n) => Members' = Members \ {n}
       /\ \A n \in Nodes, k \in Keys : heap_insert(n, k) => Members' = Members \cup {n}
       /\ pc # "idle" => Members' = Members]_vars
=============================================================================
