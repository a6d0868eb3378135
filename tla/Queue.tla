------------------------------- MODULE Queue -------------------------------
(***************************************************************************)
(* The intrusive queue of include/pandio/queue.h: doubly linked nodes that *)
(* are embedded in tasks, writes and streams.  A node has one pair of      *)
(* links, so it is in one queue at a time; pd__task_done moves the tasks   *)
(* of one queue to another without initialising their nodes again.         *)
(***************************************************************************)
EXTENDS Naturals, Sequences, FiniteSets

CONSTANTS Queues, Nodes, NULL

ASSUME QueueAssumption == IsFiniteSet(Nodes) /\ NULL \notin Nodes

VARIABLES head, tail,   \* fields of each queue
          next, prev    \* fields of each node

vars == <<head, tail, next, prev>>

Init ==
    /\ head = [q \in Queues |-> NULL] /\ tail = [q \in Queues |-> NULL]
    /\ next = [n \in Nodes |-> NULL] /\ prev = [n \in Nodes |-> NULL]

queue_empty(q) == head[q] = NULL /\ tail[q] = NULL

(* The nodes that a walk along nx from first meets; it ends at a node      *)
(* without a successor, or when it has taken more steps than there are     *)
(* nodes.                                                                  *)
WalkFrom(first, nx) ==
    LET from[i \in 1 .. Cardinality(Nodes) + 2] ==
            IF i = 1 THEN first
            ELSE IF from[i - 1] \in Nodes THEN nx[from[i - 1]] ELSE NULL
        length == Cardinality({i \in DOMAIN from : from[i] # NULL})
    IN [i \in 1 .. length |-> from[i]]

Walk(q) == WalkFrom(head[q], next)

InSomeQueue(n) == \E q \in Queues : \E i \in DOMAIN Walk(q) : Walk(q)[i] = n

(* Mutant: a node is pushed at the front. *)
PushedFront(q, n, h, t, nx, pv) ==
    /\ head' = [h EXCEPT ![q] = n]
    /\ next' = [nx EXCEPT ![n] = h[q]]
    /\ prev' = IF h[q] = NULL THEN pv ELSE [pv EXCEPT ![h[q]] = n]
    /\ tail' = IF h[q] = NULL THEN [t EXCEPT ![q] = n] ELSE t

(* queue_push as a function of the four fields. *)
Pushed(q, n, h, t, nx, pv) ==
    /\ head' = IF h[q] = NULL THEN [h EXCEPT ![q] = n] ELSE h
    /\ next' = IF h[q] = NULL THEN nx ELSE [nx EXCEPT ![t[q]] = n]
    /\ prev' = IF h[q] = NULL THEN pv ELSE [pv EXCEPT ![n] = t[q]]
    /\ tail' = [t EXCEPT ![q] = n]

(* A caller initialises the node, then pushes it. *)
queue_push(q, n) ==
    /\ ~InSomeQueue(n)
    /\ Pushed(q, n, head, tail, [next EXCEPT ![n] = NULL], [prev EXCEPT ![n] = NULL])

(* The fields after queue_pop. *)
HeadPopped(q) == [head EXCEPT ![q] = IF head[q] = tail[q] THEN NULL ELSE next[head[q]]]

(* Mutant: the last node that leaves stays the tail. *)
TailKept(q) == tail

TailPopped(q) == [tail EXCEPT ![q] = IF head[q] = tail[q] THEN NULL ELSE tail[q]]

NextPopped(q) == [next EXCEPT ![head[q]] = NULL]

PrevPopped(q) ==
    [n \in Nodes |-> IF n = head[q] \/ (head[q] # tail[q] /\ n = next[head[q]])
                     THEN NULL ELSE prev[n]]

queue_pop(q) ==
    /\ head[q] # NULL
    /\ head' = HeadPopped(q) /\ tail' = TailPopped(q)
    /\ next' = NextPopped(q) /\ prev' = PrevPopped(q)

(* One turn of the loop in pd__task_done: pop here, push there, with the   *)
(* links that queue_pop left.                                              *)
Transfer(from, to) ==
    /\ from # to /\ ~queue_empty(from)
    /\ Pushed(to, head[from], HeadPopped(from), TailPopped(from),
              NextPopped(from), PrevPopped(from))

Next == \/ \E q \in Queues, n \in Nodes : queue_push(q, n)
        \/ \E q \in Queues : queue_pop(q)
        \/ \E from, to \in Queues : Transfer(from, to)

Spec == Init /\ [][Next]_vars
-----------------------------------------------------------------------------
(* Correctness.                                                            *)

(* The tail is the last node that the head leads to, prev is the inverse   *)
(* of next within a queue, and a node outside the queues has no links, as  *)
(* the code that pushes it without queue_init_node expects.                *)
WellLinked ==
    /\ \A q \in Queues :
          LET w == Walk(q)
          IN /\ Len(w) <= Cardinality(Nodes)
             /\ tail[q] = IF w = <<>> THEN NULL ELSE w[Len(w)]
             /\ \A i \in DOMAIN w : prev[w[i]] = IF i = 1 THEN NULL ELSE w[i - 1]
    /\ \A n \in Nodes : ~InSomeQueue(n) => next[n] = NULL /\ prev[n] = NULL

(* The linked nodes are the sequences they stand for. *)
Fifo == INSTANCE FifoQueues WITH contents <- [q \in Queues |-> Walk(q)]

FifoSpec == Fifo!Spec
=============================================================================
