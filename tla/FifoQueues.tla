----------------------------- MODULE FifoQueues -----------------------------
(***************************************************************************)
(* What the queues of include/pandio/queue.h promise: each is a sequence   *)
(* of nodes, pushed at its end and popped at its front.                    *)
(***************************************************************************)
EXTENDS Sequences

CONSTANTS Queues, Nodes

VARIABLE contents

Queued(n) == \E q \in Queues : \E i \in DOMAIN contents[q] : contents[q][i] = n

Init == contents = [q \in Queues |-> <<>>]

Push(q, n) ==
    /\ ~Queued(n)
    /\ contents' = [contents EXCEPT ![q] = Append(@, n)]

Pop(q) ==
    /\ contents[q] # <<>>
    /\ contents' = [contents EXCEPT ![q] = Tail(@)]

(* The first node of one queue becomes the last one of another. *)
Move(from, to) ==
    /\ from # to /\ contents[from] # <<>>
    /\ contents' = [contents EXCEPT ![from] = Tail(@),
                                    ![to] = Append(@, Head(contents[from]))]

Next == \/ \E q \in Queues, n \in Nodes : Push(q, n)
        \/ \E q \in Queues : Pop(q)
        \/ \E from, to \in Queues : Move(from, to)

Spec == Init /\ [][Next]_contents
=============================================================================
