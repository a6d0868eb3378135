---------------------------- MODULE TaskService ----------------------------
(***************************************************************************)
(* What the thread pool promises to the user of an event loop, with no     *)
(* threads, no lock and no wake-up descriptor: an accepted task is started *)
(* in submission order, its work runs once, and its done callback runs     *)
(* once, on the loop, in the order in which the work finished.             *)
(***************************************************************************)
EXTENDS Naturals, Sequences

CONSTANT Tasks

VARIABLES pending,    \* tasks accepted and not yet started, oldest first
          running,    \* tasks whose work function is being executed
          completed   \* tasks whose work is over, oldest completion first

vars == <<pending, running, completed>>

(* The task belongs to the service, the user must not touch it. *)
Accepted(t) ==
    \/ \E i \in DOMAIN pending : pending[i] = t
    \/ t \in running
    \/ \E i \in DOMAIN completed : completed[i] = t

Init == pending = <<>> /\ running = {} /\ completed = <<>>

Submit(t) ==
    /\ ~Accepted(t)
    /\ pending' = Append(pending, t)
    /\ UNCHANGED <<running, completed>>

Start ==
    /\ pending # <<>>
    /\ pending' = Tail(pending)
    /\ running' = running \cup {Head(pending)}
    /\ UNCHANGED completed

Finish(t) ==
    /\ t \in running
    /\ running' = running \ {t}
    /\ completed' = Append(completed, t)
    /\ UNCHANGED pending

Deliver ==
    /\ completed # <<>>
    /\ completed' = Tail(completed)
    /\ UNCHANGED <<pending, running>>

Next == \/ \E t \in Tasks : Submit(t) \/ Finish(t)
        \/ Start
        \/ Deliver

Spec == Init /\ [][Next]_vars
=============================================================================
