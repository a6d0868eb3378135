----------------------------- MODULE ThreadPool -----------------------------
(***************************************************************************)
(* The thread pool of src/threadpool.c, together with the part of the      *)
(* event loop (src/sys/event_epoll.c, event_kqueue.c) and of the notifier  *)
(* (src/sys/notifier_unix.c) that brings completed tasks back to the loop  *)
(* thread.                                                                 *)
(*                                                                         *)
(* One loop thread runs pd_io_run and every user callback; up to           *)
(* MaxThreads workers run pd__threadpool_exec.  What a thread does between *)
(* pd_mutex_lock and pd_mutex_unlock is one action, except the section of  *)
(* a worker that writes to the wake-up descriptor: the loop thread sees    *)
(* that write without taking the lock, so it has steps of its own.         *)
(***************************************************************************)
EXTENDS Naturals, Sequences, FiniteSets, Functions

CONSTANTS Tasks,               \* the pd_task_t objects of the user
          MaxThreads,          \* bound on the size of the pool
          PD_THREADPOOL_SIZE,  \* size of the pool when the user gives 0
          SendMax,             \* wake-ups the descriptor can hold
          ReadMax,             \* wake-ups that one read() takes from it
          NULL

ASSUME ThreadPoolAssumption ==
    /\ MaxThreads \in Nat \ {0}
    /\ PD_THREADPOOL_SIZE \in 1 .. MaxThreads
    /\ SendMax \in Nat \ {0}
    /\ ReadMax \in Nat \ {0}
    /\ NULL \notin Tasks
    /\ NULL \notin 1 .. MaxThreads

Workers == 1 .. MaxThreads

VARIABLES
    tasks, ntasks,       \* the queue of submitted tasks and its counter
    nthreads,            \* number of threads, 0 while there is no pool
    waiting_threads,     \* threads inside pd_cond_wait, by the code's count
    abort_threads,
    mux,                 \* the worker inside its notifying section, or NULL
    pc,                  \* where each worker is, see WorkerStates
    task,                \* the local variable of pd__threadpool_exec
    finished_tasks,      \* ctx->finished_tasks
    signals,             \* unread wake-ups of ctx->task_signal
    refs,                \* ctx->refs, the part that tasks hold
    loop,                \* where the loop thread is, see LoopStates
    tasks_done,          \* the local queue of pd__task_done
    resume               \* where the loop thread returns from a join

poolVars == <<tasks, ntasks, nthreads, waiting_threads, abort_threads>>
workVars == <<mux, pc, task>>
loopVars == <<refs, loop, tasks_done, resume>>
vars == <<poolVars, workVars, finished_tasks, signals, loopVars>>

(* "none": no such thread; "lock": at the lock on top of the loop; "wait": *)
(* blocked in pd_cond_wait; "woken": signalled, needs the lock back;       *)
(* "work": in task->work; "finish": at the second lock; "send": holds the  *)
(* lock, task is in finished_tasks; "unlock": notified, still holds it.    *)
WorkerStates == {"none", "lock", "wait", "woken", "work", "finish", "send",
                 "unlock", "exit"}

(* "user": outside pd_io_run; "poll": at the loop condition; "drain":      *)
(* wake-ups read, pd__task_done is at its lock; "dispatch": between two    *)
(* done callbacks; "cb": inside one; "tick": in the other callbacks of the *)
(* iteration (sockets, timers, closes, after_tick); "join": in             *)
(* pd_threadpool_end, waiting for the threads.                             *)
LoopStates == {"user", "poll", "drain", "dispatch", "cb", "tick", "join"}

Threads == 1 .. nthreads
At(states) == {w \in Workers : pc[w] \in states}

(* The user may read, reuse or free t: the pool has no claim on it. *)
UserOwns(t) ==
    /\ t \notin Range(tasks) \cup Range(finished_tasks) \cup Range(tasks_done)
    /\ \A w \in At({"work", "finish"}) : task[w] # t

(* User code is running on the loop thread and may call the library. *)
UserCode == loop \in {"user", "cb", "tick"}

Init ==
    /\ tasks = <<>> /\ ntasks = 0
    /\ nthreads = 0 /\ waiting_threads = 0 /\ abort_threads = FALSE
    /\ mux = NULL
    /\ pc = [w \in Workers |-> "none"]
    /\ task = [w \in Workers |-> NULL]
    /\ finished_tasks = <<>> /\ signals = 0
    /\ refs = 0 /\ loop = "user" /\ tasks_done = <<>> /\ resume = "user"
-----------------------------------------------------------------------------
(* Condition variable and wake-up descriptor.                              *)

(* The program counters after one signal: a thread blocked in wait becomes *)
(* runnable; with nobody waiting the signal is lost.                       *)
pd_cond_signal(pcs) ==
    LET waiters == {w \in Workers : pcs[w] = "wait"}
    IN IF waiters = {} THEN {pcs}
       ELSE {[pcs EXCEPT ![w] = "woken"] : w \in waiters}

(* A non-blocking write: a full descriptor refuses it and nobody looks. *)
pd_notifier_send == signals' = IF signals < SendMax THEN signals + 1 ELSE signals

(* read(): everything there is, up to the size of the buffer. *)
NotifierRead == signals' = IF signals > ReadMax THEN signals - ReadMax ELSE 0
-----------------------------------------------------------------------------
(* Calls the user makes on the loop thread.                                *)

pd_threadpool_init(n) ==
    /\ UserCode
    /\ nthreads = 0
    /\ abort_threads' = FALSE
    /\ nthreads' = IF n > 0 THEN n ELSE PD_THREADPOOL_SIZE
    /\ pc' = [w \in Workers |-> IF w <= nthreads' THEN "lock" ELSE "none"]
    /\ UNCHANGED <<tasks, ntasks, waiting_threads, mux, task,
                   finished_tasks, signals, loopVars>>

(* Mutant: a signal only when a second thread waits. *)
SubmitWakesSecond ==
    IF waiting_threads > 1 THEN pc' \in pd_cond_signal(pc) ELSE UNCHANGED pc

SubmitWakes ==
    IF waiting_threads > 0 THEN pc' \in pd_cond_signal(pc) ELSE UNCHANGED pc

(* A submission that the library accepts; a refused one changes nothing.   *)
pd_task_submit(t) ==
    /\ UserCode
    /\ UserOwns(t)
    /\ ~abort_threads /\ nthreads # 0
    /\ mux = NULL
    /\ refs' = refs + 1
    /\ tasks' = Append(tasks, t)
    /\ ntasks' = ntasks + 1
    /\ SubmitWakes
    /\ UNCHANGED <<nthreads, waiting_threads, abort_threads, mux, task,
                   finished_tasks, signals, loop, tasks_done, resume>>

pd_threadpool_end ==
    /\ UserCode
    /\ nthreads # 0
    /\ mux = NULL
    /\ abort_threads' = TRUE
    /\ pc' \in pd_cond_signal(pc)
    /\ loop' = "join" /\ resume' = loop
    /\ UNCHANGED <<tasks, ntasks, nthreads, waiting_threads, mux, task,
                   finished_tasks, signals, refs, tasks_done>>

(* Every pd_thread_join returned; the pool can be built again. *)
EndJoined ==
    /\ loop = "join"
    /\ \A w \in Threads : pc[w] = "exit"
    /\ nthreads' = 0
    /\ pc' = [w \in Workers |-> "none"]
    /\ loop' = resume
    /\ UNCHANGED <<tasks, ntasks, waiting_threads, abort_threads, mux, task,
                   finished_tasks, signals, refs, tasks_done, resume>>
-----------------------------------------------------------------------------
(* The workers: pd__threadpool_exec.                                       *)

(* Mutant: a leaving thread does not pass the signal on. *)
LeaveSilently(w, waiting) ==
    /\ abort_threads
    /\ pc' = [pc EXCEPT ![w] = "exit"]
    /\ waiting_threads' = waiting
    /\ UNCHANGED <<tasks, ntasks, task>>

(* Mutant: the queue is popped at the wrong end. *)
PopNewest(w, waiting) ==
    /\ ntasks # 0 /\ ~abort_threads
    /\ task' = [task EXCEPT ![w] = tasks[Len(tasks)]]
    /\ tasks' = SubSeq(tasks, 1, Len(tasks) - 1)
    /\ ntasks' = ntasks - 1
    /\ pc' = [pc EXCEPT ![w] = "work"]
    /\ waiting_threads' = waiting

Sleep(w, waiting) ==
    /\ ntasks = 0 /\ ~abort_threads
    /\ waiting_threads' = waiting + 1
    /\ pc' = [pc EXCEPT ![w] = "wait"]
    /\ UNCHANGED <<tasks, ntasks, task>>

Leave(w, waiting) ==
    /\ abort_threads
    /\ pc' \in pd_cond_signal([pc EXCEPT ![w] = "exit"])
    /\ waiting_threads' = waiting
    /\ UNCHANGED <<tasks, ntasks, task>>

Pop(w, waiting) ==
    /\ ntasks # 0 /\ ~abort_threads
    /\ task' = [task EXCEPT ![w] = Head(tasks)]
    /\ tasks' = Tail(tasks)
    /\ ntasks' = ntasks - 1
    /\ pc' = [pc EXCEPT ![w] = "work"]
    /\ waiting_threads' = waiting

(* From the while condition to the unlock or to the next pd_cond_wait. *)
LoopHead(w, waiting) ==
    /\ mux = NULL
    /\ Sleep(w, waiting) \/ Leave(w, waiting) \/ Pop(w, waiting)
    /\ UNCHANGED <<nthreads, abort_threads, mux, finished_tasks, signals,
                   loopVars>>

Lock(w) == pc[w] = "lock" /\ LoopHead(w, waiting_threads)

(* Mutant: the count of waiting threads is not taken back. *)
WaitUncounted(w) == pc[w] = "woken" /\ LoopHead(w, waiting_threads)

(* Mutant: the count is taken back by the thread and again where it leaves. *)
WaitCountedTwice(w) == pc[w] = "woken" /\ LoopHead(w, waiting_threads - 2)

WaitReturns(w) == pc[w] = "woken" /\ LoopHead(w, waiting_threads - 1)

(* The platform may wake a waiting thread without a signal. *)
SpuriousWakeup(w) ==
    /\ pc[w] = "wait"
    /\ pc' = [pc EXCEPT ![w] = "woken"]
    /\ UNCHANGED <<poolVars, mux, task, finished_tasks, signals, loopVars>>

(* task->work returns. *)
WorkReturns(w) ==
    /\ pc[w] = "work"
    /\ pc' = [pc EXCEPT ![w] = "finish"]
    /\ UNCHANGED <<poolVars, mux, task, finished_tasks, signals, loopVars>>

PushFinished(w) ==
    /\ pc[w] = "finish"
    /\ mux = NULL
    /\ mux' = w
    /\ finished_tasks' = Append(finished_tasks, task[w])
    /\ pc' = [pc EXCEPT ![w] = "send"]
    /\ UNCHANGED <<poolVars, task, signals, loopVars>>

(* task_signaled is never set by any code, so every completion notifies. *)
Notify(w) ==
    /\ pc[w] = "send"
    /\ pd_notifier_send
    /\ pc' = [pc EXCEPT ![w] = "unlock"]
    /\ UNCHANGED <<poolVars, mux, task, finished_tasks, loopVars>>

Unlock(w) ==
    /\ pc[w] = "unlock"
    /\ mux' = NULL
    /\ task' = [task EXCEPT ![w] = NULL]
    /\ pc' = [pc EXCEPT ![w] = "lock"]
    /\ UNCHANGED <<poolVars, finished_tasks, signals, loopVars>>

Worker(w) == \/ Lock(w) \/ WaitReturns(w) \/ WorkReturns(w)
             \/ PushFinished(w) \/ Notify(w) \/ Unlock(w)
-----------------------------------------------------------------------------
(* The loop thread: pd_io_run, pd__notifier_io and pd__task_done.          *)

LoopStep(from, to) ==
    /\ loop = from /\ loop' = to
    /\ UNCHANGED <<poolVars, workVars, resume>>

Run == /\ LoopStep("user", "poll")
       /\ UNCHANGED <<finished_tasks, signals, refs, tasks_done>>

LoopExits == /\ refs = 0
             /\ LoopStep("poll", "user")
             /\ UNCHANGED <<finished_tasks, signals, refs, tasks_done>>

(* The poll reports the descriptor; pd__notifier_io empties it first. *)
pd__notifier_io ==
    /\ refs > 0 /\ signals > 0
    /\ LoopStep("poll", "drain")
    /\ NotifierRead
    /\ UNCHANGED <<finished_tasks, refs, tasks_done>>

(* Other handles had something to do, their callbacks may run before that  *)
(* of the notifier.                                                        *)
OtherEvents ==
    /\ refs > 0
    /\ LoopStep("poll", "tick")
    /\ UNCHANGED <<finished_tasks, signals, refs, tasks_done>>

(* Mutant: the copy of the queue does not take the lock. *)
DrainUnlocked ==
    /\ LoopStep("drain", "dispatch")
    /\ tasks_done' = finished_tasks
    /\ finished_tasks' = <<>>
    /\ UNCHANGED <<signals, refs>>

(* Mutant: one task is taken per wake-up, "if" in place of "while". *)
DrainOne ==
    /\ mux = NULL
    /\ LoopStep("drain", "dispatch")
    /\ tasks_done' = SubSeq(finished_tasks, 1, 1)
    /\ finished_tasks' = SubSeq(finished_tasks, 2, Len(finished_tasks))
    /\ UNCHANGED <<signals, refs>>

(* Mutant: the tasks are copied and stay in the shared queue. *)
DrainCopies ==
    /\ mux = NULL
    /\ LoopStep("drain", "dispatch")
    /\ tasks_done' = finished_tasks
    /\ UNCHANGED <<finished_tasks, signals, refs>>

(* pd__task_done up to its unlock: all finished tasks change queue. *)
Drain ==
    /\ mux = NULL
    /\ LoopStep("drain", "dispatch")
    /\ tasks_done' = finished_tasks
    /\ finished_tasks' = <<>>
    /\ UNCHANGED <<signals, refs>>

DoneCallback ==
    /\ tasks_done # <<>>
    /\ LoopStep("dispatch", "cb")
    /\ tasks_done' = Tail(tasks_done)
    /\ UNCHANGED <<finished_tasks, signals, refs>>

(* Mutant: the reference of a task that was delivered is kept. *)
DoneKeepsRef ==
    /\ LoopStep("cb", "dispatch")
    /\ UNCHANGED <<finished_tasks, signals, refs, tasks_done>>

DoneReturns ==
    /\ LoopStep("cb", "dispatch")
    /\ refs' = refs - 1
    /\ UNCHANGED <<finished_tasks, signals, tasks_done>>

DispatchEnds ==
    /\ tasks_done = <<>>
    /\ LoopStep("dispatch", "tick")
    /\ UNCHANGED <<finished_tasks, signals, refs, tasks_done>>

TickEnds == /\ LoopStep("tick", "poll")
            /\ UNCHANGED <<finished_tasks, signals, refs, tasks_done>>

User == \/ \E n \in 0 .. MaxThreads : pd_threadpool_init(n)
        \/ \E t \in Tasks : pd_task_submit(t)
        \/ pd_threadpool_end
        \/ Run

Loop == \/ LoopExits \/ pd__notifier_io \/ OtherEvents \/ Drain
        \/ DoneCallback \/ DoneReturns \/ DispatchEnds \/ TickEnds \/ EndJoined

Next == \/ User \/ Loop
        \/ \E w \in Workers : Worker(w) \/ SpuriousWakeup(w)

(* Threads are scheduled and a lock that keeps being released is granted   *)
(* to every thread that asks for it; poll reports a readable descriptor    *)
(* some time; work functions and callbacks return.  Nothing obliges the    *)
(* user to call anything, or the platform to wake a thread spuriously.     *)
Fairness ==
    /\ \A w \in Workers : SF_vars(Worker(w))
    /\ SF_vars(pd__notifier_io)
    /\ SF_vars(Drain \/ DoneReturns \/ TickEnds)
    /\ WF_vars(Loop)

Spec == Init /\ [][Next]_vars

FairSpec == Spec /\ Fairness
-----------------------------------------------------------------------------
(* Correctness.                                                            *)

(* Every variable has the shape the code gives it. *)
TypeOK ==
    /\ tasks \in Seq(Tasks) /\ ntasks \in Nat
    /\ nthreads \in 0 .. MaxThreads
    /\ waiting_threads \in Nat
    /\ abort_threads \in BOOLEAN
    /\ mux \in Workers \cup {NULL}
    /\ pc \in [Workers -> WorkerStates]
    /\ task \in [Workers -> Tasks \cup {NULL}]
    /\ finished_tasks \in Seq(Tasks)
    /\ signals \in 0 .. SendMax
    /\ refs \in Nat
    /\ loop \in LoopStates
    /\ tasks_done \in Seq(Tasks)
    /\ resume \in {"user", "cb", "tick"}

(* The counters the code keeps beside the queue and the condition variable *)
(* (ntasks, waiting_threads) are exact whenever the lock is free: popping  *)
(* by ntasks never meets an empty queue, and a submitter that reads        *)
(* waiting_threads = 0 may really skip the signal.                         *)
CountersExact ==
    /\ ntasks = Len(tasks)
    /\ waiting_threads = Cardinality(At({"wait", "woken"}))

(* pd__threadpool_exec reads task->ctx after it pushed the task to         *)
(* finished_tasks (lines 92-93).  The task must still be in that queue,    *)
(* under the lock: once pd__task_done took it, its done callback may have  *)
(* freed it.                                                               *)
NoUseAfterDone ==
    \A w \in At({"send"}) : task[w] \in Range(finished_tasks)

(* A pd_task_t has one queue node: it is linked in at most one queue, or   *)
(* held by one worker, and never both.                                     *)
OneHolder ==
    LET queued == tasks \o finished_tasks \o tasks_done
        held == At({"work", "finish"})
    IN /\ IsInjective(queued)
       /\ \A w \in held :
             /\ task[w] \in Tasks \ Range(queued)
             /\ \A v \in held : task[v] = task[w] => v = w

(* Nobody forgets a completed task: as long as finished_tasks is not empty *)
(* there is an unread wake-up, or one about to be sent, or the loop is on  *)
(* its way to empty the queue.  In particular a descriptor that was full   *)
(* and a read that took several wake-ups at once lose nothing.             *)
NoLostCompletion ==
    finished_tasks # <<>> =>
        signals > 0 \/ At({"send"}) # {} \/ loop = "drain"

(* ctx->refs counts exactly the tasks that were accepted and whose done    *)
(* callback has not returned, wherever they are: pd_io_run cannot return   *)
(* while one is under way and is not kept alive by one that is over.       *)
RefsExact ==
    LET inCallback == loop = "cb" \/ (loop = "join" /\ resume = "cb")
    IN refs = Len(tasks) + Cardinality(At({"work", "finish"}))
              + Len(finished_tasks) + Len(tasks_done)
              + (IF inCallback THEN 1 ELSE 0)

(* No lost wake-up: when a thread of a live pool stays blocked, every      *)
(* queued task has an awake thread that will come back to the queue.       *)
WorkConserving ==
    At({"wait"}) # {} /\ ~abort_threads =>
        Len(tasks) <= Cardinality(At({"lock", "woken", "finish", "send", "unlock"}))

(* Every accepted task gets to its done callback while the user is in      *)
(* pd_io_run, whatever wake-ups were merged or refused; when the pool is   *)
(* ended this still holds of the tasks that a worker has taken.            *)
TasksDelivered ==
    \A t \in Tasks :
        (~UserOwns(t) /\ loop # "user")
            ~> (UserOwns(t) \/ loop = "user" \/ (abort_threads /\ t \in Range(tasks)))

(* pd_threadpool_end returns: the one signal it sends is passed on until   *)
(* every waiting thread has left.                                          *)
JoinReturns == loop = "join" ~> loop # "join"

(* The pool implements the task service. *)
Service == INSTANCE TaskService WITH
    pending <- tasks,
    running <- {task[w] : w \in At({"work", "finish"})},
    completed <- tasks_done \o finished_tasks

ServiceSpec == Service!Spec
=============================================================================
