-------------------------- MODULE ThreadPoolProofs --------------------------
(***************************************************************************)
(* Proofs about ThreadPool, for every set of tasks, every number of        *)
(* threads and every capacity of the wake-up descriptor.                   *)
(***************************************************************************)
EXTENDS ThreadPool, FiniteSetTheorems, SequenceTheorems, TLAPS

(* The variables without the three counters, whose types follow from the   *)
(* statements of what they count.                                          *)
Shape ==
    /\ tasks \in Seq(Tasks)
    /\ nthreads \in 0 .. MaxThreads
    /\ abort_threads \in BOOLEAN
    /\ mux \in Workers \cup {NULL}
    /\ pc \in [Workers -> WorkerStates]
    /\ task \in [Workers -> Tasks \cup {NULL}]
    /\ finished_tasks \in Seq(Tasks)
    /\ signals \in 0 .. SendMax
    /\ loop \in LoopStates
    /\ tasks_done \in Seq(Tasks)
    /\ resume \in {"user", "cb", "tick"}

(* The lock is held across steps only by a worker that notifies. *)
LockHeld == \A w \in Workers : pc[w] \in {"send", "unlock"} <=> mux = w

(* The threads of the pool are the first nthreads workers. *)
ThreadsExist == \A w \in Workers : pc[w] = "none" <=> w > nthreads

(* A worker that has popped a task and not finished it has it at hand. *)
TaskAtHand ==
    \A w \in Workers : pc[w] \in {"work", "finish", "send"} => task[w] \in Tasks

QueueCounted == ntasks = Len(tasks)

Control == Shape /\ LockHeld /\ ThreadsExist /\ TaskAtHand /\ QueueCounted

(* The number of workers that p places in S. *)
Count(p, S) == Cardinality({w \in Workers : p[w] \in S})

(* Threads inside pd_cond_wait, and threads that hold a task. *)
Blocked == {"wait", "woken"}
Holding == {"work", "finish"}

WaitersCounted == waiting_threads = Count(pc, Blocked)

(* 1 while a done callback runs, also while it is in pd_threadpool_end. *)
InCallback == IF loop = "cb" \/ (loop = "join" /\ resume = "cb") THEN 1 ELSE 0

RefsCounted ==
    refs = Len(tasks) + Count(pc, Holding) + Len(finished_tasks)
           + Len(tasks_done) + InCallback

(* Threads that will come to the queue without being signalled. *)
Awake == {"lock", "woken", "finish", "send", "unlock"}

WorkCovered ==
    (\E w \in Workers : pc[w] = "wait") /\ ~abort_threads =>
        Len(tasks) <= Count(pc, Awake)

(* tasks_done is a local variable of pd__task_done. *)
DoneIsLocal ==
    InCallback = 0 /\ loop # "dispatch" => tasks_done = <<>>

-----------------------------------------------------------------------------
(* Counting workers.                                                       *)

(* The number of workers in some states is a natural number. *)
LEMMA CountType ==
    ASSUME NEW p, NEW S
    PROVE  /\ IsFiniteSet({w \in Workers : p[w] \in S})
           /\ Count(p, S) \in Nat
<1>1. IsFiniteSet(Workers)
  BY ThreadPoolAssumption, FS_Interval DEF Workers
<1>2. IsFiniteSet({w \in Workers : p[w] \in S})
  BY <1>1, FS_Subset
<1> QED BY <1>2, FS_CardinalityType DEF Count

(* It is 0 when no worker is there ... *)
LEMMA CountZero ==
    ASSUME NEW p, NEW S, \A w \in Workers : p[w] \notin S
    PROVE  Count(p, S) = 0
<1>1. {w \in Workers : p[w] \in S} = {}
  OBVIOUS
<1> QED BY <1>1, FS_EmptySet DEF Count

(* ... and only then. *)
LEMMA CountPositive ==
    ASSUME NEW p, NEW S, NEW w \in Workers, p[w] \in S
    PROVE  Count(p, S) \in Nat \ {0}
<1> DEFINE A == {v \in Workers : p[v] \in S}
<1>1. A # {}
  OBVIOUS
<1>2. IsFiniteSet(A) /\ Cardinality(A) \in Nat
  BY CountType DEF Count
<1>3. Cardinality(A) # 0
  BY <1>1, <1>2, FS_EmptySet
<1> QED BY <1>2, <1>3 DEF Count

(* One worker moves: the count loses it where it was and gains it where it *)
(* goes.                                                                   *)
LEMMA CountMove ==
    ASSUME NEW p \in [Workers -> WorkerStates],
           NEW q \in [Workers -> WorkerStates],
           NEW w \in Workers, NEW S,
           \A v \in Workers \ {w} : q[v] = p[v]
    PROVE  /\ (p[w] \in S <=> q[w] \in S) => Count(q, S) = Count(p, S)
           /\ p[w] \in S /\ q[w] \notin S => Count(q, S) = Count(p, S) - 1
           /\ p[w] \notin S /\ q[w] \in S => Count(q, S) = Count(p, S) + 1
<1> DEFINE A == {v \in Workers : p[v] \in S}
           B == {v \in Workers : q[v] \in S}
<1>1. IsFiniteSet(A) /\ Cardinality(A) \in Nat
  BY CountType DEF Count
<1>2. Count(p, S) = Cardinality(A) /\ Count(q, S) = Cardinality(B)
  BY DEF Count
<1>3. CASE (p[w] \in S) <=> (q[w] \in S)
  <2>1. A = B
    BY <1>3
  <2> HIDE DEF A, B
  <2> QED BY <2>1, <1>1, <1>2, <1>3
<1>4. CASE p[w] \in S /\ q[w] \notin S
  <2>1. B = A \ {w} /\ w \in A
    BY <1>4
  <2> HIDE DEF A, B
  <2>2. Cardinality(B) = Cardinality(A) - 1
    BY <2>1, <1>1, FS_RemoveElement
  <2> QED BY <2>2, <1>1, <1>2, <1>4
<1>5. CASE p[w] \notin S /\ q[w] \in S
  <2>1. B = A \cup {w} /\ w \notin A
    BY <1>5
  <2> HIDE DEF A, B
  <2>2. Cardinality(B) = Cardinality(A) + 1
    BY <2>1, <1>1, FS_AddElement
  <2> QED BY <2>2, <1>1, <1>2, <1>5
<1> QED BY <1>3, <1>4, <1>5

(* A signal wakes one waiting thread, or nobody is waiting. *)
LEMMA SignalWakesOne ==
    ASSUME NEW p \in [Workers -> WorkerStates], NEW q \in pd_cond_signal(p)
    PROVE  \/ q = p /\ \A v \in Workers : p[v] # "wait"
           \/ \E v \in Workers : p[v] = "wait" /\ q = [p EXCEPT ![v] = "woken"]
BY DEF pd_cond_signal
-----------------------------------------------------------------------------
(* The control state.                                                      *)

(* The loop thread's own steps leave the pool and the workers alone. *)
LEMMA LoopStepKeepsPool ==
    ASSUME Loop
    PROVE  EndJoined \/ UNCHANGED <<poolVars, workVars, resume>>
BY DEF Loop, EndJoined, LoopExits, pd__notifier_io, OtherEvents, Drain,
       DoneCallback, DoneReturns, DispatchEnds, TickEnds, LoopStep

(* Control is an invariant: the lock, the threads and the tasks they hold  *)
(* stay consistent with the program counters.                              *)
LEMMA ControlStep ==
    ASSUME Control, [Next]_vars
    PROVE  Control'
<1> USE ThreadPoolAssumption DEF Workers
<1>1. CASE UNCHANGED vars
  BY <1>1 DEF vars, poolVars, workVars, loopVars, Control, Shape, LockHeld,
              ThreadsExist, TaskAtHand, QueueCounted
<1>2. ASSUME NEW n \in 0 .. MaxThreads, pd_threadpool_init(n)
      PROVE  Control'
  <2>1. \A w \in Workers : pc'[w] = IF w <= nthreads' THEN "lock" ELSE "none"
    BY <1>2 DEF pd_threadpool_init
  <2>2. nthreads' \in 1 .. MaxThreads /\ mux' = mux /\ nthreads = 0
    BY <1>2 DEF pd_threadpool_init
  <2>3. pc' \in [Workers -> WorkerStates]
    BY <1>2 DEF pd_threadpool_init, WorkerStates
  <2>4. LockHeld' /\ ThreadsExist' /\ TaskAtHand'
    BY <2>1, <2>2 DEF Control, Shape, LockHeld, ThreadsExist, TaskAtHand
  <2>5. /\ abort_threads' \in BOOLEAN
        /\ UNCHANGED <<tasks, ntasks, task, finished_tasks, signals, loop,
                       tasks_done, resume>>
    BY <1>2 DEF pd_threadpool_init, loopVars
  <2>6. Shape' /\ QueueCounted'
    BY <2>2, <2>3, <2>5 DEF Control, Shape, QueueCounted
  <2> QED BY <2>4, <2>6 DEF Control
<1>3. ASSUME NEW t \in Tasks, pd_task_submit(t)
      PROVE  Control'
  <2>1. pc' = pc \/ \E v \in Workers : pc[v] = "wait" /\ pc' = [pc EXCEPT ![v] = "woken"]
    BY <1>3, SignalWakesOne DEF pd_task_submit, SubmitWakes, Control, Shape
  <2>2. pc' \in [Workers -> WorkerStates]
    BY <2>1 DEF Control, Shape, WorkerStates
  <2>3. LockHeld' /\ ThreadsExist' /\ TaskAtHand'
    BY <1>3, <2>1 DEF Control, Shape, LockHeld, ThreadsExist, TaskAtHand, pd_task_submit
  <2>4. Shape' /\ QueueCounted'
    BY <1>3, <2>2 DEF Control, Shape, QueueCounted, pd_task_submit
  <2> QED BY <2>3, <2>4 DEF Control
<1>4. CASE pd_threadpool_end
  <2>1. pc' = pc \/ \E v \in Workers : pc[v] = "wait" /\ pc' = [pc EXCEPT ![v] = "woken"]
    BY <1>4, SignalWakesOne DEF pd_threadpool_end, Control, Shape
  <2>2. pc' \in [Workers -> WorkerStates]
    BY <2>1 DEF Control, Shape, WorkerStates
  <2>3. LockHeld' /\ ThreadsExist' /\ TaskAtHand'
    BY <1>4, <2>1 DEF Control, Shape, LockHeld, ThreadsExist, TaskAtHand, pd_threadpool_end
  <2>4. Shape' /\ QueueCounted'
    BY <1>4, <2>2 DEF Control, Shape, QueueCounted, pd_threadpool_end, UserCode, LoopStates
  <2> QED BY <2>3, <2>4 DEF Control
<1>5. CASE Run
  BY <1>5 DEF Run, LoopStep, poolVars, workVars, LoopStates, Control, Shape,
              LockHeld, ThreadsExist, TaskAtHand, QueueCounted
<1>6. CASE EndJoined
  <2>1. \A w \in Workers : pc[w] \in {"none", "exit"} /\ pc'[w] = "none"
    BY <1>6 DEF EndJoined, Control, Shape, ThreadsExist, Threads
  <2>2. Shape' /\ QueueCounted'
    BY <1>6 DEF EndJoined, Control, Shape, QueueCounted, LoopStates, WorkerStates
  <2>3. nthreads' = 0 /\ mux' = mux
    BY <1>6 DEF EndJoined
  <2>4. LockHeld' /\ ThreadsExist' /\ TaskAtHand'
    BY <2>1, <2>3 DEF Control, LockHeld, ThreadsExist, TaskAtHand
  <2> QED BY <2>2, <2>4 DEF Control
<1>7. CASE Loop /\ UNCHANGED <<poolVars, workVars, resume>>
  <2>1. LockHeld' /\ ThreadsExist' /\ TaskAtHand' /\ QueueCounted'
    BY <1>7 DEF poolVars, workVars, Control, LockHeld, ThreadsExist, TaskAtHand,
                QueueCounted
  <2>2. loop' \in LoopStates /\ signals' \in 0 .. SendMax
    BY <1>7 DEF Loop, EndJoined, LoopExits, pd__notifier_io, OtherEvents, Drain,
                DoneCallback, DoneReturns, DispatchEnds, TickEnds, LoopStep,
                NotifierRead, LoopStates, Control, Shape
  <2>3. finished_tasks' \in Seq(Tasks) /\ tasks_done' \in Seq(Tasks)
    <3>1. CASE Drain
      BY <3>1 DEF Drain, Control, Shape
    <3>2. CASE DoneCallback
      BY <3>2 DEF DoneCallback, Control, Shape
    <3>3. CASE UNCHANGED <<finished_tasks, tasks_done>>
      BY <3>3 DEF Control, Shape
    <3> QED BY <1>7, <3>1, <3>2, <3>3
            DEF Loop, EndJoined, LoopExits, pd__notifier_io, OtherEvents,
                DoneReturns, DispatchEnds, TickEnds
  <2> QED BY <1>7, <2>1, <2>2, <2>3 DEF poolVars, workVars, Control, Shape
<1>8. ASSUME NEW w \in Workers, Worker(w) \/ SpuriousWakeup(w)
      PROVE  Control'
  <2>1. ASSUME pc[w] \in {"lock", "woken"}, NEW waiting, LoopHead(w, waiting)
        PROVE  Control'
    <3>1. CASE Sleep(w, waiting)
      BY <2>1, <3>1 DEF Sleep, LoopHead, loopVars, Control, Shape, WorkerStates,
                        LockHeld, ThreadsExist, TaskAtHand, QueueCounted
    <3>2. CASE Leave(w, waiting)
      <4> DEFINE p == [pc EXCEPT ![w] = "exit"]
      <4>1. p \in [Workers -> WorkerStates]
        BY DEF Control, Shape, WorkerStates
      <4>2. pc' = p \/ \E v \in Workers : p[v] = "wait" /\ pc' = [p EXCEPT ![v] = "woken"]
        BY <3>2, <4>1, SignalWakesOne DEF Leave
      <4>3. pc' \in [Workers -> WorkerStates]
        BY <4>1, <4>2 DEF WorkerStates
      <4>4. Shape' /\ QueueCounted'
        BY <2>1, <3>2, <4>3 DEF Leave, LoopHead, loopVars, Control, Shape, QueueCounted
      <4>5. /\ p[w] = "exit" /\ pc[w] \in {"lock", "woken"}
            /\ \A v \in Workers : v # w => p[v] = pc[v]
        BY <2>1 DEF Control, Shape
      <4>6. \A v \in Workers :
               pc'[v] = p[v] \/ (p[v] = "wait" /\ pc'[v] = "woken")
        <5> HIDE DEF p
        <5> QED BY <4>1, <4>2
      <4> HIDE DEF p
      <4>7. LockHeld'
        BY <2>1, <3>2, <4>5, <4>6 DEF LoopHead, Control, LockHeld
      <4>8. ThreadsExist'
        BY <2>1, <3>2, <4>5, <4>6 DEF LoopHead, Control, ThreadsExist
      <4>9. TaskAtHand'
        BY <2>1, <3>2, <4>5, <4>6 DEF Leave, LoopHead, Control, TaskAtHand
      <4> QED BY <4>4, <4>7, <4>8, <4>9 DEF Control
    <3>3. CASE Pop(w, waiting)
      <4>1. tasks \in Seq(Tasks) /\ tasks # <<>> /\ ntasks = Len(tasks)
        BY <3>3 DEF Pop, Control, Shape, QueueCounted
      <4>2. Head(tasks) \in Tasks /\ tasks' \in Seq(Tasks) /\ ntasks' = Len(tasks')
        BY <3>3, <4>1 DEF Pop
      <4>3. Shape'
        BY <2>1, <3>3, <4>2 DEF Pop, LoopHead, loopVars, Control, Shape, WorkerStates
      <4>4. LockHeld' /\ ThreadsExist' /\ TaskAtHand'
        BY <2>1, <3>3, <4>2 DEF Pop, LoopHead, Control, Shape, LockHeld,
                                ThreadsExist, TaskAtHand
      <4> QED BY <4>2, <4>3, <4>4 DEF Control, QueueCounted
    <3> QED BY <2>1, <3>1, <3>2, <3>3 DEF LoopHead
  <2>2. CASE Lock(w) \/ WaitReturns(w)
    BY <2>1, <2>2 DEF Lock, WaitReturns
  <2>3. CASE WorkReturns(w)
    <3>1. Shape' /\ QueueCounted'
      BY <2>3 DEF WorkReturns, poolVars, loopVars, Control, Shape, WorkerStates,
                  QueueCounted
    <3>2. LockHeld' /\ ThreadsExist' /\ TaskAtHand'
      BY <2>3 DEF WorkReturns, poolVars, Control, Shape, LockHeld, ThreadsExist,
                  TaskAtHand
    <3> QED BY <3>1, <3>2 DEF Control
  <2>7. CASE SpuriousWakeup(w)
    <3>1. Shape' /\ QueueCounted'
      BY <2>7 DEF SpuriousWakeup, poolVars, loopVars, Control, Shape, WorkerStates,
                  QueueCounted
    <3>2. LockHeld' /\ ThreadsExist' /\ TaskAtHand'
      BY <2>7 DEF SpuriousWakeup, poolVars, Control, Shape, LockHeld, ThreadsExist,
                  TaskAtHand
    <3> QED BY <3>1, <3>2 DEF Control
  <2>4. CASE PushFinished(w)
    BY <2>4 DEF PushFinished, poolVars, loopVars, Control, Shape,
                WorkerStates, LockHeld, ThreadsExist, TaskAtHand, QueueCounted
  <2>5. CASE Notify(w)
    BY <2>5 DEF Notify, pd_notifier_send, poolVars, loopVars, Control, Shape,
                WorkerStates, LockHeld, ThreadsExist, TaskAtHand, QueueCounted
  <2>6. CASE Unlock(w)
    BY <2>6 DEF Unlock, poolVars, loopVars, Control, Shape,
                WorkerStates, LockHeld, ThreadsExist, TaskAtHand, QueueCounted
  <2> QED BY <1>8, <2>2, <2>3, <2>4, <2>5, <2>6, <2>7 DEF Worker
<1> QED BY <1>1, <1>2, <1>3, <1>4, <1>5, <1>6, <1>7, <1>8, LoopStepKeepsPool
        DEF Next, User
-----------------------------------------------------------------------------
(* The counters.                                                           *)

(* A signal moves no thread in or out of S when S has both the blocked and *)
(* the woken threads, or neither.                                          *)
LEMMA SignalCount ==
    ASSUME NEW p \in [Workers -> WorkerStates], NEW q \in pd_cond_signal(p),
           NEW S, "wait" \in S <=> "woken" \in S
    PROVE  Count(q, S) = Count(p, S) /\ q \in [Workers -> WorkerStates]
<1>1. CASE q = p
  BY <1>1
<1>2. ASSUME NEW v \in Workers, p[v] = "wait", q = [p EXCEPT ![v] = "woken"]
      PROVE  Count(q, S) = Count(p, S) /\ q \in [Workers -> WorkerStates]
  <2>3. q \in [Workers -> WorkerStates]
    BY <1>2 DEF WorkerStates
  <2>4. p[v] = "wait" /\ q[v] = "woken" /\ \A u \in Workers \ {v} : q[u] = p[u]
    BY <1>2
  <2>1. Count(q, S) = Count(p, S)
    BY <2>3, <2>4, CountMove
  <2> QED BY <2>1, <2>3
<1> QED BY <1>1, <1>2, SignalWakesOne

(* How every step changes the number of workers in S, for the two sets of  *)
(* states that counters are about: the threads inside pd_cond_wait and the *)
(* threads that hold a task.                                               *)
LEMMA CountStep ==
    ASSUME Control, NEW S, "wait" \in S <=> "woken" \in S,
           "none" \notin S, "lock" \notin S, "exit" \notin S
    PROVE  /\ \A n \in 0 .. MaxThreads : pd_threadpool_init(n) =>
                  Count(pc, S) = 0 /\ Count(pc', S) = 0
           /\ EndJoined => Count(pc, S) = 0 /\ Count(pc', S) = 0
           /\ (\E t \in Tasks : pd_task_submit(t)) => Count(pc', S) = Count(pc, S)
           /\ pd_threadpool_end => Count(pc', S) = Count(pc, S)
           /\ \A w \in Workers : \A waiting :
                 Leave(w, waiting) =>
                    /\ pc[w] \in S => Count(pc', S) = Count(pc, S) - 1
                    /\ pc[w] \notin S => Count(pc', S) = Count(pc, S)
<1>p. pc \in [Workers -> WorkerStates]
  BY DEF Control, Shape
<1>1. ASSUME NEW n \in 0 .. MaxThreads, pd_threadpool_init(n)
      PROVE  Count(pc, S) = 0 /\ Count(pc', S) = 0
  <2>1. \A w \in Workers : pc[w] = "none" /\ pc'[w] \in {"none", "lock"}
    BY <1>1 DEF pd_threadpool_init, Control, ThreadsExist, Workers
  <2> QED BY <2>1, CountZero
<1>2. ASSUME EndJoined PROVE Count(pc, S) = 0 /\ Count(pc', S) = 0
  <2>1. \A w \in Workers : pc[w] \in {"none", "exit"} /\ pc'[w] = "none"
    BY <1>2 DEF EndJoined, Control, Shape, ThreadsExist, Threads, Workers
  <2> QED BY <2>1, CountZero
<1>3. ASSUME NEW t \in Tasks, pd_task_submit(t)
      PROVE  Count(pc', S) = Count(pc, S)
  BY <1>p, <1>3, SignalCount DEF pd_task_submit, SubmitWakes
<1>4. ASSUME pd_threadpool_end PROVE Count(pc', S) = Count(pc, S)
  BY <1>p, <1>4, SignalCount DEF pd_threadpool_end
<1>5. ASSUME NEW w \in Workers, NEW waiting, Leave(w, waiting)
      PROVE  /\ pc[w] \in S => Count(pc', S) = Count(pc, S) - 1
             /\ pc[w] \notin S => Count(pc', S) = Count(pc, S)
  <2>1. PICK p : p = [pc EXCEPT ![w] = "exit"]
    OBVIOUS
  <2>2. p \in [Workers -> WorkerStates] /\ pc' \in pd_cond_signal(p)
    BY <1>p, <1>5, <2>1 DEF Leave, WorkerStates
  <2>3. p[w] = "exit" /\ \A v \in Workers \ {w} : p[v] = pc[v]
    BY <1>p, <2>1
  <2>4. Count(pc', S) = Count(p, S)
    BY <2>2, SignalCount
  <2>5. /\ pc[w] \in S => Count(p, S) = Count(pc, S) - 1
        /\ pc[w] \notin S => Count(p, S) = Count(pc, S)
    BY <1>p, <2>2, <2>3, CountMove
  <2> QED BY <2>4, <2>5
<1> QED BY <1>1, <1>2, <1>3, <1>4, <1>5

(* A step moves one worker. *)
Moved(w, x) == pc' = [pc EXCEPT ![w] = x]

(* How it changes the number of workers in S. *)
LEMMA MoveStep ==
    ASSUME Control, NEW w \in Workers, NEW x \in WorkerStates, NEW S
    PROVE  Moved(w, x) =>
              /\ (pc[w] \in S <=> x \in S) => Count(pc', S) = Count(pc, S)
              /\ pc[w] \in S /\ x \notin S => Count(pc', S) = Count(pc, S) - 1
              /\ pc[w] \notin S /\ x \in S => Count(pc', S) = Count(pc, S) + 1
<1>1. ASSUME Moved(w, x)
      PROVE  /\ pc \in [Workers -> WorkerStates]
             /\ pc' \in [Workers -> WorkerStates]
             /\ pc'[w] = x /\ \A v \in Workers \ {w} : pc'[v] = pc[v]
  BY <1>1 DEF Moved, Control, Shape
<1>2. ASSUME /\ pc \in [Workers -> WorkerStates]
             /\ pc' \in [Workers -> WorkerStates]
             /\ pc'[w] = x /\ \A v \in Workers \ {w} : pc'[v] = pc[v]
      PROVE  /\ (pc[w] \in S <=> x \in S) => Count(pc', S) = Count(pc, S)
             /\ pc[w] \in S /\ x \notin S => Count(pc', S) = Count(pc, S) - 1
             /\ pc[w] \notin S /\ x \in S => Count(pc', S) = Count(pc, S) + 1
  BY <1>2, CountMove
<1> QED BY <1>1, <1>2

(* waiting_threads stays the number of threads inside pd_cond_wait. *)
LEMMA WaitersStep ==
    ASSUME Control, WaitersCounted, [Next]_vars
    PROVE  WaitersCounted'
<1>S. \A x : x \in Blocked <=> x = "wait" \/ x = "woken"
  BY DEF Blocked
<1>g. SUFFICES waiting_threads' = Count(pc', Blocked)
  BY DEF WaitersCounted
<1>p. pc \in [Workers -> WorkerStates]
  BY DEF Control, Shape
<1>n. Count(pc, Blocked) \in Nat /\ waiting_threads = Count(pc, Blocked)
  BY CountType DEF WaitersCounted
<1>s. /\ \A n \in 0 .. MaxThreads : pd_threadpool_init(n) =>
            Count(pc, Blocked) = 0 /\ Count(pc', Blocked) = 0
      /\ EndJoined => Count(pc, Blocked) = 0 /\ Count(pc', Blocked) = 0
      /\ (\E t \in Tasks : pd_task_submit(t)) => Count(pc', Blocked) = Count(pc, Blocked)
      /\ pd_threadpool_end => Count(pc', Blocked) = Count(pc, Blocked)
      /\ \A w \in Workers : \A waiting :
            Leave(w, waiting) =>
               /\ pc[w] \in Blocked => Count(pc', Blocked) = Count(pc, Blocked) - 1
               /\ pc[w] \notin Blocked => Count(pc', Blocked) = Count(pc, Blocked)
  BY <1>S, CountStep
<1>m. \A w \in Workers, x \in WorkerStates : Moved(w, x) =>
         /\ (pc[w] \in Blocked <=> x \in Blocked) =>
               Count(pc', Blocked) = Count(pc, Blocked)
         /\ pc[w] \in Blocked /\ x \notin Blocked =>
               Count(pc', Blocked) = Count(pc, Blocked) - 1
         /\ pc[w] \notin Blocked /\ x \in Blocked =>
               Count(pc', Blocked) = Count(pc, Blocked) + 1
  BY MoveStep
<1>1. CASE UNCHANGED <<pc, waiting_threads>>
  BY <1>1, <1>n
<1>2. ASSUME NEW n \in 0 .. MaxThreads, pd_threadpool_init(n)
      PROVE  waiting_threads' = Count(pc', Blocked)
  BY <1>2, <1>n, <1>s DEF pd_threadpool_init
<1>3. ASSUME NEW t \in Tasks, pd_task_submit(t)
      PROVE  waiting_threads' = Count(pc', Blocked)
  BY <1>3, <1>n, <1>s DEF pd_task_submit
<1>4. CASE pd_threadpool_end
  BY <1>4, <1>n, <1>s DEF pd_threadpool_end
<1>5. CASE EndJoined
  BY <1>5, <1>n, <1>s DEF EndJoined
<1>6. ASSUME NEW w \in Workers, Worker(w) \/ SpuriousWakeup(w)
      PROVE  waiting_threads' = Count(pc', Blocked)
  <2>1. ASSUME NEW waiting, LoopHead(w, waiting), pc[w] \in {"lock", "woken"},
               waiting = waiting_threads - (IF pc[w] = "woken" THEN 1 ELSE 0)
        PROVE  waiting_threads' = Count(pc', Blocked)
    <3>1. CASE Sleep(w, waiting)
      <4>1. Moved(w, "wait") /\ waiting_threads' = waiting + 1
        BY <3>1 DEF Sleep, Moved
      <4> QED BY <2>1, <4>1, <1>m, <1>n, <1>S DEF WorkerStates
    <3>2. CASE Leave(w, waiting)
      BY <2>1, <3>2, <1>s, <1>n, <1>S DEF Leave
    <3>3. CASE Pop(w, waiting)
      <4>1. Moved(w, "work") /\ waiting_threads' = waiting
        BY <3>3 DEF Pop, Moved
      <4> QED BY <2>1, <4>1, <1>m, <1>n, <1>S DEF WorkerStates
    <3> QED BY <2>1, <3>1, <3>2, <3>3 DEF LoopHead
  <2>2. CASE Lock(w)
    BY <2>1, <2>2, <1>n, <1>S DEF Lock
  <2>3. CASE WaitReturns(w)
    BY <2>1, <2>3 DEF WaitReturns
  <2>4. CASE SpuriousWakeup(w)
    <3>1. Moved(w, "woken") /\ pc[w] = "wait" /\ waiting_threads' = waiting_threads
      BY <2>4 DEF SpuriousWakeup, Moved, poolVars
    <3> QED BY <3>1, <1>m, <1>n, <1>S DEF WorkerStates
  <2>5. CASE WorkReturns(w) \/ PushFinished(w) \/ Notify(w) \/ Unlock(w)
    <3>1. /\ pc[w] \in {"work", "finish", "send", "unlock"}
          /\ \E x \in {"finish", "send", "unlock", "lock"} : Moved(w, x)
          /\ waiting_threads' = waiting_threads
      BY <2>5 DEF WorkReturns, PushFinished, Notify, Unlock, Moved, poolVars
    <3> QED BY <3>1, <1>m, <1>n, <1>S DEF WorkerStates
  <2> QED BY <1>6, <2>2, <2>3, <2>4, <2>5 DEF Worker
<1> QED BY <1>1, <1>2, <1>3, <1>4, <1>5, <1>6, LoopStepKeepsPool
        DEF Next, User, Run, LoopStep, vars, poolVars, workVars

(* The local queue of pd__task_done is empty outside pd__task_done. *)
LEMMA DoneIsLocalStep ==
    ASSUME Control, DoneIsLocal, [Next]_vars
    PROVE  DoneIsLocal'
<1> USE DEF DoneIsLocal, InCallback
<1>1. CASE UNCHANGED <<loop, resume, tasks_done>>
  BY <1>1
<1>2. CASE pd_threadpool_end
  BY <1>2 DEF pd_threadpool_end, UserCode
<1>3. CASE Run
  BY <1>3 DEF Run, LoopStep
<1>4. CASE EndJoined
  BY <1>4 DEF EndJoined, Control, Shape
<1>5. CASE LoopExits \/ pd__notifier_io \/ OtherEvents \/ Drain
  BY <1>5 DEF LoopExits, pd__notifier_io, OtherEvents, Drain, LoopStep
<1>6. CASE DoneCallback \/ DoneReturns \/ DispatchEnds \/ TickEnds
  BY <1>6 DEF DoneCallback, DoneReturns, DispatchEnds, TickEnds, LoopStep
<1>7. ASSUME NEW w \in Workers, Worker(w) \/ SpuriousWakeup(w)
      PROVE  UNCHANGED <<loop, resume, tasks_done>>
  BY <1>7 DEF Worker, Lock, WaitReturns, LoopHead, WorkReturns, PushFinished,
              Notify, Unlock, SpuriousWakeup, loopVars
<1>8. ASSUME NEW n \in 0 .. MaxThreads, pd_threadpool_init(n)
      PROVE  UNCHANGED <<loop, resume, tasks_done>>
  BY <1>8 DEF pd_threadpool_init, loopVars
<1>9. ASSUME NEW t \in Tasks, pd_task_submit(t)
      PROVE  UNCHANGED <<loop, resume, tasks_done>>
  BY <1>9 DEF pd_task_submit
<1> QED BY <1>1, <1>2, <1>3, <1>4, <1>5, <1>6, <1>7, <1>8, <1>9
        DEF Next, User, Loop, vars, loopVars

(* ctx->refs stays the number of tasks under way. *)
LEMMA RefsStep ==
    ASSUME Control, DoneIsLocal, RefsCounted, [Next]_vars
    PROVE  RefsCounted'
<1>S. \A x : x \in Holding <=> x = "work" \/ x = "finish"
  BY DEF Holding
<1>n. /\ Count(pc, Holding) \in Nat /\ InCallback \in {0, 1}
      /\ tasks \in Seq(Tasks) /\ finished_tasks \in Seq(Tasks)
      /\ tasks_done \in Seq(Tasks)
      /\ refs = Len(tasks) + Count(pc, Holding) + Len(finished_tasks)
                + Len(tasks_done) + InCallback
  BY CountType DEF RefsCounted, InCallback, Control, Shape
<1>s. /\ \A n \in 0 .. MaxThreads : pd_threadpool_init(n) =>
            Count(pc, Holding) = 0 /\ Count(pc', Holding) = 0
      /\ EndJoined => Count(pc, Holding) = 0 /\ Count(pc', Holding) = 0
      /\ (\E t \in Tasks : pd_task_submit(t)) =>
            Count(pc', Holding) = Count(pc, Holding)
      /\ pd_threadpool_end => Count(pc', Holding) = Count(pc, Holding)
      /\ \A w \in Workers : \A waiting :
            Leave(w, waiting) =>
               /\ pc[w] \in Holding => Count(pc', Holding) = Count(pc, Holding) - 1
               /\ pc[w] \notin Holding => Count(pc', Holding) = Count(pc, Holding)
  BY <1>S, CountStep
<1>m. \A w \in Workers, x \in WorkerStates : Moved(w, x) =>
         /\ (pc[w] \in Holding <=> x \in Holding) =>
               Count(pc', Holding) = Count(pc, Holding)
         /\ pc[w] \in Holding /\ x \notin Holding =>
               Count(pc', Holding) = Count(pc, Holding) - 1
         /\ pc[w] \notin Holding /\ x \in Holding =>
               Count(pc', Holding) = Count(pc, Holding) + 1
  BY MoveStep
<1>g. SUFFICES refs' = Len(tasks') + Count(pc', Holding) + Len(finished_tasks')
                       + Len(tasks_done') + InCallback'
  BY DEF RefsCounted
<1> DEFINE Goal == refs' = Len(tasks') + Count(pc', Holding) + Len(finished_tasks')
                           + Len(tasks_done') + InCallback'
<1>1. CASE UNCHANGED <<pc, tasks, finished_tasks, tasks_done, refs, loop, resume>>
  BY <1>1, <1>n DEF InCallback
<1>2. ASSUME NEW n \in 0 .. MaxThreads, pd_threadpool_init(n)
      PROVE  Goal
  BY <1>2, <1>n, <1>s DEF pd_threadpool_init, loopVars, InCallback
<1>3. ASSUME NEW t \in Tasks, pd_task_submit(t)
      PROVE  Goal
  <2>1. Len(tasks') = Len(tasks) + 1
    BY <1>3, <1>n DEF pd_task_submit
  <2>2. InCallback' = InCallback
    BY <1>3 DEF pd_task_submit, InCallback
  <2>3. refs' = refs + 1 /\ UNCHANGED <<finished_tasks, tasks_done>>
    BY <1>3 DEF pd_task_submit
  <2> QED BY <1>3, <1>n, <1>s, <2>1, <2>2, <2>3
<1>4. CASE pd_threadpool_end
  <2>1. InCallback' = InCallback
    BY <1>4 DEF pd_threadpool_end, UserCode, InCallback
  <2>2. UNCHANGED <<tasks, finished_tasks, tasks_done, refs>>
    BY <1>4 DEF pd_threadpool_end
  <2> QED BY <1>4, <1>n, <1>s, <2>1, <2>2
<1>5. CASE EndJoined
  <2>1. InCallback' = InCallback
    BY <1>5 DEF EndJoined, InCallback, Control, Shape
  <2>2. UNCHANGED <<tasks, finished_tasks, tasks_done, refs>>
    BY <1>5 DEF EndJoined
  <2> QED BY <1>5, <1>n, <1>s, <2>1, <2>2
<1>6. CASE Run \/ LoopExits \/ pd__notifier_io \/ OtherEvents \/ DispatchEnds \/ TickEnds
  <2>1. InCallback' = InCallback
    BY <1>6 DEF Run, LoopExits, pd__notifier_io, OtherEvents, DispatchEnds,
                TickEnds, LoopStep, InCallback
  <2>2. UNCHANGED <<pc, tasks, finished_tasks, tasks_done, refs>>
    BY <1>6 DEF Run, LoopExits, pd__notifier_io, OtherEvents, DispatchEnds,
                TickEnds, LoopStep, poolVars, workVars
  <2> QED BY <1>n, <2>1, <2>2
<1>7. CASE Drain
  <2>1. InCallback = 0 /\ InCallback' = 0 /\ tasks_done = <<>>
    BY <1>7 DEF Drain, LoopStep, InCallback, DoneIsLocal
  <2>2. /\ tasks_done' = finished_tasks /\ finished_tasks' = <<>>
        /\ UNCHANGED <<pc, tasks, refs>>
    BY <1>7 DEF Drain, LoopStep, poolVars, workVars
  <2> QED BY <1>n, <2>1, <2>2
<1>8. CASE DoneCallback
  <2>1. InCallback = 0 /\ InCallback' = 1
    BY <1>8 DEF DoneCallback, LoopStep, InCallback
  <2>2. Len(tasks_done') = Len(tasks_done) - 1
    BY <1>8, <1>n DEF DoneCallback
  <2>3. UNCHANGED <<pc, tasks, finished_tasks, refs>>
    BY <1>8 DEF DoneCallback, LoopStep, poolVars, workVars
  <2> QED BY <1>n, <2>1, <2>2, <2>3
<1>9. CASE DoneReturns
  <2>1. InCallback = 1 /\ InCallback' = 0
    BY <1>9 DEF DoneReturns, LoopStep, InCallback
  <2>2. refs' = refs - 1 /\ UNCHANGED <<pc, tasks, finished_tasks, tasks_done>>
    BY <1>9 DEF DoneReturns, LoopStep, poolVars, workVars
  <2> QED BY <1>n, <2>1, <2>2
<1>10. ASSUME NEW w \in Workers, Worker(w) \/ SpuriousWakeup(w)
       PROVE  Goal
  <2>1. InCallback' = InCallback /\ UNCHANGED <<tasks_done, refs>>
    BY <1>10 DEF Worker, Lock, WaitReturns, LoopHead, WorkReturns, PushFinished,
                 Notify, Unlock, SpuriousWakeup, loopVars, InCallback
  <2>2. ASSUME NEW waiting, LoopHead(w, waiting), pc[w] \in {"lock", "woken"}
        PROVE  Goal
    <3>1. UNCHANGED finished_tasks
      BY <2>2 DEF LoopHead
    <3>2. CASE Sleep(w, waiting)
      <4>1. Moved(w, "wait") /\ tasks' = tasks
        BY <3>2 DEF Sleep, Moved
      <4>2. Count(pc', Holding) = Count(pc, Holding)
        BY <2>2, <4>1, <1>m, <1>S DEF WorkerStates
      <4> QED BY <2>1, <3>1, <4>1, <4>2, <1>n
    <3>3. CASE Leave(w, waiting)
      <4>1. tasks' = tasks
        BY <3>3 DEF Leave
      <4> QED BY <2>1, <2>2, <3>1, <3>3, <4>1, <1>s, <1>n, <1>S
    <3>4. CASE Pop(w, waiting)
      <4>1. tasks # <<>>
        BY <3>4, <1>n DEF Pop, Control, QueueCounted
      <4>2. Moved(w, "work") /\ tasks' = Tail(tasks)
        BY <3>4 DEF Pop, Moved
      <4>3. Len(tasks') = Len(tasks) - 1
        BY <4>1, <4>2, <1>n
      <4>4. Count(pc', Holding) = Count(pc, Holding) + 1
        BY <2>2, <4>2, <1>m, <1>S DEF WorkerStates
      <4> QED BY <2>1, <3>1, <4>3, <4>4, <1>n
    <3> QED BY <2>2, <3>2, <3>3, <3>4 DEF LoopHead
  <2>3. CASE Lock(w) \/ WaitReturns(w)
    BY <2>2, <2>3 DEF Lock, WaitReturns
  <2>4. CASE PushFinished(w)
    <3>1. Moved(w, "send") /\ pc[w] = "finish" /\ tasks' = tasks
      BY <2>4 DEF PushFinished, Moved, poolVars
    <3>2. Len(finished_tasks') = Len(finished_tasks) + 1
      BY <2>4, <1>n DEF PushFinished
    <3>3. Count(pc', Holding) = Count(pc, Holding) - 1
      BY <3>1, <1>m, <1>S DEF WorkerStates
    <3> QED BY <2>1, <3>1, <3>2, <3>3, <1>n
  <2>5. CASE WorkReturns(w) \/ Notify(w) \/ Unlock(w) \/ SpuriousWakeup(w)
    <3>1. /\ UNCHANGED <<tasks, finished_tasks>>
          /\ \/ pc[w] = "work" /\ Moved(w, "finish")
             \/ pc[w] = "send" /\ Moved(w, "unlock")
             \/ pc[w] = "unlock" /\ Moved(w, "lock")
             \/ pc[w] = "wait" /\ Moved(w, "woken")
      BY <2>5 DEF WorkReturns, Notify, Unlock, SpuriousWakeup, Moved, poolVars
    <3>2. Count(pc', Holding) = Count(pc, Holding)
      BY <3>1, <1>m, <1>S DEF WorkerStates
    <3> QED BY <2>1, <3>1, <3>2, <1>n
  <2> QED BY <1>10, <2>3, <2>4, <2>5 DEF Worker
<1> QED BY <1>1, <1>2, <1>3, <1>4, <1>5, <1>6, <1>7, <1>8, <1>9, <1>10
        DEF Next, User, Loop, vars, poolVars, workVars, loopVars
-----------------------------------------------------------------------------
(* Completions and wake-ups.                                               *)

(* A worker that notifies keeps its task in finished_tasks until it is     *)
(* done with it, because pd__task_done needs the lock it holds.            *)
LEMMA NoUseAfterDoneStep ==
    ASSUME Control, NoUseAfterDone, [Next]_vars
    PROVE  NoUseAfterDone'
<1> USE DEF NoUseAfterDone, At
<1>t. \A w \in Workers : pc[w] = "send" => task[w] \in Range(finished_tasks) /\ mux = w
  BY DEF Control, LockHeld
<1>1. ASSUME \A w \in Workers : pc'[w] = "send" => pc[w] = "send" /\ task'[w] = task[w],
             finished_tasks' = finished_tasks
      PROVE  NoUseAfterDone'
  BY <1>1
<1>2. ASSUME \A w \in Workers : pc'[w] # "send"
      PROVE  NoUseAfterDone'
  BY <1>2
<1>3. ASSUME NEW n \in 0 .. MaxThreads, pd_threadpool_init(n)
      PROVE  NoUseAfterDone'
  <2>1. \A w \in Workers : pc'[w] # "send"
    BY <1>3 DEF pd_threadpool_init
  <2> QED BY <2>1, <1>2
<1>4. ASSUME NEW t \in Tasks, pd_task_submit(t)
      PROVE  NoUseAfterDone'
  <2>1. \A w \in Workers : pc'[w] = "send" => pc[w] = "send"
    BY <1>4, SignalWakesOne DEF pd_task_submit, SubmitWakes, Control, Shape
  <2> QED BY <2>1, <1>1, <1>4 DEF pd_task_submit
<1>5. CASE pd_threadpool_end
  <2>1. \A w \in Workers : pc'[w] = "send" => pc[w] = "send"
    BY <1>5, SignalWakesOne DEF pd_threadpool_end, Control, Shape
  <2> QED BY <2>1, <1>1, <1>5 DEF pd_threadpool_end
<1>6. CASE EndJoined
  <2>1. \A w \in Workers : pc'[w] # "send"
    BY <1>6 DEF EndJoined
  <2> QED BY <2>1, <1>2
<1>7. CASE Drain
  <2>1. \A w \in Workers : pc'[w] # "send"
    <3>1. mux = NULL /\ pc' = pc
      BY <1>7 DEF Drain, LoopStep, workVars
    <3> QED BY <3>1, <1>t, ThreadPoolAssumption DEF Workers
  <2> QED BY <2>1, <1>2
<1>8. CASE UNCHANGED <<pc, task, finished_tasks>>
  BY <1>8, <1>1
<1>9. ASSUME NEW w \in Workers, Worker(w) \/ SpuriousWakeup(w)
      PROVE  NoUseAfterDone'
  <2>1. ASSUME NEW waiting, LoopHead(w, waiting), pc[w] \in {"lock", "woken"}
        PROVE  NoUseAfterDone'
    <3>1. mux = NULL /\ \A v \in Workers : pc[v] # "send"
      BY <2>1, <1>t, ThreadPoolAssumption DEF LoopHead, Workers
    <3>2. \A v \in Workers : pc'[v] # "send"
      <4>1. CASE Sleep(w, waiting) \/ Pop(w, waiting)
        BY <3>1, <4>1 DEF Sleep, Pop, Control, Shape
      <4>2. CASE Leave(w, waiting)
        <5>1. PICK p : p = [pc EXCEPT ![w] = "exit"]
          OBVIOUS
        <5>2. p \in [Workers -> WorkerStates] /\ pc' \in pd_cond_signal(p)
          BY <4>2, <5>1 DEF Leave, Control, Shape, WorkerStates
        <5>3. \A v \in Workers : p[v] # "send"
          BY <3>1, <5>1 DEF Control, Shape
        <5>4. pc' = p \/ \E v \in Workers : pc' = [p EXCEPT ![v] = "woken"]
          BY <5>2, SignalWakesOne
        <5> QED BY <5>2, <5>3, <5>4
      <4> QED BY <2>1, <4>1, <4>2 DEF LoopHead
    <3> QED BY <3>2, <1>2
  <2>2. CASE Lock(w) \/ WaitReturns(w)
    BY <2>1, <2>2 DEF Lock, WaitReturns
  <2>3. CASE PushFinished(w)
    <3>1. \A v \in Workers : pc'[v] = "send" => v = w
      BY <2>3, <1>t, ThreadPoolAssumption DEF PushFinished, Control, Shape, Workers
    <3>2. task'[w] \in Range(finished_tasks')
      <4>1. task' = task /\ finished_tasks' = Append(finished_tasks, task[w])
        BY <2>3 DEF PushFinished
      <4>2. finished_tasks \in Seq(Tasks) /\ task[w] \in Tasks
        BY <2>3 DEF PushFinished, Control, Shape, TaskAtHand
      <4>3. /\ Len(finished_tasks) + 1 \in DOMAIN finished_tasks'
            /\ finished_tasks'[Len(finished_tasks) + 1] = task[w]
        BY <4>1, <4>2
      <4> QED BY <4>1, <4>3 DEF Range
    <3> QED BY <3>1, <3>2
  <2>4. CASE WorkReturns(w) \/ Notify(w) \/ Unlock(w) \/ SpuriousWakeup(w)
    <3>1. \A v \in Workers : pc'[v] = "send" => pc[v] = "send" /\ task'[v] = task[v]
      BY <2>4 DEF WorkReturns, Notify, Unlock, SpuriousWakeup, Control, Shape
    <3>2. finished_tasks' = finished_tasks
      BY <2>4 DEF WorkReturns, Notify, Unlock, SpuriousWakeup
    <3> QED BY <3>1, <3>2, <1>1
  <2> QED BY <1>9, <2>2, <2>3, <2>4 DEF Worker
<1>10. CASE \/ Run \/ LoopExits \/ pd__notifier_io \/ OtherEvents
            \/ DoneCallback \/ DoneReturns \/ DispatchEnds \/ TickEnds
  BY <1>8, <1>10 DEF Run, LoopExits, pd__notifier_io, OtherEvents, DoneCallback,
                     DoneReturns, DispatchEnds, TickEnds, LoopStep, workVars
<1> QED BY <1>3, <1>4, <1>5, <1>6, <1>7, <1>8, <1>9, <1>10
        DEF Next, User, Loop, vars, workVars

(* A completed task keeps a wake-up behind it: the worker notifies after   *)
(* it pushed, and the loop reads the wake-ups before it empties the queue. *)
LEMMA NoLostCompletionStep ==
    ASSUME Control, NoLostCompletion, [Next]_vars
    PROVE  NoLostCompletion'
<1> USE DEF NoLostCompletion, At
<1>1. ASSUME signals' = signals, finished_tasks' = finished_tasks,
             loop = "drain" => loop' = "drain",
             \A w \in Workers : pc[w] = "send" => pc'[w] = "send"
      PROVE  NoLostCompletion'
  BY <1>1
<1>2. CASE UNCHANGED <<signals, finished_tasks, loop, pc>>
  BY <1>1, <1>2
<1>3. ASSUME NEW n \in 0 .. MaxThreads, pd_threadpool_init(n)
      PROVE  NoLostCompletion'
  <2>1. \A w \in Workers : pc[w] # "send"
    BY <1>3 DEF pd_threadpool_init, Control, ThreadsExist, Workers
  <2> QED BY <1>1, <1>3, <2>1 DEF pd_threadpool_init, loopVars
<1>4. ASSUME NEW t \in Tasks, pd_task_submit(t)
      PROVE  NoLostCompletion'
  <2>1. \A w \in Workers : pc[w] = "send" => pc'[w] = "send"
    BY <1>4, SignalWakesOne DEF pd_task_submit, SubmitWakes, Control, Shape
  <2> QED BY <2>1, <1>1, <1>4 DEF pd_task_submit
<1>5. CASE pd_threadpool_end
  <2>1. \A w \in Workers : pc[w] = "send" => pc'[w] = "send"
    BY <1>5, SignalWakesOne DEF pd_threadpool_end, Control, Shape
  <2> QED BY <2>1, <1>1, <1>5 DEF pd_threadpool_end, UserCode
<1>6. CASE EndJoined
  <2>1. \A w \in Workers : pc[w] # "send"
    BY <1>6 DEF EndJoined, Control, ThreadsExist, Threads, Workers, Shape
  <2> QED BY <2>1, <1>1, <1>6 DEF EndJoined
<1>7. CASE Drain \/ pd__notifier_io
  BY <1>7 DEF Drain, pd__notifier_io, LoopStep
<1>8. CASE \/ Run \/ LoopExits \/ OtherEvents
           \/ DoneCallback \/ DoneReturns \/ DispatchEnds \/ TickEnds
  BY <1>1, <1>8 DEF Run, LoopExits, OtherEvents, DoneCallback,
                    DoneReturns, DispatchEnds, TickEnds, LoopStep, workVars
<1>9. ASSUME NEW w \in Workers, Worker(w) \/ SpuriousWakeup(w)
      PROVE  NoLostCompletion'
  <2>1. ASSUME NEW waiting, LoopHead(w, waiting), pc[w] \in {"lock", "woken"}
        PROVE  NoLostCompletion'
    <3>1. \A v \in Workers : pc[v] # "send"
      BY <2>1, ThreadPoolAssumption DEF LoopHead, Workers, Control, LockHeld
    <3> QED BY <1>1, <2>1, <3>1 DEF LoopHead, loopVars
  <2>2. CASE Lock(w) \/ WaitReturns(w)
    BY <2>1, <2>2 DEF Lock, WaitReturns
  <2>3. CASE PushFinished(w)
    <3>1. pc'[w] = "send"
      BY <2>3 DEF PushFinished, Control, Shape
    <3> QED BY <3>1
  <2>4. CASE Notify(w)
    <3>1. signals' > 0
      BY <2>4, ThreadPoolAssumption DEF Notify, pd_notifier_send, Control, Shape
    <3> QED BY <3>1
  <2>5. CASE WorkReturns(w) \/ Unlock(w) \/ SpuriousWakeup(w)
    <3>1. \A v \in Workers : pc[v] = "send" => pc'[v] = "send"
      BY <2>5 DEF WorkReturns, Unlock, SpuriousWakeup, Control, Shape
    <3> QED BY <3>1, <1>1, <2>5 DEF WorkReturns, Unlock, SpuriousWakeup, loopVars
  <2> QED BY <1>9, <2>2, <2>3, <2>4, <2>5 DEF Worker
<1> QED BY <1>2, <1>3, <1>4, <1>5, <1>6, <1>7, <1>8, <1>9
        DEF Next, User, Loop, vars, workVars, loopVars

(* While a thread is blocked, awake threads cover the queue: a submission  *)
(* wakes one, and a thread only blocks when the queue is empty.            *)
LEMMA WorkCoveredStep ==
    ASSUME Control, WaitersCounted, WorkCovered, [Next]_vars
    PROVE  WorkCovered'
<1>S. \A x : x \in Awake <=> x \in {"lock", "woken", "finish", "send", "unlock"}
  BY DEF Awake
<1>t. /\ pc \in [Workers -> WorkerStates] /\ tasks \in Seq(Tasks)
      /\ abort_threads \in BOOLEAN
  BY DEF Control, Shape
<1>p. /\ pc \in [Workers -> WorkerStates] /\ tasks \in Seq(Tasks)
      /\ abort_threads \in BOOLEAN
      /\ Len(tasks) \in Nat /\ Count(pc, Awake) \in Nat
  <2>1. Count(pc, Awake) \in Nat
    BY CountType
  <2>2. Len(tasks) \in Nat
    BY <1>t
  <2> QED BY <1>t, <2>1, <2>2
<1>m. \A w \in Workers, x \in WorkerStates : Moved(w, x) =>
         /\ (pc[w] \in Awake <=> x \in Awake) => Count(pc', Awake) = Count(pc, Awake)
         /\ pc[w] \in Awake /\ x \notin Awake => Count(pc', Awake) = Count(pc, Awake) - 1
         /\ pc[w] \notin Awake /\ x \in Awake => Count(pc', Awake) = Count(pc, Awake) + 1
  BY MoveStep
<1>1. CASE UNCHANGED <<pc, tasks, abort_threads>>
  BY <1>1 DEF WorkCovered
<1>2. ASSUME NEW n \in 0 .. MaxThreads, pd_threadpool_init(n)
      PROVE  WorkCovered'
  <2>1. \A w \in Workers : pc'[w] # "wait"
    BY <1>2 DEF pd_threadpool_init
  <2> QED BY <2>1 DEF WorkCovered
<1>3. ASSUME NEW t \in Tasks, pd_task_submit(t)
      PROVE  WorkCovered'
  <2>1. Len(tasks') = Len(tasks) + 1 /\ abort_threads' = abort_threads
    BY <1>3, <1>p DEF pd_task_submit
  <2>2. CASE \A v \in Workers : pc[v] # "wait"
    <3>1. pc' = pc
      BY <1>3, <1>p, <2>2, SignalWakesOne DEF pd_task_submit, SubmitWakes
    <3> QED BY <2>2, <3>1 DEF WorkCovered
  <2>3. CASE \E v \in Workers : pc[v] = "wait"
    <3>1. waiting_threads > 0
      <4>1. PICK v \in Workers : pc[v] \in Blocked
        BY <2>3 DEF Blocked
      <4>2. Count(pc, Blocked) \in Nat \ {0}
        BY <4>1, CountPositive
      <4> QED BY <4>2 DEF WaitersCounted
    <3>2. PICK v \in Workers : pc[v] = "wait" /\ Moved(v, "woken")
      BY <1>3, <1>p, <2>3, <3>1, SignalWakesOne DEF pd_task_submit, SubmitWakes, Moved
    <3>3. Count(pc', Awake) = Count(pc, Awake) + 1
      BY <3>2, <1>m, <1>S DEF WorkerStates
    <3> QED BY <1>p, <2>1, <2>3, <3>3 DEF WorkCovered
  <2> QED BY <2>2, <2>3
<1>4. CASE pd_threadpool_end
  BY <1>4 DEF pd_threadpool_end, WorkCovered
<1>5. CASE EndJoined
  <2>1. \A w \in Workers : pc'[w] # "wait"
    BY <1>5 DEF EndJoined
  <2> QED BY <2>1 DEF WorkCovered
<1>6. ASSUME NEW w \in Workers, Worker(w) \/ SpuriousWakeup(w)
      PROVE  WorkCovered'
  <2>1. ASSUME NEW waiting, LoopHead(w, waiting), pc[w] \in {"lock", "woken"}
        PROVE  WorkCovered'
    <3>1. CASE Sleep(w, waiting)
      <4>1. Len(tasks') = 0
        BY <3>1 DEF Sleep, Control, QueueCounted
      <4>2. Count(pc', Awake) \in Nat
        BY CountType
      <4> QED BY <4>1, <4>2 DEF WorkCovered
    <3>2. CASE Leave(w, waiting)
      BY <2>1, <3>2 DEF Leave, LoopHead, WorkCovered
    <3>3. CASE Pop(w, waiting)
      <4>1. tasks # <<>> /\ Moved(w, "work") /\ tasks' = Tail(tasks)
        BY <3>3, <1>p DEF Pop, Moved, Control, QueueCounted
      <4>2. Len(tasks') = Len(tasks) - 1
        BY <4>1, <1>p
      <4>3. Count(pc', Awake) = Count(pc, Awake) - 1
        BY <2>1, <4>1, <1>m, <1>S DEF WorkerStates
      <4>4. (\E v \in Workers : pc'[v] = "wait") => \E v \in Workers : pc[v] = "wait"
        BY <4>1, <1>p DEF Moved
      <4>5. ~abort_threads
        BY <3>3 DEF Pop
      <4> QED BY <1>p, <4>2, <4>3, <4>4, <4>5 DEF WorkCovered
    <3> QED BY <2>1, <3>1, <3>2, <3>3 DEF LoopHead
  <2>2. CASE Lock(w) \/ WaitReturns(w)
    BY <2>1, <2>2 DEF Lock, WaitReturns
  <2>3. CASE \/ WorkReturns(w) \/ PushFinished(w) \/ Notify(w) \/ Unlock(w)
             \/ SpuriousWakeup(w)
    <3>1. /\ UNCHANGED <<tasks, abort_threads>>
          /\ \/ pc[w] = "work" /\ Moved(w, "finish")
             \/ pc[w] = "finish" /\ Moved(w, "send")
             \/ pc[w] = "send" /\ Moved(w, "unlock")
             \/ pc[w] = "unlock" /\ Moved(w, "lock")
             \/ pc[w] = "wait" /\ Moved(w, "woken")
      BY <2>3 DEF WorkReturns, PushFinished, Notify, Unlock, SpuriousWakeup,
                  Moved, poolVars
    <3>2. Count(pc', Awake) \in {Count(pc, Awake), Count(pc, Awake) + 1}
      BY <3>1, <1>m, <1>S DEF WorkerStates
    <3>3. (\E v \in Workers : pc'[v] = "wait") => \E v \in Workers : pc[v] = "wait"
      BY <3>1, <1>p DEF Moved
    <3> QED BY <1>p, <3>1, <3>2, <3>3 DEF WorkCovered
  <2> QED BY <1>6, <2>2, <2>3 DEF Worker
<1> QED BY <1>1, <1>2, <1>3, <1>4, <1>5, <1>6, LoopStepKeepsPool
        DEF Next, User, Run, LoopStep, vars, poolVars, workVars
-----------------------------------------------------------------------------
(* Who has a task.                                                         *)

Distinct(q) == \A i, j \in DOMAIN q : q[i] = q[j] => i = j

(* A task is once in one of the queues or with one worker. *)
QueuesApart ==
    /\ Distinct(tasks) /\ Distinct(finished_tasks) /\ Distinct(tasks_done)
    /\ Range(tasks) \cap Range(finished_tasks) = {}
    /\ Range(tasks) \cap Range(tasks_done) = {}
    /\ Range(finished_tasks) \cap Range(tasks_done) = {}

HeldApart ==
    \A w \in Workers : pc[w] \in Holding =>
        /\ task[w] \notin Range(tasks)
        /\ task[w] \notin Range(finished_tasks)
        /\ task[w] \notin Range(tasks_done)
        /\ \A v \in Workers : pc[v] \in Holding /\ task[v] = task[w] => v = w

Owned == QueuesApart /\ HeldApart

(* A queue after a push of something that is not in it. *)
LEMMA AppendFacts ==
    ASSUME NEW T, NEW q \in Seq(T), NEW e \in T, Distinct(q), e \notin Range(q)
    PROVE  Range(Append(q, e)) = Range(q) \cup {e} /\ Distinct(Append(q, e))
<1> DEFINE r == Append(q, e)
<1>1. /\ Len(q) \in Nat /\ DOMAIN q = 1 .. Len(q) /\ DOMAIN r = 1 .. Len(q) + 1
      /\ r[Len(q) + 1] = e /\ \A i \in DOMAIN q : r[i] = q[i]
  OBVIOUS
<1> HIDE DEF r
<1>2. DOMAIN r = DOMAIN q \cup {Len(q) + 1} /\ Len(q) + 1 \notin DOMAIN q
  BY <1>1
<1>3. Range(r) = Range(q) \cup {e}
  BY <1>1, <1>2 DEF Range
<1>4. \A i \in DOMAIN q : r[i] \in Range(q) /\ r[i] # e
  BY <1>1 DEF Range
<1>5. Distinct(r)
  BY <1>1, <1>2, <1>4 DEF Distinct
<1> QED BY <1>3, <1>5 DEF r

(* A queue after a pop. *)
LEMMA TailFacts ==
    ASSUME NEW T, NEW q \in Seq(T), q # <<>>, Distinct(q)
    PROVE  /\ Head(q) \in T /\ Head(q) \in Range(q)
           /\ Range(Tail(q)) = Range(q) \ {Head(q)} /\ Distinct(Tail(q))
<1> DEFINE r == Tail(q)
<1>1. /\ Len(q) \in Nat \ {0} /\ DOMAIN q = 1 .. Len(q) /\ DOMAIN r = 1 .. Len(q) - 1
      /\ Head(q) = q[1] /\ \A i \in DOMAIN r : r[i] = q[i + 1]
      /\ q[1] \in T
  OBVIOUS
<1> HIDE DEF r
<1>2. 1 \in DOMAIN q /\ \A i \in DOMAIN r : i + 1 \in DOMAIN q /\ i + 1 # 1 /\ i \in Nat
  BY <1>1
<1>3. \A k \in DOMAIN q \ {1} : k - 1 \in DOMAIN r /\ r[k - 1] = q[k]
  BY <1>1
<1>4. Range(r) = Range(q) \ {Head(q)}
  <2>1. \A i \in DOMAIN r : r[i] \in Range(q) \ {Head(q)}
    BY <1>1, <1>2 DEF Range, Distinct
  <2>2. \A x \in Range(q) \ {Head(q)} : x \in Range(r)
    BY <1>1, <1>3 DEF Range
  <2> QED BY <2>1, <2>2 DEF Range
<1>5. Distinct(r)
  <2> SUFFICES ASSUME NEW i \in DOMAIN r, NEW j \in DOMAIN r, r[i] = r[j]
               PROVE  i = j
    BY DEF Distinct
  <2>1. i + 1 = j + 1
    BY <1>1, <1>2 DEF Distinct
  <2> QED BY <2>1, <1>2
<1> QED BY <1>1, <1>2, <1>4, <1>5 DEF r, Range

(* A step that leaves the queues alone and gives no worker a task. *)
LEMMA OwnedFrame ==
    ASSUME Owned, UNCHANGED <<tasks, finished_tasks, tasks_done>>,
           \A w \in Workers :
               pc'[w] \in Holding => pc[w] \in Holding /\ task'[w] = task[w]
    PROVE  Owned'
BY DEF Owned, QueuesApart, HeldApart, Distinct, Range

(* Every step keeps the tasks apart. *)
LEMMA OwnedStep ==
    ASSUME Control, DoneIsLocal, Owned, [Next]_vars
    PROVE  Owned'
<1>p. /\ pc \in [Workers -> WorkerStates] /\ task \in [Workers -> Tasks \cup {NULL}]
      /\ tasks \in Seq(Tasks) /\ finished_tasks \in Seq(Tasks) /\ tasks_done \in Seq(Tasks)
  BY DEF Control, Shape
<1>S. \A x : x \in Holding <=> x = "work" \/ x = "finish"
  BY DEF Holding
<1>1. CASE UNCHANGED <<tasks, finished_tasks, tasks_done, pc, task>>
  BY <1>1, OwnedFrame
<1>2. ASSUME NEW n \in 0 .. MaxThreads, pd_threadpool_init(n)
      PROVE  Owned'
  <2>1. /\ \A w \in Workers : pc'[w] \in {"lock", "none"}
        /\ UNCHANGED <<tasks, finished_tasks, tasks_done>>
    BY <1>2 DEF pd_threadpool_init, loopVars
  <2> QED BY <2>1, <1>S, OwnedFrame
<1>3. ASSUME NEW t \in Tasks, pd_task_submit(t)
      PROVE  Owned'
  <2>1. pc' = pc \/ \E v \in Workers : pc[v] = "wait" /\ pc' = [pc EXCEPT ![v] = "woken"]
    BY <1>3, <1>p, SignalWakesOne DEF pd_task_submit, SubmitWakes
  <2>2. \A w \in Workers : pc'[w] \in Holding <=> pc[w] \in Holding
    BY <2>1, <1>p, <1>S
  <2>3. /\ tasks' = Append(tasks, t) /\ UNCHANGED <<finished_tasks, tasks_done, task>>
        /\ t \notin Range(tasks) /\ t \notin Range(finished_tasks)
        /\ t \notin Range(tasks_done)
        /\ \A w \in Workers : pc[w] \in Holding => task[w] # t
    BY <1>3 DEF pd_task_submit, UserOwns, At, Holding
  <2>4. Range(tasks') = Range(tasks) \cup {t} /\ Distinct(tasks')
    BY <2>3, <1>p, AppendFacts DEF Owned, QueuesApart
  <2>5. QueuesApart'
    BY <2>3, <2>4 DEF Owned, QueuesApart
  <2>6. HeldApart'
    BY <2>2, <2>3, <2>4 DEF Owned, HeldApart
  <2> QED BY <2>5, <2>6 DEF Owned
<1>4. CASE pd_threadpool_end
  <2>1. pc' = pc \/ \E v \in Workers : pc[v] = "wait" /\ pc' = [pc EXCEPT ![v] = "woken"]
    BY <1>4, <1>p, SignalWakesOne DEF pd_threadpool_end
  <2>2. \A w \in Workers : pc'[w] \in Holding => pc[w] \in Holding
    BY <2>1, <1>p, <1>S
  <2>3. UNCHANGED <<tasks, finished_tasks, tasks_done, task>>
    BY <1>4 DEF pd_threadpool_end
  <2> QED BY <2>2, <2>3, OwnedFrame
<1>5. CASE EndJoined
  <2>1. /\ \A w \in Workers : pc'[w] = "none"
        /\ UNCHANGED <<tasks, finished_tasks, tasks_done>>
    BY <1>5 DEF EndJoined
  <2> QED BY <2>1, <1>S, OwnedFrame
<1>6. CASE Drain
  <2>1. /\ tasks_done' = finished_tasks /\ finished_tasks' = <<>>
        /\ tasks_done = <<>> /\ UNCHANGED <<tasks, pc, task>>
    BY <1>6 DEF Drain, LoopStep, poolVars, workVars, DoneIsLocal, InCallback
  <2>2. Range(finished_tasks') = {} /\ Distinct(finished_tasks')
    BY <2>1 DEF Range, Distinct
  <2>3. Range(tasks_done') = Range(finished_tasks) /\ Distinct(tasks_done')
    BY <2>1 DEF Owned, QueuesApart
  <2>4. QueuesApart'
    BY <2>1, <2>2, <2>3 DEF Owned, QueuesApart
  <2>5. HeldApart'
    BY <2>1, <2>2, <2>3 DEF Owned, HeldApart
  <2> QED BY <2>4, <2>5 DEF Owned
<1>7. CASE DoneCallback
  <2>1. /\ tasks_done # <<>> /\ tasks_done' = Tail(tasks_done)
        /\ UNCHANGED <<tasks, finished_tasks, pc, task>>
    BY <1>7 DEF DoneCallback, LoopStep, poolVars, workVars
  <2>2. Range(tasks_done') \subseteq Range(tasks_done) /\ Distinct(tasks_done')
    BY <2>1, <1>p, TailFacts DEF Owned, QueuesApart
  <2>3. QueuesApart'
    BY <2>1, <2>2 DEF Owned, QueuesApart
  <2>4. HeldApart'
    BY <2>1, <2>2 DEF Owned, HeldApart
  <2> QED BY <2>3, <2>4 DEF Owned
<1>8. ASSUME NEW w \in Workers, Worker(w) \/ SpuriousWakeup(w)
      PROVE  Owned'
  <2>1. ASSUME NEW waiting, LoopHead(w, waiting), pc[w] \in {"lock", "woken"}
        PROVE  Owned'
    <3>0. UNCHANGED <<finished_tasks, tasks_done>>
      BY <2>1 DEF LoopHead, loopVars
    <3>1. CASE Sleep(w, waiting)
      <4>1. /\ \A v \in Workers : pc'[v] \in Holding => pc[v] \in Holding
            /\ UNCHANGED <<tasks, task>>
        BY <3>1, <1>p, <1>S DEF Sleep
      <4> QED BY <3>0, <4>1, OwnedFrame
    <3>2. CASE Leave(w, waiting)
      <4>1. PICK p : p = [pc EXCEPT ![w] = "exit"]
        OBVIOUS
      <4>2. p \in [Workers -> WorkerStates] /\ pc' \in pd_cond_signal(p)
        BY <1>p, <3>2, <4>1 DEF Leave, WorkerStates
      <4>3. pc' = p \/ \E v \in Workers : p[v] = "wait" /\ pc' = [p EXCEPT ![v] = "woken"]
        BY <4>2, SignalWakesOne
      <4>4. \A v \in Workers : pc'[v] \in Holding => p[v] \in Holding
        BY <4>2, <4>3, <1>S
      <4>5. \A v \in Workers : p[v] \in Holding => pc[v] \in Holding
        BY <4>1, <1>p, <1>S
      <4> QED BY <3>0, <3>2, <4>4, <4>5, OwnedFrame DEF Leave
    <3>3. CASE Pop(w, waiting)
      <4>1. tasks # <<>> /\ tasks' = Tail(tasks)
        BY <3>3, <1>p DEF Pop, Control, QueueCounted
      <4>2. /\ Head(tasks) \in Range(tasks)
            /\ Range(tasks') = Range(tasks) \ {Head(tasks)} /\ Distinct(tasks')
        BY <4>1, <1>p, TailFacts DEF Owned, QueuesApart
      <4>3. /\ task'[w] = Head(tasks)
            /\ \A v \in Workers \ {w} : pc'[v] = pc[v] /\ task'[v] = task[v]
        BY <3>3, <1>p DEF Pop
      <4>4. QueuesApart'
        BY <3>0, <4>2 DEF Owned, QueuesApart
      <4>5. HeldApart'
        BY <3>0, <4>2, <4>3 DEF Owned, QueuesApart, HeldApart
      <4> QED BY <4>4, <4>5 DEF Owned
    <3> QED BY <2>1, <3>1, <3>2, <3>3 DEF LoopHead
  <2>2. CASE Lock(w) \/ WaitReturns(w)
    BY <2>1, <2>2 DEF Lock, WaitReturns
  <2>3. CASE PushFinished(w)
    <3>1. /\ pc[w] = "finish" /\ pc'[w] = "send" /\ task[w] \in Tasks
          /\ \A v \in Workers \ {w} : pc'[v] = pc[v]
          /\ finished_tasks' = Append(finished_tasks, task[w])
          /\ UNCHANGED <<tasks, tasks_done, task>>
      BY <2>3, <1>p DEF PushFinished, poolVars, loopVars, Control, TaskAtHand
    <3>2. /\ Range(finished_tasks') = Range(finished_tasks) \cup {task[w]}
          /\ Distinct(finished_tasks')
      BY <3>1, <1>p, <1>S, AppendFacts DEF Owned, QueuesApart, HeldApart
    <3>3. QueuesApart'
      BY <3>1, <3>2, <1>S DEF Owned, QueuesApart, HeldApart
    <3>4. HeldApart'
      BY <3>1, <3>2, <1>S DEF Owned, HeldApart
    <3> QED BY <3>3, <3>4 DEF Owned
  <2>4. CASE WorkReturns(w) \/ Notify(w) \/ Unlock(w) \/ SpuriousWakeup(w)
    <3>1. /\ UNCHANGED <<tasks, finished_tasks, tasks_done>>
          /\ \A v \in Workers :
                pc'[v] \in Holding => pc[v] \in Holding /\ task'[v] = task[v]
      BY <2>4, <1>p, <1>S DEF WorkReturns, Notify, Unlock, SpuriousWakeup,
                              poolVars, loopVars
    <3> QED BY <3>1, OwnedFrame
  <2> QED BY <1>8, <2>2, <2>3, <2>4 DEF Worker
<1>9. CASE Run \/ LoopExits \/ pd__notifier_io \/ OtherEvents \/ DoneReturns
           \/ DispatchEnds \/ TickEnds
  BY <1>1, <1>9 DEF Run, LoopExits, pd__notifier_io, OtherEvents, DoneReturns,
                    DispatchEnds, TickEnds, LoopStep, poolVars, workVars
<1> QED BY <1>1, <1>2, <1>3, <1>4, <1>5, <1>6, <1>7, <1>8, <1>9
        DEF Next, User, Loop, vars, poolVars, workVars, loopVars
-----------------------------------------------------------------------------
(* The theorems.                                                           *)

(* The inductive invariant. *)
IInv ==
    /\ Control /\ WaitersCounted
    /\ DoneIsLocal /\ RefsCounted
    /\ NoUseAfterDone /\ NoLostCompletion
    /\ WorkCovered /\ Owned

(* The inductive invariant holds of every reachable state. *)
LEMMA Invariance == Spec => []IInv
<1>1. Init => IInv
  <2> SUFFICES ASSUME Init PROVE IInv
    OBVIOUS
  <2>1. \A w \in Workers : pc[w] = "none"
    BY DEF Init
  <2>6. Shape /\ QueueCounted
    <3>1. pc \in [Workers -> WorkerStates] /\ task \in [Workers -> Tasks \cup {NULL}]
      BY DEF Init, WorkerStates
    <3>2. tasks \in Seq(Tasks) /\ finished_tasks \in Seq(Tasks) /\ tasks_done \in Seq(Tasks)
      BY DEF Init
    <3>3. nthreads \in 0 .. MaxThreads /\ signals \in 0 .. SendMax
      BY ThreadPoolAssumption DEF Init
    <3>5. abort_threads \in BOOLEAN
      BY DEF Init
    <3>4. ntasks = Len(tasks) /\ mux = NULL /\ loop = "user" /\ resume = "user"
      BY DEF Init
    <3> QED BY <3>1, <3>2, <3>3, <3>4, <3>5 DEF Shape, QueueCounted, LoopStates
  <2>7. LockHeld /\ ThreadsExist /\ TaskAtHand
    BY <2>1, ThreadPoolAssumption DEF Init, LockHeld, ThreadsExist, TaskAtHand, Workers
  <2>2. Control
    BY <2>6, <2>7 DEF Control
  <2>3. Count(pc, Blocked) = 0 /\ Count(pc, Holding) = 0
    BY <2>1, CountZero DEF Blocked, Holding
  <2>4. WaitersCounted /\ RefsCounted /\ DoneIsLocal
    BY <2>3 DEF Init, WaitersCounted, RefsCounted, DoneIsLocal, InCallback
  <2>5. NoUseAfterDone /\ NoLostCompletion /\ WorkCovered
    BY <2>1 DEF Init, NoUseAfterDone, NoLostCompletion, WorkCovered, At
  <2>8. Owned
    <3>1. Distinct(<<>>) /\ Range(<<>>) = {}
      BY DEF Distinct, Range
    <3> QED BY <2>1, <3>1 DEF Init, Owned, QueuesApart, HeldApart, Holding
  <2> QED BY <2>2, <2>4, <2>5, <2>8 DEF IInv
<1>2. IInv /\ [Next]_vars => IInv'
  BY ControlStep, WaitersStep, DoneIsLocalStep, RefsStep, NoUseAfterDoneStep,
     NoLostCompletionStep, WorkCoveredStep, OwnedStep DEF IInv
<1> QED BY <1>1, <1>2, PTL DEF Spec

(* Every variable keeps its type; the counters never go below zero. *)
THEOREM TypeCorrect == Spec => []TypeOK
<1>1. IInv => TypeOK
  <2> SUFFICES ASSUME IInv PROVE TypeOK
    OBVIOUS
  <2>1. Shape /\ ntasks = Len(tasks)
    BY DEF IInv, Control, QueueCounted
  <2>2. Len(tasks) \in Nat /\ Len(finished_tasks) \in Nat /\ Len(tasks_done) \in Nat
    BY <2>1 DEF Shape
  <2>3. Count(pc, Blocked) \in Nat /\ Count(pc, Holding) \in Nat /\ InCallback \in Nat
    BY CountType DEF InCallback
  <2>4. waiting_threads \in Nat /\ refs \in Nat /\ ntasks \in Nat
    BY <2>1, <2>2, <2>3 DEF IInv, WaitersCounted, RefsCounted
  <2> QED BY <2>1, <2>4 DEF Shape, TypeOK
<1> QED BY <1>1, Invariance, PTL

(* The queue counter and the count of waiting threads are exact. *)
THEOREM CountersAreExact == Spec => []CountersExact
<1>1. IInv => CountersExact
  BY DEF IInv, Control, QueueCounted, WaitersCounted, Count, Blocked,
         CountersExact, At
<1> QED BY <1>1, Invariance, PTL

(* No worker looks at a task that its done callback may have freed. *)
THEOREM NoUseAfterDoneHolds == Spec => []NoUseAfterDone
BY Invariance, PTL DEF IInv

(* No completed task is forgotten, whatever the wake-up descriptor holds. *)
THEOREM CompletionsNotLost == Spec => []NoLostCompletion
BY Invariance, PTL DEF IInv

(* The loop's reference count is exact: pd_io_run returns when, and only   *)
(* when, no accepted task is under way.                                    *)
THEOREM RefsAreExact == Spec => []RefsExact
<1>1. IInv => RefsExact
  BY DEF IInv, RefsCounted, Count, Holding, InCallback, RefsExact, At
<1> QED BY <1>1, Invariance, PTL

(* No wake-up is lost: blocked threads are never needed. *)
THEOREM WakeupsNotLost == Spec => []WorkConserving
<1>1. IInv => WorkConserving
  BY DEF IInv, WorkCovered, Count, Awake, WorkConserving, At
<1> QED BY <1>1, Invariance, PTL

(* Two queues with nothing in common, one behind the other. *)
LEMMA ConcatFacts ==
    ASSUME NEW T, NEW q \in Seq(T), NEW r \in Seq(T),
           Distinct(q), Distinct(r), Range(q) \cap Range(r) = {}
    PROVE  /\ q \o r \in Seq(T) /\ Distinct(q \o r)
           /\ Range(q \o r) = Range(q) \cup Range(r)
<1> DEFINE s == q \o r
<1>1. /\ Len(q) \in Nat /\ Len(r) \in Nat /\ s \in Seq(T)
      /\ DOMAIN q = 1 .. Len(q) /\ DOMAIN r = 1 .. Len(r)
      /\ DOMAIN s = 1 .. Len(q) + Len(r)
      /\ \A i \in DOMAIN s : s[i] = IF i <= Len(q) THEN q[i] ELSE r[i - Len(q)]
  OBVIOUS
<1> HIDE DEF s
<1>2. \A i \in DOMAIN s : \/ i \in DOMAIN q /\ s[i] = q[i]
                          \/ i - Len(q) \in DOMAIN r /\ s[i] = r[i - Len(q)]
  BY <1>1
<1>3. /\ \A i \in DOMAIN q : i \in DOMAIN s /\ s[i] = q[i]
      /\ \A i \in DOMAIN r : i + Len(q) \in DOMAIN s /\ s[i + Len(q)] = r[i]
  <2>1. ASSUME NEW i \in DOMAIN r
        PROVE  i + Len(q) \in DOMAIN s /\ s[i + Len(q)] = r[i]
    <3>1. /\ i + Len(q) \in DOMAIN s /\ ~(i + Len(q) <= Len(q))
          /\ (i + Len(q)) - Len(q) = i
      BY <1>1
    <3> QED BY <1>1, <3>1
  <2> QED BY <1>1, <2>1
<1>4. Range(s) = Range(q) \cup Range(r)
  BY <1>2, <1>3 DEF Range
<1>5. \A i \in DOMAIN q, j \in DOMAIN r : q[i] # r[j]
  BY DEF Range
<1>6. \A i, j \in DOMAIN s : i - Len(q) = j - Len(q) => i = j
  BY <1>1
<1>7. Distinct(s)
  BY <1>2, <1>5, <1>6 DEF Distinct
<1> QED BY <1>1, <1>4, <1>7 DEF s

(* A task is in one queue once, or with one worker, and never both: its    *)
(* one queue node is never linked twice and its work never runs twice.     *)
THEOREM TasksHaveOneHolder == Spec => []OneHolder
<1>1. IInv => OneHolder
  <2> SUFFICES ASSUME IInv PROVE OneHolder
    OBVIOUS
  <2> DEFINE q == tasks \o finished_tasks
             r == q \o tasks_done
  <2>1. tasks \in Seq(Tasks) /\ finished_tasks \in Seq(Tasks) /\ tasks_done \in Seq(Tasks)
    BY DEF IInv, Control, Shape
  <2>2. /\ q \in Seq(Tasks) /\ Distinct(q)
        /\ Range(q) = Range(tasks) \cup Range(finished_tasks)
    BY <2>1, ConcatFacts DEF IInv, Owned, QueuesApart
  <2>3. Range(q) \cap Range(tasks_done) = {} /\ Distinct(tasks_done)
    BY <2>2 DEF IInv, Owned, QueuesApart
  <2> HIDE DEF q
  <2>4. Distinct(r) /\ Range(r) = Range(q) \cup Range(tasks_done)
    BY <2>1, <2>2, <2>3, ConcatFacts
  <2>5. IsInjective(r)
    BY <2>4 DEF Distinct, IsInjective
  <2>6. r = tasks \o finished_tasks \o tasks_done
    BY DEF q
  <2> HIDE DEF r
  <2>7. \A w \in At({"work", "finish"}) :
           /\ task[w] \in Tasks \ Range(r)
           /\ \A v \in At({"work", "finish"}) : task[v] = task[w] => v = w
    BY <2>2, <2>4 DEF IInv, Owned, HeldApart, Holding, At, Control, TaskAtHand
  <2> QED BY <2>5, <2>6, <2>7 DEF OneHolder
<1> QED BY <1>1, Invariance, PTL
-----------------------------------------------------------------------------
(* The pool implements the task service.                                   *)

Running == {task[w] : w \in At({"work", "finish"})}

Completed == tasks_done \o finished_tasks

(* Pushing and popping at the ends of two queues, one behind the other. *)
LEMMA ConcatEnds ==
    ASSUME NEW T, NEW q \in Seq(T), NEW r \in Seq(T)
    PROVE  /\ \A e \in T : q \o Append(r, e) = Append(q \o r, e)
           /\ q # <<>> => q \o r # <<>> /\ Tail(q \o r) = Tail(q) \o r
<1>1. ASSUME NEW e \in T
      PROVE  q \o Append(r, e) = Append(q \o r, e)
  <2>1. Append(r, e) = r \o <<e>> /\ <<e>> \in Seq(T) /\ q \o r \in Seq(T)
    BY AppendIsConcat, ConcatProperties
  <2>2. Append(q \o r, e) = (q \o r) \o <<e>>
    BY <2>1, AppendIsConcat
  <2> QED BY <2>1, <2>2, ConcatAssociative
<1>2. ASSUME q # <<>>
      PROVE  q \o r # <<>> /\ Tail(q \o r) = Tail(q) \o r
  <2>1. Tail(q) \in Seq(T) /\ <<Head(q)>> \in Seq(T) /\ q = <<Head(q)>> \o Tail(q)
    BY <1>2
  <2> DEFINE v == Tail(q) \o r
  <2>2. v \in Seq(T) /\ q \o r = <<Head(q)>> \o v
    BY <2>1, ConcatAssociative, ConcatProperties
  <2> HIDE DEF v
  <2>3. <<Head(q)>> \o v # <<>> /\ Tail(<<Head(q)>> \o v) = v
    BY <2>1, <2>2
  <2> QED BY <2>2, <2>3 DEF v
<1> QED BY <1>1, <1>2

(* A step that touches no queue and gives or takes no task is a stutter of *)
(* the service.                                                            *)
LEMMA ServiceStutters ==
    ASSUME tasks' = tasks, Completed' = Completed,
           \A w \in Workers : /\ pc'[w] \in Holding <=> pc[w] \in Holding
                              /\ pc[w] \in Holding => task'[w] = task[w]
    PROVE  Running' = Running /\ UNCHANGED Service!vars
<1>1. Running' = Running
  BY DEF Running, At, Holding
<1> QED BY <1>1 DEF Running, Completed, Service!vars

(* Every step of the pool is one step of the service or a stutter. *)
LEMMA ServiceStep ==
    ASSUME IInv, [Next]_vars
    PROVE  [Service!Next]_(Service!vars)
<1>p. /\ pc \in [Workers -> WorkerStates] /\ task \in [Workers -> Tasks \cup {NULL}]
      /\ tasks \in Seq(Tasks) /\ finished_tasks \in Seq(Tasks) /\ tasks_done \in Seq(Tasks)
  BY DEF IInv, Control, Shape
<1>S. \A x : x \in Holding <=> x = "work" \/ x = "finish"
  BY DEF Holding
<1>1. CASE UNCHANGED <<tasks, finished_tasks, tasks_done, pc, task>>
  BY <1>1, ServiceStutters DEF Completed
<1>2. ASSUME NEW n \in 0 .. MaxThreads, pd_threadpool_init(n)
      PROVE  UNCHANGED Service!vars
  <2>1. /\ \A w \in Workers : pc[w] = "none" /\ pc'[w] \in {"lock", "none"}
        /\ UNCHANGED <<tasks, finished_tasks, tasks_done>>
    BY <1>2 DEF pd_threadpool_init, loopVars, IInv, Control, ThreadsExist, Workers
  <2>2. Completed' = Completed
    BY <2>1 DEF Completed
  <2> QED BY <2>1, <2>2, <1>S, ServiceStutters
<1>3. ASSUME NEW t \in Tasks, pd_task_submit(t)
      PROVE  Service!Submit(t)
  <2>1. pc' = pc \/ \E v \in Workers : pc[v] = "wait" /\ pc' = [pc EXCEPT ![v] = "woken"]
    BY <1>3, <1>p, SignalWakesOne DEF pd_task_submit, SubmitWakes
  <2>2. \A w \in Workers : pc'[w] \in Holding <=> pc[w] \in Holding
    BY <2>1, <1>p, <1>S
  <2>3. /\ tasks' = Append(tasks, t) /\ UNCHANGED <<finished_tasks, tasks_done, task>>
        /\ t \notin Range(tasks) /\ t \notin Range(finished_tasks)
        /\ t \notin Range(tasks_done) /\ t \notin Running
    BY <1>3 DEF pd_task_submit, UserOwns, Running
  <2>4. Running' = Running /\ Completed' = Completed
    BY <2>2, <2>3 DEF Running, Completed, At, Holding
  <2>5. Range(Completed) = Range(tasks_done) \cup Range(finished_tasks)
    BY <1>p, ConcatFacts DEF Completed, IInv, Owned, QueuesApart
  <2>6. t \notin Range(Completed) /\ t \notin Range(tasks)
    BY <2>3, <2>5
  <2>7. ~Service!Accepted(t)
    BY <2>3, <2>6 DEF Service!Accepted, Running, Completed, Range
  <2> QED BY <2>3, <2>4, <2>7 DEF Service!Submit, Running, Completed
<1>4. CASE pd_threadpool_end
  <2>1. pc' = pc \/ \E v \in Workers : pc[v] = "wait" /\ pc' = [pc EXCEPT ![v] = "woken"]
    BY <1>4, <1>p, SignalWakesOne DEF pd_threadpool_end
  <2>2. \A w \in Workers : pc'[w] \in Holding <=> pc[w] \in Holding
    BY <2>1, <1>p, <1>S
  <2>3. UNCHANGED <<tasks, finished_tasks, tasks_done, task>>
    BY <1>4 DEF pd_threadpool_end
  <2> QED BY <2>2, <2>3, ServiceStutters DEF Completed
<1>5. CASE EndJoined
  <2>1. /\ \A w \in Workers : pc[w] \in {"none", "exit"} /\ pc'[w] = "none"
        /\ UNCHANGED <<tasks, finished_tasks, tasks_done>>
    BY <1>5 DEF EndJoined, IInv, Control, Shape, ThreadsExist, Threads, Workers
  <2>2. Completed' = Completed
    BY <2>1 DEF Completed
  <2> QED BY <2>1, <2>2, <1>S, ServiceStutters
<1>6. CASE Drain
  <2>1. /\ tasks_done' = finished_tasks /\ finished_tasks' = <<>>
        /\ tasks_done = <<>> /\ UNCHANGED <<tasks, pc, task>>
    BY <1>6 DEF Drain, LoopStep, poolVars, workVars, IInv, DoneIsLocal, InCallback
  <2>2. Completed' = Completed
    BY <2>1, <1>p, ConcatEmptySeq DEF Completed
  <2> QED BY <2>1, <2>2, ServiceStutters
<1>7. CASE DoneCallback
  <2>1. /\ tasks_done # <<>> /\ tasks_done' = Tail(tasks_done)
        /\ UNCHANGED <<tasks, finished_tasks, pc, task>>
    BY <1>7 DEF DoneCallback, LoopStep, poolVars, workVars
  <2>2. Completed # <<>> /\ Completed' = Tail(Completed)
    BY <2>1, <1>p, ConcatEnds DEF Completed
  <2>3. Running' = Running
    BY <2>1 DEF Running, At
  <2>4. Service!Deliver
    BY <2>1, <2>2, <2>3 DEF Service!Deliver, Running, Completed
  <2> QED BY <2>4 DEF Service!Next
<1>8. ASSUME NEW w \in Workers, Worker(w) \/ SpuriousWakeup(w)
      PROVE  [Service!Next]_(Service!vars)
  <2>1. ASSUME NEW waiting, LoopHead(w, waiting), pc[w] \in {"lock", "woken"}
        PROVE  [Service!Next]_(Service!vars)
    <3>0. UNCHANGED <<finished_tasks, tasks_done>>
      BY <2>1 DEF LoopHead, loopVars
    <3>4. Completed' = Completed
      BY <3>0 DEF Completed
    <3>1. CASE Sleep(w, waiting)
      <4>2. /\ pc[w] \in {"lock", "woken"} /\ pc'[w] = "wait"
            /\ \A v \in Workers \ {w} : pc'[v] = pc[v]
            /\ UNCHANGED <<tasks, task>>
        BY <2>1, <3>1, <1>p DEF Sleep
      <4>1. \A v \in Workers : pc'[v] \in Holding <=> pc[v] \in Holding
        BY <4>2, <1>S
      <4> QED BY <3>4, <4>1, <4>2, ServiceStutters
    <3>2. CASE Leave(w, waiting)
      <4>1. PICK p : p = [pc EXCEPT ![w] = "exit"]
        OBVIOUS
      <4>2. p \in [Workers -> WorkerStates] /\ pc' \in pd_cond_signal(p)
        BY <1>p, <3>2, <4>1 DEF Leave, WorkerStates
      <4>3. pc' = p \/ \E v \in Workers : p[v] = "wait" /\ pc' = [p EXCEPT ![v] = "woken"]
        BY <4>2, SignalWakesOne
      <4>4. \A v \in Workers : pc'[v] \in Holding <=> p[v] \in Holding
        BY <4>2, <4>3, <1>S
      <4>5. \A v \in Workers : p[v] \in Holding <=> pc[v] \in Holding
        BY <2>1, <4>1, <1>p, <1>S
      <4> QED BY <3>4, <3>2, <4>4, <4>5, ServiceStutters DEF Leave
    <3>3. CASE Pop(w, waiting)
      <4>1. tasks # <<>> /\ tasks' = Tail(tasks)
        BY <3>3, <1>p DEF Pop, IInv, Control, QueueCounted
      <4>2. /\ task'[w] = Head(tasks) /\ pc'[w] = "work"
            /\ \A v \in Workers \ {w} : pc'[v] = pc[v] /\ task'[v] = task[v]
        BY <3>3, <1>p DEF Pop
      <4>3. Running' = Running \cup {Head(tasks)}
        BY <2>1, <4>2 DEF Running, At
      <4>4. Service!Start
        BY <3>4, <4>1, <4>3 DEF Service!Start, Running, Completed
      <4> QED BY <4>4 DEF Service!Next
    <3> QED BY <2>1, <3>1, <3>2, <3>3 DEF LoopHead
  <2>2. CASE Lock(w) \/ WaitReturns(w)
    BY <2>1, <2>2 DEF Lock, WaitReturns
  <2>3. CASE PushFinished(w)
    <3>1. /\ pc[w] = "finish" /\ pc'[w] = "send" /\ task[w] \in Tasks
          /\ \A v \in Workers \ {w} : pc'[v] = pc[v]
          /\ finished_tasks' = Append(finished_tasks, task[w])
          /\ UNCHANGED <<tasks, tasks_done, task>>
      BY <2>3, <1>p DEF PushFinished, poolVars, loopVars, IInv, Control, TaskAtHand
    <3>2. Completed' = Append(Completed, task[w])
      BY <3>1, <1>p, ConcatEnds DEF Completed
    <3>3. \A v \in Workers \ {w} : pc[v] \in Holding => task[v] # task[w]
      BY <3>1, <1>S DEF IInv, Owned, HeldApart
    <3>4. task[w] \in Running /\ Running' = Running \ {task[w]}
      BY <3>1, <3>3 DEF Running, At, Holding
    <3>5. PICK t \in Tasks : t = task[w]
      BY <3>1
    <3>6. Service!Finish(t)
      BY <3>1, <3>2, <3>4, <3>5 DEF Service!Finish, Running, Completed
    <3> QED BY <3>6 DEF Service!Next
  <2>4. CASE WorkReturns(w) \/ Notify(w) \/ Unlock(w) \/ SpuriousWakeup(w)
    <3>1. /\ UNCHANGED <<tasks, finished_tasks, tasks_done>>
          /\ \A v \in Workers : /\ pc'[v] \in Holding <=> pc[v] \in Holding
                                /\ pc[v] \in Holding => task'[v] = task[v]
      BY <2>4, <1>p, <1>S DEF WorkReturns, Notify, Unlock, SpuriousWakeup,
                              poolVars, loopVars
    <3>2. Completed' = Completed
      BY <3>1 DEF Completed
    <3> QED BY <3>1, <3>2, ServiceStutters
  <2> QED BY <1>8, <2>2, <2>3, <2>4 DEF Worker
<1>9. CASE Run \/ LoopExits \/ pd__notifier_io \/ OtherEvents \/ DoneReturns
           \/ DispatchEnds \/ TickEnds
  BY <1>1, <1>9 DEF Run, LoopExits, pd__notifier_io, OtherEvents, DoneReturns,
                    DispatchEnds, TickEnds, LoopStep, poolVars, workVars
<1>10. (\E t \in Tasks : pd_task_submit(t)) => Service!Next
  BY <1>3 DEF Service!Next
<1> QED BY <1>1, <1>2, <1>10, <1>4, <1>5, <1>6, <1>7, <1>8, <1>9
        DEF Next, User, Loop, vars, poolVars, workVars, loopVars

(* The pool with its threads, its lock and its wake-up descriptor does     *)
(* what the task service promises: tasks start in the order of their       *)
(* submission, their work runs once, and each is given back once, in the   *)
(* order of completion.                                                    *)
THEOREM ImplementsTaskService == Spec => ServiceSpec
<1>1. Init => Service!Init
  <2> SUFFICES ASSUME Init PROVE Service!Init
    OBVIOUS
  <2>1. tasks = <<>> /\ tasks_done \o finished_tasks = <<>>
    BY DEF Init
  <2>2. {task[w] : w \in At({"work", "finish"})} = {}
    BY DEF Init, At
  <2> QED BY <2>1, <2>2 DEF Service!Init
<1>2. IInv /\ [Next]_vars => [Service!Next]_(Service!vars)
  BY ServiceStep
<1> QED BY <1>1, <1>2, Invariance, PTL DEF Spec, ServiceSpec, Service!Spec
=============================================================================
