# Verification of pandio

pandio is a C library for non-blocking I/O: an event loop over epoll, kqueue or
IOCP, with timers, TCP streams, a thread pool and file operations on top. This
directory holds TLA+ modules that model its parts, TLC configurations that
check them on small instances, and TLAPS proofs. Paths below are relative to
the repository's root, which is `src/` here.

## 1. The system

| component | state it keeps | operations | interacts with |
|---|---|---|---|
| event loop `src/sys/event_epoll.c`, `event_kqueue.c`, `event_iocp.c` | `ctx->refs`, `ctx->now`, the poll descriptor, `after_tick` | `pd_io_init`, `pd_io_run` (poll, handlers, timers, pending closes, `after_tick`), registration of descriptors | calls every handler; all others change `refs` |
| timers `src/timers.c` | the heap `ctx->timers`; `timeout`, `interval`, `active` per timer | `pd_timer_start`, `_repeat`, `_stop`; `pd_timers_run`, `pd_timers_next` from the loop | heap, `ctx->now`, `refs` |
| heap `include/pandio/heap.h` | `root`, `size`; three links per node | insert, remove, pop, peek, swap | timers |
| queue `include/pandio/queue.h` | `head`, `tail`; two links per node | push, pop, peek | tasks, writes, pending closes |
| thread pool `src/threadpool.c` | static queue `tasks`, `ntasks`, `waiting_threads`, `nthreads`, `abort_threads`, a mutex and a condition variable; `ctx->finished_tasks` | `pd_task_submit`, `pd_threadpool_init`, `_end`; `pd__threadpool_exec` on each thread, `pd__task_done` on the loop | notifier, `refs` |
| notifier `src/sys/notifier_*.c` | an eventfd, a pipe or completion packets | `pd_notifier_send` from a worker, `pd__notifier_io` on the loop | thread pool, loop |
| TCP `src/sys/tcp_unix.c`, `tcp_win32.c`, `src/internal.c` | status, interest in events, queue of writes per stream; `ctx->pending_closes` | listen, accept, connect, write, shutdown, close, pause, resume; handlers for reads, writes and connects | loop, kernel socket, peer, user callbacks |
| file operations `src/sys/fs_*.c` | parameters and result of one request; the copy of a path | open, close, read, write, stat | thread pool, descriptor table of the process |
| error mapping, random numbers, dynamic libraries | none | wrappers and tables | - |

What makes the parts hard:

* **Two kinds of threads.** Workers and the loop share the queues under one
  mutex, but the wake-up descriptor is written and read outside its
  protection: wake-ups are merged, refused when the descriptor is full, and
  read in pieces.
* **Callbacks call back.** Every handler of the loop calls user code in the
  middle of its work, and user code may stop the timer, close the stream, end
  the pool or submit again. What the handler does afterwards works on state
  that may have changed.
* **One event for several things.** A batch of events is fetched before the
  handlers run, a hang-up hides unread data, a close is carried out later.
* **Numbers come back.** The kernel gives a closed descriptor number to the
  next socket or file at once, while the library, a batch of events or a close
  that is tried again still hold it.
* **Cancelled is not gone.** On Windows the kernel owns a buffer until its
  packet has come back, also after a close.
* **Time is cached.** Timers are computed from `ctx->now`, which only a return
  of the poll refreshes, in unsigned arithmetic.
* **Intrusive nodes.** A task or a timer is its own list node and belongs to
  the user again the moment its callback starts.

`PROJECT.json` lists these hazards line by line with the properties that cover
them.

## 2. Modules

| module | models | composed with |
|---|---|---|
| `ThreadPool` | `src/threadpool.c`, the notifier, the loop's part in completion | implements `TaskService` |
| `TaskService` | abstract: tasks are started in order, finished, delivered once | - |
| `Timers` | `src/timers.c` and the loop around it, the heap as a set | relies on `Heap` for `heap_peek` |
| `Heap` | `include/pandio/heap.h`, link by link | - |
| `Queue` | `include/pandio/queue.h`, link by link | implements `FifoQueues` |
| `FifoQueues` | abstract: sequences | - |
| `TcpStream` | one stream of `src/sys/tcp_unix.c`, pending closes, the loop for epoll and for kqueue, the kernel socket and the peer | - |
| `TcpDispatch` | the listener and several streams of `src/sys/tcp_unix.c`, registrations and batches of `event_epoll.c`, descriptor numbers | abstracts from the data in `TcpStream` |
| `WinTcp` | server and stream of `src/sys/tcp_win32.c`, the loop of `event_iocp.c`, the completion port | - |
| `Fs` | `src/sys/fs_unix.c`, `fs_win32.c` and the descriptor table | uses `TaskService` as the thread pool |
| `MCHeap`, `MCFs` | symmetry sets for TLC, the flags of `Fs` | - |
| `ThreadPoolProofs`, `TimersProofs`, `HeapProofs`, `QueueProofs`, `TcpStreamProofs`, `TcpDispatchProofs`, `WinTcpProofs`, `FsProofs` | theorems about the module each is named after | - |

Each model of a component carries the part of `pd_io_run` that drives it; the
rest of the loop is one nondeterministic action (`OtherEvents`, `OtherHandle`)
or the variable `others`. Operators named "Mutant" in a comment are not part of
the models: they are wrong versions of the definition that follows, and show
that the properties can fail.

### ThreadPool

The variables are the static variables of `threadpool.c`, the queue
`finished_tasks` and `refs` of the loop, and a program counter per thread. A
section between `pd_mutex_lock` and `pd_mutex_unlock` is one action, as nobody
sees its intermediate states; the exception is the section in which a worker
pushes the finished task and notifies the loop, which is three actions
(`PushFinished`, `Notify`, `Unlock`), because the loop reads the descriptor
without the lock. `pd_cond_wait` splits `pd__threadpool_exec` as it does in the
code: `Sleep` releases the lock, `WaitReturns` gets it back and tests the
condition again, `SpuriousWakeup` is what POSIX allows. `task_signaled` is only
ever set to false in the code, so every completion notifies, and it is no
variable here.

`signals` is the descriptor. `SendMax` is how many wake-ups it holds and
`ReadMax` how many one `read` of 512 bytes takes: a pipe has `ReadMax = 64` and
a large `SendMax`, an eventfd a `ReadMax` not below `SendMax`, and IOCP
delivers one packet at a time.

On the loop, `pd__notifier_io` empties the descriptor, `Drain` moves the
finished tasks to the local queue under the lock, `DoneCallback` and
`DoneReturns` frame each callback. The user calls the library in callbacks and
outside `pd_io_run` (`UserCode`), also `pd_threadpool_end`, during which the
loop thread waits in `"join"`.

Abstracted: one event loop; submissions from the loop thread only; work
functions and callbacks always return. After `pd_threadpool_end` the mutex is
destroyed, and `pd__task_done` may lock it again; with glibc that call fails
without effect, and no worker is left to compete, so `Drain` is the same.

### Timers

`clock` is what `pd_now` returns, `now` the copy in the context. The heap is
the set of active timers, and `heap_peek` any least one (which one the real
heap returns among equal timeouts depends on its shape, see `Heap`).
`pd_timers_run` is `Fire` (stop the timer, enter the callback),
`CallbackReturns` with `Restart`, and `TimersRunEnds`. The difference in
`pd_timers_next` is taken modulo `W`, the number of values of the unsigned
type, and cut at `INT_MAX`. A poll ends when its time is over, when another
handle has an event, or is interrupted (`EINTR`), in which case it starts again
with the same timeout. `stopped` is a history variable. `since` is the real
clock when the poll began; the poll sleeps from there, for a time computed from
`now`, and `since - now` is how late it ends (`PollLateByStaleness`).

### Heap and Queue

Both keep one function per pointer field. In `Heap` an operation is a first
step that links or unlinks a node, and one step per `heap_swap` of the loops
that follow, so that the invariants are looked at between swaps too. `NodeAt`
is the walk by the bits of a position (`NodesOf`, for any root and links). The links that a removed node keeps are
marked `Stale`: nothing may follow them. The comparator is that of the timers.
In `Queue` each operation is one step; `Transfer` is one turn of the loop in
`pd__task_done`, which pushes nodes as `queue_pop` left them.

### TcpStream

The variables are the fields of `pd_tcp_t` that control reads into, a socket
(`sock`, `rx`, `fin`, `room`, `wrClosed`), what the kernel watches (`reg`,
which may differ from `flags`, what the stream wants) and the place of the loop
thread. Library code is cut at each callback: `"data"`, `"eof"`, `"written"`,
`"failed"`, `"connect"` and `"onclose"` are places where the user may call any
function on the stream, and the actions that leave them are the rest of the
handler. `"events"` lies between two handlers of a batch: handlers of other
streams run there and may close this one, which makes its events stale.

`poller` is the loop the library was built with, chosen in `Init`.

* `EpollEntries`: one entry with everything that is ready; errors and, once
  both directions are finished, hang-ups come unasked.
* `KqueueEntries`: an entry per filter, with `EV_EOF` as soon as the peer
  finished, whatever is unread.
* `Registered`: `pd__event_set` of kqueue deletes the read filter first; when
  there is none, `kevent` reports the error and makes no further change.

`others` says whether anything else makes the poll return. `calls` is a history
variable: the writes in the order in which `pd_tcp_write` was called.

Abstracted: data is counted, in units for writes and in buffers of 6 KB for
reads; `on_data` is set and the allocator does not fail; every write has a
callback; a process that ignores `SIGPIPE`. `pd_tcp_nodelay` and
`pd_tcp_keepalive` set socket options and change no state here.

### TcpDispatch

The kernel is a table of descriptors: `sock` says who opened the socket at a
number, `reg` whose event is registered for it. Both are indexed by number,
since `epoll_ctl` and `close` know nothing else, and the lowest free number is
given out first. The objects keep their own copy `fd`, also after they closed
it. An event of a stream may bring data, room to write, an error or several of
them, so the actions after a callback are chosen freely where `TcpStream`
computes them. The user calls listen, connect, accept, close, pause and resume in
every callback, and initialises a stream again after `on_close`. (`pd_tcp_shutdown`
and the writes look at the status first and so register the stream for its own
number only; what else they do is in `TcpStream`.)

The library does not protect itself from four things a user may do, and
`Careful` says whether the user of the model does them:

* `MayClose`: close another connected stream whose event is in the batch. Its
  handler reads from the old number (`TcpDispatch_stale`).
* `MayOpen`: open a socket in a write callback. If the callback also closed its
  stream, `src/sys/tcp_unix.c:284` registers the closed stream for the new
  socket's number.
* `MayWatch`: pause or resume a stream that has no socket of its own. Neither
  call looks at the status (`src/sys/tcp_unix.c:389-398`), so the registration
  of whoever has the number by then goes to the closed stream.
* `MayCloseServer`: close the server twice. `pd_tcp_server_close`
  (`src/sys/tcp_unix.c:63`) has no test either: the second call closes the socket
  that has the number by then, and takes a second reference.

With `Careful = TRUE` the properties of the run hold, and are proved; these are
the rules an application has to keep, and the violating run shows why. A fifth
call is in neither setting: `pd_tcp_close` on a stream that has no socket and
was not closed, which the guard of `pd_tcp_close` leaves out (hazard at
`src/sys/tcp_unix.c:378`, and section 5).

### WinTcp

The kernel has the operations in `posted`; a step of the kernel takes one out
and queues its packet at `port`, from which `PollReturns` takes a batch.
Cancelled operations (`canceled`) stay posted until they come back, a receive
with no bytes. A call that is done at once has no packet and calls `on_data` or
the write callback itself. The server has `SIMULTANEOUS_ACCEPTS` operations,
posted one after the other in `pd_tcp_listen` and again when each one is
handled; `PostAccept` has the three outcomes of `AcceptEx`.

Some calls are left out by guards that `tcp_win32.c` does not have, as the code
then has no defined outcome: a close while `ConnectEx` is under way (the packet
finds a stream the user has freed), and a resume inside `on_data` or before the
packet of a connect was handled (the library posts a receive afterwards, and one
`OVERLAPPED` is given to the kernel twice). One stream; the user accepts the first connection. A close inside
`on_data` puts the stream into `pending_closes` twice (`src/sys/tcp_win32.c:344`
after the call itself). `pending` is one flag because the only node of a queue
leaves it once, however often it was pushed; with a second stream closed between
the two pushes the queue would lose that one, which needs a model of several
streams.

### Fs

A request is a task: submission, start, completion and delivery are the actions
of `TaskService`, which `ThreadPool` is shown to implement. What a worker does
in between is a system call on the shared descriptor table `table`; `held` is
what the user was told. A descriptor is not closed while another request on it
is under way, and a `pd_fs_t` not used again before its callback; the library
asks for both without saying so. `OpenDone`, `OpenFails`, `UseDone`,
`CloseDone` and `CloseInterrupted` are the outcomes of the system calls.

The flags of an open are a set; `PD_FS_O_RDONLY`, which is 0, is the empty one.
`PosixOpens` and `PosixRights` are what `open(2)` does with them; `Creation` and
`WinRights` are the arguments that `pd__fs_open_work` computes for `CreateFile`,
and `WinOpens` is what that does. They decide whether `OpenDone` is possible
with the files that exist (`disk`), and what the descriptor is good for
(`rights`): a read or a write fails without its right. `made` is a history
variable that counts exclusive creations. Nobody deletes files.

The pool can be ended and built again. `pd_threadpool_end` stops the start of
requests and waits for those at work (`"joining"`, `EndJoined`), during which
the loop thread runs no user code; what is queued stays there for the next pool.

## 3. Runs

| run | bounds | shows |
|---|---|---|
| `ThreadPool` | 2 tasks, up to 3 threads, descriptor of 1 | `TypeOK`, `CountersExact`, `NoUseAfterDone`, `OneHolder`, `NoLostCompletion`, `RefsExact`, `WorkConserving`; that the pool implements `TaskService` (`ServiceSpec`); `TasksDelivered`, `JoinReturns` |
| `Timers` | 2 timers, delays 0 and 3, `INT_MAX` = 2, clock to 3, one interruption | `RefsExact`, `PollLateByStaleness`, `TimerFires`, `RunEnds` |
| `Timers_stop` | violation | `StopHolds` fails, section 6 |
| `Heap_safety` | 7 nodes, 3 keys | `Shape`, `HeapOrder`, `MembersExact` |
| `Queue_refines` | 2 queues, 4 nodes | `WellLinked`, and that the links implement `FifoQueues` (`FifoSpec`) |
| `TcpStream` | 2 writes of 2 units, 1 unit of room, 2 buffers from the peer, both loops | `WriteAnsweredOnce`, `WireInOrder`, `FinLast`, `WritesWatched`, `NoEventAfterRelease`, `ActiveReadsAll`, `WritesAnswered`, `ShutdownCompletes`, `CloseCompletes` |
| `TcpStream_graceful` | violation | `ShutdownReadsAll` fails, section 6 |
| `TcpDispatch` | a server, 2 streams, 3 descriptors, backlog of 1 | `EventsGoHome`, `NoSocketLost`, `RefsExact`, `BacklogServed` |
| `TcpDispatch_stale` | violation | `ReadsOwn` fails, section 6 |
| `WinTcp` | 2 writes, 1 accept operation, 1 buffer from the peer, 1 failure of `AcceptEx` | `NothingAfterRelease`, `WritesExact`, `FinLast`, `AcceptsKept`, `WritesAnswered` |
| `WinTcp_close` | violation | `CloseUnderWay` fails, section 6 |
| `Fs` | 2 requests, 2 files, 2 descriptors, 3 sets of flags, both platforms | `DescriptorsExact`, `PathsExact`, `CreatedOnce` |

The type invariants `TypeOK` of the other modules hold on the same instances;
they are not listed in the configurations, and can be added there when a module
is changed.

Why the bounds are enough to be interesting. Two tasks and three threads let a
signal reach a thread while another waits and a third is awake, and exceed a
descriptor of one; larger numbers are what the proofs are for. A delay of 3
with `INT_MAX` = 2 is a timeout that is cut; a delay of 0 is due in the run
that starts it. A removal in which the last node must go up needs six nodes,
the seventh fills the third level; three keys give equal and different ones.
Two writes of two units on a socket with room for one are written in part,
directly and from the queue. Two buffers from the peer leave one unread after
the read that precedes a close. Three descriptors hold the listener and two
streams, so a fourth connection finds none, and a number that one stream closes
is the next one's. With two writes one can be under way while the other
completes. Two requests let one worker close a number while another opens, and
with two numbers the one that comes free is the one that is given out; the two
files tell who got which. The sets of flags are reading, an exclusive creation,
and one that `O_TRUNC` overrides on Windows.

Symmetry is used for heap nodes, file requests and files, which the models only
compare, and only in runs without liveness. `TcpStream` and `Fs` do not check
for deadlock: a loop that waits for a silent peer, and a user without further
requests, really stop there.

### Fairness

* `ThreadPool`: strong fairness for each worker, for `Drain` and for the loop's
  steps that compete with other steps. A worker at the lock is enabled whenever
  the lock is free and disabled while another thread is in its notifying
  section; a mutex that is released again and again is granted in the end.
  Polling reports a readable descriptor some time, whatever other handles do.
  Nothing is assumed of the user and of spurious wake-ups.
* `Timers`: weak fairness of the loop's steps and of time. Interruptions are
  bounded by `MaxSignals`, since each one restarts the full timeout: an endless
  stream of signals really starves the timers.
* `TcpStream`: weak fairness of the loop's steps, and of a peer that reads what
  it is sent. A peer that neither reads nor resets keeps writes waiting for
  ever, as TCP allows.
* `TcpDispatch`: weak fairness of the loop, and an `on_connection` that does
  something with the socket. `BacklogServed` assumes `[]<>(at = "poll")`: write
  callbacks that write and `on_close` callbacks that open and close keep the
  loop from the poll for as long as they like, and the code has no limit.
* `WinTcp`: weak fairness of the loop and of the completion of each operation,
  with the same assumption (`Turning`).

`TimerFires` speaks of timers whose timeout lies within `MaxClock`, where the
model's time ends.

## 4. Proofs

One module of proofs per component, each from the component's named assumption
and nothing else. The assumptions are what the code or the models of external
parts take for granted: sets of objects are finite, model values differ, sizes
are positive; for the timers, that `now + delay` stays below the end of the
unsigned type.

| module | theorem | states |
|---|---|---|
| `ThreadPoolProofs` | `TypeCorrect` | `TypeOK`: the shapes, and that no counter goes below zero |
| | `CountersAreExact` | `CountersExact` |
| | `NoUseAfterDoneHolds` | `NoUseAfterDone` |
| | `CompletionsNotLost` | `NoLostCompletion` |
| | `RefsAreExact` | `RefsExact` |
| | `WakeupsNotLost` | `WorkConserving` |
| | `TasksHaveOneHolder` | `OneHolder` |
| | `ImplementsTaskService` | `ServiceSpec`: refinement of `TaskService` |
| `TimersProofs` | `TypeCorrect`, `RefsAreExact`, `PollsLateByStaleness` | `TypeOK`, `RefsExact`, `PollLateByStaleness` |
| `HeapProofs` | `TypeCorrect`, `TreeIsComplete`, `HeapIsOrdered` | `TypeOK`, `Shape`, `HeapOrder` |
| | `RootIsLeast` | `RootLeast`: at rest the root is a least node of the whole heap, what `Timers` assumes of `heap_peek` |
| | `MembersAreExact` | `MembersExact`, an action property |
| `QueueProofs` | `QueuesAreWellLinked` | `WellLinked` |
| | `ImplementsFifo` | `FifoSpec`: refinement of `FifoQueues` |
| `TcpStreamProofs` | `TypeCorrect`, `WritesAreAnsweredOnce`, `WireIsInOrder`, `FinComesLast`, `WritesAreWatched`, `ReleasedIsForgotten` | `TypeOK`, `WriteAnsweredOnce`, `WireInOrder`, `FinLast`, `WritesWatched`, `NoEventAfterRelease` |
| | `ActiveStreamsReadAll` | `ActiveReadsAll`, an action property |
| `TcpDispatchProofs` | `TypeCorrect`, `EventsReachTheirOwner`, `SocketsHaveOwners`, `RefsAreExact` | `TypeOK`, `EventsGoHome`, `NoSocketLost`, `RefsExact`, each for `Careful = TRUE` |
| | `StaleEventsReadNothing` | `ReadsOwn`, an action property, for `Careful = TRUE`; the run `TcpDispatch_stale` violates it for `FALSE` |
| `WinTcpProofs` | `TypeCorrect`, `NothingTouchesReleased`, `WritesAreExact`, `FinComesLast`, `AcceptsAreKept` | `TypeOK`, `NothingAfterRelease`, `WritesExact`, `FinLast`, `AcceptsKept` |
| `FsProofs` | `TypeCorrect`, `PathsAreExact`, `DescriptorsAreExact`, `FilesAreCreatedOnce` | `TypeOK`, `PathsExact`, `DescriptorsExact`, `CreatedOnce` |

With these, every invariant that a passing run checks on a small instance is
proved for every value of the constants, and so are the action properties and
both refinements.

Each module has one inductive invariant `IInv`. Most of the properties are not
inductive alone; what they need is this.

**ThreadPool.** `IInv` is a conjunction of eight parts.

* `Control`: the shapes, the worker in its notifying section is the one that
  `mux` names, a thread exists when its number is at most `nthreads`, a worker
  that popped has a task, and `ntasks` is the length of the queue;
* `WaitersCounted`: `waiting_threads` is the number of threads at `"wait"` or
  `"woken"`;
* `DoneIsLocal`: the local queue of `pd__task_done` is empty unless the loop is
  dispatching;
* `RefsCounted`: `refs` is the sum over the places a task can be in;
* `NoUseAfterDone` and `NoLostCompletion` themselves: the first because a
  worker that is about to notify holds the lock, the second because a wake-up
  is consumed only on the way to `Drain`, and `Drain` takes everything;
* `WorkCovered`, which is `WorkConserving` in terms of counts: a submission that
  signals adds a task and an awake thread, and one that does not signal found
  nobody waiting, which needs `WaitersCounted`;
* `Owned`: the queues have no task in common or twice, and a task in the hands
  of a worker or of the callback is in none of them. `OneHolder` follows, and
  so does the refinement: a step that moves a task maps to the step of
  `TaskService` that moves it, because it is nowhere else.

The counting rests on four lemmas about the cardinality of the set of threads
in given places (`CountType`, `CountZero`, `CountPositive`, `CountMove`), and
`SignalWakesOne` on what a signal does; the lemmas `...Step` show that each
action preserves one part, and `Invariance` puts them together.

**Timers.** The difference `timeout - now` must not wrap around, so
`PollLateByStaleness`, through `WaitExact` (the timeout is the time from `now`
to the earliest timer), needs `NothingOverdue`: from the end of `pd_timers_run` until
the poll returns no active timer lies before `ctx->now`, because `TimersRunEnds`
leaves none and whatever is started later is computed from the same `now`.

**Heap.** The links hold some array `A` (`Tree`): the children of `A[i]` are
`A[2i]` and `A[2i + 1]`, `parent` is the inverse. Six lemmas show what the
pointer operations do to the array: `GrowKeeps` (a new last node),
`ShrinkKeeps` (without the last), `ReplaceKeeps` (another node in a place) and
`SwapSide`, `SwapAbove`, `SwapKeeps` (`heap_swap` exchanges two places). The
order needs a second part, `Bridge`: while a node is moved, its parent is in
order with its children, so that it can go either way without disturbing
another pair. `WalkFinds` connects the array with the code's walk by the bits
of a position.

**Queue.** The links hold some function from queues to sequences
(`Represents`); each operation does to the sequence what `FifoQueues` says, and
the walk along `next` finds it.

**TcpStream.** Eight parts besides the shapes and `Whole` (one write is whole
before another begins on the wire): which entries
may be left where (`Turn`), the lifetime of the socket and what it excludes
(`Life`), that the kernel watches what the flags say (`Interest`), that a write
is queued or answered (`Queued`), that only the head of the queue may be
written in part (`HeadPartial`), when the sending direction is closed
(`SendClosed`), what a hang-up means with epoll (`Ends`), and `refs`
(`Counted`). The order of the calls is a second invariant on top of these,
`InOrder`: every write on the wire or in the queue was called (`Recorded`), the
wire and the queue are each in the order of the calls (`WireSorted`,
`QueueSorted`), and what is on the wire was called before what is still queued,
or is the head of the queue, written in part (`WireFirst`).

**TcpDispatch.** `EventsGoHome` and `NoSocketLost` are preserved together with
`PeerIsNew`, `BatchAlive`, `HandlerAlive`, `WriterHome` and `ClosesExact`, which
say what a closed object may still appear in: a batch, its own handler, once
the queue of closes. `WriterHome` (`MayOpen`), `BatchReadable` (`MayClose`), `WatchStep` (`MayWatch`)
and the steps of `pd_tcp_server_close` (`MayCloseServer`) are where the user's
rules are used: the rest of the argument does not need them.

**WinTcp.** Packets are counted over the port and the batch. A receive, a
connect and each write is in one of the places posted, packet or handled
(`OneRead`, `OneConnect`, `OneWrite`), `Accepts` is the sum over the places of
an accept operation, and `Lifetime` says that a closed socket is quiet: nothing
is posted or waits. `AcceptsKept` is the sum; `NothingAfterRelease` is
`Lifetime`.

**Fs.** `OnePlace` says that a request is queued, at work, completed, refused or
none of these; `OneOwner` that an open descriptor has one owner, the user or one
request. `DescriptorsExact` is the latter without its uniqueness, which an
interrupted close ends. `CreationsKept` adds to `CreatedOnce` that what was
created exclusively is on disk, so that the next exclusive open fails; the lemma
`ExclusiveIsNew` is the argument about the flags of both platforms.

What a recursive definition computes is usually out of reach, since the
library's induction theorems take an operator as a parameter. The two walks are
recursive functions on numbers, for which the first-order fact that a set of
numbers has a least member is enough (`LeastNatural`, from `WFMin`): if the walk
differed from the array or the sequence, take the least place where it does. The
same argument carries the order from parent and child to root and any node.

Only model-checked: all liveness (`TasksDelivered`, `JoinReturns`, `TimerFires`,
`RunEnds`, `WritesAnswered`, `ShutdownCompletes`, `CloseCompletes`,
`BacklogServed`), which is out of the prover's reach, and that the violating
runs violate.

## 5. Not modelled

* Error mapping (`include/pandio/err.h`, most of `src/internal.c`): generated
  tables and lookups without state. Random numbers, dynamic libraries,
  `pd_once`, `pd_sleep` and the wrappers of Windows threads: one call to the
  operating system each. Samples, tests and scripts use the library.
* Several descriptors in one batch with kqueue: closing removes the filters,
  and `pd__event_del` does nothing, so `TcpDispatch` would be the same except
  for `pd__event_set` on a reused number, which adds a filter where epoll
  replaces the registration.
* Contents of buffers, files and addresses, and the memory of the user: an
  object is dead after its last callback, and properties say that the library
  does not touch it then.
* `pd_task_submit` from other threads than the loop's, two event loops on one
  pool, and a process that runs out of memory, except where the code tests for
  it (`AllocFails`, `ListenFails` in `WinTcp`).

What is left to the user and not checked: a callback that frees its own timer
(`src/timers.c:106` reads it afterwards), timeouts near 2^64, a null buffer from
the allocator (`src/sys/tcp_unix.c:216`), writes without a callback that are
cancelled (`:179`), `SIGPIPE` (`:260`), `pd_tcp_close` on a stream that never
was connected or whose connect failed at once (`:167`, `:378`), and `CloseHandle`
after `closesocket` (`src/sys/tcp_win32.c:238`). After `pd_threadpool_end` the
mutex is locked once more, see `ThreadPool` above.

## 6. Where code and documentation disagree

* `pd_timer_stop` in the callback of a repeating timer has no effect: the timer
  is inactive while its callback runs, and `src/timers.c:106` starts it again
  (`Timers_stop`). `include/pandio/timers.h:49` calls it "safe to call many
  times". The same line restarts a timer that was repeated earlier and is now
  started once with `pd_timer_start`, since `interval` is never reset.
* `pd_tcp_shutdown` does not ensure "that incoming data from the peer will be
  read" (`include/pandio/tcp.h:160`): the peer's FIN then raises a hang-up,
  after which one buffer is read and the stream closed (`TcpStream_graceful`).
  In the trace the stream is not paused, two buffers are unread when the
  hang-up is fetched, and the second still is when the stream is closed.
* A stale event of a stream that was closed in the same iteration is ignored by
  `pd__tcp_write` (`src/sys/tcp_unix.c:247`) and not by `pd__tcp_read`, which
  runs first and may read another stream's data (`TcpDispatch_stale`).
* On Windows `pd_tcp_close` with a receive pending never closes
  (`include/pandio/tcp.h:153` "Forcefully closes connection"): the packet of
  the cancelled receive calls `pd_tcp_close`, which returns on a closed stream,
  and `pd__tcp_try_close` is not reached (`WinTcp_close`).
* On Windows a file opened with `PD_FS_O_RDONLY` cannot be read: the flag is 0,
  the test of `src/sys/fs_win32.c:51` fails and no access is asked for.
  `samples/fs.c` opens `read.txt` with it and reads. In `Fs` the descriptor has
  no rights (`WinRights`), so `pd__fs_read_work` has the outcome "error" only;
  there is no run of its own for it.

Limits that the properties state instead of hiding them:

* `CloseCompletes` needs something that makes the poll return (`others`). A
  stream closed in `after_tick` or before `pd_io_run`, with nothing else to
  wait for, is never answered, though the callback is scheduled "to the next
  event loop iteration" (`src/sys/tcp_unix.c:182`).
* `WritesWatched`, `WritesAnswered` and `ShutdownCompletes` exempt a paused
  stream on kqueue (`Unwatched`), whose write filter is not set.
* `ActiveReadsAll` is about epoll; on kqueue the peer's FIN closes an active
  stream with data unread.
* `DescriptorsExact` ends at a close that a signal interrupted, which is made
  again on a number that is free.
* `PathsExact` counts requests that the pool refused; their callbacks are never
  called.
* `CreatedOnce` leaves out creations with `O_TRUNC` on Windows (`Exclusive`):
  `src/sys/fs_win32.c:61` overrides `CREATE_NEW` by `CREATE_ALWAYS`, and such an
  open succeeds on a file that exists. `O_APPEND`, which the translation passes
  among the attributes (`:65`), has no meaning in the model.
* `PollLateByStaleness` states how late a poll ends, and does not say that it is
  in time: after slow callbacks, or when a signal restarts it, a poll sleeps past
  the earliest timer by the time that went by since `ctx->now` was read.
* `AcceptsKept` counts the operations that a failed `AcceptEx` dropped.
* In `WinTcp`, pausing an idle stream cancels its receive, whose packet closes
  the stream; a receive that is done at once is not followed by another one;
  and a `ConnectEx` that fails at once is never reported. These are actions of
  the model, and no document says otherwise.

## 7. Plan

Done: `ThreadPool`, `Timers`, `Heap`, `Queue`, `TcpStream` with both loops,
`TcpDispatch`, `WinTcp` and `Fs`; proofs of all their invariants, action
properties and refinements.

Left:

1. `EventLoop`: timers, tasks, streams and closes of one loop composed; the
   order of an iteration, and when `pd_io_run` returns.
2. `TcpDispatch` with kqueue's registrations; several streams in `WinTcp`.
