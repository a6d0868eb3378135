------------------------------- MODULE WinTcp -------------------------------
(***************************************************************************)
(* TCP on Windows: the server and one stream of src/sys/tcp_win32.c, with  *)
(* the loop of src/sys/event_iocp.c.  Operations are given to the kernel   *)
(* (posted) and come back as packets of the completion port, in the order  *)
(* they completed, also when they were cancelled; an operation that is     *)
(* done at once has no packet (FILE_SKIP_COMPLETION_PORT_ON_SUCCESS).      *)
(* Callbacks that are the last statement of a call of the user's are part  *)
(* of what the user does next.                                             *)
(***************************************************************************)
EXTENDS Naturals, Sequences, FiniteSets, SequencesExt

CONSTANTS Ops,                    \* the pd_write_t objects of the user
          SIMULTANEOUS_ACCEPTS,
          MaxRx,                  \* buffers the socket keeps for the stream
          MaxFailures             \* bound on the AcceptEx calls that fail

ASSUME WinTcpAssumption ==
    /\ SIMULTANEOUS_ACCEPTS \in Nat \ {0} /\ MaxRx \in Nat \ {0} /\ MaxFailures \in Nat
    /\ IsFiniteSet(Ops)
    /\ Ops \cap {"read", "connect", "data", "zero", "connected", "refused", "accept",
               "unaccepted"} = {}

VARIABLES
    status, READING, PENDING_READ, writes_size,   \* fields of the stream
    answers,         \* history: how often each write's callback was called
    server,          \* "none", "posting", "listening", "failed"
    accepts,         \* accept operations posted
    todo, failures,  \* accept operations to post; history: AcceptEx that failed
    sock,            \* "none", "connecting", "refused", "open", "reset", "closed"
    rx, fin, wrClosed,
    posted,          \* operations of the stream the kernel has
    canceled,        \* the ones of them that were cancelled
    port, batch,     \* packets queued at the port; fetched and not handled
    at,              \* where the loop thread is
    pending,         \* the stream is in ctx->pending_closes
    released,        \* on_close was called
    refs             \* ctx->refs

streamVars == <<status, READING, PENDING_READ, writes_size, answers>>
serverVars == <<server, accepts, todo, failures>>
kernelVars == <<sock, rx, fin, wrClosed, posted, canceled>>
loopVars == <<batch, pending, released, refs>>
vars == <<streamVars, serverVars, kernelVars, port, at, loopVars>>

(* "user": outside pd_io_run; "post": in pd__tcp_post_acceptex; "poll";    *)
(* "events": between two handlers; "connection", "data", "written",        *)
(* "connect", "onclose": in a callback; "early": in on_data before         *)
(* on_connect; "closes": at pd__tcp_pending_close; "after": in after_tick. *)
Places == {"user", "post", "poll", "events", "connection", "data", "early", "written",
           "connect", "closes", "onclose", "after"}
UserCode == at \notin {"post", "poll", "closes"}

(* The packet of a write is the write, of an accept "accept" or            *)
(* "unaccepted", of a receive "data" or, with no bytes, "zero", of a       *)
(* connect "connected" or "refused".                                       *)
StreamPackets == Ops \cup {"data", "zero", "connected", "refused"}
Packets == Range(port) \cup Range(batch)

(* The stream is open and the user may use it. *)
Held == sock # "none" /\ (~released \/ at = "onclose")

Init ==
    /\ status = "NONE" /\ READING = FALSE /\ PENDING_READ = FALSE /\ writes_size = 0
    /\ answers = [o \in Ops |-> 0]
    /\ server = "none" /\ accepts = 0 /\ todo = 0 /\ failures = 0
    /\ sock = "none" /\ rx = 0 /\ fin = FALSE /\ wrClosed = FALSE
    /\ posted = {} /\ canceled = {} /\ port = <<>> /\ batch = <<>>
    /\ at = "user" /\ pending = FALSE /\ released = FALSE /\ refs = 0
-----------------------------------------------------------------------------
(* The kernel and the peer.                                                *)

KernelUnchanged == UNCHANGED <<streamVars, serverVars, at, loopVars>>
Broken == sock \in {"refused", "reset", "closed"}

PeerSends == /\ sock = "open" /\ ~fin /\ rx < MaxRx
             /\ rx' = rx + 1
             /\ UNCHANGED <<sock, fin, wrClosed, posted, canceled, port>> /\ KernelUnchanged

PeerEnds == /\ sock = "open"
            /\ \/ ~fin /\ fin' = TRUE /\ UNCHANGED sock
               \/ sock' = "reset" /\ UNCHANGED fin
            /\ UNCHANGED <<rx, wrClosed, posted, canceled, port>> /\ KernelUnchanged

(* An operation is done and its packet queued. *)
Completes(o, packet) ==
    /\ o \in posted
    /\ posted' = posted \ {o} /\ canceled' = canceled \ {o}
    /\ port' = Append(port, packet)
    /\ UNCHANGED <<fin, wrClosed>> /\ KernelUnchanged

ReceiveDone ==
    \/ rx > 0 /\ sock = "open" /\ Completes("read", "data")
       /\ rx' = rx - 1 /\ UNCHANGED sock
    \/ ("read" \in canceled \/ Broken \/ (fin /\ rx = 0)) /\ Completes("read", "zero")
       /\ UNCHANGED <<sock, rx>>

(* The peer took the data, or the write was cancelled or failed. *)
SendDone(o) == Completes(o, o) /\ UNCHANGED <<sock, rx>>

ConnectDone ==
    \/ sock = "connecting" /\ Completes("connect", "connected") /\ sock' = "open"
       /\ UNCHANGED rx
    \/ sock = "connecting" /\ Completes("connect", "refused") /\ sock' = "refused"
       /\ UNCHANGED rx

AcceptDone ==
    /\ accepts > 0 /\ accepts' = accepts - 1
    /\ \E packet \in {"accept", "unaccepted"} : port' = Append(port, packet)
    /\ UNCHANGED <<streamVars, server, todo, failures, kernelVars, at, loopVars>>

Kernel == ReceiveDone \/ (\E o \in Ops : SendDone(o)) \/ ConnectDone
-----------------------------------------------------------------------------
(* Parts of the library that several calls and handlers share.             *)

(* pd__tcp_post_recv: done at once with data, the end or an error, which   *)
(* on_data is told, or pending.  reading is the flag PD_READING before.    *)
PostRecv(reading) ==
    \/ /\ rx > 0 \/ fin \/ Broken
       /\ rx' = IF rx > 0 THEN rx - 1 ELSE rx
       /\ READING' = reading
       /\ UNCHANGED <<PENDING_READ, posted>>
    \/ /\ ~Broken
       /\ READING' = TRUE /\ PENDING_READ' = TRUE
       /\ posted' = posted \cup {"read"}
       /\ UNCHANGED rx
(* The allocator has no memory: nothing is posted. *)
AllocFails(reading) == READING' = reading /\ UNCHANGED <<PENDING_READ, posted, rx>>

(* Mutant: a receive that is pending does not matter. *)
TryCloseReading(writes, reading) ==
    IF writes > 0 THEN UNCHANGED <<sock, pending>>
    ELSE sock' = "closed" /\ pending' = TRUE

(* pd__tcp_try_close, with writes_size and PD_PENDING_READ as they are now. *)
(* The only node of ctx->pending_closes may be pushed twice and leaves the  *)
(* queue once.                                                              *)
pd__tcp_try_close(writes, reading) ==
    IF writes > 0 \/ reading THEN UNCHANGED <<sock, pending>>
    ELSE sock' = "closed" /\ pending' = TRUE

(* pd_tcp_close when PD_PENDING_READ is pendingRead. *)
Close(pendingRead) ==
    IF status = "CLOSED" THEN UNCHANGED <<status, READING, canceled, sock, pending>>
    ELSE /\ status' = "CLOSED" /\ READING' = FALSE
         /\ canceled' = IF writes_size > 0 THEN posted
                        ELSE canceled \cup (IF pendingRead THEN posted \cap {"read"} ELSE {})
         /\ pd__tcp_try_close(writes_size, pendingRead)

(* A stream must not be closed while ConnectEx is under way, nor resumed   *)
(* in on_data: the library does not say so, and answers the connect, or    *)
(* posts the one OVERLAPPED twice, all the same.                           *)
Connecting == "connect" \in posted \/ {"connected", "refused"} \cap Packets # {}
              \/ at = "early"
-----------------------------------------------------------------------------
(* Calls the user makes.                                                   *)

(* The operations are posted one after the other, in PostAccept. *)
pd_tcp_listen == /\ at = "user" /\ server = "none"
                 /\ at' = "post" /\ server' = "posting" /\ todo' = SIMULTANEOUS_ACCEPTS
                 /\ UNCHANGED <<streamVars, accepts, failures, kernelVars, port, loopVars>>

(* In on_connection, for the first connection. *)
pd_tcp_accept ==
    /\ at = "connection" /\ sock = "none"
    /\ status' = "ACTIVE" /\ sock' = "open" /\ refs' = refs + 1
    /\ PostRecv(READING) \/ AllocFails(READING)
    /\ UNCHANGED <<writes_size, answers, serverVars, fin, wrClosed, canceled, port, at,
                   batch, pending, released>>

(* ConnectEx, and its failure at once, which is taken for pending. *)
pd_tcp_connect ==
    /\ UserCode /\ sock = "none"
    /\ sock' = "connecting" /\ refs' = refs + 1
    /\ posted' \in {{"connect"}, {}}
    /\ UNCHANGED <<streamVars, serverVars, rx, fin, wrClosed, canceled, port, at, batch,
                   pending, released>>

pd_tcp_close ==
    /\ UserCode /\ Held /\ ~Connecting
    /\ Close(PENDING_READ)
    /\ UNCHANGED <<PENDING_READ, writes_size, answers, serverVars, rx, fin, wrClosed, posted,
                   port, at, batch, released, refs>>

(* Mutant: writes that are pending do not matter. *)
ShutdownAtOnce ==
    /\ UserCode /\ status = "ACTIVE" /\ Held
    /\ status' = "SHUTDOWN" /\ wrClosed' = TRUE
    /\ UNCHANGED <<READING, PENDING_READ, writes_size, answers, serverVars, sock, rx, fin,
                   posted, canceled, port, at, loopVars>>

pd_tcp_shutdown ==
    /\ UserCode /\ status = "ACTIVE" /\ Held
    /\ status' = "SHUTDOWN" /\ wrClosed' = (wrClosed \/ writes_size = 0)
    /\ UNCHANGED <<READING, PENDING_READ, writes_size, answers, serverVars, sock, rx, fin,
                   posted, canceled, port, at, loopVars>>

(* The receive that is cancelled comes back with no bytes. *)
pd_tcp_pause ==
    /\ UserCode /\ Held
    /\ READING' = FALSE
    /\ canceled' = canceled \cup (IF PENDING_READ THEN posted \cap {"read"} ELSE {})
    /\ UNCHANGED <<status, PENDING_READ, writes_size, answers, serverVars, sock, rx, fin,
                   wrClosed, posted, port, at, loopVars>>

(* tcp_win32.c:401 has no such guard.  In on_data, and before the packet   *)
(* of a connect was handled, the library posts a receive of its own later, *)
(* and would give the kernel the one OVERLAPPED of the stream twice: what  *)
(* follows is undefined, and both calls are left out.                      *)
pd_tcp_resume ==
    /\ UserCode /\ Held /\ at # "data" /\ ~Connecting /\ sock # "connecting"
    /\ IF PENDING_READ THEN READING' = TRUE /\ UNCHANGED <<PENDING_READ, posted, rx>>
                       ELSE PostRecv(TRUE) \/ AllocFails(TRUE)
    /\ UNCHANGED <<status, writes_size, answers, serverVars, sock, fin, wrClosed, canceled,
                   port, at, loopVars>>

Fresh(o) == answers[o] = 0 /\ o \notin posted \cup Packets
Answer(o) == answers' = [answers EXCEPT ![o] = @ + 1]

(* pd_tcp_write that is answered at once: cancelled when the stream is not *)
(* active, otherwise failed or written, as the kernel decides.             *)
WriteAnswered(o) ==
    /\ UserCode /\ Held /\ Fresh(o)
    /\ Answer(o)
    /\ UNCHANGED <<status, READING, PENDING_READ, writes_size, serverVars, kernelVars, port,
                   at, loopVars>>

WritePosted(o) ==
    /\ UserCode /\ Held /\ Fresh(o)
    /\ status = "ACTIVE" /\ sock = "open"
    /\ posted' = posted \cup {o} /\ writes_size' = writes_size + 1
    /\ UNCHANGED <<status, READING, PENDING_READ, answers, serverVars, sock, rx, fin,
                   wrClosed, canceled, port, at, loopVars>>
-----------------------------------------------------------------------------
(* The loop and the handlers.                                              *)

Goto(from, to) == at = from /\ at' = to
LoopUnchanged == UNCHANGED <<streamVars, serverVars, kernelVars, port, loopVars>>

Run == Goto("user", "poll") /\ LoopUnchanged
LoopExits == refs = 0 /\ Goto("poll", "user") /\ LoopUnchanged

(* Without a packet when a timer ends the poll. *)
PollReturns == /\ refs > 0 /\ Goto("poll", "events")
               /\ batch' = port /\ port' = <<>>
               /\ UNCHANGED <<streamVars, serverVars, kernelVars, pending, released, refs>>

Take(packet) == /\ batch # <<>> /\ Head(batch) = packet
                /\ batch' = Tail(batch)
                /\ UNCHANGED <<port, released, refs>>

(* pd__tcp_accept_io; pd__tcp_accept_sync does the same. *)
Accepted == /\ Goto("events", "connection") /\ Take("accept")
            /\ todo' = 1
            /\ UNCHANGED <<streamVars, server, accepts, failures, kernelVars, pending>>

(* Mutant: an accept that failed is not posted again. *)
AcceptForgotten == /\ Goto("events", "events") /\ Take("unaccepted")
                   /\ UNCHANGED <<streamVars, serverVars, kernelVars, pending>>

AcceptFailed == /\ Goto("events", "post") /\ Take("unaccepted")
                /\ todo' = 1
                /\ UNCHANGED <<streamVars, server, accepts, failures, kernelVars, pending>>

(* pd__tcp_post_acceptex, for the next operation or when on_connection     *)
(* returned: pending, done at once, or failed and forgotten.               *)
PostAccept ==
    /\ at \in {"post", "connection"} /\ todo > 0
    /\ \/ at' = "post" /\ todo' = todo - 1 /\ accepts' = accepts + 1
          /\ UNCHANGED failures
       \/ at' = "connection" /\ UNCHANGED <<todo, accepts, failures>>
       \/ at' = "post" /\ todo' = todo - 1 /\ UNCHANGED accepts
          /\ failures < MaxFailures /\ failures' = failures + 1
    /\ UNCHANGED <<streamVars, server, kernelVars, port, loopVars>>

(* The end of pd_tcp_listen, or of a handler. *)
PostEnds ==
    /\ todo = 0
    /\ IF server = "posting" THEN Goto("post", "user") /\ server' = "listening" /\ refs' = refs + 1
                             ELSE Goto("post", "events") /\ UNCHANGED <<server, refs>>
    /\ UNCHANGED <<streamVars, accepts, todo, failures, kernelVars, port, batch, pending,
                   released>>

(* No memory for the next operation: the ones posted stay, uncounted. *)
ListenFails ==
    /\ server = "posting" /\ todo > 0 /\ Goto("post", "user")
    /\ server' = "failed" /\ todo' = 0
    /\ UNCHANGED <<streamVars, accepts, failures, kernelVars, port, loopVars>>

(* pd__tcp_connect_io: the receive is posted before the stream is active. *)
Connected ==
    /\ at = "events" /\ Take("connected")
    /\ \/ PostRecv(READING) /\ at' = IF posted' = posted THEN "early" ELSE "connect"
       \/ AllocFails(READING) /\ at' = "early"
    /\ status' = IF at' = "connect" THEN "ACTIVE" ELSE status
    /\ UNCHANGED <<writes_size, answers, serverVars, sock, fin, wrClosed, canceled, pending>>

EarlyReturns == /\ Goto("early", "connect")
                /\ status' = "ACTIVE"
                /\ UNCHANGED <<READING, PENDING_READ, writes_size, answers, serverVars,
                               kernelVars, port, loopVars>>

Refused == /\ Goto("events", "connect") /\ Take("refused")
           /\ UNCHANGED <<streamVars, serverVars, kernelVars, pending>>

ConnectReturns == Goto("connect", "events") /\ LoopUnchanged

(* pd__tcp_read_io. *)
ReadData == /\ Goto("events", "data") /\ Take("data")
            /\ PENDING_READ' = FALSE
            /\ UNCHANGED <<status, READING, writes_size, answers, serverVars, kernelVars, pending>>

(* The end, an error or a cancelled receive: pd_tcp_close, which does      *)
(* nothing for a stream that is closed and waits for this very packet.     *)
ReadZero == /\ Goto("events", "events") /\ Take("zero")
            /\ PENDING_READ' = FALSE
            /\ Close(FALSE)
            /\ UNCHANGED <<writes_size, answers, serverVars, rx, fin, wrClosed, posted>>

DataReturns ==
    /\ Goto("data", "events")
    /\ IF status = "CLOSED"
       THEN pd__tcp_try_close(writes_size, PENDING_READ) /\ UNCHANGED <<READING, PENDING_READ, posted, rx>>
       ELSE /\ IF READING THEN PostRecv(READING) \/ AllocFails(READING)
                          ELSE UNCHANGED <<READING, PENDING_READ, posted, rx>>
            /\ UNCHANGED <<sock, pending>>
    /\ UNCHANGED <<status, writes_size, answers, serverVars, fin, wrClosed, canceled, port,
                   batch, released, refs>>

(* Mutant: the write of a closed stream is not answered. *)
WrittenSilently(o) == /\ Goto("events", "written") /\ Take(o)
                      /\ answers' = [answers EXCEPT ![o] = IF status = "CLOSED" THEN @ ELSE @ + 1]
                      /\ UNCHANGED <<status, READING, PENDING_READ, writes_size, serverVars,
                                     kernelVars, pending>>

(* pd__tcp_write_io, which reports every packet as written. *)
Written(o) == /\ Goto("events", "written") /\ Take(o)
              /\ Answer(o)
              /\ UNCHANGED <<status, READING, PENDING_READ, writes_size, serverVars,
                             kernelVars, pending>>

(* Mutant: the writes of a closed stream are not counted. *)
WrittenUncounted ==
    /\ Goto("written", "events")
    /\ writes_size' = IF status = "CLOSED" THEN writes_size ELSE writes_size - 1
    /\ wrClosed' = (wrClosed \/ (writes_size = 1 /\ status = "SHUTDOWN"))
    /\ IF status = "CLOSED" THEN pd__tcp_try_close(writes_size - 1, PENDING_READ)
                            ELSE UNCHANGED <<sock, pending>>
    /\ UNCHANGED <<status, READING, PENDING_READ, answers, serverVars, rx, fin, posted,
                   canceled, port, batch, released, refs>>

WrittenReturns ==
    /\ Goto("written", "events")
    /\ writes_size' = writes_size - 1
    /\ wrClosed' = (wrClosed \/ (writes_size = 1 /\ status = "SHUTDOWN"))
    /\ IF status = "CLOSED" THEN pd__tcp_try_close(writes_size - 1, PENDING_READ)
                            ELSE UNCHANGED <<sock, pending>>
    /\ UNCHANGED <<status, READING, PENDING_READ, answers, serverVars, rx, fin, posted,
                   canceled, port, batch, released, refs>>

EventsEnd == batch = <<>> /\ Goto("events", "closes") /\ LoopUnchanged

(* pd__tcp_pending_close. *)
OnClose == /\ pending /\ Goto("closes", "onclose")
           /\ pending' = FALSE /\ released' = TRUE
           /\ UNCHANGED <<streamVars, serverVars, kernelVars, port, batch, refs>>

OnCloseReturns == /\ Goto("onclose", "closes") /\ refs' = refs - 1
                  /\ UNCHANGED <<streamVars, serverVars, kernelVars, port, batch, pending, released>>

ClosesEnd == ~pending /\ Goto("closes", "after") /\ LoopUnchanged
IterationEnds == Goto("after", "poll") /\ LoopUnchanged

User == \/ pd_tcp_listen \/ pd_tcp_accept \/ pd_tcp_connect \/ pd_tcp_close
        \/ pd_tcp_shutdown \/ pd_tcp_pause \/ pd_tcp_resume \/ Run
        \/ \E o \in Ops : WriteAnswered(o) \/ WritePosted(o)

Loop == \/ LoopExits \/ PollReturns \/ Accepted \/ AcceptFailed
        \/ PostAccept \/ PostEnds \/ ListenFails
        \/ Connected \/ EarlyReturns \/ Refused \/ ConnectReturns
        \/ ReadData \/ ReadZero \/ DataReturns
        \/ (\E o \in Ops : Written(o)) \/ WrittenReturns
        \/ EventsEnd \/ OnClose \/ OnCloseReturns \/ ClosesEnd \/ IterationEnds

Next == User \/ Loop \/ PeerSends \/ PeerEnds \/ Kernel \/ AcceptDone

Spec == Init /\ [][Next]_vars

(* The loop thread is scheduled and callbacks return; the kernel completes *)
(* what it can: the peer reads, or the connection is reset in the end.     *)
FairSpec == /\ Spec /\ WF_vars(Loop)
            /\ \A o \in Ops : WF_vars(SendDone(o))
            /\ WF_vars(ReceiveDone) /\ WF_vars(ConnectDone)
-----------------------------------------------------------------------------
(* Correctness.                                                            *)

(* Every variable has the shape the code gives it. *)
TypeOK ==
    /\ status \in {"NONE", "ACTIVE", "SHUTDOWN", "CLOSED"}
    /\ READING \in BOOLEAN /\ PENDING_READ \in BOOLEAN /\ writes_size \in Nat
    /\ answers \in [Ops -> Nat]
    /\ server \in {"none", "posting", "listening", "failed"}
    /\ accepts \in 0 .. SIMULTANEOUS_ACCEPTS /\ todo \in 0 .. SIMULTANEOUS_ACCEPTS
    /\ failures \in 0 .. MaxFailures
    /\ sock \in {"none", "connecting", "refused", "open", "reset", "closed"}
    /\ rx \in 0 .. MaxRx /\ fin \in BOOLEAN /\ wrClosed \in BOOLEAN
    /\ posted \subseteq Ops \cup {"read", "connect"} /\ canceled \subseteq posted
    /\ Packets \subseteq StreamPackets \cup {"accept", "unaccepted"}
    /\ at \in Places /\ pending \in BOOLEAN /\ released \in BOOLEAN /\ refs \in Nat

(* When on_close was called, where the user frees the stream, the kernel   *)
(* has no operation of it and the loop no packet and no handler.           *)
NothingAfterRelease ==
    released => /\ posted = {} /\ Packets \cap StreamPackets = {}
                /\ at \notin {"data", "early", "written", "connect"}

(* writes_size is the number of writes under way, and a write is under way *)
(* or answered, not both: its callback is called once, and not before the  *)
(* kernel is done with its buffer.                                         *)
WritesExact ==
    LET underWay == posted \cup Packets
    IN /\ writes_size = Cardinality(Ops \cap underWay) + (IF at = "written" THEN 1 ELSE 0)
       /\ \A o \in Ops : answers[o] + (IF o \in underWay THEN 1 ELSE 0) <= 1

(* The sending direction is closed when no write is under way. *)
FinLast == wrClosed => writes_size = 0

(* The pool of accept operations does not shrink, except by the calls of   *)
(* AcceptEx that failed at once, whose operations are dropped.             *)
AcceptsKept ==
    LET waiting(q) == Cardinality({i \in DOMAIN q : q[i] \in {"accept", "unaccepted"}})
    IN server = "listening" =>
           accepts + todo + failures + waiting(port) + waiting(batch) = SIMULTANEOUS_ACCEPTS

(* The loop is run and gets back to the poll. *)
Turning == []<>(at = "poll")

(* A write that is under way is answered, also when the stream is closed   *)
(* or reset meanwhile.                                                     *)
WritesAnswered == Turning => \A o \in Ops : (o \in posted) ~> (answers[o] > 0)

(* pd_tcp_close closes the connection: until on_close is called it is      *)
(* scheduled, or waits for a write or a receive that will come back.       *)
CloseUnderWay ==
    status = "CLOSED" => released \/ pending \/ writes_size > 0 \/ PENDING_READ
=============================================================================
