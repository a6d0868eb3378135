---------------------------- MODULE TcpDispatch ----------------------------
(***************************************************************************)
(* The listener of src/sys/tcp_unix.c and several streams that share one   *)
(* loop (src/sys/event_epoll.c), seen through the descriptor numbers: a    *)
(* closed number is given out again by the kernel at once, while the       *)
(* library still holds it in the closed stream, in the batch of events it  *)
(* is handling, and in the calls it makes after a callback returned.       *)
(* What a stream does with its data is module TcpStream; here an event of  *)
(* a stream may bring data, an error, room to write, or several of them.   *)
(***************************************************************************)
EXTENDS Naturals, Sequences, FiniteSets, FiniteSetsExt, SequencesExt

CONSTANTS Streams,     \* the pd_tcp_t objects of the user
          Server,      \* the pd_tcp_server_t
          NULL,
          MaxFd,       \* descriptors the process may have open
          MaxBacklog,  \* bound on the connections the kernel keeps waiting
          Careful      \* the user keeps to the rules below

ASSUME TcpDispatchAssumption ==
    /\ MaxFd \in Nat \ {0} /\ MaxBacklog \in Nat \ {0} /\ Careful \in BOOLEAN
    /\ IsFiniteSet(Streams) /\ Server \notin Streams
    /\ NULL \notin Streams \cup {Server, "new"} /\ "new" \notin Streams \cup {Server}

Objects == Streams \cup {Server}
Fds == 1 .. MaxFd

VARIABLES
    status, fd,      \* fields of the objects
    handler,         \* the handler of each stream
    on_connection,   \* the server has a callback
    sock,            \* the kernel: who opened the socket at each descriptor,
                     \* "new" for one that on_connection was given, or NULL
    reg,             \* epoll: the object whose event is registered for it
    backlog,         \* connections waiting at the listening socket
    at, who, peer_fd,\* the place of the loop thread, the stream, the new socket
    batch,           \* objects whose events were fetched and not handled
    pending,         \* ctx->pending_closes
    refs             \* ctx->refs, below zero for the size_t that it wraps to

objVars == <<status, fd, handler, on_connection>>
kernelVars == <<sock, reg, backlog>>
vars == <<objVars, kernelVars, at, who, peer_fd, batch, pending, refs>>

(* "user": outside pd_io_run; "poll"; "events": between two handlers;      *)
(* "connection", "data", "written", "connect", "onclose": in a callback;   *)
(* "rest", "drain": in pd__tcp_client_io and pd__tcp_write, after one;     *)
(* "closes": at pd__tcp_pending_close; "after": in after_tick.             *)
Places == {"user", "poll", "events", "connection", "data", "rest", "written",
           "drain", "connect", "closes", "onclose", "after"}
UserCode == at \in {"user", "events", "connection", "data", "written", "connect",
                    "onclose", "after"}

Listening == \E f \in Fds : sock[f] = Server
FreeFds == {f \in Fds : sock[f] = NULL}
Open(s) == \E f \in Fds : sock[f] = s
Fresh(s) == status[s] = "NONE" /\ ~Open(s)

Init ==
    /\ status = [o \in Objects |-> "NONE"] /\ fd = [o \in Objects |-> 0]
    /\ handler = [s \in Streams |-> "none"] /\ on_connection = FALSE
    /\ sock = [f \in Fds |-> NULL] /\ reg = [f \in Fds |-> NULL] /\ backlog = 0
    /\ at = "user" /\ who = NULL /\ peer_fd = 0
    /\ batch = {} /\ pending = <<>> /\ refs = 0
-----------------------------------------------------------------------------
(* The kernel: the lowest free number is given out; epoll_ctl by number.   *)

NewFd == Min(FreeFds)

(* Mutant: EPOLL_CTL_MOD instead of EPOLL_CTL_ADD. *)
EventAddModifies(o, f) == reg' = [reg EXCEPT ![f] = IF @ = NULL THEN @ ELSE o]

pd__event_add(o, f) == reg' = [reg EXCEPT ![f] = o]

(* EPOLL_CTL_MOD: refused unless the number is registered. *)
pd__event_set(o, f) == reg' = [reg EXCEPT ![f] = IF @ = NULL THEN @ ELSE o]

(* pd__event_del and pd__closesocket. *)
CloseFd(f) == /\ reg' = [reg EXCEPT ![f] = NULL]
              /\ sock' = [sock EXCEPT ![f] = NULL]

Connects == /\ Listening /\ backlog < MaxBacklog
            /\ backlog' = backlog + 1
            /\ UNCHANGED <<objVars, sock, reg, at, who, peer_fd, batch, pending, refs>>
-----------------------------------------------------------------------------
(* Calls the user makes.                                                   *)

(* What a user has to keep to, though the library does not say so: a       *)
(* connected stream with an event waiting in the batch is not closed, a    *)
(* write callback opens nothing, a stream that has no socket of its own is *)
(* neither paused nor resumed, and the server is closed once.              *)
MayClose(s) == Careful => s \notin batch \/ handler[s] = "connect"
MayOpen == Careful => at # "written"
MayWatch(s) == Careful => Open(s)
MayCloseServer == Careful => Listening

(* Everything in it can fail before the socket is registered, which leaves *)
(* nothing behind.                                                         *)
pd_tcp_listen ==
    /\ UserCode /\ MayOpen /\ ~Listening /\ FreeFds # {}
    /\ sock' = [sock EXCEPT ![NewFd] = Server]
    /\ fd' = [fd EXCEPT ![Server] = NewFd]
    /\ status' = [status EXCEPT ![Server] = "ACTIVE"]
    /\ on_connection' \in BOOLEAN
    /\ pd__event_add(Server, NewFd)
    /\ backlog' = 0 /\ refs' = refs + 1
    /\ UNCHANGED <<handler, at, who, peer_fd, batch, pending>>

(* status stays PD_TCP_ACTIVE, and fd what it was: a second call closes    *)
(* what the number stands for by then.  Nothing happens when the number is *)
(* not registered, as pd__event_del fails.                                 *)
pd_tcp_server_close ==
    /\ UserCode /\ MayCloseServer
    /\ fd[Server] # 0 /\ reg[fd[Server]] # NULL
    /\ CloseFd(fd[Server])
    /\ backlog' = 0 /\ refs' = refs - 1
    /\ UNCHANGED <<objVars, at, who, peer_fd, batch, pending>>

(* In on_connection, the new socket is given to a stream, or closed. *)
pd_tcp_accept(s) ==
    /\ at = "connection" /\ peer_fd # 0 /\ Fresh(s)
    /\ sock' = [sock EXCEPT ![peer_fd] = s]
    /\ fd' = [fd EXCEPT ![s] = peer_fd]
    /\ status' = [status EXCEPT ![s] = "ACTIVE"]
    /\ handler' = [handler EXCEPT ![s] = "client"]
    /\ pd__event_add(s, peer_fd)
    /\ refs' = refs + 1 /\ peer_fd' = 0
    /\ UNCHANGED <<on_connection, backlog, at, who, batch, pending>>

Declines ==
    /\ at = "connection" /\ peer_fd # 0
    /\ CloseFd(peer_fd) /\ peer_fd' = 0
    /\ UNCHANGED <<objVars, backlog, at, who, batch, pending, refs>>

pd_tcp_connect(s) ==
    /\ UserCode /\ MayOpen /\ Fresh(s) /\ FreeFds # {}
    /\ sock' = [sock EXCEPT ![NewFd] = s]
    /\ fd' = [fd EXCEPT ![s] = NewFd]
    /\ handler' = [handler EXCEPT ![s] = "connect"]
    /\ pd__event_add(s, NewFd)
    /\ refs' = refs + 1
    /\ UNCHANGED <<status, on_connection, backlog, at, who, peer_fd, batch, pending>>

(* A connection that is refused at once: the stream keeps the number. *)
ConnectRefused(s) ==
    /\ UserCode /\ MayOpen /\ Fresh(s) /\ FreeFds # {}
    /\ fd' = [fd EXCEPT ![s] = NewFd]
    /\ handler' = [handler EXCEPT ![s] = "connect"]
    /\ UNCHANGED <<status, on_connection, kernelVars, at, who, peer_fd, batch, pending, refs>>

(* Mutant: the socket of a stream that has no connection yet stays open. *)
CloseActive(s) ==
    IF status[s] = "CLOSED" THEN UNCHANGED <<status, sock, reg, pending>>
    ELSE /\ status' = [status EXCEPT ![s] = "CLOSED"]
         /\ IF status[s] = "ACTIVE" THEN CloseFd(fd[s]) ELSE UNCHANGED <<sock, reg>>
         /\ pending' = Append(pending, s)

(* Mutant: a closed stream is closed, and its descriptor with it, again. *)
CloseTwice(s) ==
    /\ status' = [status EXCEPT ![s] = "CLOSED"]
    /\ CloseFd(fd[s])
    /\ pending' = Append(pending, s)

(* pd_tcp_close, from the user or from the library. *)
Close(s) ==
    IF status[s] = "CLOSED" THEN UNCHANGED <<status, sock, reg, pending>>
    ELSE /\ status' = [status EXCEPT ![s] = "CLOSED"]
         /\ CloseFd(fd[s])
         /\ pending' = Append(pending, s)

pd_tcp_close(s) ==
    /\ UserCode /\ MayClose(s)
    /\ Open(s) \/ status[s] = "CLOSED"
    /\ Close(s)
    /\ UNCHANGED <<fd, handler, on_connection, backlog, at, who, peer_fd, batch, refs>>

(* pd_tcp_pause and pd_tcp_resume: for the number the stream holds, without *)
(* a look at the status.  Which events are asked for is left open here.  A *)
(* stream that never had a number (-1) changes nothing.                    *)
PauseResume(s) ==
    /\ UserCode /\ MayWatch(s) /\ fd[s] # 0
    /\ pd__event_set(s, fd[s])
    /\ UNCHANGED <<objVars, sock, backlog, at, who, peer_fd, batch, pending, refs>>
-----------------------------------------------------------------------------
(* The loop and the handlers.                                              *)

Goto(from, to) == at = from /\ at' = to

LoopUnchanged == UNCHANGED <<objVars, kernelVars, who, peer_fd, batch, pending, refs>>

Run == Goto("user", "poll") /\ LoopUnchanged
LoopExits == refs = 0 /\ Goto("poll", "user") /\ LoopUnchanged

(* The batch has room for all: the listener when connections wait, any     *)
(* streams that are registered, none when a timer ends the poll.           *)
PollReturns ==
    /\ refs # 0 /\ Goto("poll", "events")
    /\ LET listeners == IF Listening /\ backlog > 0
                        THEN {reg[f] : f \in {g \in Fds : sock[g] = Server}} ELSE {}
       IN \E ready \in SUBSET {f \in Fds : sock[f] \in Streams} :
             batch' = (listeners \cup {reg[f] : f \in ready}) \ {NULL}
    /\ UNCHANGED <<objVars, kernelVars, who, peer_fd, pending, refs>>

Take(o) == o \in batch /\ batch' = batch \ {o}

(* accept takes a connection that waits at the server's own socket. *)
CanAccept == sock[fd[Server]] = Server /\ backlog > 0 /\ FreeFds # {}

(* Mutant: the new socket of a server without a callback is forgotten. *)
AcceptLeaks ==
    /\ at = "events" /\ Take(Server) /\ CanAccept
    /\ backlog' = backlog - 1
    /\ sock' = [sock EXCEPT ![NewFd] = "new"]
    /\ IF on_connection THEN at' = "connection" /\ peer_fd' = NewFd
                        ELSE UNCHANGED <<at, peer_fd>>
    /\ UNCHANGED <<objVars, reg, who, pending, refs>>

(* Mutant: a server without a callback leaves the connection waiting. *)
AcceptIgnored ==
    /\ at = "events" /\ Take(Server) /\ CanAccept
    /\ IF on_connection
       THEN /\ backlog' = backlog - 1
            /\ at' = "connection" /\ peer_fd' = NewFd
            /\ sock' = [sock EXCEPT ![NewFd] = "new"]
       ELSE UNCHANGED <<at, peer_fd, sock, backlog>>
    /\ UNCHANGED <<objVars, reg, who, pending, refs>>

(* pnd__tcp_listener_io: one connection for an event.  Without a callback, *)
(* or when it cannot be made non-blocking, the new socket is closed.       *)
Accept ==
    /\ at = "events" /\ Take(Server) /\ CanAccept
    /\ backlog' = backlog - 1
    /\ \/ /\ on_connection
          /\ at' = "connection" /\ peer_fd' = NewFd
          /\ sock' = [sock EXCEPT ![NewFd] = "new"]
       \/ UNCHANGED <<at, peer_fd, sock>>
    /\ UNCHANGED <<objVars, reg, who, pending, refs>>

(* EAGAIN, no descriptor left, or a number that is no longer the server's. *)
AcceptFails == /\ at = "events" /\ Take(Server) /\ ~CanAccept
               /\ UNCHANGED <<objVars, kernelVars, at, who, peer_fd, pending, refs>>

ConnectionReturns == peer_fd = 0 /\ Goto("connection", "events") /\ LoopUnchanged

(* pd__tcp_connect_io. *)
ConnectStale(s) == /\ at = "events" /\ Take(s) /\ handler[s] = "connect"
                   /\ status[s] = "CLOSED"
                   /\ UNCHANGED <<objVars, kernelVars, at, who, peer_fd, pending, refs>>

ConnectFails(s) == /\ Take(s) /\ handler[s] = "connect" /\ status[s] # "CLOSED"
                   /\ Goto("events", "connect") /\ who' = s
                   /\ UNCHANGED <<objVars, kernelVars, peer_fd, pending, refs>>

Connected(s) == /\ Take(s) /\ handler[s] = "connect" /\ status[s] # "CLOSED"
                /\ Goto("events", "connect") /\ who' = s
                /\ status' = [status EXCEPT ![s] = "ACTIVE"]
                /\ handler' = [handler EXCEPT ![s] = "client"]
                /\ pd__event_set(s, fd[s])
                /\ UNCHANGED <<fd, on_connection, sock, backlog, peer_fd, pending, refs>>

ConnectReturns == Goto("connect", "events") /\ LoopUnchanged

(* pd__tcp_read, which looks at the descriptor and not at the status. *)
Read(s) == /\ Take(s) /\ handler[s] = "client"
           /\ Goto("events", "data") /\ who' = s
           /\ UNCHANGED <<objVars, kernelVars, peer_fd, pending, refs>>

NothingToRead(s) == /\ Take(s) /\ handler[s] = "client"
                    /\ Goto("events", "rest") /\ who' = s
                    /\ UNCHANGED <<objVars, kernelVars, peer_fd, pending, refs>>

DataReturns == Goto("data", "rest") /\ LoopUnchanged

(* The end of the stream, an error or a hang-up. *)
CloseEvent == /\ Goto("rest", "events")
              /\ Close(who)
              /\ UNCHANGED <<fd, handler, on_connection, backlog, who, peer_fd, batch, refs>>

NothingToWrite == Goto("rest", "events") /\ LoopUnchanged

(* pd__tcp_write, up to a callback. *)
Write == Goto("rest", "written") /\ status[who] # "CLOSED" /\ LoopUnchanged

WrittenReturns == Goto("written", "drain") /\ LoopUnchanged

WriteMore == Goto("drain", "written") /\ LoopUnchanged

(* The socket takes no more, or fails. *)
WriteStops == Goto("drain", "events") /\ LoopUnchanged

(* No write is left: pd__event_set, whatever the callbacks did. *)
WriteEnds == /\ Goto("drain", "events")
             /\ pd__event_set(who, fd[who])
             /\ UNCHANGED <<objVars, sock, backlog, who, peer_fd, batch, pending, refs>>

EventsEnd == batch = {} /\ Goto("events", "closes") /\ LoopUnchanged

(* pd__tcp_pending_close. *)
OnClose == /\ pending # <<>> /\ Goto("closes", "onclose")
           /\ who' = Head(pending) /\ pending' = Tail(pending)
           /\ UNCHANGED <<objVars, kernelVars, peer_fd, batch, refs>>

(* The user frees the stream, or initialises it again. *)
OnCloseReturns == /\ Goto("onclose", "closes")
                  /\ status' = [status EXCEPT ![who] = "NONE"]
                  /\ fd' = [fd EXCEPT ![who] = 0]
                  /\ handler' = [handler EXCEPT ![who] = "none"]
                  /\ refs' = refs - 1
                  /\ UNCHANGED <<on_connection, kernelVars, who, peer_fd, batch, pending>>

ClosesEnd == pending = <<>> /\ Goto("closes", "after") /\ LoopUnchanged
IterationEnds == Goto("after", "poll") /\ LoopUnchanged

User == \/ pd_tcp_listen \/ pd_tcp_server_close \/ Declines \/ Run
        \/ \E s \in Streams : \/ pd_tcp_accept(s) \/ pd_tcp_connect(s)
                              \/ ConnectRefused(s) \/ pd_tcp_close(s)
                              \/ PauseResume(s)

Loop == \/ LoopExits \/ PollReturns \/ Accept \/ AcceptFails \/ ConnectionReturns
        \/ \E s \in Streams : \/ ConnectStale(s) \/ ConnectFails(s) \/ Connected(s)
                              \/ Read(s) \/ NothingToRead(s)
        \/ ConnectReturns \/ DataReturns \/ CloseEvent \/ NothingToWrite \/ Write
        \/ WrittenReturns \/ WriteMore \/ WriteStops \/ WriteEnds
        \/ EventsEnd \/ OnClose \/ OnCloseReturns \/ ClosesEnd \/ IterationEnds

Next == User \/ Loop \/ Connects

Spec == Init /\ [][Next]_vars

(* The loop thread is scheduled and callbacks return. *)
FairSpec == Spec /\ WF_vars(Loop) /\ WF_vars(Declines)
-----------------------------------------------------------------------------
(* Correctness.                                                            *)

(* Every variable has the shape the code gives it. *)
TypeOK ==
    /\ status \in [Objects -> {"NONE", "ACTIVE", "CLOSED"}]
    /\ fd \in [Objects -> 0 .. MaxFd] /\ on_connection \in BOOLEAN
    /\ handler \in [Streams -> {"none", "connect", "client"}]
    /\ sock \in [Fds -> Objects \cup {"new", NULL}] /\ reg \in [Fds -> Objects \cup {NULL}]
    /\ backlog \in 0 .. MaxBacklog /\ at \in Places
    /\ who \in Streams \cup {NULL} /\ peer_fd \in 0 .. MaxFd
    /\ batch \subseteq Objects /\ pending \in Seq(Streams) /\ refs \in Nat

(* An event goes to the object that owns the socket: what is registered    *)
(* for a descriptor is the event of the one stream or server that opened   *)
(* it, and every socket of theirs is registered, however numbers were      *)
(* closed and given out again.                                             *)
EventsGoHome ==
    \A f \in Fds :
        IF sock[f] \in Objects THEN reg[f] = sock[f] /\ fd[sock[f]] = f
                               ELSE reg[f] = NULL

(* No socket is left open that nobody can close: each belongs to the       *)
(* server, to a stream that is not closed, or to a running on_connection.  *)
NoSocketLost ==
    \A f \in Fds : sock[f] # NULL =>
        \/ sock[f] = Server
        \/ sock[f] \in Streams /\ status[sock[f]] # "CLOSED"
        \/ sock[f] = "new" /\ at = "connection" /\ peer_fd = f

(* The loop counts the server while it listens and each stream from accept *)
(* or connect until on_close returned, so it ends when all of them ended.  *)
RefsExact ==
    refs = Cardinality({s \in Streams : Open(s) \/ status[s] = "CLOSED"})
           + (IF Listening THEN 1 ELSE 0)

(* The handler of a stream reads its own socket, or none: a stale event is *)
(* not let near a number that was given out again.                         *)
ReadsOwn ==
    [][\A s \in Streams :
           at = "events" /\ at' = "data" /\ who' = s => sock[fd[s]] \in {s, NULL}]_vars

(* A full backlog is relieved: the loop accepts from it, unless there is   *)
(* no descriptor for the connection or the server was closed.  The loop    *)
(* must get back to the poll: write callbacks that go on writing, and      *)
(* on_close callbacks that open and close streams, can keep it from that.  *)
BacklogServed ==
    []<>(at = "poll") =>
        ((Listening /\ backlog = MaxBacklog) ~> (backlog < MaxBacklog \/ FreeFds = {}))
=============================================================================
