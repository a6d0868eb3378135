------------------------- MODULE TcpDispatchProofs -------------------------
(***************************************************************************)
(* Proofs about TcpDispatch, for every number of streams, of descriptors   *)
(* and of waiting connections, and a user that keeps to the rules Careful. *)
(***************************************************************************)
EXTENDS TcpDispatch, FiniteSetTheorems, TLAPS

(* The variables without refs, whose type follows from what it counts. *)
Shape ==
    /\ status \in [Objects -> {"NONE", "ACTIVE", "CLOSED"}]
    /\ fd \in [Objects -> 0 .. MaxFd] /\ on_connection \in BOOLEAN
    /\ handler \in [Streams -> {"none", "connect", "client"}]
    /\ sock \in [Fds -> Objects \cup {"new", NULL}] /\ reg \in [Fds -> Objects \cup {NULL}]
    /\ backlog \in 0 .. MaxBacklog /\ at \in Places
    /\ who \in Streams \cup {NULL} /\ peer_fd \in 0 .. MaxFd
    /\ batch \subseteq Objects /\ pending \in Seq(Streams)

(* The stream was opened, and its on_close did not return yet. *)
Alive(s) == Open(s) \/ status[s] = "CLOSED"

(* The socket that on_connection was given is nobody's until it returns. *)
PeerIsNew == peer_fd # 0 => at = "connection" /\ peer_fd \in Fds /\ sock[peer_fd] = "new"

(* A fetched event is that of a stream that still exists: on_close is      *)
(* called when the batch is over.                                          *)
BatchAlive == /\ \A s \in batch \cap Streams : Alive(s)
              /\ at \in {"user", "poll", "closes", "onclose", "after"} => batch = {}

(* So is the stream whose handler runs, whatever its callbacks closed. *)
HandlerAlive ==
    at \in {"data", "rest", "written", "drain", "connect"} => who \in Streams /\ Alive(who)

(* While pd__tcp_write runs the number in the stream is its own, or free. *)
WriterHome ==
    at \in {"written", "drain"} => fd[who] \in Fds /\ sock[fd[who]] \in {who, NULL}

(* A stream waits once for its on_close, and is closed until it returned. *)
ClosesExact ==
    /\ \A i \in DOMAIN pending : status[pending[i]] = "CLOSED"
    /\ \A i, j \in DOMAIN pending : pending[i] = pending[j] => i = j
    /\ at = "onclose" => /\ who \in Streams /\ status[who] = "CLOSED"
                         /\ \A i \in DOMAIN pending : pending[i] # who

Control == /\ Shape /\ EventsGoHome /\ NoSocketLost /\ PeerIsNew
           /\ BatchAlive /\ HandlerAlive /\ WriterHome /\ ClosesExact

(* A fetched event that would be read is that of an open socket: only the  *)
(* handler that took the event, or a user that breaks the rule, closes it. *)
BatchReadable ==
    /\ \A s \in batch \cap Streams : handler[s] = "client" => Open(s)
    /\ at \in {"data", "rest", "written", "drain", "connect"} => who \notin batch

IInv == Control /\ RefsExact /\ BatchReadable
-----------------------------------------------------------------------------
(* The kernel's descriptors.                                               *)

(* A set of natural numbers that is not empty has a least member. *)
LEMMA LeastNatural ==
    ASSUME NEW T, T \subseteq Nat, T # {}
    PROVE  \E x \in T : \A y \in T : x <= y
<1>1. PICK x \in T : \A y \in T : ~(<<y, x>> \in OpToRel(<, Nat))
  BY NatLessThanWellFounded, WFMin
<1>2. \A y \in T : ~(y < x)
  BY <1>1 DEF OpToRel
<1> QED BY <1>2

(* The number that is given out is free. *)
LEMMA NewFdIsFree ==
    ASSUME FreeFds # {}
    PROVE  NewFd \in Fds /\ sock[NewFd] = NULL
<1>1. FreeFds \subseteq Nat
  BY TcpDispatchAssumption DEF FreeFds, Fds
<1>2. \E x \in FreeFds : \A y \in FreeFds : x <= y
  BY <1>1, LeastNatural
<1>3. NewFd \in FreeFds
  BY <1>2 DEF NewFd, Min
<1> QED BY <1>3 DEF FreeFds

(* An open object has its socket at the number it keeps, and only there. *)
LEMMA OpenAtHome ==
    ASSUME Shape, EventsGoHome, NEW o \in Objects
    PROVE  /\ (\E f \in Fds : sock[f] = o) <=> (fd[o] \in Fds /\ sock[fd[o]] = o)
           /\ \A f \in Fds : sock[f] = o => f = fd[o] /\ reg[f] = o
BY DEF Shape, EventsGoHome
-----------------------------------------------------------------------------
(* Steps that only move the loop thread. *)
LEMMA MoveStep ==
    ASSUME Control, LoopUnchanged, at' \in Places,
           peer_fd # 0 => at' = "connection",
           at' \in {"data", "rest", "written", "drain", "connect"} =>
               at \in {"data", "rest", "written", "drain", "connect"},
           at' \in {"written", "drain"} =>
               at \in {"written", "drain"} \/ status[who] # "CLOSED",
           at' \in {"user", "poll", "closes", "onclose", "after"} => batch = {},
           at' # "onclose"
    PROVE  Control'
<1>1. UNCHANGED <<status, fd, handler, on_connection, sock, reg, backlog, who, peer_fd, batch,
                  pending, refs>>
  BY DEF LoopUnchanged, objVars, kernelVars
<1>2. Shape' /\ EventsGoHome' /\ PeerIsNew' /\ BatchAlive' /\ HandlerAlive' /\ ClosesExact'
  BY <1>1 DEF Control, Shape, EventsGoHome, PeerIsNew, BatchAlive, HandlerAlive, ClosesExact,
              Alive, Open
<1>3. NoSocketLost'
  BY <1>1, TcpDispatchAssumption DEF Control, NoSocketLost, PeerIsNew, Fds
<1>4. WriterHome'
  BY <1>1, OpenAtHome DEF Control, WriterHome, HandlerAlive, Alive, Open, Objects
<1> QED BY <1>2, <1>3, <1>4 DEF Control

(* All of them are such steps. *)
LEMMA MovesStep ==
    ASSUME Control,
           \/ Run \/ LoopExits \/ ConnectionReturns \/ ConnectReturns \/ DataReturns
           \/ NothingToWrite \/ Write \/ WrittenReturns \/ WriteMore \/ WriteStops
           \/ EventsEnd \/ ClosesEnd \/ IterationEnds
    PROVE  Control'
<1>1. /\ LoopUnchanged /\ at' \in Places
      /\ peer_fd # 0 => at' = "connection"
      /\ at' \in {"data", "rest", "written", "drain", "connect"} =>
               at \in {"data", "rest", "written", "drain", "connect"}
      /\ at' \in {"written", "drain"} =>
               at \in {"written", "drain"} \/ status[who] # "CLOSED"
      /\ at' \in {"user", "poll", "closes", "onclose", "after"} => batch = {}
      /\ at' # "onclose"
  BY DEF Control, PeerIsNew, BatchAlive, Places,
       Run, LoopExits, ConnectionReturns, ConnectReturns, DataReturns, NothingToWrite, Write,
       WrittenReturns, WriteMore, WriteStops, EventsEnd, ClosesEnd, IterationEnds, Goto
<1> QED BY <1>1, MoveStep

(* Steps of the poll and of the handlers up to a callback. *)
LEMMA HandlerStep ==
    ASSUME Control,
           \/ PollReturns
           \/ \E s \in Streams : ConnectStale(s) \/ ConnectFails(s) \/ Read(s) \/ NothingToRead(s)
           \/ AcceptFails
    PROVE  Control'
<1>1. UNCHANGED <<status, fd, handler, on_connection, sock, reg, backlog, peer_fd, pending, refs>>
  BY DEF PollReturns, ConnectStale, ConnectFails, Read, NothingToRead, AcceptFails, objVars,
         kernelVars
<1>2. at # "connection" /\ at' # "connection" /\ at' \notin {"written", "drain", "onclose"}
      /\ at' \in Places
      /\ at' \notin {"user", "poll", "closes", "onclose", "after"}
  BY DEF PollReturns, ConnectStale, ConnectFails, Read, NothingToRead, AcceptFails, Goto, Places
<1>3. batch' \subseteq Objects /\ \A s \in batch' \cap Streams : Alive(s)
  <2>1. CASE PollReturns
    <3>1. batch' \subseteq {reg[f] : f \in {g \in Fds : sock[g] \in Objects}}
      BY <2>1 DEF PollReturns, Objects
    <3> QED BY <3>1, TcpDispatchAssumption DEF Control, Shape, EventsGoHome, Alive, Open, Objects
  <2>2. CASE ~PollReturns
    BY <2>2 DEF ConnectStale, ConnectFails, Read, NothingToRead, AcceptFails, Take, Control, Shape,
        BatchAlive
  <2> QED BY <2>1, <2>2
<1>4. /\ who' \in Streams \cup {NULL}
      /\ at' \in {"data", "rest", "written", "drain", "connect"} => who' \in Streams /\ Alive(who')
  BY DEF PollReturns, ConnectStale, ConnectFails, Read, NothingToRead, AcceptFails, Goto, Take,
         Control, Shape, BatchAlive
<1>5. Shape' /\ EventsGoHome' /\ NoSocketLost' /\ PeerIsNew'
  BY <1>1, <1>2, <1>3, <1>4 DEF Control, Shape, EventsGoHome, NoSocketLost, PeerIsNew
<1>6. BatchAlive' /\ HandlerAlive' /\ WriterHome' /\ ClosesExact'
  BY <1>1, <1>2, <1>3, <1>4 DEF Control, BatchAlive, HandlerAlive, WriterHome, ClosesExact,
              Alive, Open
<1> QED BY <1>5, <1>6 DEF Control

(* A stream or the server gets a socket at a free number, or at that of    *)
(* the new connection.                                                     *)
LEMMA OpenStep ==
    ASSUME Control, NEW o \in Objects, NEW f \in Fds, ~(\E g \in Fds : sock[g] = o),
           o \in Streams => status[o] = "NONE",
           sock[f] = NULL \/ (sock[f] = "new" /\ f = peer_fd),
           sock' = [sock EXCEPT ![f] = o], fd' = [fd EXCEPT ![o] = f], pd__event_add(o, f),
           status' = status \/ status' = [status EXCEPT ![o] = "ACTIVE"],
           handler' \in [Streams -> {"none", "connect", "client"}],
           on_connection' \in BOOLEAN, backlog' \in 0 .. MaxBacklog,
           peer_fd' = (IF sock[f] = NULL THEN peer_fd ELSE 0),
           UNCHANGED <<at, who, batch, pending>>,
           at \notin {"written", "drain"}
    PROVE  Control'
<1> USE TcpDispatchAssumption DEF Objects
<1>1. reg' = [reg EXCEPT ![f] = o]
  BY DEF pd__event_add
<1>2. Shape'
  BY <1>1 DEF Control, Shape, Fds
<1>3. EventsGoHome'
  BY <1>1 DEF Control, Shape, EventsGoHome
<1>4. \A s \in Streams : status'[s] = "CLOSED" <=> status[s] = "CLOSED"
  BY DEF Control, Shape
<1>5. \A s \in Streams : Alive(s) => Alive(s)'
  BY <1>4 DEF Control, Shape, Alive, Open
<1>6. NoSocketLost'
  BY <1>4 DEF Control, Shape, NoSocketLost, PeerIsNew
<1>7. PeerIsNew'
  BY DEF Control, Shape, PeerIsNew, Fds
<1>8. BatchAlive' /\ HandlerAlive'
  BY <1>5 DEF Control, Shape, BatchAlive, HandlerAlive
<1>9. WriterHome' /\ ClosesExact'
  BY <1>4 DEF Control, Shape, WriterHome, ClosesExact
<1> QED BY <1>2, <1>3, <1>6, <1>7, <1>8, <1>9 DEF Control

(* The socket of the server, or of the new connection, is closed. *)
LEMMA KernelCloseStep ==
    ASSUME Control, NEW f \in Fds, sock[f] = Server \/ (sock[f] = "new" /\ f = peer_fd),
           CloseFd(f), backlog' \in 0 .. MaxBacklog,
           peer_fd' = (IF sock[f] = Server THEN peer_fd ELSE 0),
           UNCHANGED <<status, fd, handler, on_connection, at, who, batch, pending>>
    PROVE  Control'
<1> USE TcpDispatchAssumption DEF Objects
<1>1. reg' = [reg EXCEPT ![f] = NULL] /\ sock' = [sock EXCEPT ![f] = NULL]
  BY DEF CloseFd
<1>2. Shape'
  BY <1>1 DEF Control, Shape, Fds
<1>3. EventsGoHome'
  BY <1>1 DEF Control, Shape, EventsGoHome
<1>4. \A s \in Streams : Alive(s) => Alive(s)'
  BY <1>1 DEF Control, Shape, Alive, Open
<1>5. NoSocketLost' /\ PeerIsNew'
  BY <1>1 DEF Control, Shape, NoSocketLost, PeerIsNew
<1>6. BatchAlive' /\ HandlerAlive'
  BY <1>4 DEF Control, Shape, BatchAlive, HandlerAlive
<1>7. WriterHome' /\ ClosesExact'
  BY <1>1 DEF Control, Shape, WriterHome, ClosesExact
<1> QED BY <1>2, <1>3, <1>5, <1>6, <1>7 DEF Control

(* pd_tcp_close of a stream that exists, from a callback or a handler. *)
LEMMA CloseStep ==
    ASSUME Control, NEW s \in Streams, Alive(s), Close(s),
           at' = at \/ (at = "rest" /\ at' = "events"),
           at = "onclose" => status[who] = "CLOSED",
           UNCHANGED <<fd, handler, on_connection, backlog, who, peer_fd, batch>>
    PROVE  Control'
<1> USE TcpDispatchAssumption DEF Objects
<1>1. CASE status[s] = "CLOSED"
  <2>1. UNCHANGED <<status, sock, reg, pending>>
    BY <1>1 DEF Close
  <2>2. Shape' /\ EventsGoHome' /\ NoSocketLost' /\ PeerIsNew'
    BY <2>1 DEF Control, Shape, EventsGoHome, NoSocketLost, PeerIsNew, Places
  <2>3. BatchAlive' /\ HandlerAlive' /\ WriterHome' /\ ClosesExact'
    BY <2>1 DEF Control, BatchAlive, HandlerAlive, WriterHome, ClosesExact, Alive, Open
  <2> QED BY <2>2, <2>3 DEF Control
<1>2. CASE status[s] # "CLOSED"
  <2> DEFINE f == fd[s]
  <2>1. /\ f \in Fds /\ sock[f] = s /\ reg[f] = s
        /\ \A g \in Fds : sock[g] = s => g = f
    BY <1>2, OpenAtHome DEF Control, Alive, Open
  <2>2. /\ reg' = [reg EXCEPT ![f] = NULL] /\ sock' = [sock EXCEPT ![f] = NULL]
        /\ status' = [status EXCEPT ![s] = "CLOSED"]
        /\ pending' = Append(pending, s)
    BY <1>2 DEF Close, CloseFd
  <2> HIDE DEF f
  <2>3. Shape'
    BY <2>1, <2>2 DEF Control, Shape, Places
  <2>4. EventsGoHome'
    BY <2>1, <2>2 DEF Control, Shape, EventsGoHome
  <2>5. NoSocketLost' /\ PeerIsNew'
    BY <2>1, <2>2 DEF Control, Shape, NoSocketLost, PeerIsNew
  <2>6. \A t \in Streams : Alive(t) => Alive(t)'
    BY <2>1, <2>2 DEF Control, Shape, Alive, Open
  <2>7. BatchAlive' /\ HandlerAlive'
    BY <2>6 DEF Control, Shape, BatchAlive, HandlerAlive
  <2>8. WriterHome'
    BY <2>1, <2>2 DEF Control, Shape, WriterHome
  <2>9. ClosesExact'
    <3>1. \A i \in DOMAIN pending : pending[i] # s
      BY <1>2 DEF Control, ClosesExact
    <3>2. /\ DOMAIN pending = 1 .. Len(pending) /\ Len(pending) \in Nat
          /\ DOMAIN pending' = 1 .. Len(pending) + 1
          /\ pending'[Len(pending) + 1] = s
          /\ \A i \in DOMAIN pending : pending'[i] = pending[i] /\ pending[i] \in Streams
      BY <2>2 DEF Control, Shape
    <3>3. \A i \in DOMAIN pending' : i \in DOMAIN pending \/ i = Len(pending) + 1
      BY <3>2
    <3>4. \A i \in DOMAIN pending' : status'[pending'[i]] = "CLOSED"
      BY <2>2, <3>2, <3>3 DEF Control, Shape, ClosesExact
    <3>5. \A i, j \in DOMAIN pending' : pending'[i] = pending'[j] => i = j
      BY <3>1, <3>2, <3>3 DEF Control, ClosesExact
    <3>6. at' = "onclose" => /\ who' \in Streams /\ status'[who'] = "CLOSED"
                             /\ \A i \in DOMAIN pending' : pending'[i] # who'
      BY <1>2, <2>2, <3>2, <3>3 DEF Control, Shape, ClosesExact
    <3> QED BY <3>4, <3>5, <3>6 DEF ClosesExact
  <2> QED BY <2>3, <2>4, <2>5, <2>7, <2>8, <2>9 DEF Control
<1> QED BY <1>1, <1>2

(* A stream that has its socket is registered there already: to pause or   *)
(* to resume it moves no registration.                                     *)
LEMMA WatchStep ==
    ASSUME Careful, Control, NEW s \in Streams, PauseResume(s)
    PROVE  UNCHANGED <<status, fd, handler, on_connection, sock, reg, backlog, at, who, peer_fd,
                       batch, pending, refs>>
<1>1. fd[s] \in Fds /\ sock[fd[s]] = s
  BY OpenAtHome DEF PauseResume, MayWatch, Open, Control, Objects
<1>2. reg[fd[s]] = s
  BY <1>1, OpenAtHome DEF Control, Objects
<1>3. reg' = reg
  BY <1>1, <1>2, TcpDispatchAssumption DEF PauseResume, pd__event_set, Control, Shape
<1> QED BY <1>3 DEF PauseResume, objVars

(* The rest of the steps: those of the user ... *)
LEMMA UserStep ==
    ASSUME Careful, Control, User
    PROVE  Control'
<1> USE TcpDispatchAssumption DEF Objects
<1>1. CASE pd_tcp_listen
  <2>1. NewFd \in Fds /\ sock[NewFd] = NULL
    BY <1>1, NewFdIsFree DEF pd_tcp_listen
  <2>2. 0 \in 0 .. MaxBacklog
    OBVIOUS
  <2>3. peer_fd' = (IF sock[NewFd] = NULL THEN peer_fd ELSE 0)
    BY <1>1, <2>1 DEF pd_tcp_listen
  <2>4. handler' \in [Streams -> {"none", "connect", "client"}] /\ on_connection' \in BOOLEAN
    BY <1>1 DEF pd_tcp_listen, Control, Shape
  <2>5. at \notin {"written", "drain"}
    BY <1>1 DEF pd_tcp_listen, UserCode, MayOpen
  <2> HIDE DEF NewFd
  <2> QED BY <1>1, <2>1, <2>2, <2>3, <2>4, <2>5, OpenStep DEF pd_tcp_listen, Listening
<1>2. CASE pd_tcp_server_close
  <2>1. fd[Server] \in Fds /\ sock[fd[Server]] = Server
    BY <1>2, OpenAtHome DEF pd_tcp_server_close, MayCloseServer, Listening, Control
  <2> QED BY <1>2, <2>1, KernelCloseStep DEF pd_tcp_server_close, objVars
<1>3. CASE Declines
  <2>1. peer_fd \in Fds /\ sock[peer_fd] = "new"
    BY <1>3 DEF Declines, Control, PeerIsNew
  <2>2. peer_fd' = (IF sock[peer_fd] = Server THEN peer_fd ELSE 0) /\ backlog' \in 0 .. MaxBacklog
    BY <1>3, <2>1 DEF Declines, Control, Shape
  <2> QED BY <1>3, <2>1, <2>2, KernelCloseStep DEF Declines, objVars
<1>4. CASE Run
  BY <1>4, MovesStep
<1>5. ASSUME NEW s \in Streams, pd_tcp_accept(s)
      PROVE  Control'
  <2>1. peer_fd \in Fds /\ sock[peer_fd] = "new"
    BY <1>5 DEF pd_tcp_accept, Control, PeerIsNew
  <2>2. peer_fd' = (IF sock[peer_fd] = NULL THEN peer_fd ELSE 0) /\ backlog' \in 0 .. MaxBacklog
    BY <1>5, <2>1 DEF pd_tcp_accept, Control, Shape
  <2>3. handler' \in [Streams -> {"none", "connect", "client"}] /\ on_connection' \in BOOLEAN
    BY <1>5 DEF pd_tcp_accept, Control, Shape
  <2> QED BY <1>5, <2>1, <2>2, <2>3, OpenStep DEF pd_tcp_accept, Fresh, Open
<1>6. ASSUME NEW s \in Streams, pd_tcp_connect(s)
      PROVE  Control'
  <2>1. NewFd \in Fds /\ sock[NewFd] = NULL
    BY <1>6, NewFdIsFree DEF pd_tcp_connect
  <2>2. peer_fd' = (IF sock[NewFd] = NULL THEN peer_fd ELSE 0) /\ backlog' \in 0 .. MaxBacklog
    BY <1>6, <2>1 DEF pd_tcp_connect, Control, Shape
  <2>3. handler' \in [Streams -> {"none", "connect", "client"}] /\ on_connection' \in BOOLEAN
    BY <1>6 DEF pd_tcp_connect, Control, Shape
  <2>4. at \notin {"written", "drain"}
    BY <1>6 DEF pd_tcp_connect, UserCode, MayOpen
  <2> HIDE DEF NewFd
  <2> QED BY <1>6, <2>1, <2>2, <2>3, <2>4, OpenStep DEF pd_tcp_connect, Fresh, Open
<1>7. ASSUME NEW s \in Streams, ConnectRefused(s)
      PROVE  Control'
  <2>1. PICK n \in Fds : n = NewFd
    BY <1>7, NewFdIsFree DEF ConnectRefused
  <2>2. /\ fd' = [fd EXCEPT ![s] = n] /\ handler' = [handler EXCEPT ![s] = "connect"]
        /\ UNCHANGED <<status, on_connection, sock, reg, backlog, at, who, peer_fd, batch, pending>>
        /\ ~Open(s) /\ status[s] = "NONE" /\ at \notin {"written", "drain"}
    BY <1>7, <2>1 DEF ConnectRefused, kernelVars, Fresh, UserCode, MayOpen
  <2>3. Shape'
    BY <2>2 DEF Control, Shape, Fds
  <2>6. EventsGoHome'
    BY <2>2 DEF Control, Shape, EventsGoHome, Open
  <2>4. NoSocketLost' /\ PeerIsNew' /\ WriterHome' /\ ClosesExact'
    BY <2>2 DEF Control, NoSocketLost, PeerIsNew, WriterHome, ClosesExact
  <2>5. BatchAlive' /\ HandlerAlive'
    BY <2>2 DEF Control, BatchAlive, HandlerAlive, Alive, Open
  <2> QED BY <2>3, <2>4, <2>5, <2>6 DEF Control
<1>8. ASSUME NEW s \in Streams, pd_tcp_close(s)
      PROVE  Control'
  <2>1. Alive(s) /\ Close(s) /\ at' = at
        /\ UNCHANGED <<fd, handler, on_connection, backlog, who, peer_fd, batch>>
    BY <1>8 DEF pd_tcp_close, Alive
  <2>2. at = "onclose" => status[who] = "CLOSED"
    BY DEF Control, ClosesExact
  <2> QED BY <2>1, <2>2, CloseStep
<1>9. ASSUME NEW s \in Streams, PauseResume(s)
      PROVE  Control'
  <2>1. UNCHANGED <<status, fd, handler, on_connection, sock, reg, backlog, at, who, peer_fd,
                    batch, pending>>
    BY <1>9, WatchStep
  <2> QED BY <2>1 DEF Control, Shape, EventsGoHome, NoSocketLost, PeerIsNew, BatchAlive,
             HandlerAlive, WriterHome, ClosesExact, Alive, Open
<1> QED BY <1>1, <1>2, <1>3, <1>4, <1>5, <1>6, <1>7, <1>8, <1>9 DEF User, NewFd

(* ... and those of the loop and the kernel that change more than a place. *)
LEMMA LoopStep ==
    ASSUME Control, Loop \/ Connects
    PROVE  Control'
<1> USE TcpDispatchAssumption DEF Objects
<1>1. CASE Accept
  <2>1. PICK n \in Fds : n = NewFd /\ sock[n] = NULL
    BY <1>1, NewFdIsFree DEF Accept, CanAccept
  <2>2. /\ at = "events" /\ batch' = batch \ {Server} /\ backlog' \in 0 .. MaxBacklog
        /\ UNCHANGED <<status, fd, handler, on_connection, reg, who, pending>>
    BY <1>1 DEF Accept, Take, CanAccept, objVars, Control, Shape
  <2>3. peer_fd = 0 /\ \A f \in Fds : sock[f] # "new"
    BY <2>2 DEF Control, PeerIsNew, NoSocketLost
  <2>4. \/ at' = "connection" /\ peer_fd' = n /\ sock' = [sock EXCEPT ![n] = "new"]
        \/ UNCHANGED <<at, peer_fd, sock>>
    BY <1>1, <2>1 DEF Accept
  <2>5. Shape'
    <3>1. at' \in Places /\ peer_fd' \in 0 .. MaxFd
      BY <2>4 DEF Control, Shape, Places, Fds
    <3>2. sock' \in [Fds -> Objects \cup {"new", NULL}]
      BY <2>4 DEF Control, Shape
    <3> QED BY <2>2, <3>1, <3>2 DEF Control, Shape
  <2>6. EventsGoHome'
    BY <2>1, <2>2, <2>4 DEF Control, Shape, EventsGoHome
  <2>7. NoSocketLost' /\ PeerIsNew'
    <3>1. CASE UNCHANGED <<at, peer_fd, sock>>
      BY <2>2, <3>1 DEF Control, NoSocketLost, PeerIsNew
    <3>2. CASE at' = "connection" /\ peer_fd' = n /\ sock' = [sock EXCEPT ![n] = "new"]
      BY <2>2, <2>3, <3>2 DEF Control, Shape, NoSocketLost, PeerIsNew
    <3> QED BY <2>4, <3>1, <3>2
  <2>8. \A s \in Streams : Alive(s) => Alive(s)'
    BY <2>1, <2>2, <2>4 DEF Control, Shape, Alive, Open
  <2>9. BatchAlive' /\ HandlerAlive' /\ WriterHome' /\ ClosesExact'
    BY <2>2, <2>4, <2>8 DEF Control, BatchAlive, HandlerAlive, WriterHome, ClosesExact
  <2> QED BY <2>5, <2>6, <2>7, <2>9 DEF Control
<1>2. ASSUME NEW s \in Streams, Connected(s)
      PROVE  Control'
  <2>1. Alive(s) /\ status[s] # "CLOSED"
    BY <1>2 DEF Connected, Take, Control, BatchAlive
  <2>2. reg[fd[s]] = s /\ fd[s] \in Fds
    BY <2>1, OpenAtHome DEF Control, Alive, Open
  <2>3. reg' = reg
    BY <1>2, <2>2 DEF Connected, pd__event_set, Control, Shape
  <2>4. /\ at' = "connect" /\ at = "events" /\ who' = s /\ batch' = batch \ {s}
        /\ status' = [status EXCEPT ![s] = "ACTIVE"]
        /\ handler' = [handler EXCEPT ![s] = "client"]
        /\ UNCHANGED <<fd, on_connection, sock, backlog, peer_fd, pending>>
    BY <1>2 DEF Connected, Take, Goto
  <2>5. Shape' /\ EventsGoHome'
    BY <2>3, <2>4 DEF Control, Shape, EventsGoHome, Places
  <2>6. \A t \in Streams : (status'[t] = "CLOSED") <=> (status[t] = "CLOSED")
    BY <2>1, <2>4 DEF Control, Shape
  <2>7. NoSocketLost' /\ PeerIsNew'
    BY <2>4, <2>6 DEF Control, Shape, NoSocketLost, PeerIsNew
  <2>8. BatchAlive' /\ HandlerAlive' /\ WriterHome'
    BY <2>1, <2>4, <2>6 DEF Control, BatchAlive, HandlerAlive, WriterHome, Alive, Open
  <2>9. ClosesExact'
    BY <2>4, <2>6 DEF Control, Shape, ClosesExact
  <2> QED BY <2>5, <2>7, <2>8, <2>9 DEF Control
<1>3. CASE CloseEvent
  <2>1. /\ at = "rest" /\ at' = "events" /\ Close(who)
        /\ UNCHANGED <<fd, handler, on_connection, backlog, who, peer_fd, batch>>
    BY <1>3 DEF CloseEvent, Goto
  <2>2. who \in Streams /\ Alive(who)
    BY <2>1 DEF Control, HandlerAlive
  <2> QED BY <2>1, <2>2, CloseStep
<1>4. CASE WriteEnds
  <2>1. /\ at = "drain" /\ at' = "events" /\ pd__event_set(who, fd[who])
        /\ UNCHANGED <<status, fd, handler, on_connection, sock, backlog, who, peer_fd, batch, pending, refs>>
    BY <1>4 DEF WriteEnds, Goto, objVars
  <2>2. fd[who] \in Fds /\ reg[fd[who]] \in {who, NULL}
    BY <2>1 DEF Control, WriterHome, EventsGoHome, HandlerAlive
  <2>3. reg' = reg
    BY <2>1, <2>2 DEF pd__event_set, Control, Shape
  <2> QED BY <2>1, <2>3, MoveStep DEF LoopUnchanged, objVars, kernelVars, Control, PeerIsNew, Places
<1>5. CASE OnClose
  <2>1. /\ pending # <<>> /\ at = "closes" /\ at' = "onclose"
        /\ who' = Head(pending) /\ pending' = Tail(pending)
        /\ UNCHANGED <<status, fd, handler, on_connection, sock, reg, backlog, peer_fd, batch>>
    BY <1>5 DEF OnClose, Goto, objVars, kernelVars
  <2>2. /\ Len(pending) \in Nat \ {0} /\ DOMAIN pending = 1 .. Len(pending)
        /\ DOMAIN pending' = 1 .. Len(pending) - 1 /\ pending' \in Seq(Streams)
        /\ who' = pending[1] /\ who' \in Streams
        /\ \A i \in 1 .. Len(pending) - 1 : pending'[i] = pending[i + 1]
    BY <2>1 DEF Control, Shape
  <2>3. Shape' /\ EventsGoHome'
    BY <2>1, <2>2 DEF Control, Shape, EventsGoHome, Places
  <2>4. NoSocketLost' /\ PeerIsNew' /\ WriterHome'
    BY <2>1 DEF Control, NoSocketLost, PeerIsNew, WriterHome
  <2>5. BatchAlive' /\ HandlerAlive'
    BY <2>1 DEF Control, BatchAlive, HandlerAlive, Alive, Open
  <2>6. ClosesExact'
    BY <2>1, <2>2 DEF Control, ClosesExact
  <2> QED BY <2>3, <2>4, <2>5, <2>6 DEF Control
<1>6. CASE OnCloseReturns
  <2>1. /\ at = "onclose" /\ at' = "closes"
        /\ status' = [status EXCEPT ![who] = "NONE"] /\ fd' = [fd EXCEPT ![who] = 0]
        /\ handler' = [handler EXCEPT ![who] = "none"]
        /\ UNCHANGED <<on_connection, sock, reg, backlog, who, peer_fd, batch, pending>>
    BY <1>6 DEF OnCloseReturns, Goto, kernelVars
  <2>2. who \in Streams /\ status[who] = "CLOSED" /\ ~Open(who) /\ batch = {}
    BY <2>1 DEF Control, ClosesExact, NoSocketLost, Open, BatchAlive
  <2>3. Shape'
    BY <2>1, <2>2 DEF Control, Shape, Places
  <2>4. EventsGoHome'
    BY <2>1, <2>2 DEF Control, Shape, EventsGoHome, Open
  <2>5. NoSocketLost' /\ PeerIsNew'
    BY <2>1, <2>2 DEF Control, Shape, NoSocketLost, PeerIsNew, Open
  <2>6. BatchAlive' /\ HandlerAlive' /\ WriterHome'
    BY <2>1, <2>2 DEF BatchAlive, HandlerAlive, WriterHome
  <2>7. ClosesExact'
    BY <2>1, <2>2 DEF Control, Shape, ClosesExact
  <2> QED BY <2>3, <2>4, <2>5, <2>6, <2>7 DEF Control
<1>7. CASE Connects
  BY <1>7 DEF Connects, objVars, Control, Shape, EventsGoHome, NoSocketLost, PeerIsNew, BatchAlive,
              HandlerAlive, WriterHome, ClosesExact, Alive, Open
<1> QED BY <1>1, <1>2, <1>3, <1>4, <1>5, <1>6, <1>7, MovesStep, HandlerStep DEF Loop
-----------------------------------------------------------------------------
(* The count of references.                                                *)

Live == {s \in Streams : Alive(s)}

(* Finitely many streams exist. *)
LEMMA LiveIsFinite == IsFiniteSet(Live) /\ Cardinality(Live) \in Nat
BY TcpDispatchAssumption, FS_Subset, FS_CardinalityType DEF Live

(* RefsExact, in terms of Live. *)
LEMMA RefsAreLive ==
    /\ RefsExact <=> refs = Cardinality(Live) + (IF Listening THEN 1 ELSE 0)
    /\ RefsExact' <=> refs' = Cardinality(Live') + (IF Listening' THEN 1 ELSE 0)
BY DEF RefsExact, Live, Alive

(* Nothing opened and no on_close returned. *)
LEMMA SameRefs ==
    ASSUME RefsExact, refs' = refs, Listening' <=> Listening,
           \A s \in Streams : Alive(s)' <=> Alive(s)
    PROVE  RefsExact'
<1>1. Live' = Live
  BY DEF Live
<1> QED BY <1>1, RefsAreLive

(* A stream opened. *)
LEMMA OneMoreRef ==
    ASSUME RefsExact, NEW o \in Streams, ~Alive(o), Alive(o)', refs' = refs + 1,
           Listening' <=> Listening,
           \A s \in Streams \ {o} : Alive(s)' <=> Alive(s)
    PROVE  RefsExact'
<1>1. Live' = Live \cup {o} /\ o \notin Live
  BY DEF Live
<1>2. Cardinality(Live') = Cardinality(Live) + 1
  BY <1>1, LiveIsFinite, FS_AddElement
<1> QED BY <1>2, RefsAreLive, LiveIsFinite

(* A stream's on_close returned. *)
LEMMA OneRefLess ==
    ASSUME RefsExact, NEW o \in Streams, Alive(o), ~Alive(o)', refs' = refs - 1,
           Listening' <=> Listening,
           \A s \in Streams \ {o} : Alive(s)' <=> Alive(s)
    PROVE  RefsExact'
<1>1. Live' = Live \ {o} /\ o \in Live
  BY DEF Live
<1>2. Cardinality(Live') = Cardinality(Live) - 1
  BY <1>1, LiveIsFinite, FS_RemoveElement
<1> QED BY <1>2, RefsAreLive, LiveIsFinite

(* Every step keeps the count. *)
LEMMA RefsStep ==
    ASSUME Careful, Control, RefsExact, Next
    PROVE  RefsExact'
<1> USE TcpDispatchAssumption DEF Objects
<1>1. CASE pd_tcp_listen
  <2>1. PICK n \in Fds : n = NewFd /\ sock[n] = NULL
    BY <1>1, NewFdIsFree DEF pd_tcp_listen
  <2>2. /\ sock' = [sock EXCEPT ![n] = Server] /\ status' = [status EXCEPT ![Server] = "ACTIVE"]
        /\ ~Listening /\ refs' = refs + 1
    BY <1>1, <2>1 DEF pd_tcp_listen
  <2>3. Listening'
    BY <2>2 DEF Listening, Control, Shape
  <2>4. \A s \in Streams : Alive(s)' <=> Alive(s)
    BY <2>1, <2>2 DEF Alive, Open, Control, Shape
  <2>5. Live' = Live
    BY <2>4 DEF Live
  <2> QED BY <2>2, <2>3, <2>5, RefsAreLive, LiveIsFinite
<1>2. CASE pd_tcp_server_close
  <2>1. PICK n \in Fds : n = fd[Server] /\ sock[n] = Server /\ \A g \in Fds : sock[g] = Server => g = n
    BY <1>2, OpenAtHome DEF pd_tcp_server_close, MayCloseServer, Listening, Control
  <2>2. sock' = [sock EXCEPT ![n] = NULL] /\ status' = status /\ Listening /\ refs' = refs - 1
    BY <1>2, <2>1 DEF pd_tcp_server_close, MayCloseServer, CloseFd, objVars
  <2>3. ~Listening'
    BY <2>1, <2>2 DEF Listening, Control, Shape
  <2>4. \A s \in Streams : Alive(s)' <=> Alive(s)
    BY <2>1, <2>2 DEF Alive, Open, Control, Shape
  <2>5. Live' = Live
    BY <2>4 DEF Live
  <2> QED BY <2>2, <2>3, <2>5, RefsAreLive, LiveIsFinite
<1>3. CASE Declines
  <2>1. PICK n \in Fds : n = peer_fd /\ sock[n] = "new"
    BY <1>3 DEF Declines, Control, PeerIsNew
  <2>2. sock' = [sock EXCEPT ![n] = NULL] /\ status' = status /\ refs' = refs
    BY <1>3, <2>1 DEF Declines, CloseFd, objVars
  <2>3. Listening' <=> Listening
    BY <2>1, <2>2 DEF Listening, Control, Shape
  <2>4. \A s \in Streams : Alive(s)' <=> Alive(s)
    BY <2>1, <2>2 DEF Alive, Open, Control, Shape
  <2> QED BY <2>2, <2>3, <2>4, SameRefs
<1>4. ASSUME NEW o \in Streams, pd_tcp_accept(o) \/ pd_tcp_connect(o)
      PROVE  RefsExact'
  <2>1. PICK n \in Fds : /\ sock[n] \in {NULL, "new"}
                         /\ sock' = [sock EXCEPT ![n] = o]
    <3>1. CASE pd_tcp_accept(o)
      BY <3>1 DEF pd_tcp_accept, Control, PeerIsNew
    <3>2. CASE pd_tcp_connect(o)
      BY <3>2, NewFdIsFree DEF pd_tcp_connect
    <3> QED BY <1>4, <3>1, <3>2
  <2>2. /\ status[o] = "NONE" /\ ~Open(o) /\ refs' = refs + 1
        /\ status' = status \/ status' = [status EXCEPT ![o] = "ACTIVE"]
    BY <1>4 DEF pd_tcp_accept, pd_tcp_connect, Fresh
  <2>3. Listening' <=> Listening
    BY <2>1, <2>2 DEF Listening, Control, Shape
  <2>4. \A s \in Streams \ {o} : Alive(s)' <=> Alive(s)
    BY <2>1, <2>2 DEF Alive, Open, Control, Shape
  <2>5. Open(o)'
    BY <2>1, <2>2 DEF Open, Control, Shape
  <2> QED BY <2>2, <2>3, <2>4, <2>5, OneMoreRef DEF Alive
<1>5. ASSUME NEW s \in Streams, Alive(s), Close(s), refs' = refs
      PROVE  RefsExact'
  <2>1. CASE status[s] = "CLOSED"
    <3>1. UNCHANGED <<status, sock>>
      BY <2>1, <1>5 DEF Close
    <3> QED BY <1>5, <3>1, SameRefs DEF Alive, Open, Listening
  <2>2. CASE status[s] # "CLOSED"
    <3>1. PICK n \in Fds : n = fd[s] /\ sock[n] = s /\ \A g \in Fds : sock[g] = s => g = n
      BY <1>5, <2>2, OpenAtHome DEF Control, Alive, Open
    <3>2. sock' = [sock EXCEPT ![n] = NULL] /\ status' = [status EXCEPT ![s] = "CLOSED"]
      BY <1>5, <2>2, <3>1 DEF Close, CloseFd
    <3>3. Listening' <=> Listening
      BY <3>1, <3>2 DEF Listening, Control, Shape
    <3>4. \A t \in Streams : Alive(t)' <=> Alive(t)
      BY <1>5, <3>1, <3>2 DEF Alive, Open, Control, Shape
    <3> QED BY <1>5, <3>3, <3>4, SameRefs
  <2> QED BY <2>1, <2>2
<1>6. ASSUME NEW s \in Streams, pd_tcp_close(s)
      PROVE  RefsExact'
  BY <1>5, <1>6 DEF pd_tcp_close, Alive
<1>7. CASE CloseEvent
  BY <1>5, <1>7 DEF CloseEvent, Goto, Control, HandlerAlive
<1>8. CASE Accept
  <2>1. PICK n \in Fds : n = NewFd /\ sock[n] = NULL
    BY <1>8, NewFdIsFree DEF Accept, CanAccept
  <2>2. /\ sock' = sock \/ sock' = [sock EXCEPT ![n] = "new"]
        /\ status' = status /\ refs' = refs
    BY <1>8, <2>1 DEF Accept, objVars
  <2>3. Listening' <=> Listening
    BY <2>1, <2>2 DEF Listening, Control, Shape
  <2>4. \A s \in Streams : Alive(s)' <=> Alive(s)
    BY <2>1, <2>2 DEF Alive, Open, Control, Shape
  <2> QED BY <2>2, <2>3, <2>4, SameRefs
<1>9. ASSUME NEW s \in Streams, Connected(s)
      PROVE  RefsExact'
  <2>1. /\ sock' = sock /\ refs' = refs /\ status[s] # "CLOSED"
        /\ status' = [status EXCEPT ![s] = "ACTIVE"]
    BY <1>9 DEF Connected
  <2>2. \A t \in Streams : Alive(t)' <=> Alive(t)
    BY <2>1 DEF Alive, Open, Control, Shape
  <2> QED BY <2>1, <2>2, SameRefs DEF Listening
<1>10. CASE OnCloseReturns
  <2>1. /\ at = "onclose" /\ status' = [status EXCEPT ![who] = "NONE"]
        /\ sock' = sock /\ refs' = refs - 1
    BY <1>10 DEF OnCloseReturns, Goto, kernelVars
  <2>2. who \in Streams /\ status[who] = "CLOSED" /\ ~Open(who)
    BY <2>1 DEF Control, ClosesExact, NoSocketLost, Open
  <2>3. Alive(who)
    BY <2>2 DEF Alive
  <2>4. \A s \in Streams \ {who} : Alive(s)' <=> Alive(s)
    BY <2>1, <2>2 DEF Alive, Open, Control, Shape
  <2>5. Listening' <=> Listening
    BY <2>1 DEF Listening
  <2>6. PICK o \in Streams : o = who
    BY <2>2
  <2>7. ~Alive(o)'
    BY <2>1, <2>2, <2>6 DEF Alive, Open, Control, Shape
  <2> QED BY <2>1, <2>3, <2>4, <2>5, <2>6, <2>7, OneRefLess
<1>11. CASE UNCHANGED <<status, sock, refs>>
  BY <1>11, SameRefs DEF Alive, Open, Listening
<1>12. CASE \/ Run \/ Connects \/ LoopExits \/ PollReturns \/ AcceptFails \/ ConnectionReturns
            \/ \E s \in Streams : \/ ConnectRefused(s) \/ ConnectStale(s) \/ ConnectFails(s)
                                  \/ Read(s) \/ NothingToRead(s)
            \/ ConnectReturns \/ DataReturns \/ NothingToWrite \/ Write
            \/ WrittenReturns \/ WriteMore \/ WriteStops \/ WriteEnds
            \/ EventsEnd \/ OnClose \/ ClosesEnd \/ IterationEnds
  <2>1. UNCHANGED <<status, sock, refs>>
    BY <1>12 DEF Run, Connects, LoopExits, PollReturns, AcceptFails, ConnectionReturns,
         ConnectRefused, ConnectStale, ConnectFails, Read, NothingToRead, ConnectReturns,
         DataReturns, NothingToWrite, Write, WrittenReturns, WriteMore, WriteStops, WriteEnds,
         EventsEnd, OnClose, ClosesEnd, IterationEnds, LoopUnchanged, objVars, kernelVars
  <2> QED BY <2>1, <1>11
<1>13. ASSUME NEW s \in Streams, PauseResume(s)
       PROVE  RefsExact'
  BY <1>11, <1>13, WatchStep
<1> QED BY <1>1, <1>2, <1>3, <1>4, <1>6, <1>7, <1>8, <1>9, <1>10, <1>12, <1>13 DEF Next, User, Loop
-----------------------------------------------------------------------------
(* The fetched events.                                                     *)

(* Every step keeps the fetched events readable. *)
LEMMA BatchStep ==
    ASSUME Careful, Control, BatchReadable, Next
    PROVE  BatchReadable'
<1> USE TcpDispatchAssumption DEF Objects
<1> DEFINE Places5 == {"data", "rest", "written", "drain", "connect"}
(* Sockets of streams in the batch stay open when others close or open. *)
<1>1. ASSUME NEW n \in Fds, sock' = [sock EXCEPT ![n] = NULL],
             sock[n] \notin {s \in batch \cap Streams : handler[s] = "client"},
             UNCHANGED <<handler, who, batch>>, at' = at \/ at' \notin Places5
      PROVE  BatchReadable'
  <2>1. \A s \in batch \cap Streams : handler[s] = "client" => Open(s)'
    BY <1>1 DEF BatchReadable, Open, Control, Shape
  <2> QED BY <1>1, <2>1 DEF BatchReadable
<1>2. ASSUME NEW n \in Fds, sock[n] \in {NULL, "new"}, NEW o, sock' = [sock EXCEPT ![n] = o],
             \A s \in batch' \cap Streams : handler'[s] = handler[s],
             who' = who, batch' \subseteq batch, at' = at \/ at' \notin Places5
      PROVE  BatchReadable'
  <2>1. \A s \in batch' \cap Streams : handler'[s] = "client" => Open(s)'
    BY <1>2 DEF BatchReadable, Open, Control, Shape
  <2> QED BY <1>2, <2>1 DEF BatchReadable
<1>3. ASSUME sock' = sock, \A s \in batch' \cap Streams : handler'[s] = handler[s],
             batch' \subseteq batch,
             at' \in Places5 => \/ at \in Places5 /\ who' = who
                                \/ who' \notin batch'
      PROVE  BatchReadable'
  BY <1>3 DEF BatchReadable, Open
<1>4. CASE pd_tcp_listen
  <2>1. PICK n \in Fds : n = NewFd /\ sock[n] = NULL
    BY <1>4, NewFdIsFree DEF pd_tcp_listen
  <2> QED BY <1>2, <1>4, <2>1 DEF pd_tcp_listen
<1>5. CASE pd_tcp_server_close
  <2>1. PICK n \in Fds : n = fd[Server] /\ sock[n] = Server
    BY <1>5, OpenAtHome DEF pd_tcp_server_close, MayCloseServer, Listening, Control
  <2> QED BY <1>1, <1>5, <2>1 DEF pd_tcp_server_close, CloseFd, objVars
<1>6. CASE Declines
  <2>1. PICK n \in Fds : n = peer_fd /\ sock[n] = "new"
    BY <1>6 DEF Declines, Control, PeerIsNew
  <2> QED BY <1>1, <1>6, <2>1 DEF Declines, CloseFd, objVars
<1>7. ASSUME NEW o \in Streams, pd_tcp_accept(o) \/ pd_tcp_connect(o)
      PROVE  BatchReadable'
  <2>1. PICK n \in Fds : /\ sock[n] \in {NULL, "new"}
                         /\ sock' = [sock EXCEPT ![n] = o]
    <3>1. CASE pd_tcp_accept(o)
      BY <3>1 DEF pd_tcp_accept, Control, PeerIsNew
    <3>2. CASE pd_tcp_connect(o)
      BY <3>2, NewFdIsFree DEF pd_tcp_connect
    <3> QED BY <1>7, <3>1, <3>2
  <2>2. o \notin batch /\ UNCHANGED <<at, who, batch>>
    BY <1>7 DEF pd_tcp_accept, pd_tcp_connect, Fresh, Control, BatchAlive, Alive
  <2>3. \A s \in batch' \cap Streams : handler'[s] = handler[s]
    BY <1>7, <2>2 DEF pd_tcp_accept, pd_tcp_connect, Control, Shape
  <2> QED BY <1>2, <2>1, <2>2, <2>3
<1>8. ASSUME NEW s \in Streams, ConnectRefused(s)
      PROVE  BatchReadable'
  <2>1. s \notin batch
    BY <1>8 DEF ConnectRefused, Fresh, Control, BatchAlive, Alive
  <2>2. sock' = sock /\ UNCHANGED <<at, who, batch>>
        /\ \A t \in batch' \cap Streams : handler'[t] = handler[t]
    BY <1>8, <2>1 DEF ConnectRefused, kernelVars, Control, Shape
  <2> QED BY <1>3, <2>2 DEF BatchReadable
<1>9. ASSUME NEW s \in Streams, Alive(s), Close(s), s \notin batch \/ handler[s] = "connect",
             UNCHANGED <<handler, who, batch>>, at' = at \/ at' \notin Places5
      PROVE  BatchReadable'
  <2>1. CASE status[s] = "CLOSED"
    BY <1>3, <1>9, <2>1 DEF Close
  <2>2. CASE status[s] # "CLOSED"
    <3>1. PICK n \in Fds : n = fd[s] /\ sock[n] = s
      BY <1>9, <2>2, OpenAtHome DEF Control, Alive, Open
    <3> QED BY <1>1, <1>9, <2>2, <3>1 DEF Close, CloseFd
  <2> QED BY <2>1, <2>2
<1>10. ASSUME NEW s \in Streams, pd_tcp_close(s)
       PROVE  BatchReadable'
  BY <1>9, <1>10 DEF pd_tcp_close, Alive, MayClose
<1>11. CASE CloseEvent
  BY <1>9, <1>11 DEF CloseEvent, Goto, Control, HandlerAlive, BatchReadable
<1>12. CASE Accept
  <2>1. PICK n \in Fds : n = NewFd /\ sock[n] = NULL
    BY <1>12, NewFdIsFree DEF Accept, CanAccept
  <2>2. UNCHANGED <<handler, who>> /\ batch' \subseteq batch /\ at' \notin Places5
        /\ (sock' = sock \/ sock' = [sock EXCEPT ![n] = "new"])
    BY <1>12, <2>1 DEF Accept, objVars, Take
  <2> QED BY <1>2, <1>3, <2>1, <2>2
<1>13. ASSUME NEW s \in Streams, Connected(s)
       PROVE  BatchReadable'
  <2>1. sock' = sock /\ batch' = batch \ {s} /\ who' = s
        /\ \A t \in batch' \cap Streams : handler'[t] = handler[t]
    BY <1>13 DEF Connected, Take, Control, Shape
  <2> QED BY <1>3, <2>1
<1>14. CASE OnCloseReturns
  <2>1. batch' = {}
    BY <1>14 DEF OnCloseReturns, Goto, Control, BatchAlive
  <2> QED BY <2>1 DEF BatchReadable
<1>15. CASE PollReturns
  <2>1. batch' \subseteq {reg[f] : f \in {g \in Fds : sock[g] \in Objects}}
        /\ sock' = sock /\ at' = "events"
    BY <1>15 DEF PollReturns, kernelVars, Goto
  <2>2. \A s \in batch' \cap Streams : Open(s)
    BY <2>1 DEF Control, Shape, EventsGoHome, Open
  <2> QED BY <2>1, <2>2 DEF BatchReadable, Open
<1>16. CASE \E s \in Streams : ConnectStale(s) \/ ConnectFails(s) \/ Read(s) \/ NothingToRead(s)
  <2>1. PICK s \in Streams : ConnectStale(s) \/ ConnectFails(s) \/ Read(s) \/ NothingToRead(s)
    BY <1>16
  <2>2. /\ batch' = batch \ {s} /\ sock' = sock /\ handler' = handler
        /\ who' = s \/ at' \notin Places5
    BY <2>1 DEF ConnectStale, ConnectFails, Read, NothingToRead, objVars, kernelVars, Take, Goto
  <2> QED BY <1>3, <2>2
<1>17. CASE AcceptFails \/ Connects
  <2>1. /\ batch' \subseteq batch /\ sock' = sock /\ handler' = handler /\ who' = who /\ at' = at
    BY <1>17 DEF AcceptFails, Connects, objVars, kernelVars, Take
  <2> QED BY <1>3, <2>1
<1>18. CASE \/ Run \/ LoopExits \/ ConnectionReturns
            \/ ConnectReturns \/ DataReturns \/ NothingToWrite \/ Write
            \/ WrittenReturns \/ WriteMore \/ WriteStops \/ WriteEnds
            \/ EventsEnd \/ OnClose \/ ClosesEnd \/ IterationEnds
  <2>1. /\ batch' = batch /\ sock' = sock /\ handler' = handler
        /\ at' \in Places5 => at \in Places5 /\ who' = who
    BY <1>18 DEF Run, LoopExits, ConnectionReturns, ConnectReturns,
         DataReturns, NothingToWrite, Write, WrittenReturns, WriteMore, WriteStops, WriteEnds,
         EventsEnd, OnClose, ClosesEnd, IterationEnds, LoopUnchanged, objVars, kernelVars, Goto
  <2> QED BY <1>3, <2>1
<1>19. ASSUME NEW s \in Streams, PauseResume(s)
       PROVE  BatchReadable'
  <2>1. /\ batch' = batch /\ sock' = sock /\ handler' = handler /\ at' = at /\ who' = who
    BY <1>19, WatchStep
  <2> QED BY <1>3, <2>1
<1> QED BY <1>4, <1>5, <1>6, <1>7, <1>8, <1>10, <1>11, <1>12, <1>13, <1>14, <1>15, <1>16, <1>17,
           <1>18, <1>19 DEF Next, User, Loop
-----------------------------------------------------------------------------
(* The inductive invariant, and what follows from it.                      *)

(* The conjuncts support each other and hold in every reachable state. *)
LEMMA Invariance == Careful => (Spec => []IInv)
<1>1. Init => IInv
  <2> SUFFICES ASSUME Init PROVE IInv
    OBVIOUS
  <2> USE TcpDispatchAssumption DEF Objects
  <2>1. Control
    <3>1. Shape
      <4>1. /\ status \in [Objects -> {"NONE", "ACTIVE", "CLOSED"}] /\ fd \in [Objects -> 0 .. MaxFd]
            /\ handler \in [Streams -> {"none", "connect", "client"}]
            /\ sock \in [Fds -> Objects \cup {"new", NULL}] /\ reg \in [Fds -> Objects \cup {NULL}]
        BY DEF Init
      <4>2. /\ backlog \in 0 .. MaxBacklog /\ at \in Places
            /\ who \in Streams \cup {NULL} /\ peer_fd \in 0 .. MaxFd
            /\ batch \subseteq Objects /\ pending \in Seq(Streams)
        BY DEF Init, Places
      <4>3. on_connection \in BOOLEAN
        BY DEF Init
      <4> QED BY <4>1, <4>2, <4>3 DEF Shape
    <3>2. NoSocketLost /\ PeerIsNew
      BY DEF Init, NoSocketLost, PeerIsNew
    <3>3. EventsGoHome
      BY DEF Init, EventsGoHome
    <3>4. BatchAlive /\ HandlerAlive /\ WriterHome /\ ClosesExact
      BY DEF Init, BatchAlive, HandlerAlive, WriterHome, ClosesExact
    <3> QED BY <3>1, <3>2, <3>3, <3>4 DEF Control
  <2>2. Live = {} /\ ~Listening
    BY DEF Live, Alive, Open, Listening, Init, Control
  <2> QED BY <2>1, <2>2, RefsAreLive, FS_EmptySet DEF Init, IInv, BatchReadable
<1>2. Careful /\ IInv /\ [Next]_vars => IInv'
  <2> SUFFICES ASSUME Careful, IInv, [Next]_vars PROVE IInv'
    OBVIOUS
  <2>1. CASE Next
    BY <2>1, UserStep, LoopStep, RefsStep, BatchStep DEF IInv, Next
  <2>2. CASE UNCHANGED vars
    <3>1. UNCHANGED <<status, fd, handler, on_connection, sock, reg, backlog, at, who, peer_fd,
                      batch, pending, refs>>
      BY <2>2 DEF vars, objVars, kernelVars
    <3> QED BY <3>1 DEF IInv, Control, Shape, EventsGoHome, NoSocketLost, PeerIsNew, BatchAlive,
             HandlerAlive, WriterHome, ClosesExact, Alive, Open, RefsExact, Listening,
             BatchReadable
  <2> QED BY <2>1, <2>2
<1>3. Careful => []Careful
  OBVIOUS
<1> QED BY <1>1, <1>2, <1>3, PTL DEF Spec

(* Every variable keeps its shape: the count of references never goes      *)
(* below zero, and no descriptor but one that was given out is stored.     *)
THEOREM TypeCorrect == Careful => (Spec => []TypeOK)
<1>1. IInv => TypeOK
  <2> SUFFICES ASSUME IInv PROVE TypeOK
    OBVIOUS
  <2>1. refs \in Nat
    BY RefsAreLive, LiveIsFinite DEF IInv
  <2> QED BY <2>1 DEF IInv, Control, Shape, TypeOK
<1> QED BY <1>1, Invariance, PTL

(* An event goes to the object that owns the socket, whatever the streams  *)
(* close and open while a batch is handled.                                *)
THEOREM EventsReachTheirOwner == Careful => (Spec => []EventsGoHome)
<1>1. IInv => EventsGoHome
  BY DEF IInv, Control
<1> QED BY <1>1, Invariance, PTL

(* No open socket is out of the reach of everybody who could close it. *)
THEOREM SocketsHaveOwners == Careful => (Spec => []NoSocketLost)
<1>1. IInv => NoSocketLost
  BY DEF IInv, Control
<1> QED BY <1>1, Invariance, PTL

(* The loop counts the listening server and each stream from its opening   *)
(* until its on_close returned: it neither ends early nor hangs.           *)
THEOREM RefsAreExact == Careful => (Spec => []RefsExact)
<1>1. IInv => RefsExact
  BY DEF IInv
<1> QED BY <1>1, Invariance, PTL

(* A handler that is dispatched reads the socket of its own stream, or a   *)
(* number that is free: a stale event never reaches a number that was      *)
(* given out again.                                                        *)
THEOREM StaleEventsReadNothing == Careful => (Spec => ReadsOwn)
<1>1. ASSUME IInv, [Next]_vars, NEW s \in Streams, at = "events", at' = "data", who' = s
      PROVE  sock[fd[s]] \in {s, NULL}
  <2>1. Read(s)
    <3>1. Next
      BY <1>1 DEF vars
    <3>2. Loop
      BY <1>1, <3>1 DEF Next, User, Connects, pd_tcp_listen, pd_tcp_server_close, Declines, Run,
           pd_tcp_accept, pd_tcp_connect, ConnectRefused, pd_tcp_close, PauseResume, Goto
    <3> QED
      BY <1>1, <3>2 DEF Loop, LoopExits, PollReturns, Accept, AcceptFails, ConnectionReturns,
           ConnectStale, ConnectFails, Connected, Read, NothingToRead, ConnectReturns, DataReturns,
           CloseEvent, NothingToWrite, Write, WrittenReturns, WriteMore, WriteStops, WriteEnds,
           EventsEnd, OnClose, OnCloseReturns, ClosesEnd, IterationEnds, Goto
  <2>2. Open(s)
    BY <1>1, <2>1 DEF Read, Take, IInv, BatchReadable
  <2> QED BY <1>1, <2>2, OpenAtHome DEF IInv, Control, Open, Objects
<1>2. IInv /\ [Next]_vars =>
         [\A s \in Streams :
             at = "events" /\ at' = "data" /\ who' = s => sock[fd[s]] \in {s, NULL}]_vars
  BY <1>1
<1> QED BY <1>2, Invariance, PTL DEF Spec, ReadsOwn
=============================================================================
