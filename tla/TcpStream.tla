----------------------------- MODULE TcpStream -----------------------------
(***************************************************************************)
(* One TCP stream of src/sys/tcp_unix.c: its writes, its half-close, its   *)
(* reads and its close, driven by the event loop of src/sys/event_epoll.c  *)
(* or src/sys/event_kqueue.c and pd__tcp_pending_close of src/internal.c,  *)
(* against a kernel socket and a peer that sends, reads, finishes or       *)
(* resets at any time.  The two loops differ in what reg and the poll do.  *)
(*                                                                         *)
(* The loop thread runs library code and callbacks alternately.  While a   *)
(* callback runs (UserCode) the user may call any function on the stream,  *)
(* so library code that goes on after a callback may find the stream       *)
(* changed.  The callback of a write that pd_tcp_write answers at once is  *)
(* its last statement, so what that callback calls comes after the call;   *)
(* calls from the callbacks of writes that pd_tcp_close cancels meet a     *)
(* closed stream, as they do after the call.                               *)
(* Data is counted: rx in buffers of 6 KB, which is what one read takes,   *)
(* writes in units of which a write to the socket takes one or more.       *)
(***************************************************************************)
EXTENDS Naturals, Sequences, FiniteSets, Functions

CONSTANTS Ops,     \* the pd_write_t objects of the user
          Size,    \* units of data in a write
          Room,    \* units the socket buffers towards the peer
          MaxRx    \* buffers the socket keeps for the stream

ASSUME TcpStreamAssumption ==
    Size \in Nat \ {0} /\ Room \in Nat \ {0} /\ MaxRx \in Nat

VARIABLES
    poller,                   \* the event loop the library was built with
    others,                   \* other handles keep the loop turning
    status, flags, handler,   \* fields of the stream and of its event
    writes,                   \* stream->writes
    left,                     \* units of each write not written yet
    answers,                  \* history: results its callback was called with
    calls,                    \* history: writes in the order of pd_tcp_write
    sock,                     \* the socket: "none", "connecting", "failed",
                              \* "open", "reset", "closed"
    rx, fin,                  \* unread buffers; peer finished
    room, wrClosed, wire,     \* free units; SHUT_WR done; history: units taken
    reg,                      \* what the kernel watches the socket for
    at,                       \* where the loop thread is, see LoopStates
    batch,                    \* entries of the poll not yet handled
    ev,                       \* the entry in hand, until the handler is done with it
    pending,                  \* the stream is in ctx->pending_closes
    refs                      \* ctx->refs, the part of this stream

build == <<poller, others>>
kept == <<build, calls>>      \* what only a call of pd_tcp_write changes
streamVars == <<status, flags, reg, handler, writes, left, answers>>
sockVars == <<sock, rx, fin, room, wrClosed, wire>>
loopVars == <<batch, ev, pending, refs>>
vars == <<kept, streamVars, sockVars, at, loopVars>>

(* "user": outside pd_io_run; "poll": in the poll; "events": between the   *)
(* handlers of a batch; "data", "eof": in on_data, the stream is closed    *)
(* after "eof"; "rest": after the read, at the PD_CLOSE test; "drain": at  *)
(* the loop of pd__tcp_write; "written", "failed": in a write callback,    *)
(* after which the loop goes on, or not; "connect": in on_connect;         *)
(* "closes": at pd__tcp_pending_close; "onclose": in on_close; "after": in *)
(* after_tick.                                                             *)
LoopStates == {"user", "poll", "events", "data", "eof", "rest", "drain",
               "written", "failed", "connect", "closes", "onclose", "after"}

(* on_close was called, the user may have freed the stream. *)
Released == status = "CLOSED" /\ ~pending

(* The stream was opened and the user still has it. *)
Held == sock # "none" /\ (~Released \/ at = "onclose")

UserCode == at \in {"user", "events", "data", "eof", "written", "failed",
                    "connect", "onclose", "after"}

Init ==
    /\ poller \in {"epoll", "kqueue"} /\ others \in BOOLEAN
    /\ status = "NONE" /\ flags = {} /\ reg = {} /\ handler = "none" /\ writes = <<>>
    /\ left = [o \in Ops |-> Size] /\ answers = [o \in Ops |-> <<>>]
    /\ calls = <<>> /\ sock = "none" /\ rx = 0 /\ fin = FALSE
    /\ room = Room /\ wrClosed = FALSE /\ wire = <<>>
    /\ at = "user" /\ batch = {} /\ ev = {} /\ pending = FALSE /\ refs = 0
-----------------------------------------------------------------------------
(* The socket, and what the poll reports of it.                            *)

Alive == sock \in {"connecting", "failed", "open", "reset"}

Readable == (sock = "open" /\ (rx > 0 \/ fin)) \/ sock \in {"failed", "reset"}
Writable == (sock = "open" /\ (room > 0 \/ wrClosed)) \/ sock \in {"failed", "reset"}

ResetOrFailed == sock \in {"failed", "reset"}

(* Mutant: EPOLLRDHUP is asked for, the peer's FIN alone closes. *)
EpollEntriesRdhup ==
    {(IF Readable THEN reg \cap {"IN"} ELSE {})
     \cup (IF Writable THEN reg \cap {"OUT"} ELSE {})
     \cup (IF ResetOrFailed \/ (sock = "open" /\ fin) THEN {"CLOSE"} ELSE {})} \ {{}}

(* epoll has one entry for the socket; errors and hang-ups come unasked. *)
EpollEntries ==
    {(IF Readable THEN reg \cap {"IN"} ELSE {})
     \cup (IF Writable THEN reg \cap {"OUT"} ELSE {})
     \cup (IF ResetOrFailed \/ (sock = "open" /\ fin /\ wrClosed)
           THEN {"CLOSE"} ELSE {})} \ {{}}

(* kqueue has one per filter, with EV_EOF once no more can be received, or *)
(* sent, through it.                                                       *)
KqueueEntries ==
    {{"IN"} \cup (IF ResetOrFailed \/ fin THEN {"CLOSE"} ELSE {}) :
        f \in IF Readable THEN reg \cap {"IN"} ELSE {}}
    \cup {{"OUT"} \cup (IF ResetOrFailed \/ wrClosed THEN {"CLOSE"} ELSE {}) :
        f \in IF Writable THEN reg \cap {"OUT"} ELSE {}}

Entries == IF poller = "epoll" THEN EpollEntries ELSE KqueueEntries

(* pd__event_set.  With kqueue the change of the read filter comes first;  *)
(* deleting one that is not there fails, and the change of the write       *)
(* filter behind it is not made.  A closed descriptor is refused.          *)
Registered(interest) ==
    IF \/ sock = "closed"
       \/ poller = "kqueue" /\ "IN" \notin interest /\ "IN" \notin reg
    THEN reg ELSE interest

EventSet(interest) == flags' = interest /\ reg' = Registered(interest)

PeerUnchanged == UNCHANGED <<kept, streamVars, at, loopVars>>

PeerAnswers == /\ sock = "connecting"
               /\ sock' \in {"open", "failed"}
               /\ UNCHANGED <<rx, fin, room, wrClosed, wire>>

PeerSends == /\ sock = "open" /\ ~fin /\ rx < MaxRx
             /\ rx' = rx + 1
             /\ UNCHANGED <<sock, fin, room, wrClosed, wire>>

PeerFinishes == /\ sock = "open" /\ ~fin
                /\ fin' = TRUE
                /\ UNCHANGED <<sock, rx, room, wrClosed, wire>>

PeerReads == /\ sock = "open" /\ room < Room
             /\ room' = room + 1
             /\ UNCHANGED <<sock, rx, fin, wrClosed, wire>>

PeerResets == /\ sock = "open"
              /\ sock' = "reset"
              /\ UNCHANGED <<rx, fin, room, wrClosed, wire>>

Peer == /\ PeerAnswers \/ PeerSends \/ PeerFinishes \/ PeerReads \/ PeerResets
        /\ PeerUnchanged

(* A write of op: n units fit, none do (EAGAIN), or the socket is broken. *)
Takes(o, n) ==
    /\ sock = "open" /\ n \in 1 .. room /\ n <= left[o]
    /\ room' = room - n
    /\ left' = [left EXCEPT ![o] = left[o] - n]
    /\ wire' = wire \o [i \in 1 .. n |-> o]
    /\ UNCHANGED <<sock, rx, fin, wrClosed>>
WouldBlock == sock = "open" /\ room = 0
Broken == sock \in {"failed", "reset", "closed"}

Answer(o, result) == answers' = [answers EXCEPT ![o] = Append(@, result)]
-----------------------------------------------------------------------------
(* Calls the user makes.                                                   *)

(* A connection the listener accepted. *)
pd_tcp_accept ==
    /\ UserCode /\ sock = "none"
    /\ sock' = "open" /\ status' = "ACTIVE" /\ handler' = "client"
    /\ EventSet(flags \cup {"IN"})
    /\ refs' = refs + 1
    /\ UNCHANGED <<kept, writes, left, answers, rx, fin, room, wrClosed, wire,
                   at, batch, ev, pending>>

(* A connection that is not refused at once. *)
pd_tcp_connect ==
    /\ UserCode /\ sock = "none"
    /\ sock' = "connecting" /\ handler' = "connect"
    /\ EventSet({"IN", "OUT"})
    /\ refs' = refs + 1
    /\ UNCHANGED <<kept, status, writes, left, answers, rx, fin, room, wrClosed,
                   wire, at, batch, ev, pending>>

(* The body of pd_tcp_close, which leaves these writes in the queue. *)
CloseLeaving(queue, isPending, count) ==
    /\ status' = "CLOSED" /\ sock' = "closed" /\ reg' = {}
    /\ answers' = [o \in Ops |-> IF o \in Range(writes)
                                 THEN Append(answers[o], "canceled") ELSE answers[o]]
    /\ writes' = queue /\ pending' = isPending /\ refs' = count
    /\ UNCHANGED <<flags, handler, left, rx, fin, room, wrClosed, wire>>

AlreadyClosed == status = "CLOSED" /\ UNCHANGED <<streamVars, sockVars, pending, refs>>

(* Mutants: on_close is called at once; the cancelled writes stay in the   *)
(* queue; on_close is not scheduled when writes were cancelled.            *)
CloseReleases == AlreadyClosed \/ (status # "CLOSED" /\ CloseLeaving(<<>>, FALSE, refs - 1))
CloseKeepsWrites == AlreadyClosed \/ (status # "CLOSED" /\ CloseLeaving(writes, TRUE, refs))
CloseUnscheduled == \/ AlreadyClosed
                    \/ status # "CLOSED" /\ CloseLeaving(<<>>, writes = <<>>, refs)

(* pd_tcp_close, from the user or from the library: the socket is gone at  *)
(* once, queued writes are cancelled, on_close is left for later.          *)
Close == AlreadyClosed \/ (status # "CLOSED" /\ CloseLeaving(<<>>, TRUE, refs))

pd_tcp_close ==
    /\ UserCode /\ Held
    /\ Close
    /\ UNCHANGED <<kept, at, batch, ev>>

(* Mutant: the socket is shut down although writes are queued. *)
ShutdownAtOnce ==
    /\ UserCode /\ status = "ACTIVE"
    /\ status' = "SHUTDOWN"
    /\ wrClosed' = TRUE
    /\ UNCHANGED <<kept, flags, reg, handler, writes, left, answers, sock, rx, fin,
                   room, wire, at, loopVars>>

pd_tcp_shutdown ==
    /\ UserCode /\ status = "ACTIVE"
    /\ status' = "SHUTDOWN"
    /\ IF writes = <<>> THEN wrClosed' = TRUE /\ UNCHANGED <<flags, reg>>
                        ELSE EventSet(flags \cup {"OUT"}) /\ UNCHANGED wrClosed
    /\ UNCHANGED <<kept, handler, writes, left, answers, sock, rx, fin, room, wire,
                   at, loopVars>>

(* A pd_write_t that was initialised and not given to the library yet. *)
Fresh(o) == answers[o] = <<>> /\ o \notin Range(writes)

(* Mutant: pd__event_set is not called. *)
EnqueueQuietly(o) ==
    /\ writes' = Append(writes, o)
    /\ flags' = flags \cup {"OUT"} /\ UNCHANGED reg

(* pd_tcp_write_async on an active stream. *)
Enqueue(o) ==
    /\ writes' = Append(writes, o)
    /\ IF "OUT" \in flags THEN UNCHANGED <<flags, reg>> ELSE EventSet(flags \cup {"OUT"})

Called(o) == calls' = Append(calls, o) /\ UNCHANGED <<build, status, handler, at, loopVars>>

(* pd_tcp_write on a stream that is not, or no longer, active. *)
WriteRefused(o) ==
    /\ UserCode /\ Fresh(o) /\ Held
    /\ status # "ACTIVE"
    /\ Answer(o, "canceled")
    /\ UNCHANGED <<flags, reg, writes, left, sockVars>> /\ Called(o)

(* pd_tcp_write behind other writes, or on a socket that takes nothing. *)
WriteQueued(o) ==
    /\ UserCode /\ Fresh(o)
    /\ status = "ACTIVE"
    /\ writes # <<>> \/ WouldBlock
    /\ Enqueue(o)
    /\ UNCHANGED <<left, answers, sockVars>> /\ Called(o)

(* The write of pd_tcp_write, the rest of a partial write queued. *)
WriteSome(o) ==
    \E n \in 1 .. Size :
       /\ Takes(o, n)
       /\ IF n = Size THEN Answer(o, "ok") /\ UNCHANGED <<writes, flags, reg>>
                      ELSE Enqueue(o) /\ UNCHANGED answers

(* Mutant: pd_tcp_write does not look at the queue. *)
WriteOvertakes(o) ==
    /\ UserCode /\ Fresh(o)
    /\ status = "ACTIVE"
    /\ WriteSome(o) /\ Called(o)

(* pd_tcp_write that writes at once. *)
WriteNow(o) ==
    /\ UserCode /\ Fresh(o)
    /\ status = "ACTIVE" /\ writes = <<>>
    /\ WriteSome(o) /\ Called(o)

WriteFails(o) ==
    /\ UserCode /\ Fresh(o)
    /\ status = "ACTIVE" /\ writes = <<>> /\ Broken
    /\ Answer(o, "error")
    /\ UNCHANGED <<flags, reg, writes, left, sockVars>> /\ Called(o)

SetInterest(interest) ==
    /\ UserCode /\ Held
    /\ EventSet(interest)
    /\ UNCHANGED <<kept, status, handler, writes, left, answers, sockVars, at, loopVars>>

pd_tcp_pause == SetInterest(flags \ {"IN"})
pd_tcp_resume == SetInterest(flags \cup {"IN"})
-----------------------------------------------------------------------------
(* The loop and the handlers.                                              *)

Goto(from, to) == at = from /\ at' = to

(* A step of the loop thread that only goes on. *)
Moves(from, to) == Goto(from, to) /\ UNCHANGED <<kept, streamVars, sockVars, loopVars>>

Run == Moves("user", "poll")

LoopExits == refs = 0 /\ ~others /\ Moves("poll", "user")

PollReturns ==
    /\ (refs > 0 /\ Entries # {}) \/ others
    /\ Goto("poll", "events")
    /\ batch' = Entries
    /\ UNCHANGED <<kept, streamVars, sockVars, ev, pending, refs>>

(* The next entry of the batch is given to its handler. *)
Dispatch(h, e) == handler = h /\ e \in batch /\ batch' = batch \ {e}

(* pd__tcp_client_io up to on_data, when there is something to read. *)
Read(e) ==
    /\ Dispatch("client", e) /\ "IN" \in e
    /\ ev' = e
    /\ \/ /\ sock \in {"open", "reset"} /\ rx > 0
          /\ Goto("events", "data")
          /\ rx' = rx - 1
       \/ /\ sock = "open" /\ rx = 0 /\ fin
          /\ Goto("events", "eof")
          /\ UNCHANGED rx
       \/ /\ sock = "closed" \/ (Broken /\ rx = 0)
          /\ Goto("events", "data")
          /\ UNCHANGED rx
    /\ UNCHANGED <<kept, streamVars, sock, fin, room, wrClosed, wire, pending, refs>>

NothingToRead(e) == /\ Dispatch("client", e) /\ "IN" \notin e
                    /\ Goto("events", "rest")
                    /\ ev' = e
                    /\ UNCHANGED <<kept, streamVars, sockVars, pending, refs>>

DataReturns == Moves("data", "rest")

EofReturns == /\ Goto("eof", "rest")
              /\ Close
              /\ UNCHANGED <<kept, batch, ev>>

(* pd__tcp_client_io after the read. *)
CloseEvent == /\ "CLOSE" \in ev
              /\ Goto("rest", "events")
              /\ Close
              /\ ev' = {}
              /\ UNCHANGED <<kept, batch>>

(* The way into pd__tcp_write, which ignores a closed stream. *)
WriteEvent == /\ "CLOSE" \notin ev
              /\ IF "OUT" \in ev /\ status # "CLOSED" THEN Goto("rest", "drain")
                                                      ELSE Goto("rest", "events")
              /\ ev' = {}
              /\ UNCHANGED <<kept, streamVars, sockVars, batch, pending, refs>>

(* One turn of the loop in pd__tcp_write. *)
DrainWrites ==
    /\ writes # <<>>
    /\ \E n \in 1 .. Room : Takes(Head(writes), n)
    /\ IF left'[Head(writes)] = 0
       THEN /\ Goto("drain", "written")
            /\ writes' = Tail(writes)
            /\ Answer(Head(writes), "ok")
       ELSE /\ Goto("drain", "drain")
            /\ UNCHANGED <<writes, answers>>
    /\ UNCHANGED <<kept, status, flags, reg, handler, loopVars>>

DrainBlocks == writes # <<>> /\ WouldBlock /\ Moves("drain", "events")

DrainFails ==
    /\ writes # <<>> /\ Broken
    /\ Goto("drain", "failed")
    /\ writes' = Tail(writes)
    /\ Answer(Head(writes), "error")
    /\ UNCHANGED <<kept, status, flags, reg, handler, left, sockVars, loopVars>>

DrainUnchanged == UNCHANGED <<kept, status, handler, writes, left, answers, sock, rx, fin,
                              room, wire, loopVars>>

(* Mutant: the half-close that waited for the writes is forgotten. *)
DrainForgets ==
    /\ writes = <<>>
    /\ Goto("drain", "events")
    /\ EventSet(flags \ {"OUT"})
    /\ UNCHANGED wrClosed /\ DrainUnchanged

DrainEnds ==
    /\ writes = <<>>
    /\ Goto("drain", "events")
    /\ EventSet(flags \ {"OUT"})
    /\ wrClosed' = (wrClosed \/ status = "SHUTDOWN")
    /\ DrainUnchanged

WrittenReturns == Moves("written", "drain")
FailedReturns == Moves("failed", "events")

ConnectUnchanged == UNCHANGED <<kept, writes, left, answers, sockVars, ev, pending, refs>>

(* A stale event of a connection that was closed in the same batch. *)
ConnectStale(e) == /\ at = "events" /\ Dispatch("connect", e)
                   /\ status = "CLOSED"
                   /\ UNCHANGED <<status, flags, reg, handler, at>> /\ ConnectUnchanged

ConnectFails(e) == /\ Dispatch("connect", e) /\ "CLOSE" \in e /\ status # "CLOSED"
                   /\ Goto("events", "connect")
                   /\ UNCHANGED <<status, flags, reg, handler>> /\ ConnectUnchanged

Connected(e) == /\ Dispatch("connect", e) /\ "OUT" \in e /\ "CLOSE" \notin e
                /\ status # "CLOSED"
                /\ Goto("events", "connect")
                /\ status' = "ACTIVE" /\ handler' = "client"
                /\ EventSet(flags \ {"OUT"})
                /\ ConnectUnchanged

(* A connection is readable and, with kqueue, an entry of its own says so. *)
ConnectIgnores(e) == /\ at = "events" /\ Dispatch("connect", e) /\ e = {"IN"}
                     /\ status # "CLOSED"
                     /\ UNCHANGED <<status, flags, reg, handler, at>> /\ ConnectUnchanged

ConnectReturns == Moves("connect", "events")

EventsEnd == batch = {} /\ Moves("events", "closes")

(* pd__tcp_pending_close. *)
OnClose == /\ pending
           /\ Goto("closes", "onclose")
           /\ pending' = FALSE
           /\ UNCHANGED <<kept, streamVars, sockVars, batch, ev, refs>>

OnCloseReturns == /\ Goto("onclose", "closes")
                  /\ refs' = refs - 1
                  /\ UNCHANGED <<kept, streamVars, sockVars, batch, ev, pending>>

ClosesEnd == ~pending /\ Moves("closes", "after")

IterationEnds == Moves("after", "poll")

User == \/ pd_tcp_accept \/ pd_tcp_connect \/ pd_tcp_close \/ pd_tcp_shutdown
        \/ pd_tcp_pause \/ pd_tcp_resume
        \/ \E o \in Ops : WriteRefused(o) \/ WriteQueued(o) \/ WriteNow(o) \/ WriteFails(o)
        \/ Run

Loop == \/ LoopExits \/ PollReturns
        \/ \E e \in batch :
              \/ Read(e) \/ NothingToRead(e)
              \/ ConnectStale(e) \/ ConnectFails(e) \/ Connected(e) \/ ConnectIgnores(e)
        \/ DataReturns \/ EofReturns \/ CloseEvent \/ WriteEvent
        \/ DrainWrites \/ DrainBlocks \/ DrainFails \/ DrainEnds
        \/ WrittenReturns \/ FailedReturns
        \/ ConnectReturns \/ EventsEnd \/ OnClose \/ OnCloseReturns \/ ClosesEnd \/ IterationEnds

Next == User \/ Loop \/ Peer

Spec == Init /\ [][Next]_vars

(* The loop thread is scheduled and callbacks return; the peer reads what  *)
(* it is sent, or resets the connection.                                   *)
FairSpec == Spec /\ WF_vars(Loop) /\ WF_vars(PeerReads /\ PeerUnchanged)
-----------------------------------------------------------------------------
(* Correctness.                                                            *)

(* Every variable has the shape the code gives it. *)
TypeOK ==
    /\ poller \in {"epoll", "kqueue"} /\ others \in BOOLEAN
    /\ status \in {"NONE", "ACTIVE", "SHUTDOWN", "CLOSED"}
    /\ flags \subseteq {"IN", "OUT"} /\ reg \subseteq {"IN", "OUT"}
    /\ handler \in {"none", "connect", "client"}
    /\ writes \in Seq(Ops) /\ left \in [Ops -> 0 .. Size]
    /\ answers \in [Ops -> Seq({"ok", "error", "canceled"})] /\ calls \in Seq(Ops)
    /\ sock \in {"none", "connecting", "failed", "open", "reset", "closed"}
    /\ rx \in 0 .. MaxRx /\ fin \in BOOLEAN
    /\ room \in 0 .. Room /\ wrClosed \in BOOLEAN /\ wire \in Seq(Ops)
    /\ at \in LoopStates /\ batch \subseteq SUBSET {"IN", "OUT", "CLOSE"}
    /\ ev \subseteq {"IN", "OUT", "CLOSE"}
    /\ pending \in BOOLEAN /\ refs \in Nat

(* A write has one answer: it is in the queue or its callback was called,  *)
(* once, whatever mixture of partial writes, errors, and calls to          *)
(* pd_tcp_close from other callbacks it went through; "ok" means that all  *)
(* of it was written.                                                      *)
WriteAnsweredOnce ==
    \A o \in Ops :
        LET queued == Cardinality({i \in DOMAIN writes : writes[i] = o})
        IN /\ queued + Len(answers[o]) <= 1
           /\ left[o] < Size => queued + Len(answers[o]) = 1
           /\ answers[o] = <<"ok">> => left[o] = 0

CalledBefore(o, p) == \E i, j \in DOMAIN calls : i < j /\ calls[i] = o /\ calls[j] = p

(* The peer sees the writes one after the other, in the order of the calls *)
(* of pd_tcp_write, although that writes directly when it can: when a unit *)
(* of a later write is on the wire, the earlier one was called first and   *)
(* is there as a whole.                                                    *)
WireInOrder ==
    \A i, j \in DOMAIN wire :
        i < j /\ wire[i] # wire[j] =>
            /\ CalledBefore(wire[i], wire[j])
            /\ left[wire[i]] = 0
            /\ \A k \in DOMAIN wire : k > j => wire[k] # wire[i]

(* A graceful shutdown sends the FIN after everything that was queued. *)
FinLast == wrClosed => writes = <<>>

(* What kqueue leaves out: the write filter of a paused stream. *)
Unwatched == poller = "kqueue" /\ "IN" \notin flags

(* While writes are queued the kernel watches the socket for writing,      *)
(* whatever the interest in reading went through meanwhile.                *)
WritesWatched == writes # <<>> /\ Alive => "OUT" \in reg \/ Unwatched

(* The library has no event left and is in no handler of a stream whose    *)
(* on_close was called, as the user frees it there.                        *)
NoEventAfterRelease ==
    Released => /\ batch = {} /\ ev = {}
                /\ at \notin {"data", "eof", "rest", "drain", "written", "failed", "connect"}

(* When the library closes a stream that the user did not shut down, and   *)
(* that was not reset, everything the peer sent was read.  This is epoll:  *)
(* the loop for kqueue closes at the first event after the peer's FIN.     *)
ActiveReadsAll ==
    [][/\ status = "ACTIVE" /\ status' = "CLOSED" /\ at \in {"rest", "eof"}
       /\ poller = "epoll"
       => rx = 0 \/ sock # "open"]_vars

(* The same for a stream that the user did shut down and that goes on      *)
(* reading: it is not paused, and the handler that closes it read first.   *)
ShutdownReadsAll ==
    [][/\ status = "SHUTDOWN" /\ status' = "CLOSED" /\ at \in {"rest", "eof"}
       /\ poller = "epoll" /\ "IN" \in flags \cap ev
       => rx = 0 \/ sock # "open"]_vars

(* A queued write is answered, unless its stream stays Unwatched. *)
WritesAnswered ==
    \A o \in Ops : (o \in Range(writes) /\ at # "user")
                      ~> (answers[o] # <<>> \/ Unwatched)

(* A shutdown closes the sending direction, after the writes. *)
ShutdownCompletes ==
    (status = "SHUTDOWN" /\ at # "user") ~> (wrClosed \/ status = "CLOSED" \/ Unwatched)

(* A stream that was closed gets its on_close and the loop lets go of it,  *)
(* if anything else makes the poll return.                                 *)
CloseCompletes == (status = "CLOSED" /\ at # "user" /\ others) ~> (refs = 0)
=============================================================================
