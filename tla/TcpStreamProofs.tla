--------------------------- MODULE TcpStreamProofs ---------------------------
(***************************************************************************)
(* Proofs about TcpStream, for every number of writes and every size of    *)
(* the writes and of the socket's buffers.                                 *)
(***************************************************************************)
EXTENDS TcpStream, FiniteSetTheorems, TLAPS

B(condition) == IF condition THEN 1 ELSE 0

Handling == {"data", "eof", "rest", "drain", "written", "failed", "connect"}

(* The variables, without refs, whose range follows from what it counts. *)
Shape ==
    /\ poller \in {"epoll", "kqueue"} /\ others \in BOOLEAN
    /\ status \in {"NONE", "ACTIVE", "SHUTDOWN", "CLOSED"}
    /\ flags \subseteq {"IN", "OUT"} /\ reg \subseteq {"IN", "OUT"}
    /\ handler \in {"none", "connect", "client"}
    /\ writes \in Seq(Ops) /\ left \in [Ops -> 0 .. Size]
    /\ answers \in [Ops -> Seq({"ok", "error", "canceled"})]
    /\ sock \in {"none", "connecting", "failed", "open", "reset", "closed"}
    /\ rx \in 0 .. MaxRx /\ fin \in BOOLEAN
    /\ room \in 0 .. Room /\ wrClosed \in BOOLEAN /\ wire \in Seq(Ops)
    /\ at \in LoopStates /\ batch \subseteq SUBSET {"IN", "OUT", "CLOSE"}
    /\ ev \subseteq {"IN", "OUT", "CLOSE"}
    /\ pending \in BOOLEAN

(* Entries are fetched by the poll and handled before the next one; what   *)
(* is left of one is looked at when the read is done.                      *)
Turn == /\ at \in {"user", "poll", "closes", "onclose", "after"} => batch = {}
        /\ at \notin {"data", "eof", "rest"} => ev = {}

(* The socket is closed with the stream, and nothing comes from it before  *)
(* it is opened and after on_close.                                        *)
Life ==
    /\ status = "CLOSED" <=> sock = "closed"
    /\ sock = "closed" => reg = {}
    /\ pending => sock = "closed"
    /\ sock = "none" => status = "NONE" /\ flags = {} /\ reg = {} /\ wire = <<>>
    /\ sock = "connecting" => wire = <<>>
    /\ sock = "none" \/ Released => batch = {} /\ at \notin Handling
    /\ at = "onclose" => Released
    /\ handler = "connect" => status \in {"NONE", "CLOSED"}
    /\ status \in {"NONE", "CLOSED"} => writes = <<>>

(* The kernel watches for what the flags say, and for writing while writes *)
(* are queued.                                                             *)
Interest ==
    /\ sock # "closed" /\ (poller = "epoll" \/ "IN" \in flags) => reg = flags
    /\ sock # "closed" /\ writes # <<>> => "OUT" \in flags

(* A write is in the queue once, or was answered once, or neither. *)
Queued ==
    /\ \A i, j \in DOMAIN writes : writes[i] = writes[j] => i = j
    /\ \A o \in Ops :
          /\ o \in Range(writes) => answers[o] = <<>>
          /\ Len(answers[o]) <= 1
          /\ o \notin Range(writes) /\ answers[o] = <<>> => left[o] = Size
          /\ answers[o] = <<"ok">> => left[o] = 0

(* No unit of a write is on the wire between those of another. *)
Whole ==
    \A i, j \in DOMAIN wire :
        i < j /\ wire[i] # wire[j] =>
            /\ left[wire[i]] = 0
            /\ \A k \in DOMAIN wire : k > j => wire[k] # wire[i]

(* Only the write at the head of the queue may be written in part. *)
HeadPartial ==
    sock = "open" => \A i \in DOMAIN wire :
                        left[wire[i]] = 0 \/ (writes # <<>> /\ wire[i] = Head(writes))

(* The sending direction is closed by a stream that was shut down and has  *)
(* no writes.                                                              *)
SendClosed == wrClosed => writes = <<>> /\ status \in {"SHUTDOWN", "CLOSED"}

(* What the reads of epoll know: all was read at the end of the stream,    *)
(* and a hang-up means a broken socket or one shut down on both sides.     *)
HangUp == sock \in {"failed", "reset", "closed"} \/ wrClosed
Ends == /\ at = "eof" => fin /\ rx = 0
        /\ poller = "epoll" /\ "CLOSE" \in ev => HangUp
        /\ poller = "epoll" => \A e \in batch : "CLOSE" \in e => HangUp

(* The loop counts the stream until on_close returned. *)
Counted == refs = B(sock # "none" /\ (~Released \/ at = "onclose"))

IInv == /\ Shape /\ Turn /\ Life /\ Interest /\ Queued /\ HeadPartial /\ Whole
        /\ SendClosed /\ Ends /\ Counted
-----------------------------------------------------------------------------
(* Queues and the wire.                                                    *)

(* A write is added to the queue. *)
LEMMA AppendFacts ==
    ASSUME NEW T, NEW q \in Seq(T), NEW e \in T
    PROVE  /\ Append(q, e) \in Seq(T) /\ Append(q, e) # <<>>
           /\ Range(Append(q, e)) = Range(q) \cup {e}
           /\ Head(Append(q, e)) = IF q = <<>> THEN e ELSE Head(q)
           /\ (\A i, j \in DOMAIN q : q[i] = q[j] => i = j) /\ e \notin Range(q)
              => \A i, j \in DOMAIN Append(q, e) : Append(q, e)[i] = Append(q, e)[j] => i = j
<1> DEFINE r == Append(q, e)
<1>1. /\ Len(q) \in Nat /\ DOMAIN q = 1 .. Len(q) /\ DOMAIN r = 1 .. Len(q) + 1
      /\ r[Len(q) + 1] = e /\ \A i \in DOMAIN q : r[i] = q[i]
      /\ r \in Seq(T) /\ r # <<>>
  OBVIOUS
<1>2. Head(r) = IF q = <<>> THEN e ELSE Head(q)
  OBVIOUS
<1> HIDE DEF r
<1>3. \A i \in DOMAIN r : i \in DOMAIN q \/ i = Len(q) + 1
  BY <1>1
<1>4. DOMAIN q \subseteq DOMAIN r /\ Len(q) + 1 \in DOMAIN r
  BY <1>1
<1>5. Range(r) = Range(q) \cup {e}
  BY <1>1, <1>3, <1>4 DEF Range
<1>6. (\A i, j \in DOMAIN q : q[i] = q[j] => i = j) /\ e \notin Range(q)
      => \A i, j \in DOMAIN r : r[i] = r[j] => i = j
  BY <1>1, <1>3 DEF Range
<1> QED BY <1>1, <1>2, <1>5, <1>6 DEF r

(* The first write leaves the queue. *)
LEMMA TailFacts ==
    ASSUME NEW T, NEW q \in Seq(T), q # <<>>, \A i, j \in DOMAIN q : q[i] = q[j] => i = j
    PROVE  /\ Tail(q) \in Seq(T) /\ Head(q) \in T /\ Head(q) \in Range(q)
           /\ Range(Tail(q)) = Range(q) \ {Head(q)}
           /\ \A i, j \in DOMAIN Tail(q) : Tail(q)[i] = Tail(q)[j] => i = j
<1> DEFINE r == Tail(q)
<1>1. /\ Len(q) \in Nat \ {0} /\ DOMAIN q = 1 .. Len(q) /\ DOMAIN r = 1 .. Len(q) - 1
      /\ Head(q) = q[1] /\ \A i \in DOMAIN r : r[i] = q[i + 1]
      /\ r \in Seq(T) /\ q[1] \in T
  OBVIOUS
<1> HIDE DEF r
<1>2. 1 \in DOMAIN q /\ \A i \in DOMAIN r : i + 1 \in DOMAIN q /\ i + 1 # 1 /\ i \in Nat
  BY <1>1
<1>3. \A i \in DOMAIN q : i = 1 \/ (i - 1 \in DOMAIN r /\ r[i - 1] = q[i])
  <2> SUFFICES ASSUME NEW i \in DOMAIN q, i # 1 PROVE i - 1 \in DOMAIN r /\ r[i - 1] = q[i]
    OBVIOUS
  <2>1. i \in Nat /\ i - 1 \in DOMAIN r /\ (i - 1) + 1 = i
    BY <1>1
  <2> QED BY <1>1, <2>1
<1>4. Head(q) \in Range(q)
  BY <1>1, <1>2 DEF Range
<1>5. Range(r) = Range(q) \ {Head(q)}
  <2>1. ASSUME NEW x \in Range(r) PROVE x \in Range(q) \ {Head(q)}
    <3>1. PICK i \in DOMAIN r : r[i] = x
      BY DEF Range
    <3>2. q[i + 1] = x /\ i + 1 \in DOMAIN q /\ i + 1 # 1
      BY <1>1, <1>2, <3>1
    <3> QED BY <1>1, <1>2, <3>2 DEF Range
  <2>2. ASSUME NEW x \in Range(q), x # Head(q) PROVE x \in Range(r)
    <3>1. PICK i \in DOMAIN q : q[i] = x
      BY DEF Range
    <3> QED BY <1>1, <1>3, <2>2, <3>1 DEF Range
  <2> QED BY <2>1, <2>2
<1>6. \A i, j \in DOMAIN r : r[i] = r[j] => i = j
  <2> SUFFICES ASSUME NEW i \in DOMAIN r, NEW j \in DOMAIN r, r[i] = r[j] PROVE i = j
    OBVIOUS
  <2>1. i + 1 = j + 1
    BY <1>1, <1>2
  <2> QED BY <1>2, <2>1
<1> QED BY <1>1, <1>4, <1>5, <1>6 DEF r

(* Units of a write are put on the wire. *)
LEMMA WireFacts ==
    ASSUME NEW T, NEW w \in Seq(T), NEW o \in T, NEW n \in Nat,
           NEW v, v = w \o [i \in 1 .. n |-> o]
    PROVE  /\ v \in Seq(T) /\ DOMAIN w \subseteq DOMAIN v
           /\ \A i \in DOMAIN w : v[i] = w[i]
           /\ \A i \in DOMAIN v : i \in Nat /\ (i \in DOMAIN w \/ (v[i] = o /\ i > Len(w)))
           /\ DOMAIN w = 1 .. Len(w) /\ Len(w) \in Nat
<1> DEFINE u == [i \in 1 .. n |-> o]
<1>1. u \in Seq(T) /\ Len(u) = n /\ \A i \in 1 .. n : u[i] = o
  OBVIOUS
<1>2. v = w \o u
  OBVIOUS
<1> HIDE DEF u
<1>3. /\ v \in Seq(T) /\ Len(v) = Len(w) + n /\ Len(w) \in Nat
      /\ DOMAIN w = 1 .. Len(w) /\ DOMAIN v = 1 .. Len(w) + n
      /\ \A i \in 1 .. Len(w) : v[i] = w[i]
  BY <1>1, <1>2
<1>4. \A i \in DOMAIN v : i > Len(w) => v[i] = u[i - Len(w)] /\ i - Len(w) \in 1 .. n
  BY <1>1, <1>2, <1>3
<1> QED BY <1>1, <1>3, <1>4
-----------------------------------------------------------------------------
(* What steps that leave a part of the state alone keep.                   *)

(* Nothing is reported of a socket that is not there; what epoll reports   *)
(* as a hang-up is one.                                                    *)
LEMMA EntriesFacts ==
    ASSUME Shape
    PROVE  /\ Entries \subseteq SUBSET {"IN", "OUT", "CLOSE"}
           /\ sock \in {"none", "closed"} => Entries = {}
           /\ poller = "epoll" => \A e \in Entries : "CLOSE" \in e => HangUp
<1>1. reg \subseteq {"IN", "OUT"}
  BY DEF Shape
<1>2. CASE poller = "epoll"
  <2>1. Entries = EpollEntries
    BY <1>2 DEF Entries
  <2>2. EpollEntries \subseteq SUBSET {"IN", "OUT", "CLOSE"}
    BY <1>1 DEF EpollEntries
  <2>3. sock \in {"none", "closed"} => EpollEntries = {}
    BY DEF EpollEntries, Readable, Writable, ResetOrFailed
  <2>4. ASSUME NEW e \in EpollEntries, "CLOSE" \in e
        PROVE  HangUp
    BY <1>1, <2>4 DEF EpollEntries, ResetOrFailed, HangUp
  <2> QED BY <2>1, <2>2, <2>3, <2>4
<1>3. CASE poller # "epoll"
  <2>1. Entries = KqueueEntries
    BY <1>3 DEF Entries
  <2>2. KqueueEntries \subseteq SUBSET {"IN", "OUT", "CLOSE"}
    BY <1>1 DEF KqueueEntries
  <2>3. sock \in {"none", "closed"} => KqueueEntries = {}
    BY DEF KqueueEntries, Readable, Writable, ResetOrFailed
  <2> QED BY <1>3, <2>1, <2>2, <2>3
<1> QED BY <1>2, <1>3

(* The queue and the answers. *)
LEMMA QueuedKept ==
    ASSUME Queued, UNCHANGED <<writes, left, answers>>
    PROVE  Queued'
BY DEF Queued, Range

(* The wire: no step that leaves it alone opens a socket that was used. *)
LEMMA WireKept ==
    ASSUME HeadPartial, Whole, UNCHANGED <<wire, left>>,
           \/ sock' # "open"
           \/ wire = <<>>
           \/ /\ sock' = sock
              /\ writes' = writes \/ writes = <<>> \/ (writes' # <<>> /\ Head(writes') = Head(writes))
    PROVE  HeadPartial' /\ Whole'
<1>1. Whole'
  BY DEF Whole
<1>2. HeadPartial'
  BY DEF HeadPartial
<1> QED BY <1>1, <1>2

(* Everything about the writes. *)
LEMMA WritesKept ==
    ASSUME Interest, Queued, HeadPartial, Whole, SendClosed,
           UNCHANGED <<poller, status, flags, reg, writes, left, answers, sock, wrClosed, wire>>
    PROVE  Interest' /\ Queued' /\ HeadPartial' /\ Whole' /\ SendClosed'
BY QueuedKept, WireKept DEF Interest, SendClosed

(* Units go on the wire for the only write that may be written in part. *)
LEMMA WireExtended ==
    ASSUME Shape, HeadPartial, Whole, NEW o \in Ops, NEW n \in Nat, Takes(o, n),
           writes = <<>> \/ o = Head(writes),
           left'[o] = 0 \/ (writes' # <<>> /\ Head(writes') = o)
    PROVE  /\ HeadPartial' /\ Whole' /\ wire' \in Seq(Ops)
           /\ left' \in [Ops -> 0 .. Size] /\ left'[o] = left[o] - n /\ n <= left[o] /\ n > 0
           /\ \A p \in Ops \ {o} : left'[p] = left[p]
           /\ room' \in 0 .. Room
<1> USE TcpStreamAssumption
<1>1. /\ sock = "open" /\ n \in 1 .. room /\ n <= left[o] /\ room' = room - n
      /\ left' = [left EXCEPT ![o] = left[o] - n]
      /\ wire' = wire \o [i \in 1 .. n |-> o]
  BY DEF Takes
<1>2. left \in [Ops -> 0 .. Size] /\ room \in 0 .. Room /\ wire \in Seq(Ops)
  BY DEF Shape
<1>3. /\ left' \in [Ops -> 0 .. Size] /\ left'[o] = left[o] - n /\ left[o] > 0
      /\ \A p \in Ops \ {o} : left'[p] = left[p]
  BY <1>1, <1>2
<1>4. room' \in 0 .. Room /\ n > 0
  BY <1>1, <1>2
<1>5. /\ wire' \in Seq(Ops) /\ DOMAIN wire \subseteq DOMAIN wire'
      /\ \A i \in DOMAIN wire : wire'[i] = wire[i]
      /\ \A i \in DOMAIN wire' : i \in Nat /\ (i \in DOMAIN wire \/ (wire'[i] = o /\ i > Len(wire)))
      /\ DOMAIN wire = 1 .. Len(wire) /\ Len(wire) \in Nat
  BY <1>1, <1>2, WireFacts
<1>6. \A i \in DOMAIN wire : wire[i] \in Ops /\ (wire[i] # o => left[wire[i]] = 0)
  BY <1>1, <1>2 DEF HeadPartial
<1>7. HeadPartial'
  <2> SUFFICES ASSUME NEW i \in DOMAIN wire'
               PROVE  left'[wire'[i]] = 0 \/ (writes' # <<>> /\ wire'[i] = Head(writes'))
    BY DEF HeadPartial
  <2>1. CASE wire'[i] = o
    BY <2>1
  <2>2. CASE wire'[i] # o
    <3>1. i \in DOMAIN wire /\ wire'[i] = wire[i]
      BY <1>5, <2>2
    <3> QED BY <1>3, <1>6, <2>2, <3>1
  <2> QED BY <2>1, <2>2
<1>8. Whole'
  <2> SUFFICES ASSUME NEW i \in DOMAIN wire', NEW j \in DOMAIN wire', i < j, wire'[i] # wire'[j]
               PROVE  /\ left'[wire'[i]] = 0
                      /\ \A k \in DOMAIN wire' : k > j => wire'[k] # wire'[i]
    BY DEF Whole
  <2>1. i \in DOMAIN wire /\ wire'[i] = wire[i]
    <3>1. CASE i \notin DOMAIN wire
      <4>1. wire'[i] = o /\ i > Len(wire)
        BY <1>5, <3>1
      <4>2. j \notin DOMAIN wire
        BY <1>5, <4>1
      <4>3. wire'[j] = o
        BY <1>5, <4>2
      <4> QED BY <4>1, <4>3
    <3> QED BY <1>5, <3>1
  <2>2. wire[i] # o
    <3> SUFFICES ASSUME wire[i] = o PROVE FALSE
      OBVIOUS
    <3>1. j \in DOMAIN wire /\ wire'[j] = wire[j]
      BY <1>5, <2>1
    <3>2. left[wire[i]] = 0
      BY <2>1, <3>1 DEF Whole
    <3> QED BY <1>3, <3>2
  <2>3. left'[wire'[i]] = 0
    BY <1>3, <1>6, <2>1, <2>2
  <2>4. ASSUME NEW k \in DOMAIN wire', k > j
        PROVE  wire'[k] # wire'[i]
    <3>1. CASE k \in DOMAIN wire
      <4>1. j \in DOMAIN wire
        BY <1>5, <2>4, <3>1
      <4>2. wire'[k] = wire[k] /\ wire'[j] = wire[j]
        BY <1>5, <3>1, <4>1
      <4> QED BY <2>1, <2>4, <3>1, <4>1, <4>2 DEF Whole
    <3>2. CASE k \notin DOMAIN wire
      BY <1>5, <2>1, <2>2, <3>2
    <3> QED BY <3>1, <3>2
  <2> QED BY <2>3, <2>4
<1> QED BY <1>1, <1>3, <1>4, <1>5, <1>7, <1>8
-----------------------------------------------------------------------------
(* The steps.                                                              *)

(* The loop goes on, without touching the stream. *)
LEMMA MoveStep ==
    ASSUME IInv, NEW from \in LoopStates, NEW to \in LoopStates, Moves(from, to),
           from \in {"data", "eof", "rest"} => to \in {"data", "rest"},
           to \in {"closes", "after", "poll", "user"} => batch = {},
           to \in Handling => from \in Handling,
           "onclose" \notin {from, to}, to # "eof"
    PROVE  IInv'
<1>1. Shape /\ Turn /\ Life /\ Interest /\ Queued /\ HeadPartial /\ Whole /\ SendClosed /\ Ends
      /\ Counted
  BY DEF IInv
<1>2. /\ at = from /\ at' = to
      /\ UNCHANGED <<poller, others, status, flags, reg, handler, writes, left, answers, sock, rx, fin,
                     room, wrClosed, wire, batch, ev, pending, refs>>
  BY DEF Moves, Goto, kept, build, streamVars, sockVars, loopVars
<1>3. Shape'
  BY <1>1, <1>2 DEF Shape
<1>4. Turn'
  BY <1>1, <1>2 DEF Turn
<1>5. Released' <=> Released
  BY <1>2 DEF Released
<1>6. Life'
  BY <1>1, <1>2, <1>5 DEF Life
<1>7. Interest' /\ Queued' /\ HeadPartial' /\ Whole' /\ SendClosed'
  BY <1>1, <1>2, WritesKept
<1>8. Ends'
  BY <1>1, <1>2 DEF Ends, HangUp
<1>9. Counted'
  BY <1>1, <1>2, <1>5 DEF Counted, B
<1> QED BY <1>3, <1>4, <1>6, <1>7, <1>8, <1>9 DEF IInv

(* The loop fetches, looks at and drops entries. *)
LEMMA EntryStep ==
    ASSUME IInv,
           \/ PollReturns \/ WriteEvent
           \/ \E e \in batch : Read(e) \/ NothingToRead(e) \/ ConnectStale(e) \/ ConnectFails(e)
                               \/ ConnectIgnores(e)
    PROVE  IInv'
<1> USE TcpStreamAssumption
<1>1. Shape /\ Turn /\ Life /\ Interest /\ Queued /\ HeadPartial /\ Whole /\ SendClosed /\ Ends
      /\ Counted
  BY DEF IInv
<1>2. UNCHANGED <<poller, others, status, flags, reg, handler, writes, left, answers, sock, fin,
                  room, wrClosed, wire, pending, refs>>
  BY DEF PollReturns, WriteEvent, Read, NothingToRead, ConnectStale, ConnectFails, ConnectIgnores,
     ConnectUnchanged, kept, build, streamVars, sockVars
<1>3. Interest' /\ Queued' /\ HeadPartial' /\ Whole' /\ SendClosed'
  BY <1>1, <1>2, WritesKept
<1>4. (Released' <=> Released) /\ (HangUp' <=> HangUp)
  BY <1>2 DEF Released, HangUp
<1>5. CASE PollReturns
  <2>1. at = "poll" /\ at' = "events" /\ batch' = Entries /\ UNCHANGED <<rx, ev>>
    BY <1>5 DEF PollReturns, Goto, sockVars
  <2>2. /\ batch' \subseteq SUBSET {"IN", "OUT", "CLOSE"}
        /\ sock \in {"none", "closed"} => batch' = {}
        /\ poller = "epoll" => \A e \in batch' : "CLOSE" \in e => HangUp
    BY <1>1, <2>1, EntriesFacts
  <2>3. Shape'
    BY <1>1, <1>2, <2>1, <2>2 DEF Shape, LoopStates
  <2>4. Turn'
    BY <1>1, <2>1 DEF Turn
  <2>5. Released => sock = "closed"
    BY <1>1 DEF Released, Life
  <2>6. Life'
    BY <1>1, <1>2, <1>4, <2>1, <2>2, <2>5 DEF Life, Handling
  <2>7. Ends'
    BY <1>1, <1>2, <1>4, <2>1, <2>2 DEF Ends
  <2>8. Counted'
    BY <1>1, <1>2, <1>4, <2>1 DEF Counted, B
  <2> QED BY <1>3, <2>3, <2>4, <2>6, <2>7, <2>8 DEF IInv
<1>6. CASE WriteEvent
  <2>1. at = "rest" /\ at' \in {"drain", "events"} /\ ev' = {} /\ UNCHANGED <<rx, batch>>
    BY <1>6 DEF WriteEvent, Goto, sockVars
  <2>2. Shape' /\ Turn'
    BY <1>1, <1>2, <2>1 DEF Shape, Turn, LoopStates
  <2>3. Life'
    BY <1>1, <1>2, <1>4, <2>1 DEF Life, Handling
  <2>4. Ends'
    BY <1>1, <1>2, <1>4, <2>1 DEF Ends
  <2>5. Counted'
    BY <1>1, <1>2, <1>4, <2>1 DEF Counted, B
  <2> QED BY <1>3, <2>2, <2>3, <2>4, <2>5 DEF IInv
<1>7. ASSUME NEW e \in batch,
             Read(e) \/ NothingToRead(e) \/ ConnectStale(e) \/ ConnectFails(e) \/ ConnectIgnores(e)
      PROVE  IInv'
  <2>1. /\ at = "events" /\ at' \in {"data", "eof", "rest", "connect", "events"}
        /\ batch' = batch \ {e}
    BY <1>7 DEF Read, NothingToRead, ConnectStale, ConnectFails, ConnectIgnores, Dispatch, Goto
  <2>2. /\ \/ ev' \subseteq e /\ at' \in {"data", "eof", "rest"}
           \/ ev' = ev
        /\ rx' \in 0 .. MaxRx
    BY <1>1, <1>7 DEF Read, NothingToRead, ConnectStale, ConnectFails, ConnectIgnores, ConnectUnchanged,
         Goto, sockVars, Shape
  <2>3. at' = "eof" => fin' /\ rx' = 0
    <3>1. CASE Read(e)
      BY <1>2, <3>1 DEF Read, Goto
    <3>2. CASE ~Read(e)
      BY <1>7, <2>1, <3>2 DEF NothingToRead, ConnectStale, ConnectFails, ConnectIgnores, Goto
    <3> QED BY <3>1, <3>2
  <2>4. ~Released /\ sock # "none"
    BY <1>1 DEF Life
  <2>5. e \subseteq {"IN", "OUT", "CLOSE"} /\ (poller = "epoll" /\ "CLOSE" \in e => HangUp)
    BY <1>1 DEF Shape, Ends
  <2>6. Shape' /\ Turn'
    <3>1. at' \in LoopStates
      BY <2>1 DEF LoopStates
    <3>2. ev' \subseteq {"IN", "OUT", "CLOSE"} /\ batch' \subseteq SUBSET {"IN", "OUT", "CLOSE"}
      BY <1>1, <2>1, <2>2, <2>5 DEF Shape
    <3>3. rx' \in 0 .. MaxRx
      BY <2>2
    <3>4. Shape'
      BY <1>1, <1>2, <3>1, <3>2, <3>3 DEF Shape
    <3>5. Turn'
      BY <1>1, <2>1, <2>2 DEF Turn
    <3> QED BY <3>4, <3>5
  <2>7. Life'
    BY <1>1, <1>2, <1>4, <2>1, <2>4 DEF Life
  <2>8. Ends'
    BY <1>1, <1>2, <1>4, <2>1, <2>2, <2>3, <2>5 DEF Ends
  <2>9. Counted'
    BY <1>1, <1>2, <1>4, <2>1 DEF Counted, B
  <2> QED BY <1>3, <2>6, <2>7, <2>8, <2>9 DEF IInv
<1> QED BY <1>5, <1>6, <1>7

(* on_close is called, and returns. *)
LEMMA ReleaseStep ==
    ASSUME IInv, OnClose \/ OnCloseReturns
    PROVE  IInv'
<1>1. Shape /\ Turn /\ Life /\ Interest /\ Queued /\ HeadPartial /\ Whole /\ SendClosed /\ Ends
      /\ Counted
  BY DEF IInv
<1>2. /\ UNCHANGED <<poller, others, status, flags, reg, handler, writes, left, answers, sock, rx, fin,
                     room, wrClosed, wire, batch, ev>>
      /\ \/ at = "closes" /\ at' = "onclose"
         \/ at = "onclose" /\ at' = "closes"
  BY DEF OnClose, OnCloseReturns, Goto, kept, build, streamVars, sockVars
<1>3. Interest' /\ Queued' /\ HeadPartial' /\ Whole' /\ SendClosed'
  BY <1>1, <1>2, WritesKept
<1>4. pending' \in BOOLEAN
  BY <1>1 DEF OnClose, OnCloseReturns, Shape
<1>5. Shape' /\ Turn'
  BY <1>1, <1>2, <1>4 DEF Shape, Turn, LoopStates
<1>6. Ends'
  BY <1>1, <1>2 DEF Ends, HangUp
<1>7. sock = "closed" /\ status = "CLOSED" /\ ~pending' /\ batch = {}
  <2>1. CASE OnClose
    BY <1>1, <1>2, <2>1 DEF OnClose, Life, Turn
  <2>2. CASE OnCloseReturns
    <3>1. at = "onclose" /\ pending' = pending
      BY <2>2 DEF OnCloseReturns, Goto
    <3> QED BY <1>1, <1>2, <3>1 DEF Life, Turn, Released
  <2> QED BY <2>1, <2>2
<1>8. Released'
  BY <1>2, <1>7 DEF Released
<1>9. Life'
  BY <1>1, <1>2, <1>7, <1>8 DEF Life, Handling
<1>10. Counted'
  <2>1. CASE OnClose
    <3>1. pending /\ refs' = refs /\ at' = "onclose"
      BY <2>1 DEF OnClose, Goto
    <3>2. ~Released
      BY <3>1 DEF Released
    <3> QED BY <1>1, <1>2, <1>7, <3>1, <3>2 DEF Counted, B
  <2>2. CASE OnCloseReturns
    <3>1. at = "onclose" /\ at' = "closes" /\ refs' = refs - 1
      BY <2>2 DEF OnCloseReturns, Goto
    <3> QED BY <1>1, <1>2, <1>7, <1>8, <3>1 DEF Counted, B
  <2> QED BY <2>1, <2>2
<1> QED BY <1>3, <1>5, <1>6, <1>9, <1>10 DEF IInv

(* pd_tcp_close, by the user or by the handler at the end of the stream or *)
(* at a hang-up: every queued write is answered.                           *)
LEMMA CloseStep ==
    ASSUME IInv, pd_tcp_close \/ EofReturns \/ CloseEvent
    PROVE  IInv'
<1>1. Shape /\ Turn /\ Life /\ Interest /\ Queued /\ HeadPartial /\ Whole /\ SendClosed /\ Ends
      /\ Counted
  BY DEF IInv
<1>2. /\ Close /\ UNCHANGED <<poller, others, batch>>
      /\ \/ at' = at /\ ev' = ev
         \/ at = "eof" /\ at' = "rest" /\ ev' = ev
         \/ at = "rest" /\ at' = "events" /\ ev' = {}
  BY DEF pd_tcp_close, EofReturns, CloseEvent, Goto, kept, build
<1>3. sock # "none"
  BY <1>1 DEF pd_tcp_close, EofReturns, CloseEvent, Goto, Held, Life, Handling
<1>4. Turn'
  BY <1>1, <1>2 DEF Turn
<1>5. at' = "onclose" <=> at = "onclose"
  BY <1>2
<1>6. /\ at' \in LoopStates /\ ev' \subseteq {"IN", "OUT", "CLOSE"}
      /\ UNCHANGED <<poller, others, batch>>
  BY <1>1, <1>2 DEF Shape, LoopStates
<1>7. CASE status = "CLOSED"
  <2>1. UNCHANGED <<status, flags, reg, handler, writes, left, answers, sock, rx, fin, room, wrClosed,
                    wire, pending, refs>>
    BY <1>2, <1>7 DEF Close, AlreadyClosed, streamVars, sockVars
  <2>2. Interest' /\ Queued' /\ HeadPartial' /\ Whole' /\ SendClosed'
    BY <1>1, <1>2, <2>1, WritesKept
  <2>3. Shape'
    BY <1>1, <1>6, <2>1 DEF Shape
  <2>4. Released' <=> Released
    BY <2>1 DEF Released
  <2>5. Life'
    BY <1>1, <1>2, <2>1, <2>4 DEF Life, Handling
  <2>6. Ends'
    BY <1>1, <1>2, <2>1 DEF Ends, HangUp
  <2>7. Counted'
    BY <1>1, <1>5, <2>1, <2>4 DEF Counted, B
  <2> QED BY <1>4, <2>2, <2>3, <2>5, <2>6, <2>7 DEF IInv
<1>8. CASE status # "CLOSED"
  <2>1. /\ status' = "CLOSED" /\ sock' = "closed" /\ reg' = {} /\ writes' = <<>> /\ refs' = refs
        /\ answers' = [o \in Ops |-> IF o \in Range(writes)
                                     THEN Append(answers[o], "canceled") ELSE answers[o]]
        /\ UNCHANGED <<flags, handler, left, rx, fin, room, wrClosed, wire>>
    BY <1>2, <1>8 DEF Close, AlreadyClosed, CloseLeaving
  <2>2. pending'
    BY <1>2, <1>8 DEF Close, AlreadyClosed, CloseLeaving
  <2>3. pending' \in BOOLEAN
    BY <1>2, <1>8 DEF Close, AlreadyClosed, CloseLeaving
  <2>4. /\ answers' \in [Ops -> Seq({"ok", "error", "canceled"})]
        /\ \A o \in Ops : answers'[o] = IF o \in Range(writes) THEN Append(answers[o], "canceled")
                                                              ELSE answers[o]
    BY <1>1, <2>1 DEF Shape
  <2>5. Shape'
    BY <1>1, <1>6, <2>1, <2>3, <2>4 DEF Shape
  <2>6. ~Released'
    BY <2>2 DEF Released
  <2>7. ~Released
    BY <1>8 DEF Released
  <2>8. at # "onclose"
    BY <1>1, <2>7 DEF Life
  <2>9. Life'
    BY <1>1, <1>5, <2>1, <2>6, <2>8 DEF Life
  <2>10. Interest' /\ SendClosed'
    BY <1>1, <2>1 DEF Interest, SendClosed
  <2>11. Queued'
    <3>1. Range(writes') = {} /\ \A i, j \in DOMAIN writes' : i = j
      BY <2>1 DEF Range
    <3>2. ASSUME NEW o \in Ops
          PROVE  /\ Len(answers'[o]) <= 1
                 /\ answers'[o] = <<>> => left[o] = Size
                 /\ answers'[o] = <<"ok">> => left[o] = 0
      <4>1. CASE o \in Range(writes)
        <5>1. answers'[o] = <<"canceled">>
          BY <1>1, <2>4, <4>1 DEF Queued
        <5> QED BY <5>1
      <4>2. CASE o \notin Range(writes)
        BY <1>1, <2>4, <4>2 DEF Queued
      <4> QED BY <4>1, <4>2
    <3> QED BY <2>1, <3>1, <3>2 DEF Queued
  <2>12. HeadPartial' /\ Whole'
    BY <1>1, <2>1, WireKept
  <2>13. Ends'
    BY <1>1, <1>2, <2>1 DEF Ends, HangUp
  <2>14. Counted'
    BY <1>1, <1>3, <2>1, <2>6, <2>7 DEF Counted, B
  <2> QED BY <1>4, <2>5, <2>9, <2>10, <2>11, <2>12, <2>13, <2>14 DEF IInv
<1> QED BY <1>7, <1>8

(* The peer and the kernel. *)
LEMMA PeerStep ==
    ASSUME IInv, Peer
    PROVE  IInv'
<1> USE TcpStreamAssumption
<1>1. Shape /\ Turn /\ Life /\ Interest /\ Queued /\ HeadPartial /\ Whole /\ SendClosed /\ Ends
      /\ Counted
  BY DEF IInv
<1>2. /\ UNCHANGED <<poller, others, status, flags, reg, handler, writes, left, answers, wrClosed, wire,
                     at, batch, ev, pending, refs>>
      /\ \/ sock' = sock
         \/ sock = "connecting" /\ sock' \in {"open", "failed"}
         \/ sock = "open" /\ sock' = "reset"
      /\ rx' = rx \/ ~fin
      /\ rx' \in 0 .. MaxRx /\ room' \in 0 .. Room
  BY <1>1 DEF Peer, PeerAnswers, PeerSends, PeerFinishes, PeerReads, PeerResets, PeerUnchanged, kept, build,
       streamVars, loopVars, Shape
<1>3. fin' \in BOOLEAN /\ (fin => fin')
  BY <1>1 DEF Peer, PeerAnswers, PeerSends, PeerFinishes, PeerReads, PeerResets, Shape
<1>4. Shape' /\ Turn'
  BY <1>1, <1>2, <1>3 DEF Shape, Turn
<1>5. Released' <=> Released
  BY <1>2 DEF Released
<1>6. Life'
  BY <1>1, <1>2, <1>5 DEF Life
<1>7. Interest' /\ SendClosed' /\ Queued'
  BY <1>1, <1>2, QueuedKept DEF Interest, SendClosed
<1>8. HeadPartial' /\ Whole'
  BY <1>1, <1>2, WireKept DEF Life
<1>9. Ends'
  BY <1>1, <1>2, <1>3 DEF Ends, HangUp
<1>10. Counted'
  BY <1>1, <1>2, <1>5 DEF Counted, B
<1> QED BY <1>4, <1>6, <1>7, <1>8, <1>9, <1>10 DEF IInv

(* pd__event_set: only kqueue, for a paused stream, may leave the kernel   *)
(* with another interest than the flags.                                   *)
LEMMA EventSetFacts ==
    ASSUME Shape, NEW interest \in SUBSET {"IN", "OUT"}, EventSet(interest)
    PROVE  /\ flags' = interest /\ reg' \subseteq {"IN", "OUT"}
           /\ sock = "closed" => reg' = reg
           /\ sock # "closed" /\ (poller = "epoll" \/ "IN" \in interest) => reg' = interest
BY DEF EventSet, Registered, Shape

(* The interest in the socket changes, or its sending direction is closed. *)
LEMMA FlagsStep ==
    ASSUME IInv, sock # "none",
           UNCHANGED <<poller, others, handler, writes, left, answers, sock, rx, fin, room, wire,
                       batch, ev, pending, refs>>,
           flags' \subseteq {"IN", "OUT"}, reg' \subseteq {"IN", "OUT"},
           sock = "closed" => reg' = reg,
           sock # "closed" /\ (poller = "epoll" \/ "IN" \in flags') => reg' = flags',
           writes # <<>> /\ "OUT" \in flags => "OUT" \in flags',
           at' = at \/ (at = "drain" /\ at' = "events"),
           status' = status \/ (status = "ACTIVE" /\ status' = "SHUTDOWN"),
           wrClosed' \in BOOLEAN, wrClosed => wrClosed',
           wrClosed' => writes = <<>> /\ status' \in {"SHUTDOWN", "CLOSED"}
    PROVE  IInv'
<1>1. Shape /\ Turn /\ Life /\ Interest /\ Queued /\ HeadPartial /\ Whole /\ SendClosed /\ Ends
      /\ Counted
  BY DEF IInv
<1>2. at' \in LoopStates /\ status' \in {"NONE", "ACTIVE", "SHUTDOWN", "CLOSED"}
  BY <1>1 DEF Shape, LoopStates
<1>3. Shape'
  BY <1>1, <1>2 DEF Shape
<1>4. Turn'
  BY <1>1 DEF Turn
<1>5. Released' <=> Released
  BY DEF Released
<1>6. Life'
  BY <1>1, <1>5 DEF Life, Handling
<1>7. Interest' /\ SendClosed'
  BY <1>1 DEF Interest, SendClosed
<1>8. Queued' /\ HeadPartial' /\ Whole'
  BY <1>1, QueuedKept, WireKept
<1>9. Ends'
  BY <1>1 DEF Ends, HangUp
<1>10. Counted'
  BY <1>1, <1>5 DEF Counted, B
<1> QED BY <1>3, <1>4, <1>6, <1>7, <1>8, <1>9, <1>10 DEF IInv

(* pd_tcp_pause, pd_tcp_resume, pd_tcp_shutdown, and the end of            *)
(* pd__tcp_write.                                                          *)
LEMMA InterestStep ==
    ASSUME IInv, pd_tcp_pause \/ pd_tcp_resume \/ pd_tcp_shutdown \/ DrainEnds
    PROVE  IInv'
<1>1. Shape /\ Life /\ Interest /\ SendClosed
  BY DEF IInv
<1>2. flags \subseteq {"IN", "OUT"} /\ wrClosed \in BOOLEAN
  BY <1>1 DEF Shape
<1>3. CASE pd_tcp_pause \/ pd_tcp_resume
  <2>1. PICK interest \in SUBSET {"IN", "OUT"} :
            /\ EventSet(interest) /\ ("OUT" \in flags => "OUT" \in interest)
            /\ SetInterest(interest)
    BY <1>2, <1>3 DEF pd_tcp_pause, pd_tcp_resume, SetInterest
  <2>2. sock # "none" /\ UNCHANGED <<poller, others, status, handler, writes, left, answers, sock, rx,
                                     fin, room, wrClosed, wire, at, batch, ev, pending, refs>>
    BY <2>1 DEF SetInterest, Held, sockVars, kept, build, loopVars
  <2>3. /\ flags' = interest /\ reg' \subseteq {"IN", "OUT"}
        /\ sock = "closed" => reg' = reg
        /\ sock # "closed" /\ (poller = "epoll" \/ "IN" \in interest) => reg' = interest
    BY <1>1, <2>1, EventSetFacts
  <2>4. wrClosed' \in BOOLEAN /\ (wrClosed' <=> wrClosed)
    BY <1>2, <2>2
  <2> QED BY <1>1, <2>1, <2>2, <2>3, <2>4, FlagsStep DEF SendClosed
<1>4. CASE pd_tcp_shutdown
  <2>1. /\ status = "ACTIVE" /\ status' = "SHUTDOWN"
        /\ UNCHANGED <<poller, others, handler, writes, left, answers, sock, rx,
                       fin, room, wire, at, batch, ev, pending, refs>>
    BY <1>4 DEF pd_tcp_shutdown, kept, build, loopVars
  <2>2. sock # "none" /\ sock # "closed"
    BY <1>1, <2>1 DEF Life
  <2>3. /\ flags' \subseteq {"IN", "OUT"} /\ reg' \subseteq {"IN", "OUT"}
        /\ poller = "epoll" \/ "IN" \in flags' => reg' = flags'
        /\ "OUT" \in flags => "OUT" \in flags'
    <3>1. CASE writes = <<>>
      BY <1>1, <1>4, <2>2, <3>1 DEF pd_tcp_shutdown, Interest, Shape
    <3>2. CASE writes # <<>>
      <4>1. EventSet(flags \cup {"OUT"}) /\ flags \cup {"OUT"} \in SUBSET {"IN", "OUT"}
        BY <1>2, <1>4, <3>2 DEF pd_tcp_shutdown
      <4> QED BY <1>1, <2>2, <4>1, EventSetFacts
    <3> QED BY <3>1, <3>2
  <2>4. wrClosed' \in BOOLEAN /\ (wrClosed => wrClosed') /\ (wrClosed' => wrClosed \/ writes = <<>>)
    BY <1>2, <1>4 DEF pd_tcp_shutdown
  <2> QED BY <1>1, <2>1, <2>2, <2>3, <2>4, FlagsStep DEF SendClosed
<1>5. CASE DrainEnds
  <2>1. /\ writes = <<>> /\ at = "drain" /\ at' = "events" /\ EventSet(flags \ {"OUT"})
        /\ UNCHANGED <<poller, others, status, handler, writes, left, answers, sock, rx,
                       fin, room, wire, batch, ev, pending, refs>>
    BY <1>5 DEF DrainEnds, DrainUnchanged, Goto, kept, build, loopVars
  <2>2. sock # "none"
    BY <1>1, <2>1 DEF Life, Handling
  <2>3. flags \ {"OUT"} \in SUBSET {"IN", "OUT"}
    BY <1>2
  <2>4. /\ flags' = flags \ {"OUT"} /\ reg' \subseteq {"IN", "OUT"}
        /\ sock = "closed" => reg' = reg
        /\ sock # "closed" /\ (poller = "epoll" \/ "IN" \in flags') => reg' = flags'
    BY <1>1, <2>1, <2>3, EventSetFacts
  <2>5. wrClosed' = (wrClosed \/ status = "SHUTDOWN")
    BY <1>5 DEF DrainEnds
  <2>6. wrClosed' \in BOOLEAN /\ (wrClosed => wrClosed') /\ (wrClosed' => wrClosed \/ status = "SHUTDOWN")
    BY <2>5
  <2> QED BY <1>1, <1>2, <2>1, <2>2, <2>4, <2>6, FlagsStep DEF SendClosed
<1> QED BY <1>3, <1>4, <1>5

(* The stream is opened, or its connection is made. *)
LEMMA OpenStep ==
    ASSUME IInv, pd_tcp_accept \/ pd_tcp_connect \/ \E e \in batch : Connected(e)
    PROVE  IInv'
<1>1. Shape /\ Turn /\ Life /\ Interest /\ Queued /\ HeadPartial /\ Whole /\ SendClosed /\ Ends
      /\ Counted
  BY DEF IInv
<1>2. flags \subseteq {"IN", "OUT"}
  BY <1>1 DEF Shape
<1>3. CASE pd_tcp_accept \/ pd_tcp_connect
  <2>1. /\ sock = "none" /\ refs' = refs + 1
        /\ UNCHANGED <<poller, others, writes, left, answers, rx, fin, room, wrClosed, wire, at, batch,
                       ev, pending>>
    BY <1>3 DEF pd_tcp_accept, pd_tcp_connect, kept, build
  <2>2. \/ sock' = "open" /\ status' = "ACTIVE" /\ handler' = "client"
        \/ sock' = "connecting" /\ status' = status /\ handler' = "connect"
    BY <1>3 DEF pd_tcp_accept, pd_tcp_connect
  <2>3. PICK interest \in SUBSET {"IN", "OUT"} : EventSet(interest) /\ "IN" \in interest
    BY <1>2, <1>3 DEF pd_tcp_accept, pd_tcp_connect
  <2>4. flags' = interest /\ reg' = interest
    BY <1>1, <2>1, <2>3, EventSetFacts
  <2>5. status = "NONE" /\ wire = <<>> /\ writes = <<>> /\ ~pending /\ ~Released /\ ~wrClosed
        /\ at # "onclose"
    BY <1>1, <2>1 DEF Life, Released, SendClosed
  <2>6. Shape'
    BY <1>1, <2>1, <2>2, <2>3, <2>4 DEF Shape
  <2>7. Turn'
    BY <1>1, <2>1 DEF Turn
  <2>8. ~Released'
    BY <2>2, <2>5 DEF Released
  <2>9. Life'
    BY <2>1, <2>2, <2>5, <2>8 DEF Life
  <2>10. Interest' /\ SendClosed'
    BY <2>1, <2>4, <2>5 DEF Interest, SendClosed
  <2>11. Queued' /\ HeadPartial' /\ Whole'
    BY <1>1, <2>1, <2>5, QueuedKept, WireKept
  <2>12. Ends'
    <3>1. batch = {} /\ at # "eof" /\ ev = {}
      BY <1>1, <2>1 DEF Life, Turn, Handling
    <3> QED BY <2>1, <3>1 DEF Ends
  <2>13. Counted'
    BY <1>1, <2>1, <2>2, <2>8 DEF Counted, B
  <2> QED BY <2>6, <2>7, <2>9, <2>10, <2>11, <2>12, <2>13 DEF IInv
<1>4. ASSUME NEW e \in batch, Connected(e)
      PROVE  IInv'
  <2>1. /\ handler = "connect" /\ status # "CLOSED" /\ at = "events" /\ at' = "connect"
        /\ status' = "ACTIVE" /\ handler' = "client" /\ batch' = batch \ {e}
        /\ EventSet(flags \ {"OUT"})
        /\ UNCHANGED <<poller, others, writes, left, answers, sock, rx, fin, room, wrClosed, wire, ev,
                       pending, refs>>
    BY <1>4 DEF Connected, Dispatch, Goto, ConnectUnchanged, kept, build, sockVars
  <2>2. flags \ {"OUT"} \in SUBSET {"IN", "OUT"}
    BY <1>2
  <2>3. sock # "none" /\ sock # "closed" /\ status = "NONE" /\ writes = <<>> /\ ~wrClosed /\ ~pending
    BY <1>1, <2>1 DEF Life, SendClosed
  <2>4. /\ flags' \subseteq {"IN", "OUT"} /\ reg' \subseteq {"IN", "OUT"}
        /\ poller = "epoll" \/ "IN" \in flags' => reg' = flags'
    BY <1>1, <2>1, <2>2, <2>3, EventSetFacts
  <2>5. Shape' /\ Turn'
    BY <1>1, <2>1, <2>4 DEF Shape, Turn, LoopStates
  <2>6. ~Released' /\ ~Released
    BY <2>1 DEF Released
  <2>7. Life'
    BY <1>1, <2>1, <2>3, <2>6 DEF Life
  <2>8. Interest' /\ SendClosed'
    BY <2>1, <2>3, <2>4 DEF Interest, SendClosed
  <2>9. Queued' /\ HeadPartial' /\ Whole'
    BY <1>1, <2>1, QueuedKept, WireKept
  <2>10. Ends'
    BY <1>1, <2>1 DEF Ends, HangUp
  <2>11. Counted'
    BY <1>1, <2>1, <2>6 DEF Counted, B
  <2> QED BY <2>5, <2>7, <2>8, <2>9, <2>10, <2>11 DEF IInv
<1> QED BY <1>3, <1>4
-----------------------------------------------------------------------------
(* The writes.                                                             *)

(* What no write touches. *)
LEMMA WriteFrame ==
    ASSUME IInv, sock # "none", sock # "closed" \/ UNCHANGED <<flags, reg>>,
           UNCHANGED <<poller, others, status, handler, sock, rx, fin, wrClosed, batch, ev, pending,
                       refs>>,
           room' \in 0 .. Room, left' \in [Ops -> 0 .. Size], wire' \in Seq(Ops),
           writes' \in Seq(Ops), answers' \in [Ops -> Seq({"ok", "error", "canceled"})],
           flags' \subseteq {"IN", "OUT"}, reg' \subseteq {"IN", "OUT"},
           at' = at \/ (at = "drain" /\ at' \in {"drain", "written", "failed"}),
           wire' = wire \/ sock = "open",
           status \in {"NONE", "CLOSED"} \/ wrClosed => writes' = <<>>
    PROVE  Shape' /\ Turn' /\ Life' /\ SendClosed' /\ Ends' /\ Counted'
<1>1. Shape /\ Turn /\ Life /\ SendClosed /\ Ends /\ Counted
  BY DEF IInv
<1>2. at' \in LoopStates /\ (at' = "onclose" <=> at = "onclose")
  BY <1>1 DEF Shape, LoopStates
<1>3. Shape'
  BY <1>1, <1>2 DEF Shape
<1>4. Turn'
  BY <1>1 DEF Turn
<1>5. Released' <=> Released
  BY DEF Released
<1>6. Life'
  BY <1>1, <1>2, <1>5 DEF Life, Handling
<1>7. SendClosed' /\ Ends'
  BY <1>1 DEF SendClosed, Ends, HangUp
<1>8. Counted'
  BY <1>1, <1>2, <1>5 DEF Counted, B
<1> QED BY <1>3, <1>4, <1>6, <1>7, <1>8

(* pd_tcp_write_async puts a write at the end and asks for the event. *)
LEMMA EnqueueFacts ==
    ASSUME Shape, Interest, NEW o \in Ops, Enqueue(o), sock # "closed", sock' = sock, poller' = poller
    PROVE  /\ Interest' /\ flags' \subseteq {"IN", "OUT"} /\ reg' \subseteq {"IN", "OUT"}
           /\ writes' = Append(writes, o)
<1>1. flags \subseteq {"IN", "OUT"} /\ reg \subseteq {"IN", "OUT"} /\ writes' = Append(writes, o)
  BY DEF Shape, Enqueue
<1>2. /\ flags' \subseteq {"IN", "OUT"} /\ reg' \subseteq {"IN", "OUT"} /\ "OUT" \in flags'
      /\ poller = "epoll" \/ "IN" \in flags' => reg' = flags'
  <2>1. CASE "OUT" \in flags
    BY <1>1, <2>1 DEF Enqueue, Interest
  <2>2. CASE "OUT" \notin flags
    <3>1. EventSet(flags \cup {"OUT"}) /\ flags \cup {"OUT"} \in SUBSET {"IN", "OUT"}
      BY <1>1, <2>2 DEF Enqueue
    <3> QED BY <3>1, EventSetFacts
  <2> QED BY <2>1, <2>2
<1> QED BY <1>1, <1>2 DEF Interest

(* A write is answered, in one of the results. *)
LEMMA AnswerFacts ==
    ASSUME Shape, NEW o \in Ops, NEW r \in {"ok", "error", "canceled"}, Answer(o, r), answers[o] = <<>>
    PROVE  /\ answers' \in [Ops -> Seq({"ok", "error", "canceled"})]
           /\ answers'[o] = <<r>> /\ \A p \in Ops \ {o} : answers'[p] = answers[p]
BY DEF Shape, Answer

(* pd_tcp_write. *)
LEMMA WriteStep ==
    ASSUME IInv, NEW o \in Ops, WriteRefused(o) \/ WriteQueued(o) \/ WriteNow(o) \/ WriteFails(o)
    PROVE  IInv'
<1> USE TcpStreamAssumption
<1>1. Shape /\ Turn /\ Life /\ Interest /\ Queued /\ HeadPartial /\ Whole /\ SendClosed
  BY DEF IInv
<1>2. /\ answers[o] = <<>> /\ o \notin Range(writes) /\ left[o] = Size
      /\ UNCHANGED <<poller, others, status, handler, at, batch, ev, pending, refs>>
  BY <1>1 DEF WriteRefused, WriteQueued, WriteNow, WriteFails, Fresh, Called, kept, build, loopVars,
     Queued
<1>3. writes \in Seq(Ops) /\ \A i, j \in DOMAIN writes : writes[i] = writes[j] => i = j
  BY <1>1 DEF Shape, Queued
<1>4. CASE WriteRefused(o) \/ WriteFails(o)
  <2>1. /\ sock # "none"
        /\ UNCHANGED <<flags, reg, writes, left, sock, rx, fin, room, wrClosed, wire>>
    BY <1>1, <1>4 DEF WriteRefused, WriteFails, Held, Broken, sockVars
  <2>2. PICK r \in {"error", "canceled"} : Answer(o, r)
    BY <1>4 DEF WriteRefused, WriteFails
  <2>3. /\ answers' \in [Ops -> Seq({"ok", "error", "canceled"})]
        /\ answers'[o] = <<r>> /\ \A p \in Ops \ {o} : answers'[p] = answers[p]
    BY <1>1, <1>2, <2>2, AnswerFacts
  <2>4. Shape' /\ Turn' /\ Life' /\ SendClosed' /\ Ends' /\ Counted'
    <3>1. /\ room' \in 0 .. Room /\ left' \in [Ops -> 0 .. Size] /\ wire' \in Seq(Ops)
          /\ writes' \in Seq(Ops) /\ flags' \subseteq {"IN", "OUT"} /\ reg' \subseteq {"IN", "OUT"}
          /\ status \in {"NONE", "CLOSED"} \/ wrClosed => writes' = <<>>
      BY <1>1, <2>1 DEF Shape, Life, SendClosed
    <3> QED BY <1>2, <2>1, <2>3, <3>1, WriteFrame
  <2>5. Queued'
    <3>1. Len(answers'[o]) <= 1 /\ answers'[o] # <<>> /\ answers'[o] # <<"ok">>
      BY <2>2, <2>3
    <3>2. Range(writes') = Range(writes)
      BY <2>1
    <3> QED BY <1>1, <1>2, <2>1, <2>3, <3>1, <3>2 DEF Queued
  <2>6. HeadPartial' /\ Whole'
    BY <1>1, <2>1, WireKept
  <2>7. Interest'
    BY <1>1, <1>2, <2>1 DEF Interest
  <2> QED BY <2>4, <2>5, <2>6, <2>7 DEF IInv
<1>5. ASSUME Enqueue(o), sock = "open", status = "ACTIVE", ~wrClosed, answers' = answers,
             UNCHANGED <<sock, rx, fin, wrClosed>>, room' \in 0 .. Room,
             left' \in [Ops -> 0 .. Size], wire' \in Seq(Ops),
             \A p \in Ops \ {o} : left'[p] = left[p]
      PROVE  Shape' /\ Turn' /\ Life' /\ SendClosed' /\ Ends' /\ Counted' /\ Interest' /\ Queued'
  <2>1. /\ Interest' /\ flags' \subseteq {"IN", "OUT"} /\ reg' \subseteq {"IN", "OUT"}
        /\ writes' = Append(writes, o)
    BY <1>1, <1>2, <1>5, EnqueueFacts
  <2>2. /\ writes' \in Seq(Ops) /\ Range(writes') = Range(writes) \cup {o}
        /\ \A i, j \in DOMAIN writes' : writes'[i] = writes'[j] => i = j
    BY <1>2, <1>3, <2>1, AppendFacts
  <2>3. answers' \in [Ops -> Seq({"ok", "error", "canceled"})]
    BY <1>1, <1>5 DEF Shape
  <2>4. Shape' /\ Turn' /\ Life' /\ SendClosed' /\ Ends' /\ Counted'
    BY <1>2, <1>5, <2>1, <2>2, <2>3, WriteFrame
  <2>5. Queued'
    BY <1>1, <1>2, <1>5, <2>2 DEF Queued
  <2> QED BY <2>1, <2>4, <2>5
<1>6. CASE WriteQueued(o)
  <2>1. UNCHANGED <<left, answers, sock, rx, fin, room, wrClosed, wire>>
    BY <1>6 DEF WriteQueued, sockVars
  <2>2. Enqueue(o) /\ status = "ACTIVE" /\ ~wrClosed /\ sock # "closed" /\ sock # "none"
    BY <1>1, <1>6 DEF WriteQueued, SendClosed, Life
  <2>3. /\ Interest' /\ flags' \subseteq {"IN", "OUT"} /\ reg' \subseteq {"IN", "OUT"}
        /\ writes' = Append(writes, o)
    BY <1>1, <1>2, <2>1, <2>2, EnqueueFacts
  <2>4. /\ writes' \in Seq(Ops) /\ Range(writes') = Range(writes) \cup {o} /\ writes' # <<>>
        /\ \A i, j \in DOMAIN writes' : writes'[i] = writes'[j] => i = j
        /\ writes # <<>> => Head(writes') = Head(writes)
    BY <1>2, <1>3, <2>3, AppendFacts
  <2>5. /\ answers' \in [Ops -> Seq({"ok", "error", "canceled"})]
        /\ room' \in 0 .. Room /\ left' \in [Ops -> 0 .. Size] /\ wire' \in Seq(Ops)
    BY <1>1, <2>1 DEF Shape
  <2>6. Shape' /\ Turn' /\ Life' /\ SendClosed' /\ Ends' /\ Counted'
    BY <1>2, <2>1, <2>2, <2>3, <2>4, <2>5, WriteFrame
  <2>7. Queued'
    BY <1>1, <1>2, <2>1, <2>4 DEF Queued
  <2>8. HeadPartial' /\ Whole'
    BY <1>1, <2>1, <2>4, WireKept
  <2> QED BY <2>3, <2>6, <2>7, <2>8 DEF IInv
<1>7. CASE WriteNow(o)
  <2>1. status = "ACTIVE" /\ writes = <<>>
    BY <1>7 DEF WriteNow
  <2>2. PICK n \in 1 .. Size :
            /\ Takes(o, n)
            /\ IF n = Size THEN Answer(o, "ok") /\ UNCHANGED <<writes, flags, reg>>
                           ELSE Enqueue(o) /\ UNCHANGED answers
    BY <1>7 DEF WriteNow, WriteSome
  <2>3. n \in Nat /\ sock = "open" /\ UNCHANGED <<sock, rx, fin, wrClosed>> /\ ~wrClosed
    BY <1>1, <2>1, <2>2 DEF Takes, SendClosed
  <2>4. left'[o] = Size - n
    BY <1>1, <1>2, <2>2 DEF Takes, Shape
  <2>5. left'[o] = 0 \/ (writes' # <<>> /\ Head(writes') = o)
    <3>1. CASE n = Size
      BY <2>4, <3>1
    <3>2. CASE n # Size
      BY <1>3, <2>1, <2>2, <3>2, AppendFacts DEF Enqueue
    <3> QED BY <3>1, <3>2
  <2>6. /\ HeadPartial' /\ Whole' /\ wire' \in Seq(Ops)
        /\ left' \in [Ops -> 0 .. Size] /\ room' \in 0 .. Room
        /\ \A p \in Ops \ {o} : left'[p] = left[p]
    BY <1>1, <2>1, <2>2, <2>3, <2>5, WireExtended
  <2>7. CASE n = Size
    <3>1. Answer(o, "ok") /\ UNCHANGED <<writes, flags, reg>>
      BY <2>2, <2>7
    <3>2. /\ answers' \in [Ops -> Seq({"ok", "error", "canceled"})]
          /\ answers'[o] = <<"ok">> /\ \A p \in Ops \ {o} : answers'[p] = answers[p]
      BY <1>1, <1>2, <3>1, AnswerFacts
    <3>3. Shape' /\ Turn' /\ Life' /\ SendClosed' /\ Ends' /\ Counted'
      <4>1. writes' \in Seq(Ops) /\ flags' \subseteq {"IN", "OUT"} /\ reg' \subseteq {"IN", "OUT"}
        BY <1>1, <3>1 DEF Shape
      <4> QED BY <1>2, <2>1, <2>3, <2>6, <3>1, <3>2, <4>1, WriteFrame
    <3>4. Queued'
      <4>1. left'[o] = 0 /\ Len(answers'[o]) <= 1 /\ answers'[o] # <<>>
        BY <2>4, <2>7, <3>2
      <4>2. Range(writes') = Range(writes)
        BY <3>1
      <4> QED BY <1>1, <1>2, <2>6, <3>1, <3>2, <4>1, <4>2 DEF Queued
    <3>5. Interest'
      BY <1>1, <1>2, <2>3, <3>1 DEF Interest
    <3> QED BY <2>6, <3>3, <3>4, <3>5 DEF IInv
  <2>8. CASE n # Size
    <3>1. Enqueue(o) /\ answers' = answers
      BY <2>2, <2>8
    <3> QED BY <1>5, <2>1, <2>3, <2>6, <3>1 DEF IInv
  <2> QED BY <2>7, <2>8
<1> QED BY <1>4, <1>6, <1>7

(* A turn of the loop in pd__tcp_write. *)
LEMMA DrainStep ==
    ASSUME IInv, DrainWrites \/ DrainFails
    PROVE  IInv'
<1> USE TcpStreamAssumption
<1>1. Shape /\ Turn /\ Life /\ Interest /\ Queued /\ HeadPartial /\ Whole /\ SendClosed
  BY DEF IInv
<1>2. /\ writes # <<>> /\ at = "drain" /\ at' \in {"drain", "written", "failed"}
      /\ UNCHANGED <<poller, others, status, flags, reg, handler, sock, rx, fin, wrClosed, batch, ev,
                     pending, refs>>
  BY DEF DrainWrites, DrainFails, Takes, Goto, kept, build, sockVars, loopVars
<1>3. writes \in Seq(Ops) /\ \A i, j \in DOMAIN writes : writes[i] = writes[j] => i = j
  BY <1>1 DEF Shape, Queued
<1>4. PICK o \in Ops : o = Head(writes)
  BY <1>2, <1>3, TailFacts
<1>5. /\ o \in Range(writes) /\ Tail(writes) \in Seq(Ops)
      /\ Range(Tail(writes)) = Range(writes) \ {o}
      /\ \A i, j \in DOMAIN Tail(writes) : Tail(writes)[i] = Tail(writes)[j] => i = j
  BY <1>2, <1>3, <1>4, TailFacts
<1>6. answers[o] = <<>>
  BY <1>1, <1>5 DEF Queued
<1>7. /\ sock # "none" /\ status \notin {"NONE", "CLOSED"} /\ ~wrClosed
      /\ flags' \subseteq {"IN", "OUT"} /\ reg' \subseteq {"IN", "OUT"}
  BY <1>1, <1>2 DEF Life, SendClosed, Handling, Shape
<1>8. writes' = writes \/ writes' = Tail(writes)
  BY DEF DrainWrites, DrainFails
<1>9. Interest'
  BY <1>1, <1>2, <1>8 DEF Interest
<1>10. writes' \in Seq(Ops)
  BY <1>3, <1>5, <1>8
<1>11. ASSUME writes' = Tail(writes), NEW r \in {"ok", "error"}, Answer(o, r),
              r = "ok" => left'[o] = 0,
              \A p \in Ops \ {o} : left'[p] = left[p]
       PROVE  Queued' /\ answers' \in [Ops -> Seq({"ok", "error", "canceled"})]
  <2>1. /\ answers' \in [Ops -> Seq({"ok", "error", "canceled"})]
        /\ answers'[o] = <<r>> /\ \A p \in Ops \ {o} : answers'[p] = answers[p]
    BY <1>1, <1>6, <1>11, AnswerFacts
  <2>2. /\ Len(answers'[o]) <= 1 /\ answers'[o] # <<>>
        /\ answers'[o] = <<"ok">> => left'[o] = 0
    BY <1>11, <2>1
  <2>3. Range(writes') = Range(writes) \ {o}
    BY <1>5, <1>11
  <2>4. \A i, j \in DOMAIN writes' : writes'[i] = writes'[j] => i = j
    BY <1>5, <1>11
  <2> QED BY <1>1, <1>11, <2>1, <2>2, <2>3, <2>4 DEF Queued
<1>12. CASE DrainWrites
  <2>1. PICK n \in 1 .. Room : Takes(o, n)
    BY <1>4, <1>12 DEF DrainWrites
  <2>2. sock = "open" /\ n \in Nat
    BY <2>1 DEF Takes
  <2>3. \/ left'[o] = 0 /\ writes' = Tail(writes) /\ Answer(o, "ok")
        \/ left'[o] # 0 /\ writes' = writes /\ answers' = answers
    BY <1>4, <1>12 DEF DrainWrites
  <2>4. /\ HeadPartial' /\ Whole' /\ wire' \in Seq(Ops)
        /\ left' \in [Ops -> 0 .. Size] /\ room' \in 0 .. Room
        /\ \A p \in Ops \ {o} : left'[p] = left[p]
    BY <1>1, <1>2, <1>4, <2>1, <2>2, <2>3, WireExtended
  <2>5. Queued' /\ answers' \in [Ops -> Seq({"ok", "error", "canceled"})]
    <3>1. CASE left'[o] = 0 /\ writes' = Tail(writes) /\ Answer(o, "ok")
      BY <1>11, <2>4, <3>1
    <3>2. CASE writes' = writes /\ answers' = answers
      <4>1. Range(writes') = Range(writes)
        BY <3>2
      <4>2. answers'[o] = <<>> /\ answers'[o] # <<"ok">> /\ Len(answers'[o]) <= 1
        BY <1>6, <3>2
      <4>3. \A i, j \in DOMAIN writes' : writes'[i] = writes'[j] => i = j
        BY <1>3, <3>2
      <4>4. Queued'
        BY <1>1, <1>5, <2>4, <3>2, <4>1, <4>2, <4>3 DEF Queued
      <4> QED BY <1>1, <3>2, <4>4 DEF Shape
    <3> QED BY <2>3, <3>1, <3>2
  <2>6. Shape' /\ Turn' /\ Life' /\ SendClosed' /\ Ends' /\ Counted'
    BY <1>2, <1>7, <1>10, <2>2, <2>4, <2>5, WriteFrame
  <2> QED BY <1>9, <2>4, <2>5, <2>6 DEF IInv
<1>13. CASE DrainFails
  <2>1. /\ Broken /\ writes' = Tail(writes) /\ Answer(o, "error") /\ UNCHANGED <<left, room, wire>>
    BY <1>4, <1>13 DEF DrainFails, sockVars
  <2>2. Queued' /\ answers' \in [Ops -> Seq({"ok", "error", "canceled"})]
    BY <1>11, <2>1
  <2>3. HeadPartial' /\ Whole'
    BY <1>1, <1>2, <2>1, WireKept DEF Broken
  <2>4. room' \in 0 .. Room /\ left' \in [Ops -> 0 .. Size] /\ wire' \in Seq(Ops)
    BY <1>1, <2>1 DEF Shape
  <2>5. Shape' /\ Turn' /\ Life' /\ SendClosed' /\ Ends' /\ Counted'
    BY <1>2, <1>7, <1>10, <2>1, <2>2, <2>4, WriteFrame
  <2> QED BY <1>9, <2>2, <2>3, <2>5 DEF IInv
<1> QED BY <1>12, <1>13
-----------------------------------------------------------------------------
(* The theorems.                                                           *)

(* The first state. *)
LEMMA Initially == Init => IInv
<1> SUFFICES ASSUME Init PROVE IInv
  OBVIOUS
<1> USE TcpStreamAssumption
<1>1. /\ others \in BOOLEAN /\ fin \in BOOLEAN /\ wrClosed \in BOOLEAN /\ pending \in BOOLEAN
  BY DEF Init
<1>2. ~wrClosed /\ ~pending
  BY DEF Init
<1>3. /\ poller \in {"epoll", "kqueue"} /\ status = "NONE" /\ flags = {} /\ reg = {}
      /\ handler = "none" /\ writes = <<>> /\ left = [o \in Ops |-> Size]
      /\ answers = [o \in Ops |-> <<>>] /\ sock = "none" /\ rx = 0 /\ room = Room /\ wire = <<>>
      /\ at = "user" /\ batch = {} /\ ev = {} /\ refs = 0
  BY DEF Init
<1>4. Shape
  BY <1>1, <1>3 DEF Shape, LoopStates
<1>5. Turn /\ Interest /\ SendClosed /\ Ends /\ HeadPartial /\ Whole
  BY <1>2, <1>3 DEF Turn, Interest, SendClosed, Ends, HeadPartial, Whole
<1>6. Life
  BY <1>2, <1>3 DEF Life, Released, Handling
<1>7. Queued
  <2>1. \A o \in Ops : answers[o] = <<>> /\ left[o] = Size /\ Len(answers[o]) = 0
    BY <1>3
  <2>2. \A o \in Ops : answers[o] # <<"ok">>
    BY <2>1
  <2>3. Range(writes) = {} /\ DOMAIN writes = {}
    BY <1>3 DEF Range
  <2> QED BY <2>1, <2>2, <2>3 DEF Queued
<1>8. Counted
  BY <1>3 DEF Counted, B
<1> QED BY <1>4, <1>5, <1>6, <1>7, <1>8 DEF IInv

(* Every step keeps the invariant. *)
LEMMA Invariance == IInv /\ [Next]_vars => IInv'
<1> SUFFICES ASSUME IInv, [Next]_vars PROVE IInv'
  OBVIOUS
<1>1. CASE \/ Run \/ LoopExits \/ DataReturns \/ DrainBlocks \/ WrittenReturns \/ FailedReturns
           \/ ConnectReturns \/ EventsEnd \/ ClosesEnd \/ IterationEnds
  <2>1. Turn
    BY DEF IInv
  <2>2. CASE Run \/ LoopExits \/ EventsEnd \/ ClosesEnd \/ IterationEnds
    <3>1. batch = {}
      BY <2>1, <2>2 DEF Run, LoopExits, EventsEnd, ClosesEnd, IterationEnds, Moves, Goto, Turn
    <3> QED BY <2>2, <3>1, MoveStep DEF Run, LoopExits, EventsEnd, ClosesEnd, IterationEnds, LoopStates,
             Handling
  <2>3. CASE DataReturns \/ DrainBlocks \/ WrittenReturns \/ FailedReturns \/ ConnectReturns
    BY <2>3, MoveStep DEF DataReturns, DrainBlocks, WrittenReturns, FailedReturns, ConnectReturns,
         LoopStates, Handling
  <2> QED BY <1>1, <2>2, <2>3
<1>2. CASE UNCHANGED vars
  <2>1. UNCHANGED <<poller, others, status, flags, reg, handler, writes, left, answers, sock, rx, fin,
                    room, wrClosed, wire, at, batch, ev, pending, refs>>
    BY <1>2 DEF vars, kept, build, streamVars, sockVars, loopVars
  <2>2. Shape' /\ Turn'
    BY <2>1 DEF IInv, Shape, Turn
  <2>3. Released' <=> Released
    BY <2>1 DEF Released
  <2>4. Life'
    BY <2>1, <2>3 DEF IInv, Life
  <2>5. Interest' /\ Queued' /\ HeadPartial' /\ Whole' /\ SendClosed'
    BY <2>1, WritesKept DEF IInv
  <2>6. Ends' /\ Counted'
    BY <2>1, <2>3 DEF IInv, Ends, HangUp, Counted
  <2> QED BY <2>2, <2>4, <2>5, <2>6 DEF IInv
<1>3. CASE User
  BY <1>1, <1>3, CloseStep, InterestStep, OpenStep, WriteStep DEF User
<1>4. CASE Loop
  BY <1>1, <1>4, EntryStep, ReleaseStep, CloseStep, InterestStep, OpenStep, DrainStep DEF Loop
<1> QED BY <1>2, <1>3, <1>4, PeerStep DEF Next

(* The invariant holds in every reachable state. *)
LEMMA Always == Spec => []IInv
BY Initially, Invariance, PTL DEF Spec

-----------------------------------------------------------------------------
(* The order of the calls.                                                 *)

(* What is queued or on the wire was called. *)
Recorded == calls \in Seq(Ops) /\ Range(wire) \cup Range(writes) \subseteq Range(calls)

(* The wire and the queue are each in the order of the calls ... *)
WireSorted == \A i, j \in DOMAIN wire :
                 i < j /\ wire[i] # wire[j] => CalledBefore(wire[i], wire[j])
QueueSorted == \A i, j \in DOMAIN writes : i < j => CalledBefore(writes[i], writes[j])

(* ... and while more can be written, what is on the wire comes first. *)
WireFirst == sock = "open" => \A p \in Range(wire) : \A q \in Range(writes) :
                                 p = q \/ CalledBefore(p, q)

InOrder == Recorded /\ WireSorted /\ QueueSorted /\ WireFirst

(* Later calls do not change which came first. *)
CallsKept == /\ calls' \in Seq(Ops) /\ Range(calls) \subseteq Range(calls')
             /\ \A p, q \in Ops : CalledBefore(p, q) => CalledBefore(p, q)'

(* A call comes after those that were made. *)
LEMMA CallsGrow ==
    ASSUME calls \in Seq(Ops), NEW o \in Ops, calls' = Append(calls, o)
    PROVE  /\ CallsKept /\ o \in Range(calls')
           /\ \A p \in Range(calls) : CalledBefore(p, o)'
<1>1. /\ calls' \in Seq(Ops) /\ DOMAIN calls = 1 .. Len(calls) /\ Len(calls) \in Nat
      /\ DOMAIN calls' = 1 .. Len(calls) + 1 /\ calls'[Len(calls) + 1] = o
      /\ \A i \in DOMAIN calls : calls'[i] = calls[i]
  OBVIOUS
<1>2. DOMAIN calls \subseteq DOMAIN calls' /\ Len(calls) + 1 \in DOMAIN calls'
      /\ \A i \in DOMAIN calls : i < Len(calls) + 1
  BY <1>1
<1>3. Range(calls) \subseteq Range(calls') /\ o \in Range(calls')
  BY <1>1, <1>2 DEF Range
<1>4. \A p, q \in Ops : CalledBefore(p, q) => CalledBefore(p, q)'
  BY <1>1, <1>2 DEF CalledBefore
<1>5. \A p \in Range(calls) : CalledBefore(p, o)'
  BY <1>1, <1>2 DEF CalledBefore, Range
<1> QED BY <1>1, <1>3, <1>4, <1>5 DEF CallsKept

(* What is left of a queue has its members, in its order. *)
Shorter(q, t) == /\ Range(t) \subseteq Range(q)
                 /\ \A i, j \in DOMAIN t : i < j =>
                       \E k, m \in DOMAIN q : k < m /\ t[i] = q[k] /\ t[j] = q[m]

(* A queue that loses its first write, or all of them. *)
LEMMA ShorterFacts ==
    ASSUME NEW T, NEW q \in Seq(T), NEW t, t = q \/ t = <<>> \/ (q # <<>> /\ t = Tail(q))
    PROVE  Shorter(q, t)
<1>1. CASE t = q
  BY <1>1 DEF Shorter
<1>2. CASE t = <<>>
  BY <1>2 DEF Shorter, Range
<1>3. CASE q # <<>> /\ t = Tail(q)
  <2>1. /\ Len(q) \in Nat /\ DOMAIN q = 1 .. Len(q) /\ DOMAIN t = 1 .. Len(q) - 1
        /\ \A i \in DOMAIN t : t[i] = q[i + 1]
    BY <1>3
  <2>2. \A i \in DOMAIN t : i \in Nat /\ i + 1 \in DOMAIN q /\ t[i] = q[i + 1]
    BY <2>1
  <2>3. Range(t) \subseteq Range(q)
    BY <2>2 DEF Range
  <2>4. ASSUME NEW i \in DOMAIN t, NEW j \in DOMAIN t, i < j
        PROVE  \E k, m \in DOMAIN q : k < m /\ t[i] = q[k] /\ t[j] = q[m]
    <3>1. i + 1 < j + 1
      BY <2>2, <2>4
    <3> QED BY <2>2, <3>1
  <2> QED BY <2>3, <2>4 DEF Shorter
<1> QED BY <1>1, <1>2, <1>3

(* The members of a sequence. *)
LEMMA RangeIn ==
    ASSUME NEW T, NEW q \in Seq(T)
    PROVE  Range(q) \subseteq T /\ \A i \in DOMAIN q : q[i] \in T
BY DEF Range

(* The wire stays, and writes leave the queue at most. *)
LEMMA OrderKept ==
    ASSUME Shape, InOrder, CallsKept, wire' = wire,
           writes' = writes \/ writes' = <<>> \/ (writes # <<>> /\ writes' = Tail(writes)),
           sock' = "open" => sock = "open" \/ wire = <<>>
    PROVE  InOrder'
<1>1. /\ writes \in Seq(Ops) /\ wire \in Seq(Ops) /\ Range(wire) \subseteq Ops
      /\ Range(writes) \subseteq Ops
  BY RangeIn DEF Shape
<1>2. Shorter(writes, writes')
  BY <1>1, ShorterFacts
<1>3. Recorded'
  <2>1. Range(wire') = Range(wire) /\ Range(writes') \subseteq Range(writes)
    BY <1>2 DEF Shorter
  <2>2. Range(wire') \cup Range(writes') \subseteq Range(calls')
    BY <2>1 DEF InOrder, Recorded, CallsKept
  <2> QED BY <2>2 DEF Recorded, CallsKept, Range
<1>4. WireSorted'
  <2>1. ASSUME NEW i \in DOMAIN wire, NEW j \in DOMAIN wire, i < j, wire[i] # wire[j],
               NEW p \in Ops, NEW q \in Ops, p = wire[i], q = wire[j]
        PROVE  CalledBefore(p, q)'
    <3>1. CalledBefore(p, q)
      BY <2>1 DEF InOrder, WireSorted
    <3> QED BY <3>1 DEF CallsKept
  <2>2. \A i \in DOMAIN wire : wire[i] \in Ops
    BY <1>1, RangeIn
  <2> QED BY <2>1, <2>2 DEF WireSorted, CalledBefore
<1>5. QueueSorted'
  <2> SUFFICES ASSUME NEW i \in DOMAIN writes', NEW j \in DOMAIN writes', i < j,
                      NEW p \in Ops, NEW q \in Ops, p = writes'[i], q = writes'[j]
               PROVE  CalledBefore(p, q)'
    <3>1. \A i \in DOMAIN writes' : writes'[i] \in Ops
      BY <1>1, <1>2 DEF Range, Shorter
    <3> QED BY <3>1 DEF QueueSorted, CalledBefore
  <2>1. CalledBefore(p, q)
    BY <1>2 DEF InOrder, QueueSorted, Shorter
  <2> QED BY <2>1 DEF CallsKept
<1>6. WireFirst'
  <2> SUFFICES ASSUME sock' = "open", NEW p \in Range(wire'), NEW q \in Range(writes')
               PROVE  p = q \/ CalledBefore(p, q)'
    BY DEF WireFirst
  <2>1. p \in Range(wire) /\ q \in Range(writes) /\ p \in Ops /\ q \in Ops
    BY <1>1, <1>2 DEF Range, Shorter
  <2>2. sock = "open"
    BY <2>1 DEF Range
  <2> QED BY <2>1, <2>2 DEF InOrder, WireFirst, CallsKept
<1> QED BY <1>3, <1>4, <1>5, <1>6 DEF InOrder

(* Units of o go on the wire behind those of writes called before. *)
LEMMA WireGrows ==
    ASSUME Shape, WireSorted, CallsKept, NEW o \in Ops, NEW n \in Nat, Takes(o, n),
           \A p \in Range(wire) : p = o \/ CalledBefore(p, o)'
    PROVE  WireSorted' /\ Range(wire') \subseteq Range(wire) \cup {o}
<1>1. wire \in Seq(Ops) /\ wire' = wire \o [i \in 1 .. n |-> o]
  BY DEF Shape, Takes
<1>2. /\ wire' \in Seq(Ops) /\ DOMAIN wire \subseteq DOMAIN wire'
      /\ \A i \in DOMAIN wire : wire'[i] = wire[i] /\ wire[i] \in Ops
      /\ \A i \in DOMAIN wire' : i \in Nat /\ (i \in DOMAIN wire \/ (wire'[i] = o /\ i > Len(wire)))
      /\ DOMAIN wire = 1 .. Len(wire) /\ Len(wire) \in Nat
  BY <1>1, WireFacts
<1>3. Range(wire') \subseteq Range(wire) \cup {o}
  BY <1>2 DEF Range
<1>4. ASSUME NEW i \in DOMAIN wire', NEW j \in DOMAIN wire', i < j, wire'[i] # wire'[j],
             NEW p \in Ops, NEW q \in Ops, p = wire'[i], q = wire'[j]
      PROVE  CalledBefore(p, q)'
  <2>1. CASE j \in DOMAIN wire
    <3>1. i \in DOMAIN wire
      BY <1>2, <1>4, <2>1
    <3>2. CalledBefore(p, q)
      BY <1>2, <1>4, <2>1, <3>1 DEF WireSorted
    <3> QED BY <3>2 DEF CallsKept
  <2>2. CASE j \notin DOMAIN wire
    <3>1. q = o /\ i \in DOMAIN wire /\ p = wire[i] /\ p # o
      BY <1>2, <1>4, <2>2
    <3> QED BY <3>1 DEF Range
  <2> QED BY <2>1, <2>2
<1>5. WireSorted'
  <2>1. \A i \in DOMAIN wire' : wire'[i] \in Ops
    BY <1>2
  <2> QED BY <1>4, <2>1 DEF WireSorted, CalledBefore
<1> QED BY <1>3, <1>5

(* pd_tcp_write appends to the queue, or writes when the queue is empty. *)
LEMMA OrderWritten ==
    ASSUME IInv, InOrder, NEW o \in Ops, WriteQueued(o) \/ WriteNow(o)
    PROVE  InOrder'
<1>1. Shape /\ Recorded /\ writes \in Seq(Ops) /\ wire \in Seq(Ops)
  BY DEF IInv, Shape, InOrder
<1>2. /\ CallsKept /\ o \in Range(calls')
      /\ \A p \in Range(calls) : CalledBefore(p, o)'
  BY <1>1, CallsGrow DEF WriteQueued, WriteNow, Called, Recorded
<1>3. /\ Range(wire) \subseteq Ops /\ Range(writes) \subseteq Ops
      /\ Range(wire) \cup Range(writes) \subseteq Range(calls)
  BY <1>1, RangeIn DEF Recorded
<1>4. CASE WriteQueued(o)
  <2>1. writes' = Append(writes, o) /\ wire' = wire /\ sock' = sock
    BY <1>4 DEF WriteQueued, Enqueue, sockVars
  <2>2. /\ Range(writes') = Range(writes) \cup {o} /\ Len(writes) \in Nat
        /\ DOMAIN writes = 1 .. Len(writes) /\ DOMAIN writes' = 1 .. Len(writes) + 1
        /\ writes'[Len(writes) + 1] = o /\ \A i \in DOMAIN writes : writes'[i] = writes[i]
    BY <1>1, <2>1, AppendFacts
  <2>3. Recorded'
    BY <1>2, <1>3, <2>1, <2>2 DEF Recorded, CallsKept, Range
  <2>4. WireSorted'
    <3>1. ASSUME NEW i \in DOMAIN wire, NEW j \in DOMAIN wire, i < j, wire[i] # wire[j],
                 NEW p \in Ops, NEW q \in Ops, p = wire[i], q = wire[j]
          PROVE  CalledBefore(p, q)'
      <4>1. CalledBefore(p, q)
        BY <3>1 DEF InOrder, WireSorted
      <4> QED BY <1>2, <4>1 DEF CallsKept
    <3>2. \A i \in DOMAIN wire : wire[i] \in Ops
      BY <1>1
    <3> QED BY <2>1, <3>1, <3>2 DEF WireSorted, CalledBefore
  <2>5. QueueSorted'
    <3>1. ASSUME NEW i \in DOMAIN writes', NEW j \in DOMAIN writes', i < j,
                 NEW p \in Ops, NEW q \in Ops, p = writes'[i], q = writes'[j]
          PROVE  CalledBefore(p, q)'
      <4>1. i \in DOMAIN writes /\ p = writes[i]
        BY <2>2, <3>1
      <4>2. CASE j \in DOMAIN writes
        <5>1. CalledBefore(p, q)
          BY <2>2, <3>1, <4>1, <4>2 DEF InOrder, QueueSorted
        <5> QED BY <1>2, <5>1 DEF CallsKept
      <4>3. CASE j \notin DOMAIN writes
        <5>1. q = o
          BY <2>2, <3>1, <4>3
        <5>2. p \in Range(calls)
          BY <1>3, <4>1 DEF Range
        <5> QED BY <1>2, <5>1, <5>2
      <4> QED BY <4>2, <4>3
    <3>2. \A i \in DOMAIN writes' : writes'[i] \in Ops
      BY <1>3, <2>2 DEF Range
    <3> QED BY <3>1, <3>2 DEF QueueSorted, CalledBefore
  <2>6. WireFirst'
    <3> SUFFICES ASSUME sock' = "open", NEW p \in Range(wire'), NEW q \in Range(writes')
                 PROVE  p = q \/ CalledBefore(p, q)'
      BY DEF WireFirst
    <3>1. p \in Range(wire) /\ p \in Range(calls) /\ p \in Ops /\ (q = o \/ q \in Range(writes))
      BY <1>3, <2>1, <2>2 DEF Range
    <3>2. CASE q = o
      BY <1>2, <3>1, <3>2
    <3>3. CASE q \in Range(writes)
      BY <1>2, <1>3, <2>1, <3>1, <3>3 DEF InOrder, WireFirst, CallsKept
    <3> QED BY <3>1, <3>2, <3>3
  <2> QED BY <2>3, <2>4, <2>5, <2>6 DEF InOrder
<1>5. CASE WriteNow(o)
  <2>1. PICK n \in Nat : Takes(o, n)
    BY <1>5 DEF WriteNow, WriteSome
  <2>2. writes = <<>> /\ (writes' = <<>> \/ writes' = Append(<<>>, o))
    BY <1>5 DEF WriteNow, WriteSome, Enqueue
  <2>3. WireSorted' /\ Range(wire') \subseteq Range(wire) \cup {o}
    BY <1>1, <1>2, <1>3, <2>1, WireGrows DEF InOrder
  <2>4. Range(writes') \subseteq {o} /\ \A i, j \in DOMAIN writes' : ~(i < j)
    BY <2>2 DEF Range
  <2>5. Recorded'
    <3>1. Range(wire') \cup Range(writes') \subseteq Range(calls')
      BY <1>2, <1>3, <2>3, <2>4 DEF CallsKept
    <3> QED BY <1>2, <3>1 DEF Recorded, CallsKept, Range
  <2>6. QueueSorted'
    BY <2>4 DEF QueueSorted
  <2>7. WireFirst'
    <3> SUFFICES ASSUME NEW p \in Range(wire'), NEW q \in Range(writes')
                 PROVE  p = q \/ CalledBefore(p, q)'
      BY DEF WireFirst
    <3> QED BY <1>2, <1>3, <2>3, <2>4
  <2> QED BY <2>3, <2>5, <2>6, <2>7 DEF InOrder
<1> QED BY <1>4, <1>5

(* pd__tcp_write takes the head of the queue, which was called first. *)
LEMMA OrderDrained ==
    ASSUME IInv, InOrder, DrainWrites
    PROVE  InOrder'
<1>1. Shape /\ Recorded /\ writes \in Seq(Ops) /\ wire \in Seq(Ops) /\ writes # <<>>
  BY DEF IInv, Shape, InOrder, DrainWrites
<1>2. calls' = calls /\ (writes' = writes \/ writes' = Tail(writes)) /\ sock = "open"
  BY DEF DrainWrites, kept, Takes
<1>3. CallsKept
  BY <1>1, <1>2 DEF CallsKept, Recorded, CalledBefore, Range
<1>4. PICK o \in Ops : o = Head(writes) /\ o = writes[1]
  BY <1>1
<1>5. PICK n \in Nat : Takes(o, n)
  BY <1>4 DEF DrainWrites
<1>6. /\ Range(wire) \subseteq Ops /\ Range(writes) \subseteq Ops /\ o \in Range(writes)
      /\ Range(wire) \cup Range(writes) \subseteq Range(calls)
  <2>1. 1 \in DOMAIN writes
    BY <1>1
  <2>2. o \in Range(writes)
    BY <1>4, <2>1 DEF Range
  <2> QED BY <1>1, <2>2, RangeIn DEF Recorded
<1>7. \A p \in Range(wire) : p = o \/ CalledBefore(p, o)'
  BY <1>2, <1>3, <1>6 DEF InOrder, WireFirst, CallsKept
<1>8. WireSorted' /\ Range(wire') \subseteq Range(wire) \cup {o}
  BY <1>1, <1>3, <1>5, <1>7, WireGrows DEF InOrder
<1>9. Shorter(writes, writes')
  BY <1>1, <1>2, ShorterFacts
<1>10. Recorded'
  <2>1. Range(wire') \cup Range(writes') \subseteq Range(calls')
    BY <1>2, <1>6, <1>8, <1>9 DEF Shorter
  <2> QED BY <1>3, <2>1 DEF Recorded, CallsKept, Range
<1>11. QueueSorted'
  <2>1. ASSUME NEW i \in DOMAIN writes', NEW j \in DOMAIN writes', i < j,
               NEW p \in Ops, NEW q \in Ops, p = writes'[i], q = writes'[j]
        PROVE  CalledBefore(p, q)'
    <3>1. CalledBefore(p, q)
      BY <1>9, <2>1 DEF InOrder, QueueSorted, Shorter
    <3> QED BY <1>3, <3>1 DEF CallsKept
  <2>2. \A i \in DOMAIN writes' : writes'[i] \in Ops
    BY <1>6, <1>9 DEF Range, Shorter
  <2> QED BY <2>1, <2>2 DEF QueueSorted, CalledBefore
<1>12. \A q \in Range(writes) : q = o \/ CalledBefore(o, q)'
  <2> SUFFICES ASSUME NEW q \in Range(writes), q # o PROVE CalledBefore(o, q)'
    OBVIOUS
  <2>1. PICK j \in DOMAIN writes : writes[j] = q
    BY DEF Range
  <2>2. 1 \in DOMAIN writes /\ 1 < j
    BY <1>1, <1>4, <2>1
  <2>3. CalledBefore(o, q)
    BY <1>4, <2>1, <2>2 DEF InOrder, QueueSorted
  <2> QED BY <1>3, <1>6, <2>3 DEF CallsKept
<1>13. WireFirst'
  <2> SUFFICES ASSUME NEW p \in Range(wire'), NEW q \in Range(writes')
               PROVE  p = q \/ CalledBefore(p, q)'
    BY DEF WireFirst
  <2>1. q \in Range(writes)
    BY <1>9 DEF Shorter
  <2>2. CASE p = o
    BY <1>12, <2>1, <2>2
  <2>3. CASE p \in Range(wire)
    BY <1>2, <1>3, <1>6, <2>1, <2>3 DEF InOrder, WireFirst, CallsKept
  <2> QED BY <1>8, <2>2, <2>3
<1> QED BY <1>8, <1>10, <1>11, <1>13 DEF InOrder

(* Every step keeps the order. *)
LEMMA OrderStep == IInv /\ InOrder /\ [Next]_vars => InOrder'
<1> SUFFICES ASSUME IInv, InOrder, [Next]_vars PROVE InOrder'
  OBVIOUS
<1>1. Shape /\ Life /\ Recorded
  BY DEF IInv, InOrder
<1>2. ASSUME calls' = calls, wire' = wire,
             writes' = writes \/ writes' = <<>> \/ (writes # <<>> /\ writes' = Tail(writes)),
             sock' = "open" => sock = "open" \/ wire = <<>>
      PROVE  InOrder'
  <2>1. CallsKept
    BY <1>1, <1>2 DEF CallsKept, Recorded, CalledBefore, Range
  <2> QED BY <1>1, <1>2, <2>1, OrderKept
<1>3. ASSUME NEW o \in Ops, WriteRefused(o) \/ WriteFails(o)
      PROVE  InOrder'
  <2>1. calls' = Append(calls, o) /\ UNCHANGED <<wire, writes, sock>>
    BY <1>3 DEF WriteRefused, WriteFails, Called, sockVars
  <2>2. CallsKept
    BY <1>1, <2>1, CallsGrow DEF Recorded
  <2> QED BY <1>1, <2>1, <2>2, OrderKept
<1>4. CASE UNCHANGED vars
  BY <1>2, <1>4 DEF vars, kept, streamVars, sockVars
<1>5. CASE Peer
  <2>1. UNCHANGED <<calls, wire, writes>>
    BY <1>5 DEF Peer, PeerUnchanged, PeerAnswers, PeerSends, PeerFinishes, PeerReads, PeerResets,
         kept, streamVars
  <2>2. sock' = "open" => sock = "open" \/ wire = <<>>
    BY <1>1, <1>5 DEF Peer, PeerAnswers, PeerSends, PeerFinishes, PeerReads, PeerResets, Life
  <2> QED BY <1>2, <2>1, <2>2
<1>6. CASE pd_tcp_accept \/ pd_tcp_connect
  <2>1. UNCHANGED <<calls, wire, writes>> /\ sock = "none"
    BY <1>6 DEF pd_tcp_accept, pd_tcp_connect, kept
  <2> QED BY <1>1, <1>2, <2>1 DEF Life
<1>7. CASE pd_tcp_close \/ EofReturns \/ CloseEvent
  <2>1. calls' = calls /\ wire' = wire /\ (writes' = writes \/ writes' = <<>>)
        /\ (sock' = sock \/ sock' = "closed")
    BY <1>7 DEF pd_tcp_close, EofReturns, CloseEvent, Close, AlreadyClosed, CloseLeaving, kept,
         streamVars, sockVars
  <2> QED BY <1>2, <2>1
<1>8. CASE DrainFails
  <2>1. calls' = calls /\ UNCHANGED <<wire, sock>> /\ writes # <<>> /\ writes' = Tail(writes)
    BY <1>8 DEF DrainFails, kept, sockVars
  <2> QED BY <1>2, <2>1
<1>9. CASE pd_tcp_shutdown \/ pd_tcp_pause \/ pd_tcp_resume \/ DrainEnds
  <2>1. UNCHANGED <<calls, wire, writes, sock>>
    BY <1>9 DEF pd_tcp_shutdown, pd_tcp_pause, pd_tcp_resume, SetInterest, DrainEnds, DrainUnchanged,
         kept, sockVars
  <2> QED BY <1>2, <2>1
<1>10. CASE \/ PollReturns \/ WriteEvent \/ OnClose \/ OnCloseReturns
            \/ \E e \in batch : \/ Read(e) \/ NothingToRead(e) \/ ConnectStale(e)
                                \/ ConnectFails(e) \/ Connected(e) \/ ConnectIgnores(e)
  <2>1. UNCHANGED <<calls, wire, writes, sock>>
    BY <1>10 DEF PollReturns, WriteEvent, OnClose, OnCloseReturns, Read, NothingToRead, ConnectStale,
         ConnectFails, Connected, ConnectIgnores, ConnectUnchanged, kept, streamVars, sockVars
  <2> QED BY <1>2, <2>1
<1>11. CASE \/ Run \/ LoopExits \/ DataReturns \/ DrainBlocks \/ WrittenReturns \/ FailedReturns
            \/ ConnectReturns \/ EventsEnd \/ ClosesEnd \/ IterationEnds
  <2>1. UNCHANGED <<calls, wire, writes, sock>>
    BY <1>11 DEF Run, LoopExits, DataReturns, DrainBlocks, WrittenReturns, FailedReturns,
         ConnectReturns, EventsEnd, ClosesEnd, IterationEnds, Moves, kept, streamVars, sockVars
  <2> QED BY <1>2, <2>1
<1>12. CASE User
  BY <1>3, <1>6, <1>7, <1>9, <1>11, <1>12, OrderWritten DEF User
<1>13. CASE Loop
  BY <1>7, <1>8, <1>9, <1>10, <1>11, <1>13, OrderDrained DEF Loop
<1> QED BY <1>4, <1>5, <1>12, <1>13 DEF Next

(* The order holds in every reachable state. *)
LEMMA AlwaysInOrder == Spec => []InOrder
<1>1. Init => InOrder
  BY DEF Init, InOrder, Recorded, WireSorted, QueueSorted, WireFirst, Range
<1> QED BY <1>1, OrderStep, Always, PTL DEF Spec

-----------------------------------------------------------------------------
(* What follows.                                                           *)

(* Every variable keeps the shape the code gives it; ctx->refs does not go *)
(* below zero.                                                             *)
THEOREM TypeCorrect == Spec => []TypeOK
<1>1. IInv /\ InOrder => TypeOK
  <2> SUFFICES ASSUME IInv, InOrder PROVE TypeOK
    OBVIOUS
  <2>1. refs \in Nat
    BY DEF IInv, Counted, B
  <2> QED BY <2>1 DEF IInv, Shape, InOrder, Recorded, TypeOK
<1> QED BY <1>1, Always, AlwaysInOrder, PTL

(* The callback of a pd_write_t is called once: while the write is in the  *)
(* queue of the stream it was not called, a write that was written in part *)
(* is queued or answered, and the status 0 is for all of its data.         *)
THEOREM WritesAreAnsweredOnce == Spec => []WriteAnsweredOnce
<1>1. IInv => WriteAnsweredOnce
  <2> SUFFICES ASSUME IInv, NEW o \in Ops
               PROVE  LET queued == Cardinality({i \in DOMAIN writes : writes[i] = o})
                      IN /\ queued + Len(answers[o]) <= 1
                         /\ left[o] < Size => queued + Len(answers[o]) = 1
                         /\ answers[o] = <<"ok">> => left[o] = 0
    BY DEF WriteAnsweredOnce
  <2> DEFINE P == {i \in DOMAIN writes : writes[i] = o}
  <2>1. Shape /\ Queued
    BY DEF IInv
  <2>2. Len(answers[o]) \in Nat /\ (Len(answers[o]) = 0 <=> answers[o] = <<>>)
    BY <2>1 DEF Shape
  <2>3. /\ Len(answers[o]) <= 1 /\ (answers[o] = <<"ok">> => left[o] = 0)
        /\ o \in Range(writes) => answers[o] = <<>>
        /\ o \notin Range(writes) /\ answers[o] = <<>> => left[o] = Size
    BY <2>1 DEF Queued
  <2>4. CASE o \in Range(writes)
    <3>1. PICK i \in DOMAIN writes : writes[i] = o
      BY <2>4 DEF Range
    <3>2. P = {i}
      BY <2>1, <3>1 DEF Queued
    <3> HIDE DEF P
    <3>3. Cardinality(P) = 1
      BY <3>2, FS_Singleton
    <3> QED BY <2>2, <2>3, <2>4, <3>3 DEF P
  <2>5. CASE o \notin Range(writes)
    <3>1. P = {}
      BY <2>5 DEF Range
    <3> HIDE DEF P
    <3>2. Cardinality(P) = 0
      BY <3>1, FS_EmptySet
    <3>3. left[o] < Size => answers[o] # <<>>
      BY <2>1, <2>3, <2>5, TcpStreamAssumption DEF Shape
    <3>4. left[o] < Size => Len(answers[o]) = 1
      <4>1. PICK n \in Nat : n = Len(answers[o])
        BY <2>2
      <4>2. n <= 1 /\ (n = 0 <=> answers[o] = <<>>)
        BY <2>2, <2>3, <4>1
      <4>3. n = 0 \/ n = 1
        BY <4>2
      <4> QED BY <3>3, <4>1, <4>2, <4>3
    <3>5. Cardinality(P) + Len(answers[o]) = Len(answers[o])
      BY <2>2, <3>2
    <3> QED BY <2>3, <3>4, <3>5 DEF P
  <2> QED BY <2>4, <2>5
<1> QED BY <1>1, Always, PTL

(* The peer gets the writes whole and in the order of the calls, although  *)
(* pd_tcp_write goes past the queue when it can.                           *)
THEOREM WireIsInOrder == Spec => []WireInOrder
<1>1. IInv /\ InOrder => WireInOrder
  BY DEF IInv, Whole, InOrder, WireSorted, WireInOrder
<1> QED BY <1>1, Always, AlwaysInOrder, PTL

(* The FIN follows the last queued write, and no write is queued after it. *)
THEOREM FinComesLast == Spec => []FinLast
<1>1. IInv => FinLast
  BY DEF IInv, SendClosed, FinLast
<1> QED BY <1>1, Always, PTL

(* Queued writes are watched for, except with kqueue while reading is      *)
(* paused.                                                                 *)
THEOREM WritesAreWatched == Spec => []WritesWatched
<1>1. IInv => WritesWatched
  BY DEF IInv, Shape, Interest, WritesWatched, Unwatched, Alive
<1> QED BY <1>1, Always, PTL

(* After on_close, where the user frees the pd_tcp_t, the loop has neither *)
(* an event of it nor a handler that goes on with it.                      *)
THEOREM ReleasedIsForgotten == Spec => []NoEventAfterRelease
<1>1. IInv => NoEventAfterRelease
  <2> SUFFICES ASSUME IInv, Released PROVE NoEventAfterRelease
    BY DEF NoEventAfterRelease
  <2>1. batch = {} /\ at \notin Handling
    BY DEF IInv, Life
  <2>2. ev = {}
    BY <2>1 DEF IInv, Turn, Handling
  <2> QED BY <2>1, <2>2 DEF NoEventAfterRelease, Handling
<1> QED BY <1>1, Always, PTL

(* With epoll, an active stream that the library closes at the end of the  *)
(* data or at a hang-up has nothing left to read, unless it was reset.     *)
THEOREM ActiveStreamsReadAll == Spec => ActiveReadsAll
<1>1. ASSUME IInv, [Next]_vars
      PROVE  [/\ status = "ACTIVE" /\ status' = "CLOSED" /\ at \in {"rest", "eof"}
              /\ poller = "epoll"
              => rx = 0 \/ sock # "open"]_vars
  <2> SUFFICES ASSUME Next, status = "ACTIVE", status' = "CLOSED", at \in {"rest", "eof"},
                      poller = "epoll"
               PROVE  rx = 0 \/ sock # "open"
    BY <1>1 DEF vars, streamVars
  <2>1. Ends /\ SendClosed
    BY <1>1 DEF IInv
  <2>2. CASE at = "eof"
    BY <2>1, <2>2 DEF Ends
  <2>3. CASE at = "rest"
    <3>1. CloseEvent
      <4>1. CASE User \/ Peer
        BY <2>3, <4>1 DEF User, Peer, UserCode, pd_tcp_accept, pd_tcp_connect, pd_tcp_close, pd_tcp_shutdown,
             pd_tcp_pause, pd_tcp_resume, SetInterest, WriteRefused, WriteQueued, WriteNow, WriteFails,
             Run, Moves, Goto, PeerUnchanged, streamVars
      <4>2. CASE Loop
        BY <2>3, <4>2 DEF Loop, LoopExits, PollReturns, Read, NothingToRead, ConnectStale, ConnectFails,
             Connected, ConnectIgnores, DataReturns, EofReturns, WriteEvent, DrainWrites, DrainBlocks,
             DrainFails, DrainEnds, WrittenReturns, FailedReturns, ConnectReturns, EventsEnd, OnClose,
             OnCloseReturns, ClosesEnd, IterationEnds, Moves, Goto, streamVars
      <4> QED BY <4>1, <4>2 DEF Next
    <3>2. HangUp
      BY <2>1, <3>1 DEF CloseEvent, Ends
    <3> QED BY <2>1, <3>2 DEF HangUp, SendClosed
  <2> QED BY <2>2, <2>3
<1> QED BY <1>1, Always, PTL DEF Spec, ActiveReadsAll
=============================================================================
