---------------------------- MODULE WinTcpProofs ----------------------------
(***************************************************************************)
(* Proofs about WinTcp, for every number of writes, of accept operations   *)
(* and of buffers.                                                         *)
(***************************************************************************)
EXTENDS WinTcp, FiniteSetTheorems, TLAPS

(* Packets of a kind that wait in a queue, and in both. *)
Count(q, S) == Cardinality({i \in DOMAIN q : q[i] \in S})
Num(S) == Count(port, S) + Count(batch, S)

ReadPackets == Num({"data", "zero"})
ConnectPackets == Num({"connected", "refused"})
AcceptPackets == Num({"accept", "unaccepted"})
WritePackets(o) == Num({o})

B(condition) == IF condition THEN 1 ELSE 0
AllPackets == StreamPackets \cup {"accept", "unaccepted"}

(* The variables, without the bounds that follow from what they count. *)
Shape ==
    /\ status \in {"NONE", "ACTIVE", "SHUTDOWN", "CLOSED"}
    /\ READING \in BOOLEAN /\ PENDING_READ \in BOOLEAN /\ writes_size \in Nat
    /\ answers \in [Ops -> Nat]
    /\ server \in {"none", "posting", "listening", "failed"}
    /\ accepts \in Nat /\ todo \in Nat /\ failures \in 0 .. MaxFailures
    /\ sock \in {"none", "connecting", "refused", "open", "reset", "closed"}
    /\ rx \in 0 .. MaxRx /\ fin \in BOOLEAN /\ wrClosed \in BOOLEAN
    /\ posted \subseteq Ops \cup {"read", "connect"} /\ canceled \subseteq posted
    /\ port \in Seq(AllPackets) /\ batch \in Seq(AllPackets)
    /\ at \in Places /\ pending \in BOOLEAN /\ released \in BOOLEAN

(* Packets are fetched by the poll and handled before the next one. *)
BatchPlace ==
    /\ at \in {"user", "poll", "closes", "onclose", "after"} => batch = <<>>
    /\ server = "posting" => at \in {"post", "connection"} /\ batch = <<>>

(* An accept operation is posted, to be posted, or a packet; none is       *)
(* handled while another is to be posted.                                  *)
AcceptSum == accepts + todo + failures + AcceptPackets
Accepts ==
    /\ server = "none" => AcceptSum = 0
    /\ server \in {"posting", "listening"} => AcceptSum = SIMULTANEOUS_ACCEPTS
    /\ server = "failed" => AcceptSum <= SIMULTANEOUS_ACCEPTS
    /\ at \notin {"post", "connection"} => todo = 0

(* Connecting, in terms of counts. *)
Dialing == "connect" \in posted \/ ConnectPackets > 0 \/ at = "early"

(* The stream has one receive: PD_PENDING_READ is set from the time it is  *)
(* posted until its packet is handled.                                     *)
OneRead == /\ ReadPackets + B("read" \in posted) = B(PENDING_READ)
           /\ at = "data" => ~PENDING_READ /\ ~Dialing

(* It has one connect, during which it cannot be closed and nothing else   *)
(* is under way.                                                           *)
OneConnect == /\ ConnectPackets + B("connect" \in posted) + B(at = "early") <= 1
              /\ Dialing => status = "NONE" /\ ~PENDING_READ /\ sock \notin {"none", "closed"}

(* A write is posted, a packet, answered, or none of them. *)
UnderWay == {o \in Ops : o \in posted \/ WritePackets(o) > 0}
OneWrite ==
    /\ writes_size = Cardinality(UnderWay) + B(at = "written")
    /\ \A o \in Ops : answers[o] + WritePackets(o) + B(o \in posted) <= 1

(* After the sending direction was closed no write can be posted. *)
SendClosed == wrClosed => writes_size = 0 /\ status \in {"SHUTDOWN", "CLOSED"}

(* The kernel and the loop have nothing of the stream. *)
Quiet == /\ posted = {} /\ ReadPackets = 0 /\ ConnectPackets = 0 /\ ~PENDING_READ
         /\ writes_size = 0 /\ at \notin {"early", "written"}
         /\ \A o \in Ops : WritePackets(o) = 0

(* Before it is opened and after it was closed; it is released in between  *)
(* two batches.                                                            *)
Lifetime ==
    /\ sock = "none" => /\ Quiet /\ status = "NONE" /\ ~wrClosed
                        /\ at \notin {"data", "connect"}
    /\ sock = "closed" => Quiet /\ status = "CLOSED"
    /\ pending \/ released => sock = "closed"
    /\ ~(pending /\ released)
    /\ released => at \notin {"data", "connect"}
    /\ at = "onclose" => released

(* The loop counts the listening server and the open stream. *)
Counted == refs = B(server = "listening") + B(sock # "none" /\ (~released \/ at = "onclose"))

Stream == OneRead /\ OneConnect /\ OneWrite /\ SendClosed /\ Lifetime

IInv == Shape /\ BatchPlace /\ Accepts /\ Stream /\ Counted
-----------------------------------------------------------------------------
(* Counting packets.                                                       *)

(* Counts are natural numbers, and zero when there is no such packet. *)
LEMMA CountType ==
    ASSUME NEW T, NEW q \in Seq(T), NEW S
    PROVE  /\ IsFiniteSet({i \in DOMAIN q : q[i] \in S})
           /\ Count(q, S) \in Nat
           /\ Count(q, S) = 0 <=> Range(q) \cap S = {}
<1> DEFINE P == {i \in DOMAIN q : q[i] \in S}
<1>1. DOMAIN q = 1 .. Len(q) /\ Len(q) \in Nat
  OBVIOUS
<1>2. IsFiniteSet(DOMAIN q)
  BY <1>1, FS_Interval
<1>3. IsFiniteSet(P) /\ Cardinality(P) \in Nat
  BY <1>2, FS_Subset, FS_CardinalityType
<1>4. Cardinality(P) = 0 <=> P = {}
  BY <1>3, FS_EmptySet
<1>5. P = {} <=> Range(q) \cap S = {}
  BY DEF Range
<1> QED BY <1>3, <1>4, <1>5 DEF Count

(* A packet is queued. *)
LEMMA CountAppend ==
    ASSUME NEW T, NEW q \in Seq(T), NEW e \in T, NEW S
    PROVE  Count(Append(q, e), S) = Count(q, S) + B(e \in S)
<1> DEFINE r == Append(q, e)
           P == {i \in DOMAIN q : q[i] \in S}
           R == {i \in DOMAIN r : r[i] \in S}
<1>1. /\ Len(q) \in Nat /\ DOMAIN q = 1 .. Len(q) /\ DOMAIN r = 1 .. Len(q) + 1
      /\ r[Len(q) + 1] = e /\ \A i \in DOMAIN q : r[i] = q[i]
  OBVIOUS
<1>2. Count(r, S) = Cardinality(R) /\ Count(q, S) = Cardinality(P)
  BY DEF Count
<1> HIDE DEF r
<1>3. \A i \in DOMAIN r : i \in DOMAIN q \/ i = Len(q) + 1
  BY <1>1
<1>4. DOMAIN q \subseteq DOMAIN r /\ Len(q) + 1 \in DOMAIN r /\ Len(q) + 1 \notin DOMAIN q
  BY <1>1
<1>5. IsFiniteSet(P) /\ Cardinality(P) \in Nat
  BY <1>2, CountType
<1>6. CASE e \in S
  <2>1. R = P \cup {Len(q) + 1} /\ Len(q) + 1 \notin P
    BY <1>1, <1>3, <1>4, <1>6
  <2> HIDE DEF P, R
  <2>2. Cardinality(R) = Cardinality(P) + 1
    BY <1>5, <2>1, FS_AddElement
  <2> QED BY <1>2, <1>6, <2>2 DEF B, r
<1>7. CASE e \notin S
  <2>1. R = P
    BY <1>1, <1>3, <1>4, <1>7
  <2> HIDE DEF P, R
  <2> QED BY <1>2, <1>5, <1>7, <2>1 DEF B, r
<1> QED BY <1>6, <1>7

(* The first packet of a queue is handled. *)
LEMMA CountTail ==
    ASSUME NEW T, NEW q \in Seq(T), q # <<>>, NEW S
    PROVE  Count(q, S) = Count(Tail(q), S) + B(Head(q) \in S)
<1> DEFINE r == Tail(q)
           P == {i \in DOMAIN q : q[i] \in S}
           R == {i \in DOMAIN r : r[i] \in S}
           f == [i \in R |-> i + 1]
<1>1. /\ Len(q) \in Nat \ {0} /\ DOMAIN q = 1 .. Len(q) /\ DOMAIN r = 1 .. Len(q) - 1
      /\ Head(q) = q[1] /\ \A i \in DOMAIN r : r[i] = q[i + 1]
      /\ r \in Seq(T)
  OBVIOUS
<1>2. Count(r, S) = Cardinality(R) /\ Count(q, S) = Cardinality(P)
  BY DEF Count
<1>3. IsFiniteSet(P) /\ Cardinality(P) \in Nat
  BY <1>2, CountType
<1> HIDE DEF r
<1>4. IsFiniteSet(R) /\ Cardinality(R) \in Nat
  BY <1>1, <1>2, CountType
<1>5. f \in Bijection(R, P \ {1})
  <2>1. \A i \in R : i \in Nat /\ i + 1 \in P \ {1}
    BY <1>1
  <2>2. \A j \in P \ {1} : j - 1 \in R /\ f[j - 1] = j
    <3> SUFFICES ASSUME NEW j \in P \ {1} PROVE j - 1 \in R /\ f[j - 1] = j
      OBVIOUS
    <3>1. j - 1 \in DOMAIN r /\ r[j - 1] = q[j] /\ j \in Nat
      BY <1>1
    <3> QED BY <3>1
  <2>3. f \in [R -> P \ {1}] /\ \A i, k \in R : f[i] = f[k] => i = k
    BY <2>1
  <2> HIDE DEF P, R, f
  <2>4. f \in Injection(R, P \ {1})
    BY <2>3 DEF Injection, IsInjective
  <2>5. f \in Surjection(R, P \ {1})
    BY <2>2, <2>3 DEF Surjection
  <2> QED BY <2>4, <2>5 DEF Bijection
<1> HIDE DEF f
<1>6. ExistsBijection(R, P \ {1})
  BY <1>5 DEF ExistsBijection
<1>7. Cardinality(P \ {1}) = Cardinality(R)
  BY <1>4, <1>6, FS_Bijection
<1>8. CASE Head(q) \in S
  <2>1. 1 \in P
    BY <1>1, <1>8
  <2> HIDE DEF P, R
  <2>2. Cardinality(P \ {1}) = Cardinality(P) - 1
    BY <1>3, <2>1, FS_RemoveElement
  <2> QED BY <1>2, <1>3, <1>4, <1>7, <1>8, <2>2 DEF B, r
<1>9. CASE Head(q) \notin S
  <2>1. P \ {1} = P
    BY <1>1, <1>9
  <2> HIDE DEF P, R
  <2>2. Cardinality(P \ {1}) = Cardinality(P)
    BY <2>1
  <2> QED BY <1>2, <1>3, <1>4, <1>7, <1>9, <2>2 DEF B, r
<1> QED BY <1>8, <1>9

(* The counts of the two queues. *)
LEMMA NumType ==
    ASSUME Shape, NEW S
    PROVE  Num(S) \in Nat /\ (Num(S) > 0 <=> Packets \cap S # {})
<1>1. /\ Count(port, S) \in Nat /\ (Count(port, S) = 0 <=> Range(port) \cap S = {})
      /\ Count(batch, S) \in Nat /\ (Count(batch, S) = 0 <=> Range(batch) \cap S = {})
  BY CountType DEF Shape
<1>2. Packets \cap S = {} <=> Range(port) \cap S = {} /\ Range(batch) \cap S = {}
  BY DEF Packets
<1> QED BY <1>1, <1>2 DEF Num

(* What the counts say about the set of packets. *)
LEMMA PacketFacts ==
    ASSUME Shape
    PROVE  /\ ReadPackets \in Nat /\ ConnectPackets \in Nat /\ AcceptPackets \in Nat
           /\ \A o : WritePackets(o) \in Nat /\ (WritePackets(o) > 0 <=> o \in Packets)
           /\ Connecting <=> Dialing
           /\ (ReadPackets = 0 /\ ConnectPackets = 0 /\ \A o \in Ops : WritePackets(o) = 0)
              => Packets \cap StreamPackets = {}
<1>1. /\ ReadPackets \in Nat /\ (ReadPackets > 0 <=> Packets \cap {"data", "zero"} # {})
      /\ ConnectPackets \in Nat
      /\ (ConnectPackets > 0 <=> Packets \cap {"connected", "refused"} # {})
      /\ AcceptPackets \in Nat
  BY NumType DEF ReadPackets, ConnectPackets, AcceptPackets
<1>2. \A o : WritePackets(o) \in Nat /\ (WritePackets(o) > 0 <=> o \in Packets)
  BY NumType DEF WritePackets
<1>3. Connecting <=> Dialing
  BY <1>1 DEF Connecting, Dialing
<1> QED BY <1>1, <1>2, <1>3 DEF StreamPackets

(* A step that leaves the queues alone. *)
LEMMA PacketsSame ==
    ASSUME UNCHANGED <<port, batch>>
    PROVE  /\ ReadPackets' = ReadPackets /\ ConnectPackets' = ConnectPackets
           /\ AcceptPackets' = AcceptPackets
           /\ \A o : WritePackets(o)' = WritePackets(o)
BY DEF ReadPackets, ConnectPackets, AcceptPackets, WritePackets, Num

(* The kernel queues a packet. *)
LEMMA PacketQueued ==
    ASSUME Shape, NEW p \in AllPackets, port' = Append(port, p), batch' = batch
    PROVE  /\ port' \in Seq(AllPackets)
           /\ ReadPackets' = ReadPackets + B(p \in {"data", "zero"})
           /\ ConnectPackets' = ConnectPackets + B(p \in {"connected", "refused"})
           /\ AcceptPackets' = AcceptPackets + B(p \in {"accept", "unaccepted"})
           /\ \A o : WritePackets(o)' = WritePackets(o) + B(p = o)
<1>1. ASSUME NEW S
      PROVE  Num(S)' = Num(S) + B(p \in S)
  <2>1. Count(port', S) = Count(port, S) + B(p \in S)
    BY CountAppend DEF Shape
  <2>2. Count(port, S) \in Nat /\ Count(batch, S) \in Nat
    BY CountType DEF Shape
  <2> QED BY <2>1, <2>2 DEF Num, B
<1>2. port' \in Seq(AllPackets)
  BY DEF Shape
<1>3. \A o : WritePackets(o)' = WritePackets(o) + B(p = o)
  <2> TAKE o
  <2>1. Num({o})' = Num({o}) + B(p \in {o})
    BY <1>1
  <2> QED BY <2>1 DEF WritePackets, B
<1> QED BY <1>1, <1>2, <1>3 DEF ReadPackets, ConnectPackets, AcceptPackets

(* The loop takes the first packet of its batch. *)
LEMMA PacketTaken ==
    ASSUME Shape, NEW p, batch # <<>>, Head(batch) = p, batch' = Tail(batch), port' = port
    PROVE  /\ batch' \in Seq(AllPackets)
           /\ ReadPackets' = ReadPackets - B(p \in {"data", "zero"})
           /\ ConnectPackets' = ConnectPackets - B(p \in {"connected", "refused"})
           /\ AcceptPackets' = AcceptPackets - B(p \in {"accept", "unaccepted"})
           /\ \A o : WritePackets(o)' = WritePackets(o) - B(p = o)
           /\ ReadPackets' \in Nat /\ ConnectPackets' \in Nat
           /\ \A o : WritePackets(o)' \in Nat
<1>1. ASSUME NEW S
      PROVE  Num(S)' = Num(S) - B(p \in S) /\ Num(S)' \in Nat
  <2>1. Count(batch, S) = Count(batch', S) + B(p \in S)
    BY CountTail DEF Shape
  <2>2. batch' \in Seq(AllPackets)
    BY DEF Shape
  <2>3. Count(port, S) \in Nat /\ Count(batch, S) \in Nat /\ Count(batch', S) \in Nat
    BY <2>2, CountType DEF Shape
  <2> QED BY <2>1, <2>3 DEF Num, B
<1>2. batch' \in Seq(AllPackets)
  BY DEF Shape
<1>3. \A o : WritePackets(o)' = WritePackets(o) - B(p = o) /\ WritePackets(o)' \in Nat
  <2> TAKE o
  <2>1. Num({o})' = Num({o}) - B(p \in {o}) /\ Num({o})' \in Nat
    BY <1>1
  <2> QED BY <2>1 DEF WritePackets, B
<1> QED BY <1>1, <1>2, <1>3 DEF ReadPackets, ConnectPackets, AcceptPackets

(* The poll fetches what is queued. *)
LEMMA PacketsFetched ==
    ASSUME Shape, batch = <<>>, batch' = port, port' = <<>>
    PROVE  /\ port' \in Seq(AllPackets) /\ batch' \in Seq(AllPackets)
           /\ ReadPackets' = ReadPackets /\ ConnectPackets' = ConnectPackets
           /\ AcceptPackets' = AcceptPackets
           /\ \A o : WritePackets(o)' = WritePackets(o)
<1>1. ASSUME NEW S
      PROVE  Num(S)' = Num(S)
  <2>1. Count(port, S) \in Nat /\ Count(batch, S) \in Nat
    BY CountType DEF Shape
  <2> QED BY <2>1 DEF Num
<1>2. port' \in Seq(AllPackets) /\ batch' \in Seq(AllPackets)
  BY DEF Shape
<1> QED BY <1>1, <1>2 DEF ReadPackets, ConnectPackets, AcceptPackets, WritePackets
-----------------------------------------------------------------------------
(* The writes under way.                                                   *)

(* There are finitely many. *)
LEMMA UnderWayFinite == IsFiniteSet(UnderWay) /\ Cardinality(UnderWay) \in Nat
BY WinTcpAssumption, FS_Subset, FS_CardinalityType DEF UnderWay

(* A write that was not under way is. *)
LEMMA OneMoreWrite ==
    ASSUME NEW o \in Ops, o \notin UnderWay, UnderWay' = UnderWay \cup {o}
    PROVE  Cardinality(UnderWay') = Cardinality(UnderWay) + 1
BY UnderWayFinite, FS_AddElement

(* A write is no longer under way. *)
LEMMA OneWriteLess ==
    ASSUME NEW o \in Ops, o \in UnderWay, UnderWay' = UnderWay \ {o}
    PROVE  Cardinality(UnderWay') = Cardinality(UnderWay) - 1
BY UnderWayFinite, FS_RemoveElement

(* The counter says when no write is under way. *)
LEMMA NoWriteUnderWay ==
    ASSUME Shape, OneWrite, writes_size = B(at = "written")
    PROVE  \A o \in Ops : o \notin posted /\ WritePackets(o) = 0
<1>1. Cardinality(UnderWay) = 0
  BY UnderWayFinite DEF OneWrite, B
<1>2. UnderWay = {}
  BY <1>1, UnderWayFinite, FS_EmptySet
<1> QED BY <1>2, PacketFacts DEF UnderWay
-----------------------------------------------------------------------------
(* The shape of the variables.                                             *)

(* Operations that complete have packets the loop knows. *)
LEMMA KernelShape ==
    ASSUME Shape, PeerSends \/ PeerEnds \/ Kernel \/ AcceptDone
    PROVE  Shape'
<1> USE WinTcpAssumption
<1>1. CASE PeerSends \/ PeerEnds
  <2>1. fin' \in BOOLEAN
    BY <1>1 DEF PeerSends, PeerEnds, Shape
  <2>2. rx' \in 0 .. MaxRx /\ sock' \in {"none", "connecting", "refused", "open", "reset", "closed"}
    BY <1>1 DEF PeerSends, PeerEnds, Shape
  <2>3. UNCHANGED <<wrClosed, posted, canceled, port>> /\ KernelUnchanged
    BY <1>1 DEF PeerSends, PeerEnds
  <2> QED BY <2>1, <2>2, <2>3 DEF KernelUnchanged, streamVars, serverVars, loopVars, Shape
<1>2. ASSUME NEW o, NEW p \in AllPackets, Completes(o, p),
             sock' \in {"none", "connecting", "refused", "open", "reset", "closed"},
             rx' \in 0 .. MaxRx
      PROVE  Shape'
  <2>1. port' \in Seq(AllPackets) /\ posted' = posted \ {o} /\ canceled' = canceled \ {o}
    BY <1>2 DEF Completes, Shape
  <2> QED BY <1>2, <2>1 DEF Completes, KernelUnchanged, streamVars, serverVars, loopVars, Shape
<1>3. CASE ReceiveDone
  <2>1. "data" \in AllPackets /\ "zero" \in AllPackets
    BY DEF AllPackets, StreamPackets
  <2> QED BY <1>2, <1>3, <2>1 DEF ReceiveDone, Shape
<1>4. CASE \E o \in Ops : SendDone(o)
  BY <1>2, <1>4 DEF SendDone, Shape, AllPackets, StreamPackets
<1>5. CASE ConnectDone
  <2>1. "connected" \in AllPackets /\ "refused" \in AllPackets
    BY DEF AllPackets, StreamPackets
  <2> QED BY <1>2, <1>5, <2>1 DEF ConnectDone, Shape
<1>6. CASE AcceptDone
  <2>1. port' \in Seq(AllPackets)
    BY <1>6 DEF AcceptDone, AllPackets, Shape
  <2>2. accepts' \in Nat
    BY <1>6 DEF AcceptDone, Shape
  <2> QED BY <1>6, <2>1, <2>2 DEF AcceptDone, streamVars, kernelVars, loopVars, Shape
<1> QED BY <1>1, <1>3, <1>4, <1>5, <1>6 DEF Kernel

(* A receive is posted, or done at once. *)
LEMMA RecvShape ==
    ASSUME Shape, NEW reading \in BOOLEAN, PostRecv(reading) \/ AllocFails(reading)
    PROVE  /\ READING' \in BOOLEAN /\ PENDING_READ' \in BOOLEAN /\ rx' \in 0 .. MaxRx
           /\ posted' \subseteq Ops \cup {"read", "connect"} /\ posted \subseteq posted'
           /\ \/ UNCHANGED <<PENDING_READ, posted>>
              \/ /\ ~Broken /\ PENDING_READ' = TRUE /\ posted' = posted \cup {"read"}
                 /\ PostRecv(reading)
<1>1. CASE AllocFails(reading)
  BY <1>1 DEF AllocFails, Shape
<1>2. CASE PostRecv(reading)
  <2>1. READING' \in BOOLEAN /\ PENDING_READ' \in BOOLEAN
    BY <1>2 DEF PostRecv, Shape
  <2>2. rx' \in 0 .. MaxRx
    BY <1>2, WinTcpAssumption DEF PostRecv, Shape
  <2>3. posted' \subseteq Ops \cup {"read", "connect"} /\ posted \subseteq posted'
    BY <1>2 DEF PostRecv, Shape
  <2> QED BY <1>2, <2>1, <2>2, <2>3 DEF PostRecv
<1> QED BY <1>1, <1>2

(* pd_tcp_close cancels what is posted, and may schedule on_close. *)
LEMMA CloseShape ==
    ASSUME Shape, NEW reading, Close(reading)
    PROVE  /\ status' \in {"NONE", "ACTIVE", "SHUTDOWN", "CLOSED"} /\ READING' \in BOOLEAN
           /\ canceled' \subseteq posted /\ pending' \in BOOLEAN
           /\ sock' \in {"none", "connecting", "refused", "open", "reset", "closed"}
<1>1. CASE status = "CLOSED"
  BY <1>1 DEF Close, Shape
<1>2. CASE status # "CLOSED"
  <2>1. status' = "CLOSED" /\ READING' = FALSE
    BY <1>2 DEF Close
  <2>2. canceled' \subseteq posted
    BY <1>2 DEF Close, Shape
  <2>3. pending' \in BOOLEAN /\ sock' \in {"none", "connecting", "refused", "open", "reset", "closed"}
    BY <1>2 DEF Close, pd__tcp_try_close, Shape
  <2> QED BY <2>1, <2>2, <2>3
<1> QED BY <1>1, <1>2

(* The calls of the user. *)
LEMMA UserShape ==
    ASSUME IInv, User
    PROVE  Shape'
<1> USE WinTcpAssumption
<1>1. Shape
  BY DEF IInv
<1>2. CASE pd_tcp_listen \/ Run
  BY <1>1, <1>2 DEF pd_tcp_listen, Run, LoopUnchanged, Goto, streamVars, serverVars, kernelVars, loopVars,
       Shape, Places
<1>3. CASE pd_tcp_accept
  <2>1. READING \in BOOLEAN /\ (PostRecv(READING) \/ AllocFails(READING))
    BY <1>1, <1>3 DEF pd_tcp_accept, Shape
  <2>2. /\ READING' \in BOOLEAN /\ PENDING_READ' \in BOOLEAN /\ rx' \in 0 .. MaxRx
        /\ posted' \subseteq Ops \cup {"read", "connect"} /\ posted \subseteq posted'
    BY <1>1, <2>1, RecvShape
  <2>3. /\ status' = "ACTIVE" /\ sock' = "open"
        /\ UNCHANGED <<writes_size, answers, server, accepts, todo, failures, fin, wrClosed, canceled,
                       port, at, batch, pending, released>>
    BY <1>3 DEF pd_tcp_accept, serverVars
  <2> QED BY <1>1, <2>2, <2>3 DEF Shape
<1>4. CASE pd_tcp_connect
  <2>1. posted = {}
    BY <1>4 DEF pd_tcp_connect, IInv, Stream, Lifetime, Quiet
  <2> QED BY <1>1, <1>4, <2>1 DEF pd_tcp_connect, streamVars, serverVars, Shape
<1>5. CASE pd_tcp_close
  BY <1>1, <1>5, CloseShape DEF pd_tcp_close, serverVars, Shape
<1>6. CASE pd_tcp_shutdown
  <2>1. wrClosed' \in BOOLEAN
    BY <1>6 DEF pd_tcp_shutdown
  <2> QED BY <1>1, <1>6, <2>1 DEF pd_tcp_shutdown, serverVars, loopVars, Shape
<1>7. CASE pd_tcp_pause
  <2>1. canceled' \subseteq posted
    BY <1>1, <1>7 DEF pd_tcp_pause, Shape
  <2> QED BY <1>1, <1>7, <2>1 DEF pd_tcp_pause, serverVars, loopVars, Shape
<1>8. CASE pd_tcp_resume
  <2>1. /\ READING' \in BOOLEAN /\ PENDING_READ' \in BOOLEAN /\ rx' \in 0 .. MaxRx
        /\ posted' \subseteq Ops \cup {"read", "connect"} /\ posted \subseteq posted'
    <3>1. CASE PENDING_READ
      BY <1>1, <1>8, <3>1 DEF pd_tcp_resume, Shape
    <3>2. CASE ~PENDING_READ
      BY <1>1, <1>8, <3>2, RecvShape DEF pd_tcp_resume
    <3> QED BY <3>1, <3>2
  <2> QED BY <1>1, <1>8, <2>1 DEF pd_tcp_resume, serverVars, loopVars, Shape
<1>9. ASSUME NEW o \in Ops, WriteAnswered(o) \/ WritePosted(o)
      PROVE  Shape'
  <2>1. /\ answers' \in [Ops -> Nat] /\ writes_size' \in Nat
        /\ posted' \subseteq Ops \cup {"read", "connect"} /\ posted \subseteq posted'
    BY <1>1, <1>9 DEF WriteAnswered, WritePosted, Answer, kernelVars, Shape
  <2> QED BY <1>1, <1>9, <2>1 DEF WriteAnswered, WritePosted, Answer, serverVars, kernelVars, loopVars,
           Shape
<1> QED BY <1>2, <1>3, <1>4, <1>5, <1>6, <1>7, <1>8, <1>9 DEF User

(* The steps of the loop and its handlers. *)
LEMMA LoopShape ==
    ASSUME IInv, Loop
    PROVE  Shape'
<1> USE WinTcpAssumption
<1>1. Shape
  BY DEF IInv
<1>2. CASE LoopExits \/ ConnectReturns \/ EventsEnd \/ ClosesEnd \/ IterationEnds
  BY <1>1, <1>2 DEF LoopExits, ConnectReturns, EventsEnd, ClosesEnd, IterationEnds, LoopUnchanged, Goto,
       streamVars, serverVars, kernelVars, loopVars, Shape, Places
<1>3. CASE PollReturns
  BY <1>1, <1>3 DEF PollReturns, Goto, streamVars, serverVars, kernelVars, Shape, Places
<1>4. ASSUME NEW p, Take(p)
      PROVE  batch' \in Seq(AllPackets) /\ UNCHANGED <<port, released, refs>>
  BY <1>1, <1>4 DEF Take, Shape
<1>5. CASE Accepted \/ AcceptFailed \/ Refused
  <2>1. batch' \in Seq(AllPackets) /\ UNCHANGED <<port, released, refs>>
    BY <1>4, <1>5 DEF Accepted, AcceptFailed, Refused
  <2> QED BY <1>1, <1>5, <2>1 DEF Accepted, AcceptFailed, Refused, Goto, streamVars, serverVars,
            kernelVars, Shape, Places
<1>6. CASE PostAccept
  <2>1. accepts' \in Nat /\ todo' \in Nat /\ failures' \in 0 .. MaxFailures /\ at' \in Places
    BY <1>1, <1>6 DEF PostAccept, Shape, Places
  <2> QED BY <1>1, <1>6, <2>1 DEF PostAccept, streamVars, kernelVars, loopVars, Shape
<1>7. CASE PostEnds \/ ListenFails
  BY <1>1, <1>7 DEF PostEnds, ListenFails, Goto, streamVars, kernelVars, loopVars, Shape, Places
<1>8. CASE Connected
  <2>1. batch' \in Seq(AllPackets) /\ UNCHANGED <<port, released, refs>>
    BY <1>4, <1>8 DEF Connected
  <2>2. READING \in BOOLEAN /\ (PostRecv(READING) \/ AllocFails(READING)) /\ at' \in {"early", "connect"}
    BY <1>1, <1>8 DEF Connected, Shape
  <2>3. /\ READING' \in BOOLEAN /\ PENDING_READ' \in BOOLEAN /\ rx' \in 0 .. MaxRx
        /\ posted' \subseteq Ops \cup {"read", "connect"} /\ posted \subseteq posted'
    BY <1>1, <2>2, RecvShape
  <2>4. status' \in {"NONE", "ACTIVE", "SHUTDOWN", "CLOSED"}
    BY <1>1, <1>8 DEF Connected, Shape
  <2> QED BY <1>1, <1>8, <2>1, <2>2, <2>3, <2>4 DEF Connected, serverVars, Shape, Places
<1>9. CASE EarlyReturns
  BY <1>1, <1>9 DEF EarlyReturns, Goto, serverVars, kernelVars, loopVars, Shape, Places
<1>10. CASE ReadData
  <2>1. batch' \in Seq(AllPackets) /\ UNCHANGED <<port, released, refs>>
    BY <1>4, <1>10 DEF ReadData
  <2>2. PENDING_READ' \in BOOLEAN
    BY <1>10 DEF ReadData
  <2>3. /\ at' = "data"
        /\ UNCHANGED <<status, READING, writes_size, answers, serverVars, kernelVars, pending>>
    BY <1>10 DEF ReadData, Goto
  <2> QED BY <1>1, <2>1, <2>2, <2>3 DEF serverVars, kernelVars, Shape, Places
<1>11. CASE ReadZero
  <2>1. batch' \in Seq(AllPackets) /\ UNCHANGED <<port, released, refs>>
    BY <1>4, <1>11 DEF ReadZero
  <2> QED BY <1>1, <1>11, <2>1, CloseShape DEF ReadZero, Goto, serverVars, Shape
<1>12. CASE DataReturns
  <2>1. /\ READING' \in BOOLEAN /\ PENDING_READ' \in BOOLEAN /\ rx' \in 0 .. MaxRx
        /\ posted' \subseteq Ops \cup {"read", "connect"} /\ posted \subseteq posted'
    <3>1. CASE status = "CLOSED" \/ ~READING
      BY <1>1, <1>12, <3>1 DEF DataReturns, Shape
    <3>2. CASE status # "CLOSED" /\ READING
      BY <1>1, <1>12, <3>2, RecvShape DEF DataReturns, Shape
    <3> QED BY <3>1, <3>2
  <2>2. pending' \in BOOLEAN /\ sock' \in {"none", "connecting", "refused", "open", "reset", "closed"}
    BY <1>1, <1>12 DEF DataReturns, pd__tcp_try_close, Shape
  <2> QED BY <1>1, <1>12, <2>1, <2>2 DEF DataReturns, Goto, serverVars, Shape, Places
<1>13. ASSUME NEW o \in Ops, Written(o)
       PROVE  Shape'
  <2>1. batch' \in Seq(AllPackets) /\ UNCHANGED <<port, released, refs>>
    BY <1>4, <1>13 DEF Written
  <2>2. answers' \in [Ops -> Nat]
    BY <1>1, <1>13 DEF Written, Answer, Shape
  <2> QED BY <1>1, <1>13, <2>1, <2>2 DEF Written, Goto, serverVars, kernelVars, Shape, Places
<1>14. CASE WrittenReturns
  <2>1. writes_size' \in Nat
    BY <1>1, <1>14, UnderWayFinite DEF WrittenReturns, Goto, IInv, Stream, OneWrite, B
  <2>2. pending' \in BOOLEAN /\ sock' \in {"none", "connecting", "refused", "open", "reset", "closed"}
    BY <1>1, <1>14 DEF WrittenReturns, pd__tcp_try_close, Shape
  <2>3. wrClosed' \in BOOLEAN
    BY <1>14 DEF WrittenReturns
  <2> QED BY <1>1, <1>14, <2>1, <2>2, <2>3 DEF WrittenReturns, Goto, serverVars, Shape, Places
<1>15. CASE OnClose \/ OnCloseReturns
  <2>1. pending' \in BOOLEAN /\ released' \in BOOLEAN
    BY <1>1, <1>15 DEF OnClose, OnCloseReturns, Shape
  <2>2. /\ at' \in {"onclose", "closes"}
        /\ UNCHANGED <<streamVars, serverVars, kernelVars, port, batch>>
    BY <1>15 DEF OnClose, OnCloseReturns, Goto
  <2> QED BY <1>1, <2>1, <2>2 DEF streamVars, serverVars, kernelVars, Shape, Places
<1> QED BY <1>2, <1>3, <1>5, <1>6, <1>7, <1>8, <1>9, <1>10, <1>11, <1>12, <1>13, <1>14, <1>15 DEF Loop
-----------------------------------------------------------------------------
(* The server.                                                             *)

(* Steps that are not the server's. *)
LEMMA ServerUntouched ==
    ASSUME BatchPlace, Accepts, UNCHANGED <<server, accepts, todo, failures>>,
           AcceptPackets' = AcceptPackets,
           at \in {"post", "connection"} => at' = at /\ batch' = batch,
           at' \in {"user", "poll", "closes", "onclose", "after"} => batch' = <<>>
    PROVE  BatchPlace' /\ Accepts'
<1>1. AcceptSum' = AcceptSum
  BY DEF AcceptSum
<1>2. BatchPlace'
  BY DEF BatchPlace
<1>3. Accepts'
  BY <1>1 DEF Accepts
<1> QED BY <1>2, <1>3

(* The user and the kernel move neither the loop thread nor its batch. *)
LEMMA ServerUserStep ==
    ASSUME IInv, User \/ PeerSends \/ PeerEnds \/ Kernel \/ AcceptDone
    PROVE  BatchPlace' /\ Accepts'
<1> USE WinTcpAssumption
<1>1. Shape /\ BatchPlace /\ Accepts
  BY DEF IInv
<1>2. CASE pd_tcp_listen
  <2>1. /\ at = "user" /\ server = "none" /\ at' = "post" /\ server' = "posting"
        /\ todo' = SIMULTANEOUS_ACCEPTS
        /\ UNCHANGED <<accepts, failures, port, batch>>
    BY <1>2 DEF pd_tcp_listen, loopVars
  <2>2. AcceptPackets' = AcceptPackets /\ AcceptPackets \in Nat
    BY <1>1, <2>1, PacketsSame, PacketFacts
  <2>3. accepts = 0 /\ failures = 0 /\ AcceptPackets = 0
    BY <1>1, <2>1, <2>2 DEF Accepts, AcceptSum, Shape
  <2> QED BY <1>1, <2>1, <2>2, <2>3 DEF BatchPlace, Accepts, AcceptSum
<1>3. CASE AcceptDone
  <2>1. PICK p \in {"accept", "unaccepted"} : port' = Append(port, p)
    BY <1>3 DEF AcceptDone
  <2>2. /\ accepts > 0 /\ accepts' = accepts - 1
        /\ UNCHANGED <<server, todo, failures, batch, at>>
    BY <1>3 DEF AcceptDone, loopVars
  <2>3. p \in AllPackets
    BY DEF AllPackets
  <2>4. AcceptPackets' = AcceptPackets + 1 /\ AcceptPackets \in Nat
    BY <1>1, <2>1, <2>2, <2>3, PacketQueued, PacketFacts DEF B
  <2>5. AcceptSum' = AcceptSum
    BY <1>1, <2>2, <2>4 DEF AcceptSum, Shape
  <2> QED BY <1>1, <2>2, <2>5 DEF BatchPlace, Accepts
<1>4. CASE \/ Run \/ pd_tcp_accept \/ pd_tcp_connect \/ pd_tcp_close \/ pd_tcp_shutdown
           \/ pd_tcp_pause \/ pd_tcp_resume \/ \E o \in Ops : WriteAnswered(o) \/ WritePosted(o)
           \/ PeerSends \/ PeerEnds
  <2>1. /\ UNCHANGED <<server, accepts, todo, failures, port, batch>>
        /\ at' = at \/ (at = "user" /\ at' = "poll")
    BY <1>4 DEF Run, Goto, LoopUnchanged, pd_tcp_accept, pd_tcp_connect, pd_tcp_close, pd_tcp_shutdown,
         pd_tcp_pause, pd_tcp_resume, WriteAnswered, WritePosted, PeerSends, PeerEnds,
         KernelUnchanged, serverVars, loopVars
  <2>2. AcceptPackets' = AcceptPackets
    BY <2>1, PacketsSame
  <2>3. at' \in {"user", "poll", "closes", "onclose", "after"} => batch' = <<>>
    BY <1>1, <2>1 DEF BatchPlace
  <2> QED BY <1>1, <2>1, <2>2, <2>3, ServerUntouched
<1>5. CASE Kernel
  <2>1. PICK p \in StreamPackets : \E o : Completes(o, p)
    BY <1>5 DEF Kernel, ReceiveDone, SendDone, ConnectDone, StreamPackets
  <2>2. /\ UNCHANGED <<server, accepts, todo, failures, batch, at>>
        /\ port' = Append(port, p)
    BY <2>1 DEF Completes, KernelUnchanged, serverVars, loopVars
  <2>3. p \in AllPackets /\ p \notin {"accept", "unaccepted"}
    BY <2>1 DEF AllPackets, StreamPackets
  <2>4. AcceptPackets' = AcceptPackets
    BY <1>1, <2>2, <2>3, PacketQueued, PacketFacts DEF B
  <2>5. at' \in {"user", "poll", "closes", "onclose", "after"} => batch' = <<>>
    BY <1>1, <2>2 DEF BatchPlace
  <2> QED BY <1>1, <2>2, <2>4, <2>5, ServerUntouched
<1> QED BY <1>2, <1>3, <1>4, <1>5 DEF User

(* The loop posts an accept operation again for each one it handled. *)
LEMMA ServerLoopStep ==
    ASSUME IInv, Loop
    PROVE  BatchPlace' /\ Accepts'
<1> USE WinTcpAssumption
<1>1. Shape /\ BatchPlace /\ Accepts
  BY DEF IInv
<1>2. AcceptPackets \in Nat /\ accepts \in Nat /\ todo \in Nat /\ failures \in Nat
  BY <1>1, PacketFacts DEF Shape
<1>3. CASE Accepted \/ AcceptFailed
  <2>1. PICK p \in {"accept", "unaccepted"} : Take(p)
    BY <1>3 DEF Accepted, AcceptFailed
  <2>2. /\ at = "events" /\ at' \in {"post", "connection"} /\ todo' = 1
        /\ UNCHANGED <<server, accepts, failures>>
    BY <1>3 DEF Accepted, AcceptFailed, Goto
  <2>3. AcceptPackets' = AcceptPackets - 1
    BY <1>1, <2>1, PacketTaken DEF Take, B
  <2>4. AcceptSum' = AcceptSum /\ server # "posting"
    BY <1>1, <1>2, <2>2, <2>3 DEF AcceptSum, Accepts, BatchPlace
  <2> QED BY <1>1, <2>2, <2>4 DEF BatchPlace, Accepts
<1>4. CASE PostAccept
  <2>1. /\ at \in {"post", "connection"} /\ at' \in {"post", "connection"}
        /\ UNCHANGED <<server, port, batch>>
        /\ accepts' + todo' + failures' = accepts + todo + failures
    BY <1>2, <1>4 DEF PostAccept, loopVars
  <2>2. accepts' \in Nat /\ todo' \in Nat /\ failures' \in Nat
    BY <1>2, <1>4 DEF PostAccept
  <2>3. AcceptPackets' = AcceptPackets
    BY <2>1, PacketsSame
  <2>4. AcceptSum' = AcceptSum
    BY <1>2, <2>1, <2>2, <2>3 DEF AcceptSum
  <2> QED BY <1>1, <2>1, <2>4 DEF BatchPlace, Accepts
<1>5. CASE PostEnds
  <2>1. /\ todo = 0 /\ UNCHANGED <<accepts, todo, failures, port, batch>>
        /\ \/ server = "posting" /\ server' = "listening" /\ at' = "user"
           \/ server # "posting" /\ server' = server /\ at' = "events"
    BY <1>5 DEF PostEnds, Goto
  <2>2. AcceptSum' = AcceptSum
    BY <2>1, PacketsSame DEF AcceptSum
  <2> QED BY <1>1, <2>1, <2>2 DEF BatchPlace, Accepts
<1>6. CASE ListenFails
  <2>1. /\ server = "posting" /\ server' = "failed" /\ todo' = 0 /\ at' = "user"
        /\ UNCHANGED <<accepts, failures, port, batch>>
    BY <1>6 DEF ListenFails, Goto, loopVars
  <2>2. AcceptSum' <= AcceptSum
    BY <1>2, <2>1, PacketsSame DEF AcceptSum
  <2>3. AcceptSum = SIMULTANEOUS_ACCEPTS /\ AcceptSum' \in Nat
    BY <1>1, <1>2, <2>1, PacketsSame DEF AcceptSum, Accepts
  <2> QED BY <1>1, <2>1, <2>2, <2>3 DEF BatchPlace, Accepts
<1>7. CASE PollReturns
  <2>1. /\ at = "poll" /\ at' = "events" /\ batch' = port /\ port' = <<>>
        /\ UNCHANGED <<server, accepts, todo, failures>>
    BY <1>7 DEF PollReturns, Goto, serverVars
  <2>2. AcceptPackets' = AcceptPackets
    BY <1>1, <2>1, PacketsFetched DEF BatchPlace
  <2> QED BY <1>1, <2>1, <2>2, ServerUntouched
<1>8. CASE Connected \/ Refused \/ ReadData \/ ReadZero \/ \E o \in Ops : Written(o)
  <2>1. PICK p \in StreamPackets : Take(p)
    BY <1>8 DEF Connected, Refused, ReadData, ReadZero, Written, StreamPackets
  <2>2. /\ at = "events" /\ at' \in {"early", "connect", "data", "events", "written"}
        /\ UNCHANGED <<server, accepts, todo, failures>>
    BY <1>8 DEF Connected, Refused, ReadData, ReadZero, Written, Goto, serverVars
  <2>3. p \notin {"accept", "unaccepted"}
    BY <2>1 DEF StreamPackets
  <2>4. AcceptPackets' = AcceptPackets
    BY <1>1, <1>2, <2>1, <2>3, PacketTaken DEF Take, B
  <2> QED BY <1>1, <2>2, <2>4, ServerUntouched
<1>9. CASE \/ LoopExits \/ ConnectReturns \/ EventsEnd \/ ClosesEnd \/ IterationEnds
           \/ EarlyReturns \/ DataReturns \/ WrittenReturns \/ OnClose \/ OnCloseReturns
  <2>1. UNCHANGED <<server, accepts, todo, failures, port, batch>>
    BY <1>9 DEF LoopExits, ConnectReturns, EventsEnd, ClosesEnd, IterationEnds, EarlyReturns,
         DataReturns, WrittenReturns, OnClose, OnCloseReturns, LoopUnchanged, serverVars, loopVars
  <2>2. /\ at \notin {"post", "connection"}
        /\ at' \in {"user", "poll", "closes", "onclose", "after"} =>
              batch = <<>> \/ at \in {"user", "poll", "closes", "onclose", "after"}
    BY <1>9 DEF LoopExits, ConnectReturns, EventsEnd, ClosesEnd, IterationEnds, EarlyReturns,
         DataReturns, WrittenReturns, OnClose, OnCloseReturns, Goto
  <2>3. AcceptPackets' = AcceptPackets
    BY <2>1, PacketsSame
  <2>4. at' \in {"user", "poll", "closes", "onclose", "after"} => batch' = <<>>
    BY <1>1, <2>1, <2>2 DEF BatchPlace
  <2> QED BY <1>1, <2>1, <2>2, <2>3, <2>4, ServerUntouched
<1> QED BY <1>3, <1>4, <1>5, <1>6, <1>7, <1>8, <1>9 DEF Loop
-----------------------------------------------------------------------------
(* The stream.                                                             *)

(* The stream's packets are the ones they were. *)
SamePackets ==
    /\ ReadPackets' = ReadPackets /\ ConnectPackets' = ConnectPackets
    /\ \A o \in Ops : WritePackets(o)' = WritePackets(o)

(* A step that answers no write, posts none and completes none. *)
LEMMA WritesSame ==
    ASSUME OneWrite, UNCHANGED <<writes_size, answers>>, at' = "written" <=> at = "written",
           \A o \in Ops : (o \in posted' <=> o \in posted) /\ WritePackets(o)' = WritePackets(o)
    PROVE  OneWrite'
<1>1. UnderWay' = UnderWay
  BY DEF UnderWay
<1>2. Cardinality(UnderWay') = Cardinality(UnderWay)
  BY <1>1
<1>3. B(at = "written")' = B(at = "written")
  BY DEF B
<1>4. \A o \in Ops : B(o \in posted)' = B(o \in posted)
  BY DEF B
<1> QED BY <1>2, <1>3, <1>4 DEF OneWrite

(* Steps that are not the stream's: the loop thread may leave a callback   *)
(* or go on to one of the server.                                          *)
LEMMA StreamUntouched ==
    ASSUME Shape, Stream, SamePackets,
           UNCHANGED <<posted, status, PENDING_READ, writes_size, answers, wrClosed, pending, released>>,
           sock' = sock \/ {sock, sock'} \cap {"none", "closed"} = {},
           \/ at' = at
           \/ /\ at' \notin {"data", "early", "written", "connect", "onclose"}
              /\ at \notin {"early", "written"}
    PROVE  Stream'
<1>1. OneRead /\ OneConnect /\ OneWrite /\ SendClosed /\ Lifetime
  BY DEF Stream
<1>2. Dialing' <=> Dialing
  BY DEF Dialing, SamePackets
<1>3. OneRead'
  BY <1>1, <1>2 DEF OneRead, SamePackets, B
<1>4. OneConnect'
  BY <1>1, <1>2 DEF OneConnect, SamePackets, B
<1>5. OneWrite'
  BY <1>1, WritesSame DEF SamePackets
<1>6. SendClosed'
  BY <1>1 DEF SendClosed
<1>7. Quiet => Quiet'
  BY DEF Quiet, SamePackets
<1>8. Lifetime'
  BY <1>1, <1>7 DEF Lifetime
<1> QED BY <1>3, <1>4, <1>5, <1>6, <1>8 DEF Stream

(* pd__tcp_post_recv, where no receive and no connect is under way. *)
LEMMA ReceivePosted ==
    ASSUME Shape, Stream, SamePackets,
           UNCHANGED <<writes_size, answers, wrClosed, pending, released>>,
           ~PENDING_READ, ~Dialing,
           \/ posted' = posted /\ ~PENDING_READ'
           \/ posted' = posted \cup {"read"} /\ PENDING_READ' /\ sock' # "closed",
           sock' # "none",
           \/ sock' = sock /\ status' = status
           \/ sock = "none" /\ sock' = "open" /\ status' = "ACTIVE",
           at' = at \/ (at = "data" /\ at' = "events"), at' # "data"
    PROVE  Stream'
<1> USE WinTcpAssumption
<1>1. OneRead /\ OneConnect /\ OneWrite /\ SendClosed /\ Lifetime
  BY DEF Stream
<1>2. /\ \A o \in Ops : o \in posted' <=> o \in posted
      /\ "connect" \in posted' <=> "connect" \in posted
  OBVIOUS
<1>3. ~Dialing'
  BY <1>2 DEF Dialing, SamePackets
<1>4. ReadPackets = 0 /\ "read" \notin posted
  BY <1>1, PacketFacts DEF OneRead, B
<1>5. OneRead'
  BY <1>4 DEF OneRead, SamePackets, B
<1>6. OneConnect'
  BY <1>1, <1>2, <1>3 DEF OneConnect, SamePackets, B
<1>7. OneWrite'
  BY <1>1, <1>2, WritesSame DEF SamePackets
<1>8. SendClosed'
  BY <1>1 DEF SendClosed, Lifetime
<1>9. Lifetime'
  <2>1. sock' = "closed" => Quiet' /\ status' = "CLOSED"
    BY <1>1, <1>2 DEF Lifetime, Quiet, SamePackets
  <2> QED BY <1>1, <2>1 DEF Lifetime
<1> QED BY <1>5, <1>6, <1>7, <1>8, <1>9 DEF Stream

(* pd__tcp_try_close of a closed stream: on_close is scheduled when        *)
(* nothing is under way.                                                   *)
LEMMA TryClosed ==
    ASSUME Shape, Lifetime, sock # "none", NEW writes \in Nat, NEW reading \in BOOLEAN,
           pd__tcp_try_close(writes, reading), ~released, released' = released, status' = "CLOSED",
           at' = at \/ (at' = "events" /\ at # "onclose"),
           sock = "closed" \/ (writes = 0 /\ ~reading) => Quiet'
    PROVE  Lifetime'
<1>1. CASE writes > 0 \/ reading
  <2>1. sock' = sock /\ pending' = pending
    BY <1>1 DEF pd__tcp_try_close
  <2> QED BY <2>1 DEF Lifetime
<1>2. CASE writes = 0 /\ ~reading
  <2>1. sock' = "closed" /\ Quiet'
    BY <1>2 DEF pd__tcp_try_close
  <2> QED BY <2>1 DEF Lifetime
<1> QED BY <1>1, <1>2

(* pd_tcp_close by the user. *)
LEMMA StreamClose ==
    ASSUME IInv, pd_tcp_close
    PROVE  Stream'
<1>1. Shape /\ Stream /\ OneRead /\ OneConnect /\ OneWrite /\ SendClosed /\ Lifetime
  BY DEF IInv, Stream
<1>2. /\ sock # "none" /\ ~Dialing /\ Close(PENDING_READ)
      /\ UNCHANGED <<PENDING_READ, writes_size, answers, wrClosed, posted, port, at, batch, released>>
  BY <1>1, PacketFacts DEF pd_tcp_close, Held
<1>3. SamePackets
  BY <1>2, PacketsSame DEF SamePackets
<1>4. CASE status = "CLOSED"
  <2>1. UNCHANGED <<status, sock, pending>>
    BY <1>2, <1>4 DEF Close
  <2> QED BY <1>1, <1>2, <1>3, <2>1, StreamUntouched
<1>5. CASE status # "CLOSED"
  <2>1. status' = "CLOSED" /\ pd__tcp_try_close(writes_size, PENDING_READ)
    BY <1>2, <1>5 DEF Close
  <2>2. Dialing' <=> Dialing
    BY <1>2, <1>3 DEF Dialing, SamePackets
  <2>3. OneRead' /\ OneConnect'
    BY <1>1, <1>2, <1>3, <2>2 DEF OneRead, OneConnect, SamePackets, B
  <2>4. OneWrite' /\ SendClosed'
    BY <1>1, <1>2, <1>3, <2>1, WritesSame DEF SamePackets, SendClosed
  <2>5. ASSUME writes_size = 0, ~PENDING_READ
        PROVE  Quiet'
    <3>1. at # "written" /\ \A o \in Ops : o \notin posted /\ WritePackets(o) = 0
      BY <1>1, <2>5, UnderWayFinite, NoWriteUnderWay DEF OneWrite, B
    <3>2. ReadPackets = 0 /\ "read" \notin posted
      BY <1>1, <2>5, PacketFacts DEF OneRead, B
    <3>3. ConnectPackets = 0 /\ "connect" \notin posted /\ at # "early"
      BY <1>1, <1>2, PacketFacts DEF Dialing
    <3>4. posted = {}
      BY <1>1, <3>1, <3>2, <3>3 DEF Shape
    <3> QED BY <1>2, <1>3, <2>5, <3>1, <3>2, <3>3, <3>4 DEF Quiet, SamePackets
  <2>6. Lifetime'
    <3>1. sock # "closed" /\ ~released /\ writes_size \in Nat /\ PENDING_READ \in BOOLEAN
      BY <1>1, <1>5 DEF Lifetime, Shape
    <3> QED BY <1>1, <1>2, <2>1, <2>5, <3>1, TryClosed
  <2> QED BY <2>3, <2>4, <2>6 DEF Stream
<1> QED BY <1>4, <1>5

(* The calls of the user. *)
LEMMA StreamUserStep ==
    ASSUME IInv, User
    PROVE  Stream'
<1> USE WinTcpAssumption
<1>1. Shape /\ Stream /\ OneRead /\ OneConnect /\ OneWrite /\ SendClosed /\ Lifetime
  BY DEF IInv, Stream
<1>2. CASE pd_tcp_listen \/ Run \/ pd_tcp_pause
  <2>1. /\ UNCHANGED <<posted, status, PENDING_READ, writes_size, answers, wrClosed, pending,
                       released, sock, port, batch>>
        /\ at' = at \/ (at = "user" /\ at' \in {"post", "poll"})
    BY <1>2 DEF pd_tcp_listen, Run, pd_tcp_pause, Goto, LoopUnchanged, streamVars, kernelVars, loopVars
  <2>2. SamePackets
    BY <2>1, PacketsSame DEF SamePackets
  <2> QED BY <1>1, <2>1, <2>2, StreamUntouched
<1>3. CASE pd_tcp_accept
  <2>1. /\ at = "connection" /\ sock = "none" /\ sock' = "open" /\ status' = "ACTIVE"
        /\ UNCHANGED <<writes_size, answers, wrClosed, pending, released, port, batch, at>>
    BY <1>3 DEF pd_tcp_accept
  <2>2. SamePackets
    BY <2>1, PacketsSame DEF SamePackets
  <2>3. ~PENDING_READ /\ ~Dialing
    BY <1>1, <2>1 DEF Lifetime, Quiet, Dialing
  <2>4. \/ posted' = posted /\ ~PENDING_READ'
        \/ posted' = posted \cup {"read"} /\ PENDING_READ'
    BY <1>1, <1>3, <2>3, RecvShape DEF pd_tcp_accept, Shape
  <2> QED BY <1>1, <2>1, <2>2, <2>3, <2>4, ReceivePosted
<1>4. CASE pd_tcp_resume
  <2>1. /\ sock # "none" /\ at # "data" /\ ~Dialing
        /\ UNCHANGED <<status, writes_size, answers, wrClosed, pending, released, port, batch,
                       at, sock>>
    BY <1>1, <1>4, PacketFacts DEF pd_tcp_resume, Held, loopVars
  <2>2. SamePackets
    BY <2>1, PacketsSame DEF SamePackets
  <2>3. CASE PENDING_READ
    <3>1. UNCHANGED <<PENDING_READ, posted>>
      BY <1>4, <2>3 DEF pd_tcp_resume
    <3> QED BY <1>1, <2>1, <2>2, <3>1, StreamUntouched
  <2>4. CASE ~PENDING_READ
    <3>1. PostRecv(TRUE) \/ AllocFails(TRUE)
      BY <1>4, <2>4 DEF pd_tcp_resume
    <3>2. \/ posted' = posted /\ ~PENDING_READ'
          \/ posted' = posted \cup {"read"} /\ PENDING_READ' /\ sock' # "closed"
      BY <1>1, <2>1, <2>4, <3>1, RecvShape DEF Broken
    <3> QED BY <1>1, <2>1, <2>2, <2>4, <3>2, ReceivePosted
  <2> QED BY <2>3, <2>4
<1>5. CASE pd_tcp_connect
  <2>1. /\ sock = "none" /\ sock' = "connecting" /\ posted' \in {{"connect"}, {}}
        /\ UNCHANGED <<status, PENDING_READ, writes_size, answers, wrClosed, port, at, batch,
                       pending, released>>
    BY <1>5 DEF pd_tcp_connect, streamVars
  <2>2. SamePackets
    BY <2>1, PacketsSame DEF SamePackets
  <2>3. Quiet /\ status = "NONE" /\ ~wrClosed /\ ~pending /\ ~released /\ at \notin {"data", "onclose"}
    BY <1>1, <2>1 DEF Lifetime
  <2>4. /\ ReadPackets' = 0 /\ ConnectPackets' = 0 /\ at' \notin {"data", "early"}
        /\ "read" \notin posted'
    BY <2>1, <2>2, <2>3 DEF Quiet, SamePackets
  <2>5. ~PENDING_READ'
    BY <2>1, <2>3 DEF Quiet
  <2>6. OneRead' /\ OneConnect'
    BY <2>1, <2>3, <2>4, <2>5 DEF OneRead, OneConnect, B
  <2>7. OneWrite'
    BY <1>1, <2>1, <2>2, <2>3, WritesSame DEF Quiet, SamePackets
  <2>8. SendClosed' /\ Lifetime'
    BY <2>1, <2>3 DEF SendClosed, Lifetime
  <2> QED BY <2>6, <2>7, <2>8 DEF Stream
<1>6. CASE pd_tcp_shutdown
  <2>1. /\ status = "ACTIVE" /\ status' = "SHUTDOWN" /\ wrClosed' = (wrClosed \/ writes_size = 0)
        /\ UNCHANGED <<PENDING_READ, writes_size, answers, sock, posted, port, at, batch, pending,
                       released>>
    BY <1>6 DEF pd_tcp_shutdown, loopVars
  <2>2. SamePackets
    BY <2>1, PacketsSame DEF SamePackets
  <2>3. ~Dialing /\ ~Dialing'
    BY <1>1, <2>1, <2>2 DEF OneConnect, Dialing, SamePackets
  <2>4. OneRead' /\ OneConnect'
    BY <1>1, <2>1, <2>2, <2>3 DEF OneRead, OneConnect, SamePackets, B
  <2>5. OneWrite'
    BY <1>1, <2>1, <2>2, WritesSame DEF SamePackets
  <2>6. wrClosed' => writes_size = 0
    BY <1>1, <2>1 DEF SendClosed
  <2>7. SendClosed' /\ Lifetime'
    BY <1>1, <2>1, <2>6 DEF SendClosed, Lifetime
  <2> QED BY <2>4, <2>5, <2>7 DEF Stream
<1>7. ASSUME NEW o \in Ops, WriteAnswered(o) \/ WritePosted(o)
      PROVE  Stream'
  <2>1. /\ answers[o] = 0 /\ o \notin posted /\ WritePackets(o) = 0 /\ sock # "none"
        /\ UNCHANGED <<status, PENDING_READ, wrClosed, sock, port, at, batch, pending, released>>
    BY <1>1, <1>7, PacketFacts DEF WriteAnswered, WritePosted, Fresh, Held, kernelVars, loopVars
  <2>2. SamePackets
    BY <2>1, PacketsSame DEF SamePackets
  <2>3. "read" \in posted' <=> "read" \in posted
    BY <1>7 DEF WriteAnswered, WritePosted, kernelVars
  <2>4. "connect" \in posted' <=> "connect" \in posted
    BY <1>7 DEF WriteAnswered, WritePosted, kernelVars
  <2>5. Dialing' <=> Dialing
    BY <2>1, <2>2, <2>4 DEF Dialing, SamePackets
  <2>6. OneRead' /\ OneConnect'
    BY <1>1, <2>1, <2>2, <2>3, <2>4, <2>5 DEF OneRead, OneConnect, SamePackets, B
  <2>7. CASE WriteAnswered(o)
    <3>1. /\ UNCHANGED <<writes_size, posted>>
          /\ answers'[o] = 1 /\ \A q \in Ops \ {o} : answers'[q] = answers[q]
      BY <1>1, <2>1, <2>7 DEF WriteAnswered, Answer, kernelVars, Shape
    <3>2. UnderWay' = UnderWay
      BY <2>2, <3>1 DEF UnderWay, SamePackets
    <3>3. writes_size' = Cardinality(UnderWay') + B(at' = "written")
      BY <1>1, <2>1, <3>1, <3>2 DEF OneWrite
    <3>4. \A q \in Ops : (answers[q] + WritePackets(q) + B(q \in posted) <= 1)'
      BY <1>1, <2>1, <2>2, <3>1 DEF OneWrite, SamePackets, B
    <3>5. OneWrite'
      BY <3>3, <3>4 DEF OneWrite
    <3>6. Quiet => Quiet'
      BY <2>1, <2>2, <3>1 DEF Quiet, SamePackets
    <3>7. SendClosed' /\ Lifetime'
      BY <1>1, <2>1, <3>1, <3>6 DEF SendClosed, Lifetime
    <3> QED BY <2>6, <3>5, <3>7 DEF Stream
  <2>8. CASE WritePosted(o)
    <3>1. /\ status = "ACTIVE" /\ sock = "open" /\ posted' = posted \cup {o}
          /\ writes_size' = writes_size + 1 /\ answers' = answers
      BY <2>8 DEF WritePosted
    <3>2. UnderWay' = UnderWay \cup {o} /\ o \notin UnderWay
      BY <2>1, <2>2, <3>1 DEF UnderWay, SamePackets
    <3>3. Cardinality(UnderWay') = Cardinality(UnderWay) + 1
      BY <3>2, OneMoreWrite
    <3>4. B(at = "written") \in Nat /\ B(at' = "written") = B(at = "written")
      BY <2>1 DEF B
    <3>5. writes_size' = Cardinality(UnderWay') + B(at' = "written")
      BY <1>1, <3>1, <3>3, <3>4, UnderWayFinite DEF OneWrite
    <3>6. \A q \in Ops : (answers[q] + WritePackets(q) + B(q \in posted) <= 1)'
      BY <1>1, <2>1, <2>2, <3>1 DEF OneWrite, SamePackets, B
    <3>7. OneWrite'
      BY <3>5, <3>6 DEF OneWrite
    <3>8. SendClosed' /\ Lifetime'
      BY <1>1, <2>1, <3>1 DEF SendClosed, Lifetime
    <3> QED BY <2>6, <3>7, <3>8 DEF Stream
  <2> QED BY <1>7, <2>7, <2>8
<1> QED BY <1>2, <1>3, <1>4, <1>5, <1>6, <1>7, StreamClose DEF User

(* An operation that completes becomes a packet. *)
LEMMA StreamKernelStep ==
    ASSUME IInv, PeerSends \/ PeerEnds \/ Kernel \/ AcceptDone
    PROVE  Stream'
<1> USE WinTcpAssumption
<1>1. Shape /\ Stream /\ OneRead /\ OneConnect /\ OneWrite /\ SendClosed /\ Lifetime
  BY DEF IInv, Stream
<1>2. CASE PeerSends \/ PeerEnds
  <2>1. /\ UNCHANGED <<posted, status, PENDING_READ, writes_size, answers, wrClosed, pending,
                       released, port, batch, at>>
        /\ sock' = sock \/ {sock, sock'} \cap {"none", "closed"} = {}
    BY <1>2 DEF PeerSends, PeerEnds, KernelUnchanged, streamVars, loopVars
  <2>2. SamePackets
    BY <2>1, PacketsSame DEF SamePackets
  <2> QED BY <1>1, <2>1, <2>2, StreamUntouched
<1>3. CASE AcceptDone
  <2>1. PICK p \in {"accept", "unaccepted"} : port' = Append(port, p)
    BY <1>3 DEF AcceptDone
  <2>2. UNCHANGED <<posted, status, PENDING_READ, writes_size, answers, wrClosed, pending,
                    released, batch, at, sock>>
    BY <1>3 DEF AcceptDone, streamVars, kernelVars, loopVars
  <2>3. p \in AllPackets /\ p \notin StreamPackets
    BY DEF AllPackets, StreamPackets
  <2>4. /\ ReadPackets' = ReadPackets /\ ConnectPackets' = ConnectPackets
        /\ \A o \in Ops : WritePackets(o)' = WritePackets(o)
    BY <1>1, <2>1, <2>2, <2>3, PacketQueued, PacketFacts DEF B, StreamPackets
  <2> QED BY <1>1, <2>2, <2>4, StreamUntouched DEF SamePackets
<1>4. ASSUME NEW o, NEW p, Completes(o, p)
      PROVE  /\ o \in posted /\ posted' = posted \ {o} /\ port' = Append(port, p)
             /\ UNCHANGED <<status, PENDING_READ, writes_size, answers, wrClosed, pending,
                            released, batch, at>>
             /\ sock \notin {"none", "closed"} /\ ~pending /\ ~released
  BY <1>1, <1>4 DEF Completes, KernelUnchanged, streamVars, loopVars, Lifetime, Quiet
<1>5. CASE ReceiveDone
  <2>1. PICK p \in {"data", "zero"} : Completes("read", p)
    BY <1>5 DEF ReceiveDone
  <2>2. sock' = sock
    BY <1>5 DEF ReceiveDone
  <2>3. p \in AllPackets /\ p \notin Ops
    BY DEF AllPackets, StreamPackets
  <2>4. /\ ReadPackets' = ReadPackets + 1 /\ ConnectPackets' = ConnectPackets
        /\ \A o \in Ops : WritePackets(o)' = WritePackets(o)
    BY <1>1, <1>4, <2>1, <2>3, PacketQueued, PacketFacts DEF B
  <2>5. Dialing' <=> Dialing
    BY <1>4, <2>1, <2>4 DEF Dialing
  <2>6. "read" \in posted /\ "read" \notin posted'
    BY <1>4, <2>1
  <2>7. OneRead'
    BY <1>1, <1>4, <2>1, <2>4, <2>5, <2>6, PacketFacts DEF OneRead, B
  <2>8. OneConnect'
    BY <1>1, <1>4, <2>1, <2>2, <2>4, <2>5 DEF OneConnect, B
  <2>9. OneWrite'
    BY <1>1, <1>4, <2>1, <2>4, WritesSame
  <2>10. SendClosed' /\ Lifetime'
    BY <1>1, <1>4, <2>1, <2>2 DEF SendClosed, Lifetime
  <2> QED BY <2>7, <2>8, <2>9, <2>10 DEF Stream
<1>6. ASSUME NEW o \in Ops, SendDone(o)
      PROVE  Stream'
  <2>1. Completes(o, o) /\ sock' = sock
    BY <1>6 DEF SendDone
  <2>2. o \in AllPackets /\ o \notin {"data", "zero", "connected", "refused"}
    BY DEF AllPackets, StreamPackets
  <2>3. /\ ReadPackets' = ReadPackets /\ ConnectPackets' = ConnectPackets
        /\ \A q : WritePackets(q)' = WritePackets(q) + B(o = q)
    BY <1>1, <1>4, <2>1, <2>2, PacketQueued, PacketFacts DEF B
  <2>4. /\ "read" \in posted' <=> "read" \in posted
        /\ "connect" \in posted' <=> "connect" \in posted
    BY <1>4, <2>1
  <2>5. Dialing' <=> Dialing
    BY <1>4, <2>1, <2>3, <2>4 DEF Dialing
  <2>6. OneRead' /\ OneConnect'
    BY <1>1, <1>4, <2>1, <2>3, <2>4, <2>5 DEF OneRead, OneConnect, B
  <2>7. UnderWay' = UnderWay
    BY <1>1, <1>4, <2>1, <2>3, PacketFacts DEF UnderWay, B
  <2>8. writes_size' = Cardinality(UnderWay') + B(at' = "written")
    BY <1>1, <1>4, <2>1, <2>7 DEF OneWrite
  <2>9. \A q \in Ops : (answers[q] + WritePackets(q) + B(q \in posted) <= 1)'
    <3> SUFFICES ASSUME NEW q \in Ops PROVE (answers[q] + WritePackets(q) + B(q \in posted) <= 1)'
      OBVIOUS
    <3>1. /\ WritePackets(q) \in Nat /\ answers[q] \in Nat
          /\ answers[q] + WritePackets(q) + B(q \in posted) <= 1
      BY <1>1, PacketFacts DEF OneWrite, Shape
    <3>2. answers'[q] = answers[q] /\ WritePackets(q)' = WritePackets(q) + B(o = q)
      BY <1>4, <2>1, <2>3
    <3>3. CASE q = o
      <4>1. q \in posted /\ q \notin posted'
        BY <1>4, <2>1, <3>3
      <4> QED BY <3>1, <3>2, <3>3, <4>1 DEF B
    <3>4. CASE q # o
      <4>1. q \in posted' <=> q \in posted
        BY <1>4, <2>1, <3>4
      <4> QED BY <3>1, <3>2, <3>4, <4>1 DEF B
    <3> QED BY <3>3, <3>4
  <2>10. OneWrite'
    BY <2>8, <2>9 DEF OneWrite
  <2>11. SendClosed' /\ Lifetime'
    BY <1>1, <1>4, <2>1 DEF SendClosed, Lifetime
  <2> QED BY <2>6, <2>10, <2>11 DEF Stream
<1>7. CASE ConnectDone
  <2>1. PICK p \in {"connected", "refused"} : Completes("connect", p)
    BY <1>7 DEF ConnectDone
  <2>2. sock' \in {"open", "refused"}
    BY <1>7 DEF ConnectDone
  <2>3. p \in AllPackets /\ p \notin Ops
    BY DEF AllPackets, StreamPackets
  <2>4. /\ ReadPackets' = ReadPackets /\ ConnectPackets' = ConnectPackets + 1
        /\ \A o \in Ops : WritePackets(o)' = WritePackets(o)
    BY <1>1, <1>4, <2>1, <2>3, PacketQueued, PacketFacts DEF B
  <2>5. Dialing
    BY <1>4, <2>1 DEF Dialing
  <2>6. "connect" \in posted /\ "connect" \notin posted'
    BY <1>4, <2>1
  <2>7. "read" \in posted' <=> "read" \in posted
    BY <1>4, <2>1
  <2>8. OneRead'
    BY <1>1, <1>4, <2>1, <2>4, <2>5, <2>7 DEF OneRead, B
  <2>9. OneConnect'
    BY <1>1, <1>4, <2>1, <2>2, <2>4, <2>5, <2>6, PacketFacts DEF OneConnect, B
  <2>10. OneWrite'
    BY <1>1, <1>4, <2>1, <2>4, WritesSame
  <2>11. SendClosed' /\ Lifetime'
    BY <1>1, <1>4, <2>1, <2>2 DEF SendClosed, Lifetime
  <2> QED BY <2>8, <2>9, <2>10, <2>11 DEF Stream
<1> QED BY <1>2, <1>3, <1>5, <1>6, <1>7 DEF Kernel

(* The packets the handlers take. *)
LEMMA StreamPacketStep ==
    ASSUME IInv, Connected \/ Refused \/ ReadData \/ ReadZero \/ \E o \in Ops : Written(o)
    PROVE  Stream'
<1> USE WinTcpAssumption
<1>1. Shape /\ Stream /\ OneRead /\ OneConnect /\ OneWrite /\ SendClosed /\ Lifetime
  BY DEF IInv, Stream
<1>2. ASSUME NEW p \in StreamPackets, Take(p)
      PROVE  /\ ReadPackets' = ReadPackets - B(p \in {"data", "zero"})
             /\ ConnectPackets' = ConnectPackets - B(p \in {"connected", "refused"})
             /\ \A o : WritePackets(o)' = WritePackets(o) - B(p = o)
             /\ ReadPackets' \in Nat /\ ConnectPackets' \in Nat
             /\ \A o : WritePackets(o)' \in Nat
             /\ ReadPackets \in Nat /\ ConnectPackets \in Nat
             /\ \A o : WritePackets(o) \in Nat
             /\ released' = released
  BY <1>1, <1>2, PacketTaken, PacketFacts DEF Take
<1>3. CASE Connected \/ Refused
  <2>1. PICK p \in {"connected", "refused"} : Take(p)
    BY <1>3 DEF Connected, Refused
  <2>2. p \in StreamPackets /\ p \notin Ops
    BY DEF StreamPackets
  <2>3. /\ ReadPackets' = ReadPackets /\ ConnectPackets' = ConnectPackets - 1
        /\ \A o \in Ops : WritePackets(o)' = WritePackets(o)
        /\ ConnectPackets' \in Nat /\ ConnectPackets \in Nat /\ released' = released
    BY <1>2, <2>1, <2>2 DEF B
  <2>4. Dialing
    BY <2>3 DEF Dialing
  <2>5. /\ status = "NONE" /\ sock \notin {"none", "closed"} /\ ~pending /\ ~released
        /\ ~wrClosed
    BY <1>1, <2>4 DEF OneConnect, Lifetime, SendClosed
  <2>6. ~PENDING_READ
    BY <1>1, <2>4 DEF OneConnect
  <2>7. "connect" \notin posted /\ ConnectPackets' = 0 /\ "read" \notin posted /\ ReadPackets' = 0
    BY <1>1, <2>3, <2>6, PacketFacts DEF OneConnect, OneRead, B
  <2>8. /\ at = "events" /\ UNCHANGED <<writes_size, answers, sock, wrClosed, pending>>
    BY <1>3 DEF Connected, Refused, Goto, streamVars, kernelVars
  <2>9. \/ at' = "early" /\ posted' = posted /\ PENDING_READ' = PENDING_READ /\ status' = status
        \/ /\ at' = "connect" /\ posted' = posted /\ PENDING_READ' = PENDING_READ
           /\ status' = status
        \/ /\ at' = "connect" /\ posted' = posted \cup {"read"} /\ PENDING_READ' = TRUE
           /\ status' = "ACTIVE"
    <3>1. CASE Refused
      BY <3>1 DEF Refused, Goto, streamVars, kernelVars
    <3>2. CASE Connected
      <4>1. CASE AllocFails(READING) /\ at' = "early"
        BY <3>2, <4>1 DEF Connected, AllocFails
      <4>2. CASE /\ PostRecv(READING) /\ at' = IF posted' = posted THEN "early" ELSE "connect"
        <5>1. CASE UNCHANGED <<PENDING_READ, posted>>
          BY <3>2, <4>2, <5>1 DEF Connected
        <5>2. CASE PENDING_READ' = TRUE /\ posted' = posted \cup {"read"}
          <6>1. posted' # posted
            BY <2>7, <5>2
          <6> QED BY <3>2, <4>2, <5>2, <6>1 DEF Connected
        <5> QED BY <4>2, <5>1, <5>2 DEF PostRecv
      <4> QED BY <3>2, <4>1, <4>2 DEF Connected
    <3> QED BY <1>3, <3>1, <3>2
  <2>10. \/ at' = "early" /\ posted' = posted /\ ~PENDING_READ' /\ status' = "NONE"
         \/ at' = "connect" /\ posted' = posted /\ ~PENDING_READ' /\ status' = "NONE"
         \/ /\ at' = "connect" /\ posted' = posted \cup {"read"} /\ PENDING_READ'
            /\ status' = "ACTIVE"
    BY <2>5, <2>6, <2>9
  <2>11. OneRead'
    BY <2>7, <2>10 DEF OneRead, B
  <2>12. OneConnect'
    BY <2>5, <2>7, <2>8, <2>10 DEF OneConnect, Dialing, B
  <2>13. OneWrite'
    BY <1>1, <2>3, <2>8, <2>10, WritesSame
  <2>14. SendClosed' /\ Lifetime'
    BY <2>3, <2>5, <2>8, <2>10 DEF SendClosed, Lifetime
  <2> QED BY <2>11, <2>12, <2>13, <2>14 DEF Stream
<1>4. CASE ReadData \/ ReadZero
  <2>1. PICK p \in {"data", "zero"} : Take(p)
    BY <1>4 DEF ReadData, ReadZero
  <2>2. p \in StreamPackets /\ p \notin Ops
    BY DEF StreamPackets
  <2>3. /\ ReadPackets' = ReadPackets - 1 /\ ConnectPackets' = ConnectPackets
        /\ \A o \in Ops : WritePackets(o)' = WritePackets(o)
        /\ ReadPackets' \in Nat /\ ReadPackets \in Nat /\ released' = released
    BY <1>2, <2>1, <2>2 DEF B
  <2>4. PENDING_READ /\ ReadPackets' = 0 /\ "read" \notin posted
    BY <1>1, <2>3 DEF OneRead, B
  <2>5. ~Dialing /\ sock \notin {"none", "closed"} /\ ~pending /\ ~released
    BY <1>1, <2>4 DEF OneConnect, Lifetime, Quiet
  <2>6. /\ at = "events" /\ at' \in {"data", "events"}
        /\ UNCHANGED <<writes_size, answers, posted, wrClosed>>
    BY <1>4 DEF ReadData, ReadZero, Goto, kernelVars
  <2>7. ~PENDING_READ'
    BY <1>4 DEF ReadData, ReadZero
  <2>8. ~Dialing'
    BY <2>3, <2>5, <2>6 DEF Dialing
  <2>9. OneRead'
    BY <2>4, <2>6, <2>7, <2>8 DEF OneRead, B
  <2>10. OneConnect'
    BY <1>1, <2>3, <2>6, <2>8 DEF OneConnect, B
  <2>11. OneWrite'
    BY <1>1, <2>3, <2>6, WritesSame
  <2>12. CASE ReadData
    <3>1. UNCHANGED <<status, sock, pending>>
      BY <2>12 DEF ReadData, kernelVars
    <3>2. SendClosed' /\ Lifetime'
      BY <1>1, <2>3, <2>5, <2>6, <3>1 DEF SendClosed, Lifetime
    <3> QED BY <2>9, <2>10, <2>11, <3>2 DEF Stream
  <2>13. CASE ReadZero
    <3>1. Close(FALSE) /\ at' = at
      BY <2>13 DEF ReadZero, Goto
    <3>2. status' = "CLOSED"
      BY <3>1 DEF Close
    <3>3. SendClosed'
      BY <1>1, <2>6, <3>2 DEF SendClosed
    <3>4. ASSUME writes_size = 0
          PROVE  Quiet'
      <4>1. \A o \in Ops : o \notin posted /\ WritePackets(o) = 0
        BY <1>1, <2>6, <3>4, NoWriteUnderWay DEF B
      <4>2. ConnectPackets = 0 /\ "connect" \notin posted
        BY <1>1, <2>5, PacketFacts DEF Dialing
      <4>3. posted = {}
        BY <1>1, <2>4, <4>1, <4>2 DEF Shape
      <4> QED BY <2>3, <2>4, <2>6, <2>7, <3>1, <3>4, <4>1, <4>2, <4>3 DEF Quiet
    <3>5. Lifetime'
      <4>1. CASE status = "CLOSED"
        <5>1. UNCHANGED <<sock, pending>>
          BY <3>1, <4>1 DEF Close
        <5> QED BY <2>3, <2>5, <2>6, <3>1, <5>1 DEF Lifetime
      <4>2. CASE status # "CLOSED"
        <5>1. pd__tcp_try_close(writes_size, FALSE) /\ writes_size \in Nat
          BY <1>1, <3>1, <4>2 DEF Close, Shape
        <5> QED BY <1>1, <2>3, <2>5, <3>1, <3>2, <3>4, <5>1, TryClosed
      <4> QED BY <4>1, <4>2
    <3> QED BY <2>9, <2>10, <2>11, <3>3, <3>5 DEF Stream
  <2> QED BY <1>4, <2>12, <2>13
<1>5. ASSUME NEW o \in Ops, Written(o)
      PROVE  Stream'
  <2>1. /\ Take(o) /\ at = "events" /\ at' = "written"
        /\ UNCHANGED <<status, PENDING_READ, writes_size, posted, sock, wrClosed, pending>>
    BY <1>5 DEF Written, Goto, kernelVars
  <2>2. o \in StreamPackets /\ o \notin {"data", "zero", "connected", "refused"}
    BY DEF StreamPackets
  <2>3. /\ ReadPackets' = ReadPackets /\ ConnectPackets' = ConnectPackets
        /\ \A q \in Ops : WritePackets(q)' = WritePackets(q) - B(o = q)
        /\ \A q \in Ops : WritePackets(q) \in Nat /\ WritePackets(q)' \in Nat
        /\ released' = released
    BY <1>2, <2>1, <2>2 DEF B
  <2>4. WritePackets(o) = 1 /\ WritePackets(o)' = 0 /\ o \notin posted /\ answers[o] = 0
    <3>1. WritePackets(o)' = WritePackets(o) - 1
      BY <2>3 DEF B
    <3>2. answers[o] \in Nat /\ answers[o] + WritePackets(o) + B(o \in posted) <= 1
      BY <1>1 DEF OneWrite, Shape
    <3> QED BY <2>3, <3>1, <3>2 DEF B
  <2>5. answers'[o] = 1 /\ \A q \in Ops \ {o} : answers'[q] = answers[q]
    BY <1>1, <1>5, <2>4 DEF Written, Answer, Shape
  <2>6. \A q \in Ops \ {o} : WritePackets(q)' = WritePackets(q)
    BY <2>3 DEF B
  <2>7. UnderWay' = UnderWay \ {o} /\ o \in UnderWay
    BY <2>1, <2>4, <2>6 DEF UnderWay
  <2>8. Cardinality(UnderWay') = Cardinality(UnderWay) - 1
    BY <2>7, OneWriteLess
  <2>9. writes_size' = Cardinality(UnderWay') + B(at' = "written")
    <3>1. writes_size = Cardinality(UnderWay)
      BY <1>1, <2>1, UnderWayFinite DEF OneWrite, B
    <3> QED BY <2>1, <2>8, <3>1, UnderWayFinite DEF B
  <2>10. \A q \in Ops : (answers[q] + WritePackets(q) + B(q \in posted) <= 1)'
    <3>1. (answers[o] + WritePackets(o) + B(o \in posted) <= 1)'
      BY <2>1, <2>4, <2>5 DEF B
    <3>2. \A q \in Ops \ {o} : (answers[q] + WritePackets(q) + B(q \in posted) <= 1)'
      BY <1>1, <2>1, <2>5, <2>6 DEF OneWrite, B
    <3> QED BY <3>1, <3>2
  <2>11. OneWrite'
    BY <2>9, <2>10 DEF OneWrite
  <2>12. Dialing' <=> Dialing
    BY <2>1, <2>3 DEF Dialing
  <2>13. OneRead' /\ OneConnect'
    BY <1>1, <2>1, <2>3, <2>12 DEF OneRead, OneConnect, B
  <2>14. sock \notin {"none", "closed"} /\ ~pending /\ ~released
    BY <1>1, <2>4 DEF Lifetime, Quiet
  <2>15. SendClosed' /\ Lifetime'
    BY <1>1, <2>1, <2>3, <2>14 DEF SendClosed, Lifetime
  <2> QED BY <2>11, <2>13, <2>15 DEF Stream
<1> QED BY <1>3, <1>4, <1>5

(* The other steps of the loop. *)
LEMMA StreamLoopStep ==
    ASSUME IInv, Loop
    PROVE  Stream'
<1> USE WinTcpAssumption
<1>1. Shape /\ Stream /\ OneRead /\ OneConnect /\ OneWrite /\ SendClosed /\ Lifetime /\ BatchPlace
  BY DEF IInv, Stream
<1>2. CASE PollReturns
  <2>1. /\ at = "poll" /\ at' = "events" /\ batch' = port /\ port' = <<>> /\ batch = <<>>
        /\ UNCHANGED <<posted, status, PENDING_READ, writes_size, answers, wrClosed, pending,
                       released, sock>>
    BY <1>1, <1>2 DEF PollReturns, Goto, streamVars, kernelVars, BatchPlace
  <2>2. SamePackets
    BY <1>1, <2>1, PacketsFetched DEF SamePackets
  <2> QED BY <1>1, <2>1, <2>2, StreamUntouched
<1>3. CASE Accepted \/ AcceptFailed
  <2>1. PICK p \in {"accept", "unaccepted"} : Take(p)
    BY <1>3 DEF Accepted, AcceptFailed
  <2>2. /\ at = "events" /\ at' \in {"connection", "post"} /\ released' = released
        /\ UNCHANGED <<posted, status, PENDING_READ, writes_size, answers, wrClosed, pending, sock>>
    BY <1>3, <2>1 DEF Accepted, AcceptFailed, Goto, Take, streamVars, kernelVars
  <2>3. p \notin StreamPackets
    BY DEF StreamPackets
  <2>4. SamePackets
    BY <1>1, <2>1, <2>3, PacketTaken, PacketFacts DEF Take, B, SamePackets, StreamPackets
  <2> QED BY <1>1, <2>2, <2>4, StreamUntouched
<1>4. CASE \/ LoopExits \/ PostAccept \/ PostEnds \/ ListenFails \/ ConnectReturns \/ EventsEnd
           \/ OnCloseReturns \/ ClosesEnd \/ IterationEnds
  <2>1. UNCHANGED <<posted, status, PENDING_READ, writes_size, answers, wrClosed, pending, released,
                    sock, port, batch>>
    BY <1>4 DEF LoopExits, PostAccept, PostEnds, ListenFails, ConnectReturns, EventsEnd, OnCloseReturns,
         ClosesEnd, IterationEnds, LoopUnchanged, streamVars, kernelVars, loopVars
  <2>2. /\ at \notin {"early", "written"}
        /\ at' \in {"user", "post", "poll", "events", "connection", "closes", "after"}
    BY <1>4 DEF LoopExits, PostAccept, PostEnds, ListenFails, ConnectReturns, EventsEnd, OnCloseReturns,
         ClosesEnd, IterationEnds, Goto
  <2>3. SamePackets
    BY <2>1, PacketsSame DEF SamePackets
  <2> QED BY <1>1, <2>1, <2>2, <2>3, StreamUntouched
<1>5. CASE EarlyReturns
  <2>1. /\ at = "early" /\ at' = "connect" /\ status' = "ACTIVE"
        /\ UNCHANGED <<posted, PENDING_READ, writes_size, answers, wrClosed, pending, released,
                       sock, port, batch>>
    BY <1>5 DEF EarlyReturns, Goto, kernelVars, loopVars
  <2>2. SamePackets
    BY <2>1, PacketsSame DEF SamePackets
  <2>3. Dialing
    BY <2>1 DEF Dialing
  <2>4. status = "NONE" /\ sock \notin {"none", "closed"} /\ ~wrClosed /\ ~pending /\ ~released
    BY <1>1, <2>3 DEF OneConnect, SendClosed, Lifetime
  <2>5. ConnectPackets = 0 /\ "connect" \notin posted
    BY <1>1, <2>1, PacketFacts DEF OneConnect, B
  <2>6. OneRead' /\ OneConnect'
    BY <1>1, <2>1, <2>2, <2>5 DEF OneRead, OneConnect, Dialing, SamePackets, B
  <2>7. OneWrite'
    BY <1>1, <2>1, <2>2, WritesSame DEF SamePackets
  <2>8. SendClosed' /\ Lifetime'
    BY <2>1, <2>4 DEF SendClosed, Lifetime
  <2> QED BY <2>6, <2>7, <2>8 DEF Stream
<1>6. CASE DataReturns
  <2>1. /\ at = "data" /\ at' = "events"
        /\ UNCHANGED <<status, writes_size, answers, wrClosed, released, port, batch>>
    BY <1>6 DEF DataReturns, Goto
  <2>2. SamePackets
    BY <2>1, PacketsSame DEF SamePackets
  <2>3. ~PENDING_READ /\ ~Dialing /\ ~released /\ sock # "none"
    BY <1>1, <2>1 DEF OneRead, Lifetime
  <2>4. CASE status = "CLOSED"
    <3>1. pd__tcp_try_close(writes_size, PENDING_READ) /\ UNCHANGED <<PENDING_READ, posted>>
      BY <1>6, <2>4 DEF DataReturns
    <3>2. ~Dialing'
      BY <2>1, <2>2, <2>3, <3>1 DEF Dialing, SamePackets
    <3>3. OneRead' /\ OneConnect'
      BY <1>1, <2>1, <2>2, <3>1, <3>2 DEF OneRead, OneConnect, SamePackets, B
    <3>4. OneWrite' /\ SendClosed'
      BY <1>1, <2>1, <2>2, <3>1, WritesSame DEF SamePackets, SendClosed
    <3>5. ASSUME writes_size = 0
          PROVE  Quiet'
      <4>1. \A o \in Ops : o \notin posted /\ WritePackets(o) = 0
        BY <1>1, <2>1, <3>5, NoWriteUnderWay DEF B
      <4>2. ReadPackets = 0 /\ "read" \notin posted
        BY <1>1, <2>3, PacketFacts DEF OneRead, B
      <4>3. ConnectPackets = 0 /\ "connect" \notin posted
        BY <1>1, <2>3, PacketFacts DEF Dialing
      <4>4. posted = {}
        BY <1>1, <4>1, <4>2, <4>3 DEF Shape
      <4> QED BY <2>1, <2>2, <2>3, <3>1, <3>5, <4>1, <4>2, <4>3, <4>4 DEF Quiet, SamePackets
    <3>6. Lifetime'
      <4>1. writes_size \in Nat /\ PENDING_READ \in BOOLEAN /\ (sock = "closed" => writes_size = 0)
        BY <1>1 DEF Shape, Lifetime, Quiet
      <4> QED BY <1>1, <2>1, <2>3, <2>4, <3>1, <3>5, <4>1, TryClosed
    <3> QED BY <3>3, <3>4, <3>6 DEF Stream
  <2>5. CASE status # "CLOSED"
    <3>1. UNCHANGED <<sock, pending>> /\ sock # "closed"
      BY <1>1, <1>6, <2>5 DEF DataReturns, Lifetime
    <3>2. \/ posted' = posted /\ ~PENDING_READ'
          \/ posted' = posted \cup {"read"} /\ PENDING_READ'
      <4>1. CASE READING
        <5>1. PostRecv(READING) \/ AllocFails(READING)
          BY <1>6, <2>5, <4>1 DEF DataReturns
        <5> QED BY <1>1, <2>3, <5>1, RecvShape DEF Shape
      <4>2. CASE ~READING
        BY <1>6, <2>3, <2>5, <4>2 DEF DataReturns
      <4> QED BY <4>1, <4>2
    <3> QED BY <1>1, <2>1, <2>2, <2>3, <3>1, <3>2, ReceivePosted
  <2> QED BY <2>4, <2>5
<1>7. CASE WrittenReturns
  <2>1. /\ at = "written" /\ at' = "events" /\ writes_size' = writes_size - 1
        /\ wrClosed' = (wrClosed \/ (writes_size = 1 /\ status = "SHUTDOWN"))
        /\ UNCHANGED <<status, PENDING_READ, answers, posted, released, port, batch>>
    BY <1>7 DEF WrittenReturns, Goto
  <2>2. SamePackets
    BY <2>1, PacketsSame DEF SamePackets
  <2>3. sock \notin {"none", "closed"} /\ ~pending /\ ~released
    BY <1>1, <2>1 DEF Lifetime, Quiet
  <2>4. Dialing' <=> Dialing
    BY <2>1, <2>2 DEF Dialing, SamePackets
  <2>5. OneRead' /\ (sock' \notin {"none", "closed"} \/ status = "CLOSED" => OneConnect')
    BY <1>1, <2>1, <2>2, <2>4 DEF OneRead, OneConnect, SamePackets, B
  <2>6. writes_size = Cardinality(UnderWay) + 1 /\ Cardinality(UnderWay) \in Nat
    BY <1>1, <2>1, UnderWayFinite DEF OneWrite, B
  <2>7. UnderWay' = UnderWay
    BY <2>1, <2>2 DEF UnderWay, SamePackets
  <2>8. writes_size' = Cardinality(UnderWay') + B(at' = "written")
    BY <2>1, <2>6, <2>7 DEF B
  <2>9. \A q \in Ops : (answers[q] + WritePackets(q) + B(q \in posted) <= 1)'
    BY <1>1, <2>1, <2>2 DEF OneWrite, SamePackets, B
  <2>10. OneWrite'
    BY <2>8, <2>9 DEF OneWrite
  <2>11. ~wrClosed
    BY <1>1, <2>6 DEF SendClosed
  <2>12. wrClosed' => writes_size = 1 /\ status = "SHUTDOWN"
    BY <2>1, <2>11
  <2>13. SendClosed'
    BY <2>1, <2>12 DEF SendClosed
  <2>14. CASE status = "CLOSED"
    <3>1. pd__tcp_try_close(writes_size - 1, PENDING_READ)
      BY <1>7, <2>14 DEF WrittenReturns
    <3>2. ASSUME writes_size - 1 = 0, ~PENDING_READ
          PROVE  Quiet'
      <4>1. \A o \in Ops : o \notin posted /\ WritePackets(o) = 0
        BY <1>1, <2>1, <2>6, <3>2, NoWriteUnderWay DEF B
      <4>2. ReadPackets = 0 /\ "read" \notin posted
        BY <1>1, <3>2, PacketFacts DEF OneRead, B
      <4>3. ConnectPackets = 0 /\ "connect" \notin posted
        BY <1>1, <2>14, PacketFacts DEF OneConnect, Dialing
      <4>4. posted = {}
        BY <1>1, <4>1, <4>2, <4>3 DEF Shape
      <4>5. writes_size' = 0
        BY <2>1, <3>2
      <4> QED BY <2>1, <2>2, <3>2, <4>1, <4>2, <4>3, <4>4, <4>5 DEF Quiet, SamePackets
    <3>3. Lifetime'
      <4>1. writes_size - 1 \in Nat /\ PENDING_READ \in BOOLEAN
        BY <1>1, <2>6 DEF Shape
      <4> QED BY <1>1, <2>1, <2>3, <2>14, <3>1, <3>2, <4>1, TryClosed
    <3> QED BY <2>5, <2>10, <2>13, <2>14, <3>3 DEF Stream
  <2>15. CASE status # "CLOSED"
    <3>1. UNCHANGED <<sock, pending>>
      BY <1>7, <2>15 DEF WrittenReturns
    <3>2. Lifetime'
      BY <2>1, <2>3, <3>1 DEF Lifetime
    <3> QED BY <2>3, <2>5, <2>10, <2>13, <3>1, <3>2 DEF Stream
  <2> QED BY <2>14, <2>15
<1>8. CASE OnClose
  <2>1. /\ pending /\ ~pending' /\ released' /\ at = "closes" /\ at' = "onclose"
    BY <1>8 DEF OnClose, Goto
  <2>2. UNCHANGED <<posted, status, PENDING_READ, writes_size, answers, wrClosed, sock, port, batch>>
    BY <1>8 DEF OnClose, streamVars, kernelVars
  <2>3. SamePackets
    BY <2>2, PacketsSame DEF SamePackets
  <2>4. Dialing' <=> Dialing
    BY <2>1, <2>2, <2>3 DEF Dialing, SamePackets
  <2>5. OneRead' /\ OneConnect'
    BY <1>1, <2>1, <2>2, <2>3, <2>4 DEF OneRead, OneConnect, SamePackets, B
  <2>6. OneWrite' /\ SendClosed'
    BY <1>1, <2>1, <2>2, <2>3, WritesSame DEF SamePackets, SendClosed
  <2>7. sock = "closed" /\ Quiet /\ status = "CLOSED"
    BY <1>1, <2>1 DEF Lifetime
  <2>8. Quiet'
    BY <2>1, <2>2, <2>3, <2>7 DEF Quiet, SamePackets
  <2>9. Lifetime'
    BY <2>1, <2>2, <2>7, <2>8 DEF Lifetime
  <2> QED BY <2>5, <2>6, <2>9 DEF Stream
<1> QED BY <1>2, <1>3, <1>4, <1>5, <1>6, <1>7, <1>8, StreamPacketStep DEF Loop
-----------------------------------------------------------------------------
(* The count of the loop.                                                  *)

(* Steps that neither open nor release anything. *)
LEMMA CountSame ==
    ASSUME Counted, UNCHANGED <<refs, released>>,
           server' = "listening" <=> server = "listening", sock' = "none" <=> sock = "none",
           at' = "onclose" <=> at = "onclose"
    PROVE  Counted'
BY DEF Counted, B

(* ctx->refs follows the server and the stream. *)
LEMMA CountStep ==
    ASSUME IInv, Next
    PROVE  Counted'
<1>1. Shape /\ Lifetime /\ Counted
  BY DEF IInv, Stream
<1>2. CASE pd_tcp_accept \/ pd_tcp_connect
  <2>1. /\ sock = "none" /\ sock' # "none" /\ refs' = refs + 1
        /\ UNCHANGED <<server, at, released>>
    BY <1>2 DEF pd_tcp_accept, pd_tcp_connect, serverVars
  <2>2. ~released
    BY <1>1, <2>1 DEF Lifetime
  <2> QED BY <1>1, <2>1, <2>2 DEF Counted, B
<1>3. CASE PostEnds
  <2>1. UNCHANGED <<sock, released>> /\ at = "post" /\ at' # "onclose"
    BY <1>3 DEF PostEnds, Goto, kernelVars
  <2>2. \/ server = "posting" /\ server' = "listening" /\ refs' = refs + 1
        \/ UNCHANGED <<server, refs>>
    BY <1>3 DEF PostEnds
  <2> QED BY <1>1, <2>1, <2>2 DEF Counted, B
<1>4. CASE OnClose
  <2>1. released' /\ pending /\ at' = "onclose"
    BY <1>4 DEF OnClose, Goto
  <2>2. UNCHANGED <<sock, server, refs>>
    BY <1>4 DEF OnClose, serverVars, kernelVars
  <2>3. ~released /\ sock # "none"
    BY <1>1, <2>1 DEF Lifetime
  <2> QED BY <1>1, <2>1, <2>2, <2>3 DEF Counted, B
<1>5. CASE OnCloseReturns
  <2>1. at = "onclose" /\ at' = "closes" /\ refs' = refs - 1 /\ UNCHANGED <<sock, server, released>>
    BY <1>5 DEF OnCloseReturns, Goto, serverVars, kernelVars
  <2>2. released /\ sock # "none"
    BY <1>1, <2>1 DEF Lifetime
  <2> QED BY <1>1, <2>1, <2>2 DEF Counted, B
<1>6. CASE \/ pd_tcp_listen \/ pd_tcp_close \/ pd_tcp_shutdown \/ pd_tcp_pause \/ pd_tcp_resume \/ Run
           \/ \E o \in Ops : WriteAnswered(o) \/ WritePosted(o)
  <2>1. UNCHANGED <<refs, released>> /\ (server' = "listening" <=> server = "listening")
    BY <1>6 DEF pd_tcp_listen, pd_tcp_close, pd_tcp_shutdown, pd_tcp_pause, pd_tcp_resume, Run,
         WriteAnswered, WritePosted, LoopUnchanged, serverVars, loopVars
  <2>2. sock' = "none" <=> sock = "none"
    BY <1>6 DEF pd_tcp_listen, pd_tcp_close, pd_tcp_shutdown, pd_tcp_pause, pd_tcp_resume, Run,
         WriteAnswered, WritePosted, LoopUnchanged, kernelVars, Close, pd__tcp_try_close, Held
  <2>3. at' = "onclose" <=> at = "onclose"
    BY <1>6 DEF pd_tcp_listen, pd_tcp_close, pd_tcp_shutdown, pd_tcp_pause, pd_tcp_resume, Run,
         WriteAnswered, WritePosted, Goto
  <2> QED BY <1>1, <2>1, <2>2, <2>3, CountSame
<1>7. CASE PeerSends \/ PeerEnds \/ Kernel \/ AcceptDone
  <2>1. UNCHANGED <<refs, released, server, at>>
    BY <1>7 DEF PeerSends, PeerEnds, Kernel, ReceiveDone, SendDone, ConnectDone, Completes, AcceptDone,
         KernelUnchanged, serverVars, loopVars
  <2>2. sock' = "none" <=> sock = "none"
    BY <1>7 DEF PeerSends, PeerEnds, Kernel, ReceiveDone, SendDone, ConnectDone, AcceptDone, kernelVars
  <2> QED BY <1>1, <2>1, <2>2, CountSame
<1>8. CASE \/ LoopExits \/ PollReturns \/ Accepted \/ AcceptFailed \/ PostAccept \/ ListenFails
           \/ Connected \/ EarlyReturns \/ Refused \/ ConnectReturns \/ ReadData
           \/ (\E o \in Ops : Written(o)) \/ EventsEnd \/ ClosesEnd \/ IterationEnds
  <2>1. UNCHANGED <<refs, released, sock>> /\ (server' = "listening" <=> server = "listening")
    BY <1>8 DEF LoopExits, PollReturns, Accepted, AcceptFailed, PostAccept, ListenFails, Connected,
         EarlyReturns, Refused, ConnectReturns, ReadData, Written, EventsEnd, ClosesEnd, IterationEnds,
         LoopUnchanged, Take, serverVars, kernelVars, loopVars
  <2>2. at' = "onclose" <=> at = "onclose"
    BY <1>8 DEF LoopExits, PollReturns, Accepted, AcceptFailed, PostAccept, ListenFails, Connected,
         EarlyReturns, Refused, ConnectReturns, ReadData, Written, EventsEnd, ClosesEnd, IterationEnds,
         Goto
  <2> QED BY <1>1, <2>1, <2>2, CountSame
<1>9. CASE ReadZero \/ DataReturns \/ WrittenReturns
  <2>1. UNCHANGED <<refs, released, server>> /\ at # "onclose" /\ at' # "onclose"
    BY <1>9 DEF ReadZero, DataReturns, WrittenReturns, Take, Goto, serverVars
  <2>2. sock' = sock \/ sock' = "closed"
    BY <1>9 DEF ReadZero, DataReturns, WrittenReturns, Close, pd__tcp_try_close
  <2>3. sock # "none"
    <3>1. CASE DataReturns \/ WrittenReturns
      BY <1>1, <3>1 DEF DataReturns, WrittenReturns, Goto, Lifetime, Quiet
    <3>2. CASE ReadZero
      <4>1. Take("zero") /\ "zero" \in {"data", "zero"}
        BY <3>2 DEF ReadZero
      <4>2. ReadPackets' = ReadPackets - 1 /\ ReadPackets' \in Nat
        BY <1>1, <4>1, PacketTaken DEF Take, B
      <4>3. ReadPackets # 0
        BY <4>2
      <4> QED BY <1>1, <4>3 DEF Lifetime, Quiet
    <3> QED BY <1>9, <3>1, <3>2
  <2> QED BY <1>1, <2>1, <2>2, <2>3, CountSame
<1> QED BY <1>2, <1>3, <1>4, <1>5, <1>6, <1>7, <1>8, <1>9 DEF Next, User, Loop
-----------------------------------------------------------------------------
(* The theorems.                                                           *)

(* The first state has nothing under way. *)
LEMMA Initially == Init => IInv
<1> SUFFICES ASSUME Init PROVE IInv
  OBVIOUS
<1> USE WinTcpAssumption
<1>1. READING \in BOOLEAN /\ PENDING_READ \in BOOLEAN /\ fin \in BOOLEAN /\ wrClosed \in BOOLEAN
      /\ pending \in BOOLEAN /\ released \in BOOLEAN
  BY DEF Init
<1>2. ~PENDING_READ /\ ~wrClosed /\ ~pending /\ ~released
  BY DEF Init
<1>3. /\ status = "NONE" /\ writes_size = 0 /\ server = "none" /\ accepts = 0 /\ todo = 0
      /\ failures = 0 /\ sock = "none" /\ rx = 0 /\ posted = {} /\ canceled = {} /\ port = <<>>
      /\ batch = <<>> /\ at = "user" /\ refs = 0
      /\ answers \in [Ops -> Nat] /\ \A o \in Ops : answers[o] = 0
  BY DEF Init
<1>4. Shape
  BY <1>1, <1>3 DEF Shape, Places
<1>5. ASSUME NEW S
      PROVE  Num(S) = 0
  <2>1. Count(<<>>, S) = Cardinality({})
    <3>1. {i \in DOMAIN <<>> : <<>>[i] \in S} = {}
      OBVIOUS
    <3> QED BY <3>1 DEF Count
  <2> QED BY <1>3, <2>1, FS_EmptySet DEF Num
<1>6. /\ ReadPackets = 0 /\ ConnectPackets = 0 /\ AcceptPackets = 0
      /\ \A o \in Ops : WritePackets(o) = 0
  BY <1>5 DEF ReadPackets, ConnectPackets, AcceptPackets, WritePackets
<1>7. Accepts /\ BatchPlace
  BY <1>3, <1>6 DEF Accepts, AcceptSum, BatchPlace
<1>8. OneRead /\ OneConnect
  BY <1>2, <1>3, <1>6 DEF OneRead, OneConnect, Dialing, B
<1>9. UnderWay = {}
  BY <1>3, <1>6 DEF UnderWay
<1>10. OneWrite
  BY <1>3, <1>6, <1>9, FS_EmptySet DEF OneWrite, B
<1>11. SendClosed /\ Lifetime
  BY <1>2, <1>3, <1>6 DEF SendClosed, Lifetime, Quiet
<1>12. Counted
  BY <1>3 DEF Counted, B
<1> QED BY <1>4, <1>7, <1>8, <1>10, <1>11, <1>12 DEF IInv, Stream

(* Every step keeps the invariant. *)
LEMMA Invariance == IInv /\ [Next]_vars => IInv'
<1> SUFFICES ASSUME IInv, [Next]_vars PROVE IInv'
  OBVIOUS
<1>1. CASE Next
  <2>1. Shape'
    BY <1>1, KernelShape, UserShape, LoopShape DEF Next, IInv
  <2>2. BatchPlace' /\ Accepts'
    BY <1>1, ServerUserStep, ServerLoopStep DEF Next
  <2>3. Stream'
    BY <1>1, StreamUserStep, StreamKernelStep, StreamLoopStep DEF Next
  <2>4. Counted'
    BY <1>1, CountStep
  <2> QED BY <2>1, <2>2, <2>3, <2>4 DEF IInv
<1>2. CASE UNCHANGED vars
  <2>1. UNCHANGED <<status, READING, PENDING_READ, writes_size, answers, server, accepts, todo,
                    failures, sock, rx, fin, wrClosed, posted, canceled, port, batch, at, pending,
                    released, refs>>
    BY <1>2 DEF vars, streamVars, serverVars, kernelVars, loopVars
  <2>2. Shape'
    BY <2>1 DEF IInv, Shape
  <2>3. SamePackets /\ AcceptPackets' = AcceptPackets
    BY <2>1, PacketsSame DEF SamePackets
  <2>4. BatchPlace' /\ Accepts'
    BY <2>1, <2>3 DEF IInv, BatchPlace, Accepts, AcceptSum
  <2>5. Stream'
    BY <2>1, <2>3, StreamUntouched DEF IInv
  <2>6. Counted'
    BY <2>1 DEF IInv, Counted
  <2> QED BY <2>2, <2>4, <2>5, <2>6 DEF IInv
<1> QED BY <1>1, <1>2

(* The invariant holds in every reachable state. *)
LEMMA Always == Spec => []IInv
BY Initially, Invariance, PTL DEF Spec

(* Every variable keeps the shape the code gives it; in particular no more *)
(* than SIMULTANEOUS_ACCEPTS operations are ever posted.                   *)
THEOREM TypeCorrect == Spec => []TypeOK
<1>1. IInv => TypeOK
  <2> SUFFICES ASSUME IInv PROVE TypeOK
    OBVIOUS
  <2>1. Shape /\ Accepts /\ Counted /\ AcceptPackets \in Nat
    BY PacketFacts DEF IInv
  <2>2. accepts \in 0 .. SIMULTANEOUS_ACCEPTS /\ todo \in 0 .. SIMULTANEOUS_ACCEPTS
    BY <2>1, WinTcpAssumption DEF Accepts, AcceptSum, Shape
  <2>3. Packets \subseteq AllPackets
    BY <2>1 DEF Shape, Packets, Range
  <2>4. refs \in Nat
    BY <2>1 DEF Counted, B
  <2> QED BY <2>1, <2>2, <2>3, <2>4 DEF TypeOK, Shape, AllPackets
<1> QED BY <1>1, Always, PTL

(* Once on_close was called, where the user frees the pd_tcp_t, the kernel *)
(* holds none of its OVERLAPPEDs and the loop neither a packet of it nor a *)
(* handler that would touch it.                                            *)
THEOREM NothingTouchesReleased == Spec => []NothingAfterRelease
<1>1. IInv => NothingAfterRelease
  <2> SUFFICES ASSUME IInv, released PROVE NothingAfterRelease
    BY DEF NothingAfterRelease
  <2>1. Shape /\ Lifetime
    BY DEF IInv, Stream
  <2>2. Quiet /\ at \notin {"data", "connect"}
    BY <2>1 DEF Lifetime
  <2>3. Packets \cap StreamPackets = {}
    BY <2>1, <2>2, PacketFacts DEF Quiet
  <2> QED BY <2>2, <2>3 DEF NothingAfterRelease, Quiet
<1> QED BY <1>1, Always, PTL

(* writes_size counts the writes under way, and each write is answered at  *)
(* most once and not before the kernel is done with its buffer.            *)
THEOREM WritesAreExact == Spec => []WritesExact
<1>1. IInv => WritesExact
  <2> SUFFICES ASSUME IInv PROVE WritesExact
    OBVIOUS
  <2>1. Shape /\ OneWrite
    BY DEF IInv, Stream
  <2>2. \A o \in Ops : WritePackets(o) \in Nat /\ (WritePackets(o) > 0 <=> o \in Packets)
    BY <2>1, PacketFacts
  <2>3. UnderWay = Ops \cap (posted \cup Packets)
    BY <2>2 DEF UnderWay
  <2>4. writes_size = Cardinality(Ops \cap (posted \cup Packets)) + (IF at = "written" THEN 1 ELSE 0)
    BY <2>1, <2>3 DEF OneWrite, B
  <2>5. \A o \in Ops : answers[o] + (IF o \in posted \cup Packets THEN 1 ELSE 0) <= 1
    <3> SUFFICES ASSUME NEW o \in Ops
                 PROVE  answers[o] + (IF o \in posted \cup Packets THEN 1 ELSE 0) <= 1
      OBVIOUS
    <3>1. answers[o] \in Nat /\ answers[o] + WritePackets(o) + B(o \in posted) <= 1
      BY <2>1 DEF OneWrite, Shape
    <3> QED BY <2>2, <3>1 DEF B
  <2> QED BY <2>4, <2>5 DEF WritesExact
<1> QED BY <1>1, Always, PTL

(* The sending direction is shut down only when no write is under way, and *)
(* none is posted afterwards.                                              *)
THEOREM FinComesLast == Spec => []FinLast
<1>1. IInv => FinLast
  BY DEF IInv, Stream, SendClosed, FinLast
<1> QED BY <1>1, Always, PTL

(* A listening server loses an accept operation only to an AcceptEx that   *)
(* failed at once.                                                         *)
THEOREM AcceptsAreKept == Spec => []AcceptsKept
<1>1. IInv => AcceptsKept
  <2> SUFFICES ASSUME IInv PROVE AcceptsKept
    OBVIOUS
  <2>1. Accepts
    BY DEF IInv
  <2>2. Count(port, {"accept", "unaccepted"}) \in Nat /\ Count(batch, {"accept", "unaccepted"}) \in Nat
    BY CountType DEF IInv, Shape
  <2>3. accepts \in Nat /\ todo \in Nat /\ failures \in Nat
    BY WinTcpAssumption DEF IInv, Shape
  <2>4. server = "listening" =>
            accepts + todo + failures + Count(port, {"accept", "unaccepted"})
              + Count(batch, {"accept", "unaccepted"}) = SIMULTANEOUS_ACCEPTS
    BY <2>1, <2>2, <2>3 DEF Accepts, AcceptSum, AcceptPackets, Num
  <2> QED BY <2>4 DEF AcceptsKept, Count
<1> QED BY <1>1, Always, PTL
=============================================================================
