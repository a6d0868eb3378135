------------------------------ MODULE FsProofs ------------------------------
(***************************************************************************)
(* Proofs about Fs, for every number of requests, of files and of          *)
(* descriptors, on both platforms.                                         *)
(***************************************************************************)
EXTENDS Fs, FiniteSetTheorems, TLAPS

Once(seq) == \A i, j \in DOMAIN seq : seq[i] = seq[j] => i = j

(* A request is in one place: queued, at work, waiting for its callback,   *)
(* refused by the pool, or nowhere.                                        *)
OnePlace ==
    /\ queued \in Seq(Ops) /\ completed \in Seq(Ops)
    /\ running \subseteq Ops /\ lost \subseteq Ops
    /\ Once(queued) /\ Once(completed)
    /\ Range(queued) \cap running = {} /\ Range(queued) \cap Range(completed) = {}
    /\ running \cap Range(completed) = {}
    /\ lost \cap (Range(queued) \cup running \cup Range(completed)) = {}

(* The request was made, and its work is not over, or never will be. *)
Outstanding(o) == InFlight(o) \/ o \in lost

(* The requests that own the descriptor d: an open whose callback is still *)
(* to come, a close that was not made.                                     *)
Owns(o, d) ==
    \/ o \in Range(completed) /\ type[o] = "open" /\ status[o] = "OK" /\ result[o] = d
    \/ Outstanding(o) /\ type[o] = "close" /\ fd[o] = d

(* A request under way names a file. *)
FilesNamed == \A o \in Ops : Outstanding(o) \/ o \in Range(completed) => file[o] \in Files

(* An open descriptor has one owner, the user or a request, that takes it  *)
(* for the file it is.                                                     *)
OneOwner ==
    \A d \in Fds :
        /\ held[d] # NULL => held[d] = table[d] /\ \A o \in Ops : ~Owns(o, d)
        /\ \A o \in Ops : Owns(o, d) => file[o] = table[d]
        /\ \A o, p \in Ops : Owns(o, d) /\ Owns(p, d) => o = p
        /\ table[d] # NULL => held[d] # NULL \/ \E o \in Ops : Owns(o, d)

(* Only a close is made again. *)
RetriesClose == \A o \in retrying : type[o] = "close"

(* What was created exclusively is there, and was created once. *)
CreationsKept == \A f \in Files : made[f] <= 1 /\ (made[f] # 0 => f \in disk)

IInv == /\ OnePlace /\ TypeOK /\ FilesNamed /\ RetriesClose /\ PathsExact
        /\ CreationsKept
        /\ ~interrupted => OneOwner
-----------------------------------------------------------------------------
(* Queues.                                                                 *)

(* A task that joins a queue. *)
LEMMA AppendOne ==
    ASSUME NEW S, NEW q \in Seq(S), NEW e \in S
    PROVE  /\ Append(q, e) \in Seq(S)
           /\ Range(Append(q, e)) = Range(q) \cup {e}
           /\ Once(q) /\ e \notin Range(q) => Once(Append(q, e))
<1> DEFINE r == Append(q, e)
<1>1. /\ r \in Seq(S) /\ Len(q) \in Nat /\ DOMAIN q = 1 .. Len(q) /\ DOMAIN r = 1 .. Len(q) + 1
      /\ r[Len(q) + 1] = e /\ \A i \in DOMAIN q : r[i] = q[i]
  OBVIOUS
<1> HIDE DEF r
<1>2. \A i \in DOMAIN r : i \in DOMAIN q \/ i = Len(q) + 1
  BY <1>1
<1>3. Range(r) \subseteq Range(q) \cup {e}
  BY <1>1, <1>2 DEF Range
<1>4. Range(q) \cup {e} \subseteq Range(r)
  <2>1. DOMAIN q \subseteq DOMAIN r /\ Len(q) + 1 \in DOMAIN r
    BY <1>1
  <2> QED BY <1>1, <2>1 DEF Range
<1>5. Once(q) /\ e \notin Range(q) => Once(r)
  BY <1>1, <1>2 DEF Once, Range
<1> QED BY <1>1, <1>3, <1>4, <1>5 DEF r

(* The first task leaves its queue. *)
LEMMA TakeOne ==
    ASSUME NEW S, NEW q \in Seq(S), q # <<>>, Once(q)
    PROVE  /\ Tail(q) \in Seq(S) /\ Once(Tail(q))
           /\ Head(q) \in S /\ Head(q) \in Range(q)
           /\ Range(Tail(q)) = Range(q) \ {Head(q)}
<1> DEFINE r == Tail(q)
<1>1. /\ r \in Seq(S) /\ Len(q) \in Nat \ {0} /\ DOMAIN q = 1 .. Len(q)
      /\ DOMAIN r = 1 .. Len(q) - 1 /\ Head(q) = q[1]
      /\ \A i \in DOMAIN r : r[i] = q[i + 1]
  OBVIOUS
<1> HIDE DEF r
<1>2. \A i \in DOMAIN r : i + 1 \in DOMAIN q /\ i + 1 # 1
  BY <1>1
<1>3. 1 \in DOMAIN q /\ \A i \in DOMAIN q \ {1} : i - 1 \in DOMAIN r /\ r[i - 1] = q[i]
  BY <1>1
<1>4. Once(r)
  BY <1>1, <1>2 DEF Once
<1>5. Range(r) \subseteq Range(q) \ {Head(q)}
  BY <1>1, <1>2, <1>3 DEF Range, Once
<1>6. Range(q) \ {Head(q)} \subseteq Range(r)
  BY <1>1, <1>3 DEF Range
<1>7. Head(q) \in S /\ Head(q) \in Range(q)
  BY <1>1, <1>3 DEF Range
<1> QED BY <1>1, <1>4, <1>5, <1>6, <1>7 DEF r
-----------------------------------------------------------------------------
(* Where a request is, before and after each step of its task.             *)

(* pd_task_submit: the request is queued, or refused. *)
LEMMA Submitted ==
    ASSUME OnePlace, NEW o \in Ops, Unused(o), Submit(o)
    PROVE  /\ OnePlace' /\ UNCHANGED <<running, completed>>
           /\ ~Outstanding(o) /\ o \notin Range(completed)
           /\ \A p \in Ops : Outstanding(p)' <=> Outstanding(p) \/ p = o
<1>1. ~Outstanding(o) /\ o \notin Range(completed) /\ o \notin Range(queued) /\ o \notin running
      /\ o \notin lost
  BY DEF Unused, Outstanding, InFlight
<1>2. CASE pool = "up"
  <2>1. queued' = Append(queued, o) /\ UNCHANGED <<running, completed, lost>>
    BY <1>2 DEF Submit, Service!Submit
  <2>2. Range(queued') = Range(queued) \cup {o} /\ queued' \in Seq(Ops) /\ Once(queued')
    BY <1>1, <2>1, AppendOne DEF OnePlace
  <2>3. OnePlace'
    BY <1>1, <2>1, <2>2 DEF OnePlace
  <2> QED BY <1>1, <2>1, <2>2, <2>3 DEF Outstanding, InFlight
<1>3. CASE pool # "up"
  <2>1. lost' = lost \cup {o} /\ UNCHANGED <<queued, running, completed>>
    BY <1>3 DEF Submit, taskVars
  <2>2. OnePlace'
    BY <1>1, <2>1 DEF OnePlace
  <2> QED BY <1>1, <2>1, <2>2 DEF Outstanding, InFlight
<1> QED BY <1>2, <1>3

(* A worker takes a request. *)
LEMMA Started ==
    ASSUME OnePlace, Service!Start, lost' = lost
    PROVE  /\ OnePlace' /\ completed' = completed /\ running \subseteq running'
           /\ \A p \in Ops : Outstanding(p)' <=> Outstanding(p)
<1>1. /\ queued # <<>> /\ queued' = Tail(queued) /\ running' = running \cup {Head(queued)}
      /\ completed' = completed
  BY DEF Service!Start
<1>2. /\ queued' \in Seq(Ops) /\ Once(queued') /\ Head(queued) \in Ops
      /\ Head(queued) \in Range(queued) /\ Range(queued') = Range(queued) \ {Head(queued)}
  BY <1>1, TakeOne DEF OnePlace
<1>3. OnePlace'
  BY <1>1, <1>2 DEF OnePlace
<1> QED BY <1>1, <1>2, <1>3 DEF Outstanding, InFlight

(* The work of a request is over. *)
LEMMA Finished ==
    ASSUME OnePlace, NEW o \in Ops, Service!Finish(o), lost' = lost
    PROVE  /\ OnePlace' /\ Range(completed') = Range(completed) \cup {o}
           /\ running' = running \ {o} /\ Outstanding(o) /\ o \notin Range(completed)
           /\ \A p \in Ops : Outstanding(p)' <=> Outstanding(p) /\ p # o
<1>1. /\ o \in running /\ running' = running \ {o} /\ completed' = Append(completed, o)
      /\ queued' = queued
  BY DEF Service!Finish
<1>2. o \notin Range(completed) /\ o \notin Range(queued) /\ o \notin lost
  BY <1>1 DEF OnePlace
<1>3. /\ completed' \in Seq(Ops) /\ Once(completed')
      /\ Range(completed') = Range(completed) \cup {o}
  BY <1>1, <1>2, AppendOne DEF OnePlace
<1>4. OnePlace'
  BY <1>1, <1>2, <1>3 DEF OnePlace
<1> QED BY <1>1, <1>2, <1>3, <1>4 DEF Outstanding, InFlight

(* The callback of a request runs. *)
LEMMA Delivered ==
    ASSUME OnePlace, Service!Deliver, lost' = lost
    PROVE  /\ OnePlace' /\ running' = running
           /\ Head(completed) \in Ops /\ Head(completed) \in Range(completed)
           /\ Range(completed') = Range(completed) \ {Head(completed)}
           /\ ~Outstanding(Head(completed))
           /\ \A p \in Ops : Outstanding(p)' <=> Outstanding(p)
<1>1. /\ completed # <<>> /\ completed' = Tail(completed)
      /\ UNCHANGED <<queued, running>>
  BY DEF Service!Deliver
<1>2. /\ completed' \in Seq(Ops) /\ Once(completed') /\ Head(completed) \in Ops
      /\ Head(completed) \in Range(completed)
      /\ Range(completed') = Range(completed) \ {Head(completed)}
  BY <1>1, TakeOne DEF OnePlace
<1>3. OnePlace'
  BY <1>1, <1>2 DEF OnePlace
<1>4. ~Outstanding(Head(completed))
  BY <1>2 DEF OnePlace, Outstanding, InFlight
<1> QED BY <1>1, <1>2, <1>3, <1>4 DEF Outstanding, InFlight
-----------------------------------------------------------------------------
(* The copies of paths.                                                    *)

OpensUnderWay == {o \in Ops : type[o] = "open" /\ Outstanding(o)}

(* PathsExact, in terms of a finite set. *)
LEMMA PathsAreOpens ==
    /\ IsFiniteSet(OpensUnderWay) /\ Cardinality(OpensUnderWay) \in Nat
    /\ PathsExact <=> paths = Cardinality(OpensUnderWay)
    /\ PathsExact' <=> paths' = Cardinality(OpensUnderWay')
<1>1. IsFiniteSet(OpensUnderWay)
  BY FsAssumption, FS_Subset DEF OpensUnderWay
<1> QED BY <1>1, FS_CardinalityType DEF PathsExact, OpensUnderWay, Outstanding

(* An open is requested. *)
LEMMA PathCopied ==
    ASSUME PathsExact, NEW o \in Ops, ~Outstanding(o), paths' = paths + 1,
           type'[o] = "open", \A p \in Ops \ {o} : type'[p] = type[p],
           \A p \in Ops : Outstanding(p)' <=> Outstanding(p) \/ p = o
    PROVE  PathsExact'
<1>1. OpensUnderWay' = OpensUnderWay \cup {o} /\ o \notin OpensUnderWay
  BY DEF OpensUnderWay
<1>2. Cardinality(OpensUnderWay') = Cardinality(OpensUnderWay) + 1
  BY <1>1, PathsAreOpens, FS_AddElement
<1> QED BY <1>2, PathsAreOpens

(* The work of an open is over. *)
LEMMA PathFreed ==
    ASSUME PathsExact, NEW o \in Ops, Outstanding(o), type[o] = "open", paths' = paths - 1,
           type' = type,
           \A p \in Ops : Outstanding(p)' <=> Outstanding(p) /\ p # o
    PROVE  PathsExact'
<1>1. OpensUnderWay' = OpensUnderWay \ {o} /\ o \in OpensUnderWay
  BY DEF OpensUnderWay
<1>2. Cardinality(OpensUnderWay') = Cardinality(OpensUnderWay) - 1
  BY <1>1, PathsAreOpens, FS_RemoveElement
<1> QED BY <1>2, PathsAreOpens

(* Nothing happens to an open. *)
LEMMA PathsKept ==
    ASSUME PathsExact, paths' = paths,
           \A p \in Ops : type'[p] = "open" /\ Outstanding(p)' <=> type[p] = "open" /\ Outstanding(p)
    PROVE  PathsExact'
<1>1. OpensUnderWay' = OpensUnderWay
  BY DEF OpensUnderWay
<1> QED BY <1>1, PathsAreOpens
-----------------------------------------------------------------------------
(* Steps.                                                                  *)

(* The user makes a request, which leaves the descriptors alone unless it  *)
(* is a close: the close takes over the user's.                            *)
LEMMA RequestStep ==
    ASSUME IInv, NEW o \in Ops, NEW f \in Files, NEW what,
           what \in {"open", "read", "write", "stat", "close"},
           Unused(o), Submit(o),
           type' = [type EXCEPT ![o] = what], file' = [file EXCEPT ![o] = f],
           fd' \in [Ops -> 0 .. MaxFd], \A p \in Ops \ {o} : fd'[p] = fd[p],
           paths' = (IF what = "open" THEN paths + 1 ELSE paths),
           \/ what # "close" /\ held' = held
           \/ /\ what = "close"
              /\ \E d \in Fds : /\ fd'[o] = d /\ held[d] = f
                                /\ held' = [held EXCEPT ![d] = NULL],
           oflag' \in [Ops -> SUBSET OpenFlags],
           UNCHANGED <<platform, pool, status, result, retrying, table, rights, interrupted, disk, made>>
    PROVE  IInv'
<1> USE FsAssumption
<1>1. /\ OnePlace' /\ UNCHANGED <<running, completed>>
      /\ ~Outstanding(o) /\ o \notin Range(completed)
      /\ \A p \in Ops : Outstanding(p)' <=> Outstanding(p) \/ p = o
  BY Submitted DEF IInv
<1>2. TypeOK
  BY DEF IInv
<1>3. \A p \in Ops \ {o} : type'[p] = type[p] /\ file'[p] = file[p]
  BY <1>2 DEF TypeOK
<1>4. type'[o] = what /\ file'[o] = f
  BY <1>2 DEF TypeOK
<1>5. TypeOK'
  <2>1. paths' \in Nat
    BY <1>2 DEF TypeOK
  <2>2. held' \in [Fds -> Files \cup {NULL}]
    BY <1>2 DEF TypeOK
  <2>3. type' \in [Ops -> {"unknown", "open", "read", "write", "stat", "close"}]
        /\ file' \in [Ops -> Files \cup {NULL}]
    BY <1>2 DEF TypeOK
  <2> QED BY <1>1, <1>2, <2>1, <2>2, <2>3 DEF TypeOK, OnePlace
<1>6. FilesNamed'
  BY <1>1, <1>3, <1>4 DEF IInv, FilesNamed
<1>7. PathsExact'
  <2>1. CASE what = "open"
    BY <1>1, <1>3, <1>4, <2>1, PathCopied DEF IInv
  <2>2. CASE what # "open"
    BY <1>1, <1>3, <1>4, <2>2, PathsKept DEF IInv
  <2> QED BY <2>1, <2>2
<1>8. ASSUME ~interrupted', NEW d \in Fds
      PROVE  /\ held'[d] # NULL => held'[d] = table'[d] /\ \A p \in Ops : ~Owns(p, d)'
             /\ \A p \in Ops : Owns(p, d)' => file'[p] = table'[d]
             /\ \A p, r \in Ops : Owns(p, d)' /\ Owns(r, d)' => p = r
             /\ table'[d] # NULL => held'[d] # NULL \/ \E p \in Ops : Owns(p, d)'
  <2>1. OneOwner
    BY <1>8 DEF IInv
  <2>2. ~Owns(o, d) /\ \A p \in Ops \ {o} : Owns(p, d)' <=> Owns(p, d)
    BY <1>1, <1>3 DEF Owns
  <2>3. Owns(o, d)' <=> what = "close" /\ fd'[o] = d
    BY <1>1, <1>4 DEF Owns
  <2>4. CASE what = "close" /\ fd'[o] = d
    <3>1. held[d] = f /\ held'[d] = NULL
      BY <1>2, <2>4 DEF TypeOK
    <3>2. table[d] = f /\ \A p \in Ops : ~Owns(p, d)
      BY <2>1, <3>1 DEF OneOwner
    <3> QED BY <1>4, <2>2, <2>3, <2>4, <3>1, <3>2
  <2>5. CASE ~(what = "close" /\ fd'[o] = d)
    <3>1. held'[d] = held[d]
      BY <1>2, <2>5 DEF TypeOK
    <3>2. \A p \in Ops : Owns(p, d)' <=> Owns(p, d)
      BY <2>2, <2>3, <2>5
    <3>3. /\ held[d] # NULL => held[d] = table[d] /\ \A p \in Ops : ~Owns(p, d)
          /\ \A p \in Ops : Owns(p, d) => p # o /\ file[p] = table[d]
          /\ \A p, r \in Ops : Owns(p, d) /\ Owns(r, d) => p = r
          /\ table[d] # NULL => held[d] # NULL \/ \E p \in Ops : Owns(p, d)
      BY <2>1, <2>2 DEF OneOwner
    <3> QED BY <1>3, <3>1, <3>2, <3>3
  <2> QED BY <2>4, <2>5
<1>9. RetriesClose'
  <2>1. o \notin retrying
    BY <1>1, <1>2 DEF TypeOK, Outstanding, InFlight
  <2> QED BY <1>2, <1>3, <2>1 DEF IInv, RetriesClose, TypeOK
<1> QED BY <1>1, <1>5, <1>6, <1>7, <1>8, <1>9 DEF IInv, OneOwner, CreationsKept

(* Every request of the user is of that form. *)
LEMMA UserStep ==
    ASSUME IInv, User
    PROVE  IInv'
<1> USE FsAssumption
<1>1. TypeOK
  BY DEF IInv
<1>2. CASE pd_threadpool_init \/ pd_threadpool_end \/ EndJoined
  <2>1. /\ UNCHANGED <<platform, queued, running, completed, lost, type, file, oflag, fd, status,
                       result, paths, retrying, table, rights, interrupted, disk, made, held>>
        /\ pool' \in {"none", "up", "joining"}
    BY <1>2 DEF pd_threadpool_init, pd_threadpool_end, EndJoined, PoolUnchanged, taskVars, opVars,
                kernelVars, diskVars
  <2> QED BY <2>1 DEF IInv, OnePlace, TypeOK, FilesNamed, PathsExact, OneOwner, Owns, Outstanding,
                      InFlight, RetriesClose, CreationsKept
<1>3. ASSUME NEW o \in Ops, NEW f \in Files, NEW flags \in Flags, pd_fs_open(o, f, flags)
      PROVE  IInv'
  <2>1. oflag' \in [Ops -> SUBSET OpenFlags]
    BY <1>1, <1>3 DEF pd_fs_open, TypeOK
  <2> QED BY <1>1, <1>3, <2>1, RequestStep DEF pd_fs_open, kernelVars, diskVars, TypeOK
<1>4. ASSUME NEW o \in Ops, NEW d \in Fds, NEW what, what \in {"read", "write", "stat"}, Use(o, d, what)
      PROVE  IInv'
  <2>1. held[d] \in Files
    BY <1>1, <1>4 DEF Use, TypeOK
  <2>2. fd' \in [Ops -> 0 .. MaxFd] /\ \A p \in Ops \ {o} : fd'[p] = fd[p]
    BY <1>1, <1>4 DEF Use, TypeOK, Fds
  <2>3. oflag' \in [Ops -> SUBSET OpenFlags]
    BY <1>1, <1>4 DEF Use, TypeOK
  <2> QED BY <1>4, <2>1, <2>2, <2>3, RequestStep DEF Use, kernelVars, diskVars
<1>5. ASSUME NEW o \in Ops, NEW d \in Fds, pd_fs_close(o, d)
      PROVE  IInv'
  <2>1. held[d] \in Files
    BY <1>1, <1>5 DEF pd_fs_close, TypeOK
  <2>2. fd' \in [Ops -> 0 .. MaxFd] /\ fd'[o] = d /\ \A p \in Ops \ {o} : fd'[p] = fd[p]
    BY <1>1, <1>5 DEF pd_fs_close, TypeOK, Fds
  <2>3. oflag' \in [Ops -> SUBSET OpenFlags]
    BY <1>1, <1>5 DEF pd_fs_close, TypeOK
  <2> QED BY <1>5, <2>1, <2>2, <2>3, RequestStep DEF pd_fs_close, kernelVars, diskVars
<1> QED BY <1>2, <1>3, <1>4, <1>5 DEF User, pd_fs_read, pd_fs_write, pd_fs_stat

(* A worker ends a request that has no effect on the descriptors. *)
LEMMA EndStep ==
    ASSUME IInv, NEW o \in Ops, Service!Finish(o), type[o] # "close",
           paths' = (IF type[o] = "open" THEN paths - 1 ELSE paths),
           type[o] = "open" => status'[o] # "OK",
           status' \in [Ops -> {"UNKNOWN", "OK", "error"}],
           \A p \in Ops \ {o} : status'[p] = status[p] /\ result'[p] = result[p],
           result' \in [Ops -> 0 .. MaxFd],
           UNCHANGED <<platform, pool, lost, type, file, oflag, fd, retrying, held, table, rights,
                       interrupted, disk, made>>
    PROVE  IInv'
<1> USE FsAssumption
<1>1. /\ OnePlace' /\ Range(completed') = Range(completed) \cup {o}
      /\ running' = running \ {o} /\ Outstanding(o) /\ o \notin Range(completed)
      /\ \A p \in Ops : Outstanding(p)' <=> Outstanding(p) /\ p # o
  BY Finished DEF IInv
<1>2. PathsExact'
  <2>1. CASE type[o] = "open"
    BY <1>1, <2>1, PathFreed DEF IInv
  <2>2. CASE type[o] # "open"
    BY <1>1, <2>2, PathsKept DEF IInv
  <2> QED BY <2>1, <2>2
<1>3. paths' \in Nat
  BY <1>2, PathsAreOpens, FS_CardinalityType, FS_Subset DEF OpensUnderWay
<1>4. TypeOK' /\ RetriesClose'
  BY <1>1, <1>3 DEF IInv, TypeOK, RetriesClose
<1>5. FilesNamed'
  BY <1>1 DEF IInv, FilesNamed
<1>6. \A d : \A p \in Ops : Owns(p, d)' <=> Owns(p, d)
  BY <1>1 DEF Owns
<1>7. OneOwner => OneOwner'
  BY <1>6 DEF OneOwner
<1> QED BY <1>1, <1>2, <1>4, <1>5, <1>7 DEF IInv, CreationsKept

(* An open that makes a file exclusively meets none. *)
LEMMA ExclusiveIsNew ==
    ASSUME TypeOK, NEW flags, NEW existing \in BOOLEAN, Exclusive(flags), Opens(flags, existing)
    PROVE  ~existing
<1>1. {"CREAT", "EXCL"} \subseteq flags
  BY DEF Exclusive
<1>2. CASE platform = "unix"
  BY <1>1, <1>2 DEF Opens, PosixOpens
<1>3. CASE platform = "win32"
  <2>1. "TRUNC" \notin flags
    BY <1>3 DEF Exclusive
  <2>2. Creation(flags) = "CREATE_NEW"
    BY <1>1, <2>1 DEF Creation
  <2> QED BY <1>3, <2>2 DEF Opens, WinOpens
<1> QED BY <1>2, <1>3 DEF TypeOK

(* The rights of a descriptor. *)
LEMMA RightsType ==
    ASSUME TypeOK, NEW flags
    PROVE  Rights(flags) \subseteq {"R", "W"}
BY DEF TypeOK, Rights, PosixRights, WinRights

(* The work of the requests. *)
LEMMA WorkerStep ==
    ASSUME IInv, NEW o \in Ops, Worker(o)
    PROVE  IInv'
<1> USE FsAssumption
<1>1. TypeOK
  BY DEF IInv
<1>2. CASE OpenFails(o)
  <2>1. /\ Service!Finish(o) /\ type[o] = "open" /\ paths' = paths - 1
        /\ status' = [status EXCEPT ![o] = "error"] /\ result' = [result EXCEPT ![o] = 0]
        /\ UNCHANGED <<platform, pool, lost, type, file, oflag, fd, retrying, held, table, rights,
                       interrupted, disk, made>>
    BY <1>2 DEF OpenFails, Working, SetStatus, kernelVars, diskVars, WorkUnchanged
  <2>2. /\ status' \in [Ops -> {"UNKNOWN", "OK", "error"}] /\ status'[o] # "OK"
        /\ result' \in [Ops -> 0 .. MaxFd]
        /\ \A p \in Ops \ {o} : status'[p] = status[p] /\ result'[p] = result[p]
    BY <1>1, <2>1 DEF TypeOK
  <2> QED BY <2>1, <2>2, EndStep
<1>3. ASSUME NEW what, what \in {"read", "write", "stat"}, NEW needs, UseDone(o, what, needs)
      PROVE  IInv'
  <2>1. /\ Service!Finish(o) /\ type[o] \notin {"open", "close"} /\ paths' = paths
        /\ status' = [status EXCEPT ![o] = "error"] \/ status' = [status EXCEPT ![o] = "OK"]
        /\ UNCHANGED <<platform, pool, lost, type, file, oflag, fd, result, retrying, held, table,
                       rights, interrupted, disk, made>>
    BY <1>3 DEF UseDone, Working, SetStatus, kernelVars, diskVars, WorkUnchanged
  <2>2. /\ status' \in [Ops -> {"UNKNOWN", "OK", "error"}] /\ result \in [Ops -> 0 .. MaxFd]
        /\ \A p \in Ops \ {o} : status'[p] = status[p]
    BY <1>1, <2>1 DEF TypeOK
  <2> QED BY <2>1, <2>2, EndStep
<1>4. CASE OpenDone(o)
  <2>1. /\ Service!Finish(o) /\ type[o] = "open" /\ paths' = paths - 1
        /\ status' = [status EXCEPT ![o] = "OK"]
        /\ UNCHANGED <<platform, pool, lost, type, file, oflag, fd, retrying, held, interrupted>>
    BY <1>4 DEF OpenDone, Working, SetStatus, WorkUnchanged
  <2>2. PICK n \in Fds : /\ table[n] = NULL /\ table' = [table EXCEPT ![n] = file[o]]
                         /\ rights' = [rights EXCEPT ![n] = Rights(oflag[o])]
                         /\ result' = [result EXCEPT ![o] = n]
    BY <1>4 DEF OpenDone
  <2>3. /\ OnePlace' /\ Range(completed') = Range(completed) \cup {o}
        /\ running' = running \ {o} /\ Outstanding(o) /\ o \notin Range(completed)
        /\ \A p \in Ops : Outstanding(p)' <=> Outstanding(p) /\ p # o
    BY <2>1, Finished DEF IInv
  <2>4. PathsExact'
    BY <2>1, <2>3, PathFreed DEF IInv
  <2>5. paths' \in Nat
    BY <2>4, PathsAreOpens, FS_CardinalityType, FS_Subset DEF OpensUnderWay
  <2>6. file[o] \in Files
    BY <2>3 DEF IInv, FilesNamed
  <2>7. /\ status' \in [Ops -> {"UNKNOWN", "OK", "error"}] /\ status'[o] = "OK"
        /\ result' \in [Ops -> 0 .. MaxFd] /\ result'[o] = n
        /\ \A p \in Ops \ {o} : status'[p] = status[p] /\ result'[p] = result[p]
        /\ table' \in [Fds -> Files \cup {NULL}] /\ table'[n] = file[o]
        /\ \A d \in Fds \ {n} : table'[d] = table[d]
    BY <1>1, <2>1, <2>2, <2>6 DEF TypeOK, Fds
  <2>8. /\ rights' \in [Fds -> SUBSET {"R", "W"}] /\ disk' \subseteq Files
         /\ made' \in [Files -> Nat]
    <3>1. rights' \in [Fds -> SUBSET {"R", "W"}]
      BY <1>1, <2>2, RightsType DEF TypeOK
    <3>2. disk' \subseteq Files
      BY <1>1, <1>4, <2>6 DEF OpenDone, TypeOK
    <3>3. made' \in [Files -> Nat]
      BY <1>1, <1>4, <2>6 DEF OpenDone, TypeOK
    <3> QED BY <3>1, <3>2, <3>3
  <2>9. CreationsKept'
    <3>1. CreationsKept /\ made \in [Files -> Nat]
      BY <1>1 DEF IInv, TypeOK
    <3>2. disk' = disk \cup {file[o]}
      BY <1>4 DEF OpenDone
    <3>3. CASE Exclusive(oflag[o])
      <4>1. file[o] \notin disk
        BY <1>1, <1>4, <3>3, ExclusiveIsNew DEF OpenDone
      <4>2. made' = [made EXCEPT ![file[o]] = made[file[o]] + 1]
        BY <1>4, <3>3 DEF OpenDone
      <4>3. made[file[o]] = 0
        BY <2>6, <3>1, <4>1 DEF CreationsKept
      <4> QED BY <2>6, <3>1, <3>2, <4>2, <4>3 DEF CreationsKept
    <3>4. CASE ~Exclusive(oflag[o])
      <4>1. made' = made
        BY <1>4, <3>4 DEF OpenDone
      <4> QED BY <3>1, <3>2, <4>1 DEF CreationsKept
    <3> QED BY <3>3, <3>4
  <2>10. TypeOK' /\ RetriesClose'
    BY <2>1, <2>3, <2>5, <2>7, <2>8 DEF IInv, TypeOK, RetriesClose
  <2>11. FilesNamed'
    BY <2>1, <2>3 DEF IInv, FilesNamed
  <2>12. \A d \in Fds : /\ ~Owns(o, d) /\ (Owns(o, d)' <=> d = n)
                        /\ \A p \in Ops \ {o} : Owns(p, d)' <=> Owns(p, d)
    BY <2>1, <2>3, <2>7 DEF Owns
  <2>13. OneOwner => OneOwner'
    <3> SUFFICES ASSUME OneOwner, NEW d \in Fds
                 PROVE  /\ held[d] # NULL => held[d] = table'[d] /\ \A p \in Ops : ~Owns(p, d)'
                        /\ \A p \in Ops : Owns(p, d)' => file[p] = table'[d]
                        /\ \A p, r \in Ops : Owns(p, d)' /\ Owns(r, d)' => p = r
                        /\ table'[d] # NULL => held[d] # NULL \/ \E p \in Ops : Owns(p, d)'
      BY <2>1 DEF OneOwner
    <3>1. CASE d = n
      <4>1. held[n] = NULL /\ \A p \in Ops : ~Owns(p, n)
        BY <2>2, <2>3 DEF OneOwner, IInv, FilesNamed, Owns
      <4> QED BY <2>7, <2>12, <3>1, <4>1
    <3>2. CASE d # n
      <4>1. table'[d] = table[d] /\ \A p \in Ops : Owns(p, d)' <=> Owns(p, d)
        BY <2>7, <2>12, <3>2
      <4> QED BY <4>1 DEF OneOwner
    <3> QED BY <3>1, <3>2
  <2> QED BY <2>1, <2>3, <2>4, <2>10, <2>11, <2>13, <2>9 DEF IInv
<1>5. CASE CloseDone(o)
  <2>1. /\ Service!Finish(o) /\ type[o] = "close" /\ paths' = paths
        /\ table' = [table EXCEPT ![fd[o]] = NULL] /\ retrying' = retrying \ {o}
        /\ rights' = [rights EXCEPT ![fd[o]] = {}]
        /\ UNCHANGED <<platform, pool, lost, type, file, oflag, fd, result, held, interrupted, disk,
                       made>>
    BY <1>5 DEF CloseDone, CloseFd, Working, SetStatus, CloseUnchanged, WorkUnchanged, diskVars
  <2>2. \E v \in {"OK", "error"} : status' = [status EXCEPT ![o] = v]
    BY <1>5 DEF CloseDone, SetStatus
  <2>3. /\ OnePlace' /\ Range(completed') = Range(completed) \cup {o}
        /\ running' = running \ {o} /\ Outstanding(o) /\ o \notin Range(completed)
        /\ \A p \in Ops : Outstanding(p)' <=> Outstanding(p) /\ p # o
    BY <2>1, Finished DEF IInv
  <2>4. PathsExact'
    BY <2>1, <2>3, PathsKept DEF IInv
  <2>5. /\ status' \in [Ops -> {"UNKNOWN", "OK", "error"}]
        /\ \A p \in Ops \ {o} : status'[p] = status[p]
    BY <1>1, <2>2 DEF TypeOK
  <2>6. /\ table' \in [Fds -> Files \cup {NULL}]
        /\ \A d \in Fds : table'[d] = IF d = fd[o] THEN NULL ELSE table[d]
    BY <1>1, <2>1 DEF TypeOK
  <2>7. rights' \in [Fds -> SUBSET {"R", "W"}]
    BY <1>1, <2>1 DEF TypeOK
  <2>8. TypeOK' /\ RetriesClose' /\ FilesNamed' /\ CreationsKept'
    BY <2>1, <2>3, <2>5, <2>6, <2>7 DEF IInv, TypeOK, RetriesClose, FilesNamed, CreationsKept
  <2>9. \A d \in Fds : /\ Owns(o, d) <=> d = fd[o]
                       /\ ~Owns(o, d)'
                       /\ \A p \in Ops \ {o} : Owns(p, d)' <=> Owns(p, d)
    BY <2>1, <2>3, <2>5 DEF Owns
  <2>10. OneOwner => OneOwner'
    <3> SUFFICES ASSUME OneOwner, NEW d \in Fds
                 PROVE  /\ held[d] # NULL => held[d] = table'[d] /\ \A p \in Ops : ~Owns(p, d)'
                        /\ \A p \in Ops : Owns(p, d)' => file[p] = table'[d]
                        /\ \A p, r \in Ops : Owns(p, d)' /\ Owns(r, d)' => p = r
                        /\ table'[d] # NULL => held[d] # NULL \/ \E p \in Ops : Owns(p, d)'
      BY <2>1 DEF OneOwner
    <3>1. CASE d = fd[o]
      <4>1. held[d] = NULL /\ \A p \in Ops : Owns(p, d) => p = o
        BY <2>9, <3>1 DEF OneOwner
      <4> QED BY <2>6, <2>9, <3>1, <4>1
    <3>2. CASE d # fd[o]
      <4>1. table'[d] = table[d] /\ \A p \in Ops : Owns(p, d)' <=> Owns(p, d)
        BY <2>6, <2>9, <3>2
      <4> QED BY <4>1 DEF OneOwner
    <3> QED BY <3>1, <3>2
  <2> QED BY <2>1, <2>3, <2>4, <2>8, <2>10 DEF IInv
<1>6. CASE CloseInterrupted(o)
  <2>1. /\ o \in running /\ type[o] = "close" /\ table' = [table EXCEPT ![fd[o]] = NULL]
        /\ retrying' = retrying \cup {o} /\ interrupted' = TRUE
        /\ rights' = [rights EXCEPT ![fd[o]] = {}]
        /\ UNCHANGED <<platform, pool, queued, running, completed, lost, type, file, oflag, fd, status,
                       result, paths, held, disk, made>>
    BY <1>6 DEF CloseInterrupted, CloseFd, Working, taskVars, CloseUnchanged, WorkUnchanged, diskVars
  <2>2. table' \in [Fds -> Files \cup {NULL}] /\ rights' \in [Fds -> SUBSET {"R", "W"}]
    BY <1>1, <2>1 DEF TypeOK
  <2>3. OnePlace' /\ PathsExact' /\ FilesNamed' /\ CreationsKept'
    BY <2>1 DEF IInv, OnePlace, PathsExact, FilesNamed, CreationsKept, Outstanding, InFlight
  <2>4. TypeOK' /\ RetriesClose'
    BY <1>1, <2>1, <2>2 DEF IInv, TypeOK, RetriesClose
  <2> QED BY <2>1, <2>3, <2>4 DEF IInv
<1> QED BY <1>2, <1>3, <1>4, <1>5, <1>6 DEF Worker, pd__fs_read_work, pd__fs_write_work,
                                           pd__fs_stat_work

(* A worker takes a request from the queue. *)
LEMMA StartStep ==
    ASSUME IInv, WorkerStarts
    PROVE  IInv'
<1>1. /\ Service!Start
      /\ UNCHANGED <<platform, pool, lost, type, file, oflag, fd, status, result, paths, retrying,
                     table, rights, interrupted, disk, made, held>>
  BY DEF WorkerStarts, opVars, kernelVars, diskVars
<1>2. /\ OnePlace' /\ completed' = completed /\ running \subseteq running'
      /\ \A p \in Ops : Outstanding(p)' <=> Outstanding(p)
  BY <1>1, Started DEF IInv
<1>3. PathsExact'
  BY <1>1, <1>2, PathsKept DEF IInv
<1>4. TypeOK' /\ RetriesClose' /\ FilesNamed' /\ CreationsKept'
  BY <1>1, <1>2 DEF IInv, TypeOK, OnePlace, RetriesClose, FilesNamed, CreationsKept
<1>5. \A d : \A p \in Ops : Owns(p, d)' <=> Owns(p, d)
  BY <1>1, <1>2 DEF Owns
<1>6. OneOwner => OneOwner'
  BY <1>1, <1>5 DEF OneOwner
<1> QED BY <1>1, <1>2, <1>3, <1>4, <1>6 DEF IInv

(* The callback of a request: the descriptor of an open becomes the user's. *)
LEMMA CallbackStep ==
    ASSUME IInv, pd__fs_work_done
    PROVE  IInv'
<1> USE FsAssumption
<1>1. TypeOK
  BY DEF IInv
<1>2. /\ OnePlace' /\ running' = running
      /\ Head(completed) \in Ops /\ Head(completed) \in Range(completed)
      /\ Range(completed') = Range(completed) \ {Head(completed)}
      /\ ~Outstanding(Head(completed))
      /\ \A p \in Ops : Outstanding(p)' <=> Outstanding(p)
  BY Delivered DEF IInv, pd__fs_work_done
<1>3. PICK o \in Ops : o = Head(completed)
  BY <1>2
<1>4. PICK n \in 0 .. MaxFd : n = IF type[o] = "open" /\ status[o] = "OK" THEN result[o] ELSE 0
  BY <1>1 DEF TypeOK
<1>5. /\ held' = IF n # 0 THEN [held EXCEPT ![n] = file[o]] ELSE held
      /\ type' = [type EXCEPT ![o] = "unknown"] /\ file' = [file EXCEPT ![o] = NULL]
      /\ fd' = [fd EXCEPT ![o] = 0] /\ status' = [status EXCEPT ![o] = "UNKNOWN"]
      /\ result' = [result EXCEPT ![o] = 0]
      /\ oflag' = [oflag EXCEPT ![o] = {}]
      /\ UNCHANGED <<platform, pool, lost, paths, retrying, table, rights, interrupted, disk, made>>
  BY <1>3, <1>4 DEF pd__fs_work_done, Callback, kernelVars, diskVars
<1>6. /\ \A p \in Ops \ {o} : /\ type'[p] = type[p] /\ file'[p] = file[p] /\ fd'[p] = fd[p]
                              /\ status'[p] = status[p] /\ result'[p] = result[p]
      /\ type'[o] = "unknown" /\ fd'[o] = 0
  BY <1>1, <1>5 DEF TypeOK
<1>7. file[o] \in Files
  BY <1>2, <1>3 DEF IInv, FilesNamed
<1>8. held' \in [Fds -> Files \cup {NULL}]
      /\ \A d \in Fds : held'[d] = IF d = n THEN file[o] ELSE held[d]
  BY <1>1, <1>5, <1>7 DEF TypeOK, Fds
<1>9. PathsExact'
  BY <1>2, <1>3, <1>5, <1>6, PathsKept DEF IInv
<1>10. TypeOK'
  BY <1>1, <1>2, <1>5, <1>8 DEF TypeOK
<1>11. FilesNamed' /\ RetriesClose'
  <2>1. o \notin retrying
    BY <1>1, <1>2, <1>3 DEF TypeOK, IInv, OnePlace
  <2> QED BY <1>1, <1>2, <1>3, <1>5, <1>6, <2>1 DEF IInv, FilesNamed, RetriesClose, TypeOK
<1>12. \A d \in Fds : /\ Owns(o, d) <=> d = n
                      /\ ~Owns(o, d)'
                      /\ \A p \in Ops \ {o} : Owns(p, d)' <=> Owns(p, d)
  BY <1>2, <1>3, <1>4, <1>6 DEF Owns, Fds
<1>13. OneOwner => OneOwner'
  <2> SUFFICES ASSUME OneOwner, NEW d \in Fds
               PROVE  /\ held'[d] # NULL => held'[d] = table[d] /\ \A p \in Ops : ~Owns(p, d)'
                      /\ \A p \in Ops : Owns(p, d)' => file'[p] = table[d]
                      /\ \A p, r \in Ops : Owns(p, d)' /\ Owns(r, d)' => p = r
                      /\ table[d] # NULL => held'[d] # NULL \/ \E p \in Ops : Owns(p, d)'
    BY <1>5 DEF OneOwner
  <2>1. CASE d = n
    <3>1. file[o] = table[d] /\ \A p \in Ops : Owns(p, d) => p = o
      BY <1>12, <2>1 DEF OneOwner
    <3> QED BY <1>7, <1>8, <1>12, <2>1, <3>1
  <2>2. CASE d # n
    <3>1. held'[d] = held[d] /\ \A p \in Ops : (Owns(p, d)' <=> Owns(p, d)) /\ (Owns(p, d) => p # o)
      BY <1>8, <1>12, <2>2
    <3> QED BY <1>6, <3>1 DEF OneOwner
  <2> QED BY <2>1, <2>2
<1>14. CreationsKept'
  BY <1>5 DEF IInv, CreationsKept
<1> QED BY <1>2, <1>5, <1>9, <1>10, <1>11, <1>13, <1>14 DEF IInv
-----------------------------------------------------------------------------
(* The inductive invariant, and what follows from it.                      *)

(* It holds at first, and every step keeps it. *)
LEMMA Invariance == Spec => []IInv
<1>1. Init => IInv
  <2> SUFFICES ASSUME Init PROVE IInv
    OBVIOUS
  <2> USE FsAssumption
  <2>1. queued = <<>> /\ running = {} /\ completed = <<>> /\ lost = {}
    BY DEF Init, Service!Init
  <2>2. Range(queued) = {} /\ Range(completed) = {}
    BY <2>1 DEF Range
  <2>3. OnePlace
    BY <2>1, <2>2 DEF OnePlace, Once
  <2>4. \A o : ~Outstanding(o)
    BY <2>1, <2>2 DEF Outstanding, InFlight
  <2>5. OpensUnderWay = {}
    BY <2>4 DEF OpensUnderWay
  <2>6. PathsExact
    BY <2>5, PathsAreOpens, FS_EmptySet DEF Init
  <2>7. TypeOK
    BY <2>1 DEF Init, TypeOK
  <2>8. FilesNamed /\ RetriesClose /\ OneOwner
    BY <2>2, <2>4 DEF Init, FilesNamed, RetriesClose, OneOwner, Owns
  <2>9. CreationsKept
    BY DEF Init, CreationsKept
  <2> QED BY <2>3, <2>6, <2>7, <2>8, <2>9 DEF IInv
<1>2. IInv /\ [Next]_vars => IInv'
  <2> SUFFICES ASSUME IInv, [Next]_vars PROVE IInv'
    OBVIOUS
  <2>1. CASE Next
    BY <2>1, UserStep, StartStep, WorkerStep, CallbackStep DEF Next
  <2>2. CASE UNCHANGED vars
    BY <2>2 DEF vars, taskVars, opVars, kernelVars, diskVars, CreationsKept, IInv, OnePlace, TypeOK,
         FilesNamed, RetriesClose,
         PathsExact, OneOwner, Owns, Outstanding, InFlight
  <2> QED BY <2>1, <2>2
<1> QED BY <1>1, <1>2, PTL DEF Spec

(* Every variable keeps its shape; no path is freed twice. *)
THEOREM TypeCorrect == Spec => []TypeOK
<1>1. IInv => TypeOK
  BY DEF IInv
<1> QED BY <1>1, Invariance, PTL

(* The copy of a path lives as long as its request is under way, however   *)
(* the work of the requests interleaves and whichever of them fail.        *)
THEOREM PathsAreExact == Spec => []PathsExact
<1>1. IInv => PathsExact
  BY DEF IInv
<1> QED BY <1>1, Invariance, PTL

(* Unless a signal interrupts a close, what is open at a number is the     *)
(* file that its one owner takes it for.                                   *)
THEOREM DescriptorsAreExact == Spec => []DescriptorsExact
<1>1. IInv => DescriptorsExact
  <2> SUFFICES ASSUME IInv, ~interrupted, NEW d \in Fds
               PROVE  Claims(d) = {table[d]} \ {NULL}
    BY DEF DescriptorsExact
  <2>1. OneOwner /\ FilesNamed /\ TypeOK /\ OnePlace
    BY DEF IInv
  <2> DEFINE A == {p \in Range(completed) : type[p] = "open" /\ status[p] = "OK" /\ result[p] = d}
             B == {p \in Ops : type[p] = "close" /\ fd[p] = d /\ (InFlight(p) \/ p \in lost)}
  <2>2. Range(completed) \subseteq Ops
    BY <2>1 DEF OnePlace, Range
  <2>3. \A p : p \in A \cup B <=> p \in Ops /\ Owns(p, d)
    BY <2>2 DEF Owns, Outstanding
  <2>4. Claims(d) = ({held[d]} \ {NULL}) \cup {file[o] : o \in A} \cup {file[o] : o \in B}
    BY DEF Claims
  <2> HIDE DEF A, B
  <2>5. \A p \in A \cup B : file[p] = table[d] /\ file[p] # NULL
    BY <2>1, <2>3, FsAssumption DEF OneOwner, FilesNamed, Owns
  <2>6. Claims(d) \subseteq {table[d]} \ {NULL}
    BY <2>1, <2>4, <2>5 DEF OneOwner
  <2>7. table[d] # NULL => table[d] \in Claims(d)
    BY <2>1, <2>3, <2>4, <2>5 DEF OneOwner
  <2> QED BY <2>6, <2>7
<1> QED BY <1>1, Invariance, PTL

(* Of the requests to create a file exclusively one at most succeeds, and  *)
(* the translation of the flags for Windows keeps that.                    *)
THEOREM FilesAreCreatedOnce == Spec => []CreatedOnce
<1>1. IInv => CreatedOnce
  BY DEF IInv, CreationsKept, CreatedOnce
<1> QED BY <1>1, Invariance, PTL
=============================================================================
