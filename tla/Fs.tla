--------------------------------- MODULE Fs ---------------------------------
(***************************************************************************)
(* The file operations of src/sys/fs_unix.c and src/sys/fs_win32.c.  A     *)
(* request is a task of the thread pool, of which only what TaskService    *)
(* promises is used; its work makes system calls on a worker, beside the   *)
(* work of other requests, and its callback runs on the loop.  The system  *)
(* calls share the descriptor table of the process, and a number that is   *)
(* closed is given out again.                                              *)
(***************************************************************************)
EXTENDS Naturals, Sequences, FiniteSets, SequencesExt

CONSTANTS Ops,     \* the pd_fs_t objects of the user
          Files,   \* what paths name
          Flags,   \* sets of open flags the user passes
          MaxFd,   \* descriptors the process may have open
          NULL

(* PD_FS_O_RDONLY is 0: it is the absence of the first two. *)
OpenFlags == {"WRONLY", "RDWR", "CREAT", "EXCL", "TRUNC", "APPEND"}

ASSUME FsAssumption == /\ MaxFd \in Nat \ {0} /\ NULL \notin Files /\ IsFiniteSet(Ops)
                       /\ Flags \subseteq SUBSET OpenFlags

Fds == 1 .. MaxFd

VARIABLES
    platform,                    \* "unix" or "win32"
    pool,                        \* the thread pool: "none", "up", "joining"
    queued, running, completed,  \* the tasks, see TaskService
    lost,                        \* requests that pd_task_submit refused
    type, file, oflag, fd,       \* of a request: what, path, flags, descriptor
    status, result,              \* op->status, and op->result.fd of an open
    paths,                       \* copies of paths that were not freed
    retrying,                    \* close requests that EINTR interrupted
    table, rights, disk,         \* the kernel: the file open at a descriptor,
                                 \* what it is open for, the files that exist
    held,                        \* descriptors the user may use, and of what
    interrupted,                 \* history: EINTR interrupted some close
    made                         \* history: exclusive creations of each file

taskVars == <<queued, running, completed>>
opVars == <<type, file, oflag, fd, status, result, paths, retrying>>
diskVars == <<disk, made>>
kernelVars == <<table, rights, interrupted, diskVars>>
vars == <<platform, pool, taskVars, lost, opVars, kernelVars, held>>

Service == INSTANCE TaskService WITH Tasks <- Ops, pending <- queued

InFlight(o) == o \in Range(queued) \cup running

Init ==
    /\ platform \in {"unix", "win32"} /\ pool = "none"
    /\ Service!Init /\ lost = {}
    /\ type = [o \in Ops |-> "unknown"] /\ file = [o \in Ops |-> NULL]
    /\ oflag = [o \in Ops |-> {}] /\ fd = [o \in Ops |-> 0] /\ status = [o \in Ops |-> "UNKNOWN"]
    /\ result = [o \in Ops |-> 0] /\ paths = 0 /\ retrying = {}
    /\ table = [f \in Fds |-> NULL] /\ rights = [f \in Fds |-> {}]
    /\ disk \in SUBSET Files /\ made = [f \in Files |-> 0] /\ interrupted = FALSE
    /\ held = [f \in Fds |-> NULL]
-----------------------------------------------------------------------------
(* What the flags of an open mean: whether a file is opened, which may     *)
(* exist or not, and what the descriptor is good for.                      *)

(* open(2), to which fs_unix.c passes the flags as they are. *)
PosixOpens(flags, existing) ==
    IF existing THEN ~({"CREAT", "EXCL"} \subseteq flags) ELSE "CREAT" \in flags

PosixRights(flags) ==
    CASE "WRONLY" \in flags -> {"W"} [] "RDWR" \in flags -> {"R", "W"} [] OTHER -> {"R"}

(* Mutant: the exclusive flag is forgotten. *)
CreationShared(flags) ==
    IF "TRUNC" \in flags THEN "CREATE_ALWAYS"
    ELSE IF "CREAT" \in flags THEN "OPEN_ALWAYS" ELSE "OPEN_EXISTING"

(* The translation of pd__fs_open_work for CreateFile. *)
Creation(flags) ==
    IF "TRUNC" \in flags THEN "CREATE_ALWAYS"
    ELSE IF "CREAT" \in flags THEN IF "EXCL" \in flags THEN "CREATE_NEW" ELSE "OPEN_ALWAYS"
    ELSE "OPEN_EXISTING"

WinOpens(flags, existing) ==
    Creation(flags) \in {"CREATE_ALWAYS", "OPEN_ALWAYS",
                         IF existing THEN "OPEN_EXISTING" ELSE "CREATE_NEW"}

(* oflag & PD_FS_O_RDONLY is 0, so that nothing asks for GENERIC_READ but  *)
(* PD_FS_O_RDWR.                                                           *)
WinRights(flags) == (IF "WRONLY" \in flags THEN {"W"} ELSE {})
                    \cup (IF "RDWR" \in flags THEN {"R", "W"} ELSE {})

Opens(flags, existing) ==
    IF platform = "unix" THEN PosixOpens(flags, existing) ELSE WinOpens(flags, existing)

Rights(flags) == IF platform = "unix" THEN PosixRights(flags) ELSE WinRights(flags)

(* The open is to make a new file or to fail.  On Windows O_TRUNC          *)
(* overrides that.                                                         *)
Exclusive(flags) == /\ {"CREAT", "EXCL"} \subseteq flags
                    /\ platform = "win32" => "TRUNC" \notin flags
-----------------------------------------------------------------------------
(* Calls the user makes.  A pd_fs_t is not used again before its callback, *)
(* and a descriptor is closed when no other request on it is under way.    *)

(* The loop thread is not waiting in pd_threadpool_end. *)
UserCode == pool # "joining"

PoolUnchanged == UNCHANGED <<platform, taskVars, lost, opVars, kernelVars, held>>

(* A new pool takes over what the last one left in the queue. *)
pd_threadpool_init == pool = "none" /\ pool' = "up" /\ PoolUnchanged

(* The threads end after the work they are at; the queue stays. *)
pd_threadpool_end == pool = "up" /\ pool' = "joining" /\ PoolUnchanged

EndJoined == pool = "joining" /\ running = {} /\ pool' = "none" /\ PoolUnchanged

Unused(o) == ~InFlight(o) /\ o \notin Range(completed) \cup lost
Busy(f) == \E o \in Ops : fd[o] = f /\ type[o] # "open" /\ ~Unused(o)

(* pd_task_submit, the result of which nobody looks at. *)
Submit(o) == IF pool = "up" THEN Service!Submit(o) /\ UNCHANGED lost
                            ELSE lost' = lost \cup {o} /\ UNCHANGED taskVars

pd_fs_open(o, f, flags) ==
    /\ UserCode /\ Unused(o)
    /\ type' = [type EXCEPT ![o] = "open"] /\ file' = [file EXCEPT ![o] = f]
    /\ oflag' = [oflag EXCEPT ![o] = flags]
    /\ paths' = paths + 1
    /\ Submit(o)
    /\ UNCHANGED <<platform, pool, fd, status, result, retrying, kernelVars, held>>

(* A request on an open descriptor. *)
Use(o, d, what) ==
    /\ UserCode /\ Unused(o) /\ held[d] # NULL
    /\ type' = [type EXCEPT ![o] = what] /\ fd' = [fd EXCEPT ![o] = d]
    /\ file' = [file EXCEPT ![o] = held[d]]
    /\ Submit(o)
    /\ UNCHANGED <<platform, pool, oflag, status, result, paths, retrying, kernelVars, held>>

pd_fs_read(o, d) == Use(o, d, "read")
pd_fs_write(o, d) == Use(o, d, "write")
pd_fs_stat(o, d) == Use(o, d, "stat")

pd_fs_close(o, d) ==
    /\ UserCode /\ Unused(o) /\ held[d] # NULL /\ ~Busy(d)
    /\ type' = [type EXCEPT ![o] = "close"] /\ fd' = [fd EXCEPT ![o] = d]
    /\ file' = [file EXCEPT ![o] = held[d]]
    /\ held' = [held EXCEPT ![d] = NULL]
    /\ Submit(o)
    /\ UNCHANGED <<platform, pool, oflag, status, result, paths, retrying, kernelVars>>
-----------------------------------------------------------------------------
(* The workers.  Interrupted opens, reads, writes and calls of fstat are   *)
(* tried again and had no effect.                                          *)

WorkerStarts == /\ pool = "up" /\ Service!Start
                /\ UNCHANGED <<platform, pool, lost, opVars, kernelVars, held>>

WorkUnchanged == UNCHANGED <<platform, pool, lost, type, file, oflag, fd, held>>
Working(o, what) == o \in running /\ type[o] = what
SetStatus(o, value) == status' = [status EXCEPT ![o] = value]

(* With flags that allow it the file is opened at a number that is free,   *)
(* on Windows only if it is not open already.                              *)
OpenDone(o) ==
    /\ Working(o, "open")
    /\ Opens(oflag[o], file[o] \in disk)
    /\ platform = "win32" => \A d \in Fds : table[d] # file[o]
    /\ \E d \in {n \in Fds : table[n] = NULL} :
          /\ table' = [table EXCEPT ![d] = file[o]]
          /\ rights' = [rights EXCEPT ![d] = Rights(oflag[o])]
          /\ result' = [result EXCEPT ![o] = d]
    /\ disk' = disk \cup {file[o]}
    /\ made' = IF Exclusive(oflag[o]) THEN [made EXCEPT ![file[o]] = @ + 1] ELSE made
    /\ SetStatus(o, "OK") /\ paths' = paths - 1
    /\ Service!Finish(o)
    /\ UNCHANGED <<retrying, interrupted>> /\ WorkUnchanged

(* Mutant: the copy of the path is freed only when the file was opened. *)
OpenFailsEarly(o) ==
    /\ Working(o, "open")
    /\ SetStatus(o, "error") /\ result' = [result EXCEPT ![o] = 0]
    /\ Service!Finish(o)
    /\ UNCHANGED <<paths, retrying, kernelVars>> /\ WorkUnchanged

(* The flags, the permissions or the number of descriptors forbid it. *)
OpenFails(o) ==
    /\ Working(o, "open")
    /\ SetStatus(o, "error") /\ result' = [result EXCEPT ![o] = 0]
    /\ paths' = paths - 1
    /\ Service!Finish(o)
    /\ UNCHANGED <<retrying, kernelVars>> /\ WorkUnchanged

(* The system call of a request, which fails on a number that is not open  *)
(* for it.                                                                 *)
UseDone(o, what, needs) ==
    /\ Working(o, what)
    /\ \/ SetStatus(o, "error")
       \/ table[fd[o]] # NULL /\ needs \subseteq rights[fd[o]] /\ SetStatus(o, "OK")
    /\ Service!Finish(o)
    /\ UNCHANGED <<result, paths, retrying, kernelVars>> /\ WorkUnchanged

pd__fs_read_work(o) == UseDone(o, "read", {"R"})
pd__fs_write_work(o) == UseDone(o, "write", {"W"})
pd__fs_stat_work(o) == UseDone(o, "stat", {})

(* close() on the number. *)
CloseFd(d) == /\ table' = [table EXCEPT ![d] = NULL]
              /\ rights' = [rights EXCEPT ![d] = {}]
              /\ UNCHANGED diskVars

CloseUnchanged == UNCHANGED <<result, paths>> /\ WorkUnchanged

(* Mutant: close is called once more although it was not interrupted. *)
CloseTwice(o) ==
    /\ Working(o, "close")
    /\ CloseFd(fd[o])
    /\ IF o \in retrying THEN SetStatus(o, "OK") /\ Service!Finish(o) /\ UNCHANGED retrying
       ELSE retrying' = retrying \cup {o} /\ UNCHANGED <<status, taskVars>>
    /\ UNCHANGED interrupted /\ CloseUnchanged

(* pd__fs_close_work; a number that is not open gives an error. *)
CloseDone(o) ==
    /\ Working(o, "close")
    /\ SetStatus(o, IF table[fd[o]] = NULL THEN "error" ELSE "OK")
    /\ CloseFd(fd[o])
    /\ retrying' = retrying \ {o}
    /\ Service!Finish(o)
    /\ UNCHANGED interrupted /\ CloseUnchanged

(* EINTR: the number is free although close failed, and is closed again. *)
CloseInterrupted(o) ==
    /\ platform = "unix" /\ Working(o, "close") /\ o \notin retrying
    /\ CloseFd(fd[o])
    /\ retrying' = retrying \cup {o} /\ interrupted' = TRUE
    /\ UNCHANGED <<status, taskVars>> /\ CloseUnchanged
-----------------------------------------------------------------------------
(* The callback of a request: it learns the descriptor that was opened,    *)
(* and frees the pd_fs_t or initialises it again with pd_fs_init.          *)
Callback(o, d) ==
    /\ held' = IF d # 0 THEN [held EXCEPT ![d] = file[o]] ELSE held
    /\ type' = [type EXCEPT ![o] = "unknown"] /\ file' = [file EXCEPT ![o] = NULL]
    /\ oflag' = [oflag EXCEPT ![o] = {}]
    /\ fd' = [fd EXCEPT ![o] = 0] /\ status' = [status EXCEPT ![o] = "UNKNOWN"]
    /\ result' = [result EXCEPT ![o] = 0]

(* pd__fs_work_done. *)
pd__fs_work_done ==
    /\ UserCode /\ Service!Deliver
    /\ LET o == Head(completed)
       IN Callback(o, IF type[o] = "open" /\ status[o] = "OK" THEN result[o] ELSE 0)
    /\ UNCHANGED <<platform, pool, lost, paths, retrying, kernelVars>>

User == \/ pd_threadpool_init \/ pd_threadpool_end \/ EndJoined
        \/ \E o \in Ops : \/ \E f \in Files, flags \in Flags : pd_fs_open(o, f, flags)
                          \/ \E d \in Fds : \/ pd_fs_close(o, d) \/ pd_fs_read(o, d)
                                            \/ pd_fs_write(o, d) \/ pd_fs_stat(o, d)

Worker(o) == \/ OpenDone(o) \/ OpenFails(o) \/ CloseDone(o) \/ CloseInterrupted(o)
             \/ pd__fs_read_work(o) \/ pd__fs_write_work(o) \/ pd__fs_stat_work(o)

Next == User \/ WorkerStarts \/ (\E o \in Ops : Worker(o)) \/ pd__fs_work_done

Spec == Init /\ [][Next]_vars
-----------------------------------------------------------------------------
(* Correctness.                                                            *)

(* Every variable has the shape the code gives it. *)
TypeOK ==
    /\ platform \in {"unix", "win32"} /\ pool \in {"none", "up", "joining"}
    /\ running \subseteq Ops /\ lost \subseteq Ops /\ retrying \subseteq running
    /\ type \in [Ops -> {"unknown", "open", "read", "write", "stat", "close"}]
    /\ oflag \in [Ops -> SUBSET OpenFlags]
    /\ file \in [Ops -> Files \cup {NULL}] /\ fd \in [Ops -> 0 .. MaxFd]
    /\ status \in [Ops -> {"UNKNOWN", "OK", "error"}] /\ result \in [Ops -> 0 .. MaxFd]
    /\ paths \in Nat /\ table \in [Fds -> Files \cup {NULL}]
    /\ held \in [Fds -> Files \cup {NULL}] /\ rights \in [Fds -> SUBSET {"R", "W"}]
    /\ disk \subseteq Files /\ made \in [Files -> Nat]

(* The file somebody has a claim to at a descriptor: the user, an open     *)
(* whose callback is still to come, or a close that was not made yet.      *)
Claims(d) ==
    ({held[d]} \ {NULL})
    \cup {file[o] : o \in {p \in Range(completed) :
                              type[p] = "open" /\ status[p] = "OK" /\ result[p] = d}}
    \cup {file[o] : o \in {p \in Ops : type[p] = "close" /\ fd[p] = d
                                       /\ (InFlight(p) \/ p \in lost)}}

(* The descriptor table and the user agree, although workers open and      *)
(* close at the same time and numbers come back at once: what is open is   *)
(* claimed by one, and is the file they think it is.  The exception is a   *)
(* close that a signal interrupts: it is made again, by which time the     *)
(* number may be the one another worker has just opened.                   *)
DescriptorsExact ==
    ~interrupted => \A d \in Fds : Claims(d) = {table[d]} \ {NULL}

(* The copy of a path lives as long as its request is under way; a request *)
(* that the pool refused keeps it for ever.                                *)
PathsExact ==
    paths = Cardinality({o \in Ops : type[o] = "open" /\ (InFlight(o) \/ o \in lost)})

(* A file is created exclusively once, as long as nobody deletes it: of    *)
(* requests with PD_FS_O_CREAT and PD_FS_O_EXCL for a path, whichever      *)
(* workers carry them out and however often it was closed in between, one  *)
(* at most is answered with a descriptor.  With PD_FS_O_TRUNC the          *)
(* translation of fs_win32.c:61 gives up that promise, see Exclusive.      *)
CreatedOnce == \A f \in Files : made[f] <= 1
=============================================================================
