----------------------------- MODULE KVTreeFile -----------------------------
(***************************************************************************)
(* The file layer of KVTree: processes that share one kvtree file and call *)
(* kvtree_read_file, kvtree_write_file, kvtree_read_with_lock,             *)
(* kvtree_write_with_lock and the pair kvtree_lock_open_read /             *)
(* kvtree_write_close_unlock on it (kvtree.c, kvtree_io.c).                *)
(*                                                                         *)
(* One action is one system call of the code, or the library code between *)
(* two system calls.  A kvtree is the set of its keys (merging is union).  *)
(* The file is a sequence of cells: a cell is a piece of the persisted     *)
(* image of a tree small enough for one write() to store it whole.  The    *)
(* 20-byte header is two cells, "magic, type, version", the same for every *)
(* tree, and "file size, flags"; the remaining cells are packed data and   *)
(* CRC, which tell one tree from another.                                  *)
(***************************************************************************)
EXTENDS Integers, Sequences

CONSTANTS
  Proc,         \* the processes that share the file
  Key,          \* the keys a kvtree may hold
  PersistSize,  \* PersistSize[t]: number of cells of the image of tree t
  Torn,         \* what kvtree_read_fd finds in a file it rejects (returns -1)
  Ops,          \* the operations processes call in this instance
  Retries,      \* errors a retry loop absorbs before it gives up (10; 6 for open)
  MaxCalls,     \* bound: calls per process
  MaxCrashes,   \* bound: crashes in a behaviour
  IOErrors,     \* may open, read, write, ftruncate and close fail?
  LockMayFail   \* may flock fail (EINTR, ENOLCK)?

Trees == SUBSET Key

AllOps == {"read_file", "write_file", "read_with_lock", "write_with_lock", "rmw"}
ReadOps   == {"read_file", "read_with_lock"}
LockedOps == {"read_with_lock", "write_with_lock", "rmw"}

HeaderSize == 2

KVTREE_SUCCESS == 0
KVTREE_FAILURE == 1
NoRet  == 2      \* the call has not returned
NoFd   == -1
FileFd == 3      \* what open() returns; 0, 1, 2 are the standard streams

ASSUME FileAssumption ==
  /\ PersistSize \in [Trees -> Nat]
  /\ \A t \in Trees : PersistSize[t] > HeaderSize
  /\ \A t \in Trees : t # Torn
  /\ Ops \subseteq AllOps
  /\ Retries \in Nat \ {0}
  /\ MaxCalls \in Nat
  /\ MaxCrashes \in Nat
  /\ IOErrors \in BOOLEAN
  /\ LockMayFail \in BOOLEAN

-----------------------------------------------------------------------------
(* Persisted form of a tree. *)

\* Cell i of the image kvtree_write_persist builds for t.
Cell(t, i) == [ix   |-> i,
               size |-> IF i = HeaderSize THEN PersistSize[t] ELSE 0,
               tree |-> IF i > HeaderSize THEN t ELSE {}]

\* The bytes the kernel shows where nothing was ever written.
Hole == [ix |-> 0, size |-> 0, tree |-> {}]

Cells == [ix : Nat, size : Nat, tree : Trees]

\* The header, size and CRC checks of kvtree_read_fd accept f as tree t.
Holds(f, t) == /\ Len(f) >= PersistSize[t]
               /\ \A i \in 1 .. PersistSize[t] : f[i] = Cell(t, i)

\* Mutant: the size is checked, the CRC is not.
ContentNoCrc(f) ==
  IF f = <<>> THEN {}
  ELSE IF Len(f) > HeaderSize /\ f[1].ix = 1 /\ Len(f) >= f[HeaderSize].size
       THEN UNION {f[i].tree : i \in HeaderSize + 1 .. f[HeaderSize].size}
       ELSE Torn

\* What kvtree_read_fd gets out of the cells f: nothing from an empty file,
\* the tree of an image that passes every check, Torn otherwise.
Content(f) == IF f = <<>> THEN {}
              ELSE IF \E t \in Trees : Holds(f, t)
                   THEN CHOOSE t \in Trees : Holds(f, t)
                   ELSE Torn

\* write() of one cell at offset i - 1.
WriteAt(f, i, c) == [j \in 1 .. (IF i > Len(f) THEN i ELSE Len(f)) |->
                       IF j = i THEN c ELSE IF j <= Len(f) THEN f[j] ELSE Hole]

\* ftruncate() to m cells; it extends a shorter file.
TruncateTo(f, m) == [j \in 1 .. m |-> IF j <= Len(f) THEN f[j] ELSE Hole]

-----------------------------------------------------------------------------
VARIABLES
  file,     \* the cells of the file
  exists,   \* has the file been created?
  lock,     \* lock[p] \in {"none", "sh", "ex"}: the flock p holds on the file
  pc,       \* pc[p]: the next system call of p, "idle" outside the library
  op,       \* op[p]: the operation p is in, or was last in
  fd,       \* fd[p]: the descriptor variable of p's call
  off,      \* off[p]: file offset of p's descriptor
  n,        \* n[p]: cells stored so far by kvtree_write_attempt
  buf,      \* buf[p]: cells read so far by kvtree_read_fd
  retries,  \* retries[p]: errors the current retry loop still absorbs
  hash,     \* hash[p]: the caller's kvtree
  got,      \* got[p]: what kvtree_read_fd read for p, Torn if it read nothing
  ret,      \* ret[p]: what p's last call returned
  calls,    \* calls[p]: calls p has made
  crashes,  \* crashes so far
  written   \* history: every tree some process has started to write

vars == <<file, exists, lock, pc, op, fd, off, n, buf, retries, hash, got,
          ret, calls, crashes, written>>

PCs == {"idle", "access", "open", "lock", "read", "user", "write", "trunc",
        "unlock", "close"}

\* The variables have their types: a descriptor is the file, the error code or
\* closed, and the retry loops of kvtree_io.c stop counting at one.
TypeOK ==
  /\ file \in Seq(Cells)
  /\ exists \in BOOLEAN
  /\ lock \in [Proc -> {"none", "sh", "ex"}]
  /\ pc \in [Proc -> PCs]
  /\ op \in [Proc -> AllOps]
  /\ fd \in [Proc -> {NoFd, KVTREE_FAILURE, FileFd}]
  /\ off \in [Proc -> Nat]
  /\ n \in [Proc -> Nat]
  /\ buf \in [Proc -> Seq(Cells)]
  /\ retries \in [Proc -> 1 .. Retries]
  /\ hash \in [Proc -> Trees]
  /\ got \in [Proc -> {Torn} \cup Trees]
  /\ ret \in [Proc -> {KVTREE_SUCCESS, KVTREE_FAILURE, NoRet}]
  /\ calls \in [Proc -> Nat]
  /\ crashes \in Nat
  /\ written \in SUBSET Trees

Init ==
  /\ file = <<>>
  /\ exists = FALSE
  /\ lock = [p \in Proc |-> "none"]
  /\ pc = [p \in Proc |-> "idle"]
  /\ op = [p \in Proc |-> "read_file"]
  /\ fd = [p \in Proc |-> NoFd]
  /\ off = [p \in Proc |-> 0]
  /\ n = [p \in Proc |-> 0]
  /\ buf = [p \in Proc |-> <<>>]
  /\ retries = [p \in Proc |-> Retries]
  /\ hash = [p \in Proc |-> {}]
  /\ got = [p \in Proc |-> Torn]
  /\ ret = [p \in Proc |-> NoRet]
  /\ calls = [p \in Proc |-> 0]
  /\ crashes = 0
  /\ written = {}

Goto(p, l)  == pc' = [pc EXCEPT ![p] = l]
SetRet(p, r) == ret' = [ret EXCEPT ![p] = r]

\* Mutant: a closed descriptor is marked with 0, which is an open one.
CloseFdZero(p) == /\ fd' = [fd EXCEPT ![p] = 0]
                  /\ off' = [off EXCEPT ![p] = 0]
                  /\ n' = [n EXCEPT ![p] = 0]

\* The descriptor is closed, and its offset is gone.
CloseFd(p)  == /\ fd' = [fd EXCEPT ![p] = NoFd]
               /\ off' = [off EXCEPT ![p] = 0]
               /\ n' = [n EXCEPT ![p] = 0]
FreeBuf(p)  == buf' = [buf EXCEPT ![p] = <<>>]
ResetRetries(p) == retries' = [retries EXCEPT ![p] = Retries]

\* Mutant: the loop goes on after the last retry.
RetryForEver(p, l) ==
  /\ retries' = [retries EXCEPT ![p] = IF @ > 1 THEN @ - 1 ELSE Retries]
  /\ UNCHANGED pc

\* One more error in a retry loop (EINTR and EAGAIN, which the loops ignore, are
\* stuttering steps): try again at the same pc, or give up at l.
Retry(p, l) == \/ /\ retries[p] > 1
                  /\ retries' = [retries EXCEPT ![p] = @ - 1]
                  /\ UNCHANGED pc
               \/ /\ retries[p] = 1
                  /\ Goto(p, l)
                  /\ UNCHANGED retries

-----------------------------------------------------------------------------
(* Entering the library. *)

\* The process calls operation o.  A reader passes a new, empty kvtree.
Call(p, o, h) ==
  /\ pc[p] = "idle"
  /\ calls[p] < MaxCalls
  /\ o \in {"write_file", "write_with_lock"} \/ h = {}
  /\ op' = [op EXCEPT ![p] = o]
  /\ hash' = [hash EXCEPT ![p] = h]
  /\ Goto(p, IF o = "read_file" THEN "access" ELSE "open")
  /\ got' = [got EXCEPT ![p] = Torn]
  /\ ResetRetries(p)
  /\ SetRet(p, NoRet)
  /\ calls' = [calls EXCEPT ![p] = @ + 1]
  /\ UNCHANGED <<file, exists, lock, fd, off, n, buf, crashes, written>>

\* kvtree_file_is_readable, and the early return of kvtree_read_file.
Access(p) ==
  /\ pc[p] = "access"
  /\ IF exists THEN Goto(p, "open") /\ UNCHANGED ret
               ELSE Goto(p, "idle") /\ SetRet(p, KVTREE_FAILURE)
  /\ UNCHANGED <<file, exists, lock, op, fd, off, n, buf, retries, hash, got,
                 calls, crashes, written>>

\* Where a call goes once it has its descriptor (and its lock).
Transfer(p) == IF op[p] \in {"write_file", "write_with_lock"} THEN "write" ELSE "read"

\* Mutant: kvtree_write_with_lock opens with O_TRUNC as well.
OpenTruncates(p) ==
  /\ pc[p] = "open"
  /\ file' = IF op[p] \in {"write_file", "write_with_lock"} THEN <<>> ELSE file
  /\ exists' = TRUE
  /\ fd' = [fd EXCEPT ![p] = FileFd]
  /\ Goto(p, IF op[p] \in LockedOps THEN "lock" ELSE Transfer(p))
  /\ ResetRetries(p)
  /\ UNCHANGED <<lock, op, off, n, buf, hash, got, ret, calls, crashes, written>>

\* open() succeeds: O_TRUNC for write_file, O_RDONLY for read_file, O_RDWR and
\* no truncation for the operations that lock.  A missing file is created.
Open(p) ==
  /\ pc[p] = "open"
  /\ file' = IF op[p] = "write_file" THEN <<>> ELSE file
  /\ exists' = TRUE
  /\ fd' = [fd EXCEPT ![p] = FileFd]
  /\ Goto(p, IF op[p] \in LockedOps THEN "lock" ELSE Transfer(p))
  /\ ResetRetries(p)
  /\ UNCHANGED <<lock, op, off, n, buf, hash, got, ret, calls, crashes, written>>

\* open() fails: kvtree_open tries again a few times, then the call fails.
OpenError(p) ==
  /\ IOErrors
  /\ pc[p] = "open"
  /\ Retry(p, "idle")
  /\ SetRet(p, IF retries[p] = 1 THEN KVTREE_FAILURE ELSE NoRet)
  /\ UNCHANGED <<file, exists, lock, op, fd, off, n, buf, hash, got, calls,
                 crashes, written>>

\* Mutants: a read-modify-write, or kvtree_write_with_lock, asks for LOCK_SH.
LockModeRmwShared(p)   == IF op[p] # "write_with_lock" THEN "sh" ELSE "ex"
LockModeWriteShared(p) == IF op[p] # "rmw" THEN "sh" ELSE "ex"

\* kvtree_read_with_lock asks for LOCK_SH, the other two for LOCK_EX.
LockMode(p) == IF op[p] = "read_with_lock" THEN "sh" ELSE "ex"

\* flock() returns: no other open descriptor holds a conflicting lock.
Lock(p) ==
  /\ pc[p] = "lock"
  /\ \A q \in Proc \ {p} :
       lock[q] = "none" \/ (lock[q] = "sh" /\ LockMode(p) = "sh")
  /\ lock' = [lock EXCEPT ![p] = LockMode(p)]
  /\ Goto(p, Transfer(p))
  /\ UNCHANGED <<file, exists, op, fd, off, n, buf, retries, hash, got, ret,
                 calls, crashes, written>>

\* flock() fails: kvtree_open_with_lock closes the descriptor and returns the
\* error code of kvtree_file_lock_read_write, KVTREE_FAILURE, as descriptor.
\* Its callers go on when the descriptor is >= 0.
LockError(p) ==
  /\ LockMayFail
  /\ pc[p] = "lock"
  /\ fd' = [fd EXCEPT ![p] = KVTREE_FAILURE]
  /\ IF fd'[p] >= 0 THEN Goto(p, Transfer(p)) /\ UNCHANGED ret
                    ELSE Goto(p, "idle") /\ SetRet(p, KVTREE_FAILURE)
  /\ UNCHANGED <<file, exists, lock, op, off, n, buf, retries, hash, got,
                 calls, crashes, written>>

-----------------------------------------------------------------------------
(* Reading. *)

\* Cells kvtree_read_fd asks for: the header, then what the header says.
Want(p) == IF Len(buf[p]) < HeaderSize THEN HeaderSize
           ELSE buf[p][HeaderSize].size

\* Mutant: kvtree_read_with_lock returns without kvtree_close_with_unlock.
AfterReadKeepsLock(p) == CASE op[p] = "rmw"            -> "user"
                           [] op[p] = "read_with_lock" -> "idle"
                           [] OTHER                    -> "close"

\* Where a call goes after kvtree_read_fd; kvtree_lock_open_read returns.
AfterRead(p) == CASE op[p] = "rmw"            -> "user"
                  [] op[p] = "read_with_lock" -> "unlock"
                  [] OTHER                    -> "close"

\* read() returns one more cell.  The header and the remainder are two
\* calls of kvtree_read_attempt: the second starts with fresh retries.
ReadCell(p) ==
  /\ pc[p] = "read"
  /\ fd[p] = FileFd
  /\ Len(buf[p]) < Want(p)
  /\ off[p] < Len(file)
  /\ buf' = [buf EXCEPT ![p] = Append(@, file[off[p] + 1])]
  /\ off' = [off EXCEPT ![p] = @ + 1]
  /\ IF Len(buf[p]) + 1 = HeaderSize THEN ResetRetries(p) ELSE UNCHANGED retries
  /\ UNCHANGED <<file, exists, lock, pc, op, fd, n, hash, got, ret, calls,
                 crashes, written>>

\* All that was asked for is read, or read() returned 0: check and merge.
ReadDone(p) ==
  /\ pc[p] = "read"
  /\ fd[p] = FileFd
  /\ Len(buf[p]) >= Want(p) \/ off[p] >= Len(file)
  /\ got' = [got EXCEPT ![p] = Content(buf[p])]
  /\ hash' = [hash EXCEPT ![p] = IF Content(buf[p]) = Torn THEN @
                                 ELSE @ \cup Content(buf[p])]
  /\ FreeBuf(p)
  /\ Goto(p, AfterRead(p))
  /\ UNCHANGED <<file, exists, lock, op, fd, off, n, retries, ret, calls,
                 crashes, written>>

\* read() fails: kvtree_read_attempt tries again, then kvtree_read_fd is -1.
ReadError(p) ==
  /\ IOErrors
  /\ pc[p] = "read"
  /\ fd[p] = FileFd
  /\ Len(buf[p]) < Want(p)
  /\ Retry(p, AfterRead(p))
  /\ IF retries[p] = 1 THEN FreeBuf(p) ELSE UNCHANGED buf
  /\ UNCHANGED <<file, exists, lock, op, fd, off, n, hash, got, ret, calls,
                 crashes, written>>

\* read() on descriptor 1: the kvtree file is not read; it fails or is empty.
ReadStdout(p) ==
  /\ pc[p] = "read"
  /\ fd[p] = KVTREE_FAILURE
  /\ \E t \in {{}, Torn} : got' = [got EXCEPT ![p] = t]
  /\ Goto(p, AfterRead(p))
  /\ UNCHANGED <<file, exists, lock, op, fd, off, n, buf, retries, hash, ret,
                 calls, crashes, written>>

\* Mutant: the file is not wound back.
WriteCloseUnlockNoSeek(p, t) ==
  /\ pc[p] = "user"
  /\ hash' = [hash EXCEPT ![p] = t]
  /\ n' = [n EXCEPT ![p] = 0]
  /\ ResetRetries(p)
  /\ Goto(p, "write")
  /\ UNCHANGED <<file, exists, lock, op, fd, off, buf, got, ret, calls, crashes,
                 written>>

\* Between kvtree_lock_open_read and kvtree_write_close_unlock: the caller
\* changes its tree to t and hands it back; the code winds the file back.
WriteCloseUnlock(p, t) ==
  /\ pc[p] = "user"
  /\ hash' = [hash EXCEPT ![p] = t]
  /\ off' = [off EXCEPT ![p] = 0]
  /\ n' = [n EXCEPT ![p] = 0]
  /\ ResetRetries(p)
  /\ Goto(p, "write")
  /\ UNCHANGED <<file, exists, lock, op, fd, buf, got, ret, calls, crashes,
                 written>>

-----------------------------------------------------------------------------
(* Writing. *)

\* Where a call goes after kvtree_write_fd; only a complete write by
\* kvtree_write_close_unlock truncates.
AfterWrite(p, complete) ==
  CASE op[p] = "rmw" /\ complete -> "trunc"
    [] op[p] \in LockedOps /\ ~(op[p] = "rmw" /\ complete) -> "unlock"
    [] OTHER -> "close"

\* write() stores one more cell of the image of hash[p].
WriteCell(p) ==
  LET size == PersistSize[hash[p]] IN
  /\ pc[p] = "write"
  /\ fd[p] = FileFd
  /\ n[p] < size
  /\ file' = WriteAt(file, off[p] + 1, Cell(hash[p], n[p] + 1))
  /\ off' = [off EXCEPT ![p] = @ + 1]
  /\ n' = [n EXCEPT ![p] = @ + 1]
  /\ IF n[p] + 1 = size THEN Goto(p, AfterWrite(p, TRUE)) ELSE UNCHANGED pc
  /\ written' = written \cup {hash[p]}
  /\ UNCHANGED <<exists, lock, op, fd, buf, retries, hash, got, ret, calls,
                 crashes>>

\* write() fails: kvtree_write_attempt tries again, then gives up; it gives up
\* at once if write() returns 0.
WriteError(p) ==
  /\ IOErrors
  /\ pc[p] = "write"
  /\ fd[p] = FileFd
  /\ \/ Retry(p, AfterWrite(p, FALSE))
     \/ Goto(p, AfterWrite(p, FALSE)) /\ UNCHANGED retries
  /\ UNCHANGED <<file, exists, lock, op, fd, off, n, buf, hash, got, ret,
                 calls, crashes, written>>

\* write() on descriptor 1: the kvtree file does not change.
WriteStdout(p) ==
  /\ pc[p] = "write"
  /\ fd[p] = KVTREE_FAILURE
  /\ \E complete \in BOOLEAN : Goto(p, AfterWrite(p, complete))
  /\ UNCHANGED <<file, exists, lock, op, fd, off, n, buf, retries, hash, got,
                 ret, calls, crashes, written>>

\* ftruncate() to the bytes written; a failure is only logged.
Truncate(p) ==
  /\ pc[p] = "trunc"
  /\ \/ fd[p] = FileFd /\ file' = TruncateTo(file, n[p])
     \/ (fd[p] # FileFd \/ IOErrors) /\ UNCHANGED file
  /\ Goto(p, "unlock")
  /\ UNCHANGED <<exists, lock, op, fd, off, n, buf, retries, hash, got, ret,
                 calls, crashes, written>>

-----------------------------------------------------------------------------
(* Leaving the library. *)

\* kvtree_file_unlock, before the fsync and close of kvtree_close.  flock() does
\* not fail to unlock an open descriptor.
Unlock(p) ==
  /\ pc[p] = "unlock"
  /\ lock' = [lock EXCEPT ![p] = "none"]
  /\ Goto(p, "close")
  /\ UNCHANGED <<file, exists, op, fd, off, n, buf, retries, hash, got, ret,
                 calls, crashes, written>>

\* The value the call returns, given whether close() worked.
Result(p, closed) ==
  CASE op[p] \in ReadOps ->
         IF got[p] # Torn /\ closed THEN KVTREE_SUCCESS ELSE KVTREE_FAILURE
    [] op[p] = "write_file" ->
         IF n[p] = PersistSize[hash[p]] /\ closed THEN KVTREE_SUCCESS
                                                  ELSE KVTREE_FAILURE
    [] OTHER -> KVTREE_SUCCESS

\* kvtree_close, and the return of the call.
Close(p) ==
  /\ pc[p] = "close"
  /\ \E closed \in (IF IOErrors THEN BOOLEAN ELSE {TRUE}) : SetRet(p, Result(p, closed))
  /\ CloseFd(p)
  /\ Goto(p, "idle")
  /\ UNCHANGED <<file, exists, lock, op, buf, retries, hash, got, calls,
                 crashes, written>>

\* The process dies inside the library or in between the two halves of a
\* read-modify-write.  The kernel closes its descriptor, which drops its lock;
\* what it wrote stays.  The process may start again with a new call.
Crash(p) ==
  /\ pc[p] # "idle"
  /\ crashes < MaxCrashes
  /\ crashes' = crashes + 1
  /\ lock' = [lock EXCEPT ![p] = "none"]
  /\ CloseFd(p)
  /\ FreeBuf(p)
  /\ hash' = [hash EXCEPT ![p] = {}]
  /\ got' = [got EXCEPT ![p] = Torn]
  /\ Goto(p, "idle")
  /\ SetRet(p, NoRet)
  /\ UNCHANGED <<file, exists, op, retries, calls, written>>

-----------------------------------------------------------------------------
\* What p does inside the library, or owes it.  A failing flock() is not part of
\* it: flock() waits for as long as another process has the lock.
Step(p) ==
  \/ Access(p) \/ Open(p) \/ OpenError(p) \/ Lock(p)
  \/ ReadCell(p) \/ ReadDone(p) \/ ReadError(p) \/ ReadStdout(p)
  \/ \E t \in Trees : WriteCloseUnlock(p, t)
  \/ WriteCell(p) \/ WriteError(p) \/ WriteStdout(p) \/ Truncate(p)
  \/ Unlock(p) \/ Close(p)

\* Every process has made its calls.
Finished == /\ \A p \in Proc : pc[p] = "idle" /\ calls[p] = MaxCalls
            /\ UNCHANGED vars

Next ==
  \/ \E p \in Proc : Step(p) \/ LockError(p) \/ Crash(p)
  \/ \E p \in Proc, o \in Ops, h \in Trees : Call(p, o, h)
  \/ Finished

Spec == Init /\ [][Next]_vars

\* A process that is in the library keeps running, and a caller that has
\* locked the file writes it back.  A process that waits in flock() goes on when
\* the lock is free; nothing makes its flock() fail.
FairSpec == Spec /\ \A p \in Proc : WF_vars(Step(p))

-----------------------------------------------------------------------------
(* Properties. *)

\* kvtree_file_lock_read_write: an exclusive lock excludes every other lock.
LockExclusion ==
  \A p, q \in Proc : p # q /\ lock[p] = "ex" => lock[q] = "none"

\* api.rst:342, "This results in an atomic read among processes using the file
\* lock": what a locked read or the read half of a read-modify-write has got is
\* still exactly what the file holds when the process is about to unlock or to
\* write back.  It got nothing only if the file is torn or a read() failed.
LockedReadIsAtomic ==
  \A p \in Proc :
    /\ lock[p] # "none"
    /\ pc[p] = "user" \/ (pc[p] = "unlock" /\ op[p] = "read_with_lock")
    => got[p] = Content(file) \/ (got[p] = Torn /\ IOErrors)

\* kvtree_write_with_lock and kvtree_write_close_unlock: whatever the file held
\* before (nothing, a shorter or longer tree, what a dead writer left), once all
\* cells are stored and the lock is still held, the file reads as the new tree.
LockedWriteIsStored ==
  \A p \in Proc :
    /\ lock[p] = "ex"
    /\ pc[p] \in {"trunc", "unlock"}
    /\ n[p] = PersistSize[hash[p]]
    => Content(file) = hash[p]

\* With no crash and no I/O error, the file is whole whenever nobody holds the
\* exclusive lock: a locked reader never fails (kvtree_read_with_lock).
WholeBetweenWriters ==
  /\ crashes = 0
  /\ ~IOErrors
  /\ \A p \in Proc : lock[p] # "ex"
  => Content(file) # Torn

(* The inductive invariant behind the properties above, for *)
(* instances whose processes use the locking calls only.                    *)

\* p's descriptor is the kvtree file, between flock() and the unlock.
HasFile(p) == /\ fd[p] = FileFd
              /\ pc[p] \in {"read", "user", "write", "trunc", "unlock"}

\* The lock follows the control state of the call.
SessionInv(p) ==
  /\ pc[p] # "idle" => op[p] \in LockedOps /\ pc[p] # "access"
  /\ lock[p] = IF HasFile(p) THEN LockMode(p) ELSE "none"
  /\ pc[p] \in {"open", "lock", "read"} => got[p] = Torn
  /\ pc[p] = "read" => op[p] # "write_with_lock"
  /\ pc[p] = "write" => op[p] # "read_with_lock"
  /\ pc[p] \in {"user", "trunc"} => op[p] = "rmw"
  /\ pc[p] = "lock" => fd[p] = FileFd
  /\ pc[p] \in {"idle", "open", "lock"} => off[p] = 0 /\ n[p] = 0
  /\ pc[p] # "read" \/ fd[p] # FileFd => buf[p] = <<>>

\* What has been transferred so far agrees with the file.
TransferInv(p) ==
  HasFile(p) =>
    /\ pc[p] = "read" => /\ off[p] = Len(buf[p])
                         /\ Len(buf[p]) <= Len(file)
                         /\ \A i \in 1 .. Len(buf[p]) : buf[p][i] = file[i]
    /\ pc[p] = "user" \/ (pc[p] = "unlock" /\ op[p] = "read_with_lock") =>
         got[p] = Content(file) \/ (got[p] = Torn /\ IOErrors)
    /\ pc[p] = "write" => /\ off[p] = n[p]
                          /\ n[p] < PersistSize[hash[p]]
                          /\ n[p] <= Len(file)
                          /\ \A i \in 1 .. n[p] : file[i] = Cell(hash[p], i)
    /\ pc[p] = "trunc" => n[p] = PersistSize[hash[p]]
    /\ /\ pc[p] \in {"trunc", "unlock"}
       /\ op[p] # "read_with_lock"
       /\ n[p] = PersistSize[hash[p]]
       => Holds(file, hash[p])

LockedInv == LockExclusion /\ \A p \in Proc : SessionInv(p) /\ TransferInv(p)

\* kvtree_read_fd: a read that succeeds returns a tree that some process wrote,
\* or nothing from an empty file, even when readers and writers do not lock, a
\* writer dies, or two writers overlap.
ReadsOnlyWhatWasWritten ==
  \A p \in Proc : got[p] # Torn => got[p] \in written \cup {{}}

\* Every call returns, however often the retry loops of kvtree_io.c meet an error,
\* and a process that waits in flock() gets the lock: no call, with or without
\* errors, leaves the library with the file locked.
CallsReturn == \A p \in Proc : pc[p] # "idle" ~> pc[p] = "idle"

\* kvtree.c:1506, "Return a fd for 'file' >= 0 on success, -1 on failure.": a
\* process that goes on to transfer data under lock has the file and its lock.
OpenWithLockGivesFile ==
  \A p \in Proc :
    op[p] \in LockedOps /\ pc[p] \in {"read", "write"}
      => fd[p] = FileFd /\ lock[p] # "none"

\* kvtree.h:260, "lock the file, open it, and read it into hash", and kvtree.c:1567,
\* "Write the kvtree from 'hash' to 'file'": kvtree_lock_open_read returns
\* KVTREE_SUCCESS with what it has read, kvtree_write_with_lock when all of hash is
\* written.
SuccessMeansTransferred ==
  [][\A p \in Proc :
       /\ op[p] = "write_with_lock" /\ ret[p] = NoRet /\ ret'[p] = KVTREE_SUCCESS
            => n[p] = PersistSize[hash[p]]
       /\ pc[p] # "user" /\ pc'[p] = "user" => got'[p] # Torn]_vars

=============================================================================
