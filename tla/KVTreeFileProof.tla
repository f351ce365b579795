-------------------------- MODULE KVTreeFileProof --------------------------
(***************************************************************************)
(* Proofs about KVTreeFile for every set of processes, keys and sizes.     *)
(***************************************************************************)
EXTENDS KVTreeFile, TLAPS

-----------------------------------------------------------------------------
(* Facts about the persisted form. *)

\* A piece of an image is a cell.
LEMMA CellType ==
  ASSUME NEW t \in Trees, NEW i \in Nat
  PROVE  Cell(t, i) \in Cells
BY FileAssumption DEF Cell, Cells, HeaderSize, Trees

\* write() keeps the file a sequence of cells, and says which ones.
LEMMA WriteAtType ==
  ASSUME NEW f \in Seq(Cells), NEW i \in Nat \ {0}, NEW c \in Cells
  PROVE  /\ WriteAt(f, i, c) \in Seq(Cells)
         /\ Len(WriteAt(f, i, c)) = IF i > Len(f) THEN i ELSE Len(f)
         /\ WriteAt(f, i, c)[i] = c
         /\ \A j \in 1 .. Len(f) : j # i => WriteAt(f, i, c)[j] = f[j]
<1>1. Hole \in Cells
  BY DEF Hole, Cells, Trees
<1>2. Len(f) \in Nat /\ \A j \in 1 .. Len(f) : f[j] \in Cells
  OBVIOUS
<1>3. QED
  BY <1>1, <1>2 DEF WriteAt

\* ftruncate() keeps the file a sequence of cells, and says which ones.
LEMMA TruncateToType ==
  ASSUME NEW f \in Seq(Cells), NEW m \in Nat
  PROVE  /\ TruncateTo(f, m) \in Seq(Cells)
         /\ Len(TruncateTo(f, m)) = m
         /\ \A j \in 1 .. m : j <= Len(f) => TruncateTo(f, m)[j] = f[j]
<1>1. Hole \in Cells
  BY DEF Hole, Cells, Trees
<1>2. Len(f) \in Nat /\ \A j \in 1 .. Len(f) : f[j] \in Cells
  OBVIOUS
<1>3. QED
  BY <1>1, <1>2 DEF TruncateTo

\* The data cells of an accepted image name its tree: a file reads as one tree.
LEMMA HoldsUnique ==
  ASSUME NEW f, NEW t \in Trees, NEW u \in Trees, Holds(f, t), Holds(f, u)
  PROVE  t = u
<1>1. PersistSize[t] \in Nat /\ PersistSize[t] >= 3
  BY FileAssumption DEF HeaderSize
<1>2. PersistSize[u] \in Nat /\ PersistSize[u] >= 3
  BY FileAssumption DEF HeaderSize
<1>3. 3 \in 1 .. PersistSize[t] /\ 3 \in 1 .. PersistSize[u]
  BY <1>1, <1>2
<1>4. Cell(t, 3) = Cell(u, 3)
  BY <1>3 DEF Holds
<1>5. Cell(t, 3).tree = t /\ Cell(u, 3).tree = u
  BY DEF Cell, HeaderSize
<1>6. QED
  BY <1>4, <1>5

\* A file that passes the checks as t reads as t.
LEMMA HoldsContent ==
  ASSUME NEW f \in Seq(Cells), NEW t \in Trees, Holds(f, t)
  PROVE  Content(f) = t
<1>1. f # <<>>
  BY FileAssumption DEF Holds, HeaderSize
<1>2. \A u \in Trees : Holds(f, u) => u = t
  BY HoldsUnique
<1>3. QED
  BY <1>1, <1>2 DEF Content

\* What a file reads as is a tree or Torn.
LEMMA ContentType ==
  ASSUME NEW f
  PROVE  Content(f) \in {Torn} \cup Trees
BY DEF Content, Trees

\* A reader that has all it asked for, or met the end of the file, has got
\* what the whole file reads as.
LEMMA PrefixContent ==
  ASSUME NEW f \in Seq(Cells), NEW b \in Seq(Cells),
         Len(b) <= Len(f),
         \A i \in 1 .. Len(b) : b[i] = f[i],
         \/ Len(b) >= Len(f)
         \/ Len(b) >= HeaderSize /\ Len(b) >= b[HeaderSize].size
  PROVE  Content(b) = Content(f)
<1>1. CASE Len(b) >= Len(f)
  <2>1. Len(b) = Len(f)
    BY <1>1
  <2>2. b = f
    BY <2>1
  <2>3. QED
    BY <2>2
<1>2. CASE Len(b) >= HeaderSize /\ Len(b) >= b[HeaderSize].size
  <2>1. b # <<>> /\ f # <<>>
    BY <1>2 DEF HeaderSize
  <2>2. ASSUME NEW t \in Trees
        PROVE  Holds(b, t) <=> Holds(f, t)
    <3>1. PersistSize[t] \in Nat /\ PersistSize[t] >= 3
      BY FileAssumption DEF HeaderSize
    <3>2. Holds(b, t) => Holds(f, t)
      BY <3>1 DEF Holds
    <3>3. ASSUME Holds(f, t)
          PROVE  Holds(b, t)
      <4>1. 2 \in 1 .. PersistSize[t] /\ 2 \in 1 .. Len(b)
        BY <3>1, <1>2 DEF HeaderSize
      <4>2. b[2] = Cell(t, 2)
        BY <3>3, <4>1 DEF Holds
      <4>3. b[HeaderSize].size = PersistSize[t]
        BY <4>2 DEF Cell, HeaderSize
      <4>4. QED
        BY <1>2, <3>1, <3>3, <4>3 DEF Holds
    <3>4. QED
      BY <3>2, <3>3
  <2>3. QED
    BY <2>1, <2>2 DEF Content
<1>3. QED
  BY <1>1, <1>2

-----------------------------------------------------------------------------
(* Type correctness. *)

\* A retry loop stays at a known pc and within its budget.
LEMMA RetryType ==
  ASSUME NEW p \in Proc, NEW l \in PCs, TypeOK, Retry(p, l)
  PROVE  pc' \in [Proc -> PCs] /\ retries' \in [Proc -> 1 .. Retries]
<1>1. pc \in [Proc -> PCs] /\ retries \in [Proc -> 1 .. Retries] /\ Retries \in Nat
  BY FileAssumption DEF TypeOK
<1>2. CASE retries[p] > 1 /\ UNCHANGED pc
           /\ retries' = [retries EXCEPT ![p] = retries[p] - 1]
  <2>1. retries[p] - 1 \in 1 .. Retries
    BY <1>1, <1>2
  <2>2. QED
    BY <1>1, <1>2, <2>1
<1>3. CASE pc' = [pc EXCEPT ![p] = l] /\ UNCHANGED retries
  BY <1>1, <1>3
<1>4. QED
  BY <1>2, <1>3 DEF Retry, Goto

\* Every variable of the file layer keeps its type.
THEOREM TypeCorrect == Spec => []TypeOK
<1> USE FileAssumption DEF TypeOK
<1>1. Init => TypeOK
  <2> SUFFICES ASSUME Init PROVE TypeOK
    OBVIOUS
  <2>1. {} \in Trees
    BY DEF Trees
  <2>2. <<>> \in Seq(Cells)
    OBVIOUS
  <2>3. Retries \in 1 .. Retries
    OBVIOUS
  <2>4. retries \in [Proc -> 1 .. Retries] /\ buf \in [Proc -> Seq(Cells)]
    BY <2>2, <2>3 DEF Init
  <2>5. hash \in [Proc -> Trees] /\ got \in [Proc -> {Torn} \cup Trees]
    BY <2>1 DEF Init
  <2>6. QED
    BY <2>2, <2>4, <2>5 DEF Init, PCs, AllOps, NoFd, NoRet
<1>2. TypeOK /\ [Next]_vars => TypeOK'
  <2> SUFFICES ASSUME TypeOK, [Next]_vars PROVE TypeOK'
    OBVIOUS
  <2> USE DEF Goto, SetRet, ResetRetries, FreeBuf, CloseFd
  <2>0. {} \in Trees /\ <<>> \in Seq(Cells)
    BY DEF Trees
  <2>1. ASSUME NEW p \in Proc, NEW o \in Ops, NEW h \in Trees, Call(p, o, h)
        PROVE  TypeOK'
    BY <2>1 DEF Call, PCs, NoRet
  <2>2. ASSUME NEW p \in Proc, Access(p) PROVE TypeOK'
    BY <2>2 DEF Access, PCs
  <2>3. ASSUME NEW p \in Proc, Open(p) PROVE TypeOK'
    BY <2>0, <2>3 DEF Open, PCs, Transfer, FileFd
  <2>4. ASSUME NEW p \in Proc, OpenError(p) PROVE TypeOK'
    BY <2>4, RetryType DEF OpenError, PCs, NoRet
  <2>5. ASSUME NEW p \in Proc, Lock(p) PROVE TypeOK'
    BY <2>5 DEF Lock, LockMode, Transfer, PCs
  <2>6. ASSUME NEW p \in Proc, LockError(p) PROVE TypeOK'
    BY <2>6 DEF LockError, Transfer, PCs, KVTREE_FAILURE
  <2>7. ASSUME NEW p \in Proc, ReadCell(p) PROVE TypeOK'
    <3>1. file[off[p] + 1] \in Cells
      BY <2>7 DEF ReadCell
    <3>2. Append(buf[p], file[off[p] + 1]) \in Seq(Cells)
      BY <3>1
    <3>3. buf' = [buf EXCEPT ![p] = Append(buf[p], file[off[p] + 1])]
      BY <2>7 DEF ReadCell
    <3>4. buf' \in [Proc -> Seq(Cells)]
      BY <3>2, <3>3
    <3>5. off' \in [Proc -> Nat] /\ retries' \in [Proc -> 1 .. Retries]
      <4>1. off' = [off EXCEPT ![p] = off[p] + 1]
        BY <2>7 DEF ReadCell
      <4>2. retries' = [retries EXCEPT ![p] = Retries] \/ retries' = retries
        BY <2>7 DEF ReadCell
      <4>3. Retries \in 1 .. Retries
        OBVIOUS
      <4>4. off' \in [Proc -> Nat]
        BY <4>1
      <4>5. retries' \in [Proc -> 1 .. Retries]
        BY <4>2, <4>3
      <4>6. QED
        BY <4>4, <4>5
    <3>6. UNCHANGED <<file, exists, lock, pc, op, fd, n, hash, got, ret, calls,
                      crashes, written>>
      BY <2>7 DEF ReadCell
    <3>7. QED
      BY <3>4, <3>5, <3>6
  <2>8. ASSUME NEW p \in Proc, ReadDone(p) PROVE TypeOK'
    <3>1. AfterRead(p) \in PCs
      BY DEF AfterRead, PCs
    <3>2. Content(buf[p]) \in {Torn} \cup Trees
      BY ContentType
    <3>3. (IF Content(buf[p]) = Torn THEN hash[p]
           ELSE hash[p] \cup Content(buf[p])) \in Trees
      BY <3>2 DEF Trees
    <3>4. QED
      BY <2>0, <2>8, <3>1, <3>2, <3>3 DEF ReadDone
  <2>9. ASSUME NEW p \in Proc, ReadError(p) PROVE TypeOK'
    <3>1. AfterRead(p) \in PCs
      BY DEF AfterRead, PCs
    <3>2. QED
      BY <2>0, <2>9, <3>1, RetryType DEF ReadError
  <2>10. ASSUME NEW p \in Proc, ReadStdout(p) PROVE TypeOK'
    <3>1. AfterRead(p) \in PCs
      BY DEF AfterRead, PCs
    <3>2. PICK t \in {{}, Torn} : got' = [got EXCEPT ![p] = t]
      BY <2>10 DEF ReadStdout
    <3>3. got' \in [Proc -> {Torn} \cup Trees]
      BY <2>0, <3>2
    <3>4. QED
      BY <2>10, <3>1, <3>3 DEF ReadStdout
  <2>11. ASSUME NEW p \in Proc, NEW t \in Trees, WriteCloseUnlock(p, t)
         PROVE  TypeOK'
    BY <2>11 DEF WriteCloseUnlock, PCs
  <2>12. ASSUME NEW p \in Proc, WriteCell(p) PROVE TypeOK'
    <3>1. AfterWrite(p, TRUE) \in PCs
      BY DEF AfterWrite, PCs
    <3>2. off[p] + 1 \in Nat \ {0} /\ n[p] + 1 \in Nat /\ hash[p] \in Trees
      OBVIOUS
    <3>3. Cell(hash[p], n[p] + 1) \in Cells
      BY <3>2, CellType
    <3>4. WriteAt(file, off[p] + 1, Cell(hash[p], n[p] + 1)) \in Seq(Cells)
      BY <3>2, <3>3, WriteAtType
    <3>5. file' \in Seq(Cells)
      BY <2>12, <3>4 DEF WriteCell
    <3>6. pc' \in [Proc -> PCs]
      BY <2>12, <3>1 DEF WriteCell
    <3>7. off' \in [Proc -> Nat] /\ n' \in [Proc -> Nat]
      BY <2>12 DEF WriteCell
    <3>8. written' \in SUBSET Trees
      BY <2>12, <3>2 DEF WriteCell
    <3>9. QED
      BY <2>12, <3>5, <3>6, <3>7, <3>8 DEF WriteCell
  <2>13. ASSUME NEW p \in Proc, WriteError(p) PROVE TypeOK'
    <3>1. AfterWrite(p, FALSE) \in PCs
      BY DEF AfterWrite, PCs
    <3>2. QED
      BY <2>13, <3>1, RetryType DEF WriteError
  <2>14. ASSUME NEW p \in Proc, WriteStdout(p) PROVE TypeOK'
    <3>1. \A c \in BOOLEAN : AfterWrite(p, c) \in PCs
      BY DEF AfterWrite, PCs
    <3>2. QED
      BY <2>14, <3>1 DEF WriteStdout
  <2>15. ASSUME NEW p \in Proc, Truncate(p) PROVE TypeOK'
    <3>0. TruncateTo(file, n[p]) \in Seq(Cells)
      BY TruncateToType
    <3>1. file' \in Seq(Cells)
      BY <2>15, <3>0 DEF Truncate
    <3>2. QED
      BY <2>15, <3>1 DEF Truncate, PCs
  <2>16. ASSUME NEW p \in Proc, Unlock(p) PROVE TypeOK'
    BY <2>16 DEF Unlock, PCs
  <2>17. ASSUME NEW p \in Proc, Close(p) PROVE TypeOK'
    <3>1. \A c \in BOOLEAN : Result(p, c) \in {KVTREE_SUCCESS, KVTREE_FAILURE}
      BY DEF Result
    <3>2. QED
      BY <2>17, <3>1 DEF Close, PCs, NoFd
  <2>18. ASSUME NEW p \in Proc, Crash(p) PROVE TypeOK'
    BY <2>0, <2>18 DEF Crash, PCs, NoFd, NoRet
  <2>19. CASE UNCHANGED vars
    BY <2>19 DEF vars
  <2>20. QED
    BY <2>1, <2>2, <2>3, <2>4, <2>5, <2>6, <2>7, <2>8, <2>9, <2>10, <2>11,
       <2>12, <2>13, <2>14, <2>15, <2>16, <2>17, <2>18, <2>19
       DEF Next, Step, Finished
<1>3. QED
  BY <1>1, <1>2, PTL DEF Spec

-----------------------------------------------------------------------------
(* The locking calls. *)

\* Nothing of q's own state changes.
Frame(q) ==
  /\ lock'[q] = lock[q] /\ pc'[q] = pc[q] /\ op'[q] = op[q] /\ fd'[q] = fd[q]
  /\ off'[q] = off[q] /\ n'[q] = n[q] /\ buf'[q] = buf[q]
  /\ hash'[q] = hash[q] /\ got'[q] = got[q]

\* A process whose state does not change keeps its part of the invariant when
\* the file does not change either, or when it holds no lock.
LEMMA FrameKeeps ==
  ASSUME NEW q \in Proc, SessionInv(q), TransferInv(q), Frame(q),
         file' = file \/ lock[q] = "none"
  PROVE  SessionInv(q)' /\ TransferInv(q)'
<1>1. HasFile(q)' = HasFile(q) /\ LockMode(q)' = LockMode(q)
  BY DEF Frame, HasFile, LockMode
<1>2. SessionInv(q)'
  BY <1>1 DEF Frame, SessionInv
<1>3. CASE file' = file
  <2>1. Content(file)' = Content(file)
    BY <1>3
  <2>2. Holds(file, hash[q])' = Holds(file, hash[q])
    BY <1>3 DEF Frame
  <2>3. ASSUME NEW i
        PROVE  Cell(hash[q], i)' = Cell(hash[q], i)
    BY DEF Frame
  <2>4. QED
    BY <1>1, <1>2, <1>3, <2>1, <2>2, <2>3 DEF Frame, TransferInv
<1>4. CASE lock[q] = "none"
  <2>1. ~HasFile(q)
    BY <1>4 DEF SessionInv, LockMode
  <2>2. QED
    BY <2>1, <1>1, <1>2 DEF TransferInv
<1>5. QED
  BY <1>2, <1>3, <1>4

\* Exclusion survives when only p's lock changes, and to one that is free.
LEMMA ExclusionKeeps ==
  ASSUME TypeOK, LockExclusion, NEW p \in Proc,
         \A q \in Proc \ {p} : lock'[q] = lock[q],
         \/ lock'[p] \in {lock[p], "none"}
         \/ \A q \in Proc \ {p} :
              lock[q] = "none" \/ (lock[q] = "sh" /\ lock'[p] = "sh")
  PROVE  LockExclusion'
BY DEF LockExclusion

\* The invariant of one process carries over to all of them.
LEMMA StepKeeps ==
  ASSUME TypeOK, LockedInv, NEW p \in Proc,
         \A q \in Proc \ {p} : Frame(q),
         file' = file \/ lock[p] = "ex",
         \/ lock'[p] \in {lock[p], "none"}
         \/ \A q \in Proc \ {p} :
              lock[q] = "none" \/ (lock[q] = "sh" /\ lock'[p] = "sh"),
         SessionInv(p)', TransferInv(p)'
  PROVE  LockedInv'
<1>1. LockExclusion'
  BY ExclusionKeeps DEF LockedInv, Frame
<1>2. ASSUME NEW q \in Proc \ {p}
      PROVE  SessionInv(q)' /\ TransferInv(q)'
  <2>1. file' = file \/ lock[q] = "none"
    BY DEF LockedInv, LockExclusion
  <2>2. QED
    BY <1>2, <2>1, FrameKeeps DEF LockedInv
<1>3. QED
  BY <1>1, <1>2 DEF LockedInv

\* The invariant is inductive when processes use the locking calls only.
LEMMA LockedInvInductive ==
  ASSUME Ops \subseteq LockedOps, TypeOK, LockedInv, [Next]_vars
  PROVE  LockedInv'
<1> USE DEF Goto, SetRet, ResetRetries, FreeBuf, CloseFd
<1>T. /\ lock \in [Proc -> {"none", "sh", "ex"}] /\ pc \in [Proc -> PCs]
      /\ op \in [Proc -> AllOps] /\ fd \in [Proc -> {NoFd, KVTREE_FAILURE, FileFd}]
      /\ off \in [Proc -> Nat] /\ n \in [Proc -> Nat]
      /\ buf \in [Proc -> Seq(Cells)] /\ hash \in [Proc -> Trees]
      /\ got \in [Proc -> {Torn} \cup Trees]
  BY DEF TypeOK
<1>I. ASSUME NEW p \in Proc PROVE SessionInv(p) /\ TransferInv(p)
  BY DEF LockedInv
<1>1. ASSUME NEW p \in Proc, NEW o \in Ops, NEW h \in Trees, Call(p, o, h)
      PROVE  LockedInv'
  <2>1. \A q \in Proc \ {p} : Frame(q)
    BY <1>T, <1>1 DEF Call, Frame
  <2>2. SessionInv(p)' /\ ~HasFile(p)'
    <3>1. lock[p] = "none"
      BY <1>I, <1>1 DEF Call, SessionInv, HasFile
    <3>2. QED
      BY <1>T, <1>I, <1>1, <3>1 DEF Call, SessionInv, HasFile, LockMode, LockedOps
  <2>3. TransferInv(p)'
    BY <2>2 DEF TransferInv
  <2>4. QED
    BY <1>1, <2>1, <2>2, <2>3, StepKeeps DEF Call
<1>2. ASSUME NEW p \in Proc, Access(p) PROVE LockedInv'
  BY <1>I, <1>2 DEF Access, SessionInv
<1>3. ASSUME NEW p \in Proc, Open(p) PROVE LockedInv'
  <2>1. \A q \in Proc \ {p} : Frame(q)
    BY <1>T, <1>3 DEF Open, Frame
  <2>2. SessionInv(p)' /\ ~HasFile(p)' /\ file' = file
    BY <1>T, <1>I, <1>3 DEF Open, SessionInv, HasFile, LockMode, LockedOps
  <2>3. TransferInv(p)'
    BY <2>2 DEF TransferInv
  <2>4. QED
    BY <1>3, <2>1, <2>2, <2>3, StepKeeps DEF Open
<1>4. ASSUME NEW p \in Proc, OpenError(p) PROVE LockedInv'
  <2>1. \A q \in Proc \ {p} : Frame(q)
    BY <1>T, <1>4 DEF OpenError, Retry, Frame
  <2>2. SessionInv(p)' /\ ~HasFile(p)'
    BY <1>T, <1>I, <1>4 DEF OpenError, Retry, SessionInv, HasFile, LockMode
  <2>3. TransferInv(p)'
    BY <2>2 DEF TransferInv
  <2>4. QED
    BY <1>4, <2>1, <2>2, <2>3, StepKeeps DEF OpenError
<1>5. ASSUME NEW p \in Proc, Lock(p) PROVE LockedInv'
  <2>1. \A q \in Proc \ {p} : Frame(q)
    BY <1>T, <1>5 DEF Lock, Frame
  <2>2. op[p] \in LockedOps /\ off[p] = 0 /\ n[p] = 0 /\ buf[p] = <<>>
    BY <1>I, <1>5 DEF Lock, SessionInv
  <2>3. fd[p] = FileFd
    BY <1>I, <1>5 DEF Lock, SessionInv
  <2>4. SessionInv(p)'
    BY <1>T, <1>I, <1>5, <2>2, <2>3
       DEF Lock, SessionInv, HasFile, LockMode, Transfer, LockedOps
  <2>5. TransferInv(p)'
    <3>1. pc'[p] \in {"read", "write"}
      BY <1>T, <1>5 DEF Lock, Transfer
    <3>2. off'[p] = 0 /\ n'[p] = 0 /\ buf'[p] = <<>> /\ hash'[p] = hash[p] /\ file' = file
      BY <1>5, <2>2 DEF Lock
    <3>3. PersistSize[hash[p]] \in Nat /\ PersistSize[hash[p]] > 0
      BY <1>T, FileAssumption DEF HeaderSize
    <3>4. Len(file) \in Nat
      BY DEF TypeOK
    <3>5. QED
      BY <3>1, <3>2, <3>3, <3>4 DEF TransferInv
  <2>6. QED
    BY <1>T, <1>5, <2>1, <2>4, <2>5, StepKeeps DEF Lock
<1>6. ASSUME NEW p \in Proc, LockError(p) PROVE LockedInv'
  <2>1. \A q \in Proc \ {p} : Frame(q)
    BY <1>T, <1>6 DEF LockError, Frame
  <2>2. SessionInv(p)' /\ ~HasFile(p)'
    <3>1. fd'[p] = 1 /\ pc'[p] = Transfer(p) /\ lock' = lock /\ op' = op
          /\ got' = got /\ buf' = buf
      BY <1>T, <1>6 DEF LockError, KVTREE_FAILURE
    <3>2. /\ op[p] \in LockedOps /\ lock[p] = "none" /\ got[p] = Torn
          /\ buf[p] = <<>>
      BY <1>I, <1>6 DEF LockError, SessionInv, HasFile
    <3>3. QED
      BY <3>1, <3>2 DEF SessionInv, HasFile, Transfer, LockedOps, FileFd
  <2>3. TransferInv(p)'
    BY <2>2 DEF TransferInv
  <2>4. QED
    BY <1>6, <2>1, <2>2, <2>3, StepKeeps DEF LockError
<1>7. ASSUME NEW p \in Proc, ReadCell(p) PROVE LockedInv'
  <2>1. \A q \in Proc \ {p} : Frame(q)
    BY <1>T, <1>7 DEF ReadCell, Frame
  <2>2. SessionInv(p)'
    BY <1>T, <1>I, <1>7 DEF ReadCell, SessionInv, HasFile, LockMode
  <2>3. TransferInv(p)'
    <3>1. /\ off[p] = Len(buf[p]) /\ Len(buf[p]) <= Len(file)
          /\ \A i \in 1 .. Len(buf[p]) : buf[p][i] = file[i]
      BY <1>I, <1>7 DEF ReadCell, TransferInv, HasFile
    <3>2. off[p] < Len(file) /\ file \in Seq(Cells) /\ file[off[p] + 1] \in Cells
      BY <1>T, <1>7 DEF ReadCell, TypeOK
    <3>3. DEFINE b == Append(buf[p], file[off[p] + 1])
    <3>4. /\ b \in Seq(Cells) /\ Len(b) = Len(buf[p]) + 1
          /\ \A i \in 1 .. Len(b) : b[i] = file[i]
      BY <1>T, <3>1, <3>2
    <3>5. buf'[p] = b /\ off'[p] = off[p] + 1 /\ pc'[p] = "read" /\ file' = file
      BY <1>T, <1>7 DEF ReadCell
    <3> HIDE DEF b
    <3>6. QED
      BY <1>T, <3>1, <3>2, <3>4, <3>5 DEF TransferInv
  <2>4. QED
    BY <1>7, <2>1, <2>2, <2>3, StepKeeps DEF ReadCell
<1>8. ASSUME NEW p \in Proc, ReadDone(p) PROVE LockedInv'
  <2>1. \A q \in Proc \ {p} : Frame(q)
    BY <1>T, <1>8 DEF ReadDone, Frame
  <2>2. SessionInv(p)'
    BY <1>T, <1>I, <1>8 DEF ReadDone, SessionInv, HasFile, LockMode, AfterRead, LockedOps
  <2>3. TransferInv(p)'
    <3>1. /\ off[p] = Len(buf[p]) /\ Len(buf[p]) <= Len(file)
          /\ \A i \in 1 .. Len(buf[p]) : buf[p][i] = file[i]
      BY <1>I, <1>8 DEF ReadDone, TransferInv, HasFile
    <3>2. file \in Seq(Cells) /\ buf[p] \in Seq(Cells)
      BY <1>T DEF TypeOK
    <3>3. \/ Len(buf[p]) >= Len(file)
          \/ Len(buf[p]) >= HeaderSize /\ Len(buf[p]) >= buf[p][HeaderSize].size
      BY <1>8, <3>1, <3>2 DEF ReadDone, Want, HeaderSize
    <3>4. Content(buf[p]) = Content(file)
      BY <3>1, <3>2, <3>3, PrefixContent
    <3>5. got'[p] = Content(file) /\ file' = file
      BY <1>T, <1>8, <3>4 DEF ReadDone
    <3>6. /\ op'[p] = op[p]
          /\ \/ pc'[p] = "user"
             \/ pc'[p] = "unlock" /\ op[p] = "read_with_lock"
      BY <1>T, <1>I, <1>8 DEF ReadDone, AfterRead, SessionInv, LockedOps
    <3>7. Content(file)' = Content(file)
      BY <3>5
    <3>8. QED
      BY <3>5, <3>6, <3>7 DEF TransferInv
  <2>4. QED
    BY <1>8, <2>1, <2>2, <2>3, StepKeeps DEF ReadDone
<1>9. ASSUME NEW p \in Proc, ReadError(p) PROVE LockedInv'
  <2>1. \A q \in Proc \ {p} : Frame(q)
    BY <1>T, <1>9 DEF ReadError, Retry, Frame
  <2>2. SessionInv(p)'
    BY <1>T, <1>I, <1>9 DEF ReadError, Retry, SessionInv, HasFile, LockMode,
       AfterRead, LockedOps
  <2>3. TransferInv(p)'
    <3>1. file' = file /\ off' = off /\ got' = got /\ op' = op /\ IOErrors
          /\ fd' = fd
      BY <1>9 DEF ReadError
    <3>2. CASE pc' = pc /\ buf' = buf
      <4>1. pc[p] = "read"
        BY <1>9 DEF ReadError
      <4>2. QED
        BY <1>I, <3>1, <3>2, <4>1 DEF TransferInv, HasFile
    <3>3. CASE pc'[p] = AfterRead(p)
      <4>1. got[p] = Torn
        BY <1>I, <1>9 DEF ReadError, SessionInv
      <4>2. \/ pc'[p] = "user"
            \/ pc'[p] = "unlock" /\ op'[p] = "read_with_lock"
        BY <1>I, <1>9, <3>1, <3>3 DEF ReadError, SessionInv, AfterRead, LockedOps
      <4>3. QED
        BY <3>1, <4>1, <4>2 DEF TransferInv
    <3>4. QED
      BY <1>T, <1>9, <3>2, <3>3 DEF ReadError, Retry
  <2>4. QED
    BY <1>9, <2>1, <2>2, <2>3, StepKeeps DEF ReadError
<1>10. ASSUME NEW p \in Proc, ReadStdout(p) PROVE LockedInv'
  <2>1. \A q \in Proc \ {p} : Frame(q)
    BY <1>T, <1>10 DEF ReadStdout, Frame
  <2>2. SessionInv(p)' /\ ~HasFile(p)'
    BY <1>T, <1>I, <1>10 DEF ReadStdout, SessionInv, HasFile, LockMode, AfterRead, KVTREE_FAILURE, FileFd, LockedOps
  <2>3. TransferInv(p)'
    BY <2>2 DEF TransferInv
  <2>4. QED
    BY <1>T, <1>10, <2>1, <2>2, <2>3, StepKeeps DEF ReadStdout
<1>11. ASSUME NEW p \in Proc, NEW t \in Trees, WriteCloseUnlock(p, t)
       PROVE  LockedInv'
  <2>1. \A q \in Proc \ {p} : Frame(q)
    BY <1>T, <1>11 DEF WriteCloseUnlock, Frame
  <2>2. SessionInv(p)'
    BY <1>T, <1>I, <1>11 DEF WriteCloseUnlock, SessionInv, HasFile, LockMode
  <2>3. TransferInv(p)'
    <3>1. pc'[p] = "write" /\ off'[p] = 0 /\ n'[p] = 0 /\ hash'[p] = t /\ file' = file
      BY <1>T, <1>11 DEF WriteCloseUnlock
    <3>2. PersistSize[t] \in Nat /\ PersistSize[t] > 0
      BY FileAssumption DEF HeaderSize
    <3>3. Len(file) \in Nat
      BY DEF TypeOK
    <3>4. QED
      BY <3>1, <3>2, <3>3 DEF TransferInv
  <2>4. QED
    BY <1>11, <2>1, <2>2, <2>3, StepKeeps DEF WriteCloseUnlock
<1>12. ASSUME NEW p \in Proc, WriteCell(p) PROVE LockedInv'
  <2>1. \A q \in Proc \ {p} : Frame(q)
    BY <1>T, <1>12 DEF WriteCell, Frame
  <2>2. lock[p] = "ex"
    BY <1>I, <1>12 DEF WriteCell, SessionInv, HasFile, LockMode
  <2>3. /\ off[p] = n[p] /\ n[p] < PersistSize[hash[p]] /\ n[p] <= Len(file)
        /\ \A i \in 1 .. n[p] : file[i] = Cell(hash[p], i)
    BY <1>I, <1>12 DEF WriteCell, TransferInv, HasFile
  <2>4. SessionInv(p)'
    BY <1>T, <1>I, <1>12, <2>2 DEF WriteCell, SessionInv, HasFile, LockMode,
       AfterWrite, LockedOps
  <2>5. TransferInv(p)'
    <3>1. /\ n[p] \in Nat /\ n[p] + 1 \in Nat \ {0} /\ hash[p] \in Trees
          /\ file \in Seq(Cells) /\ Len(file) \in Nat /\ PersistSize[hash[p]] \in Nat
      BY <1>T, FileAssumption DEF TypeOK
    <3>2. Cell(hash[p], n[p] + 1) \in Cells
      BY <3>1, CellType
    <3>3. file' = WriteAt(file, n[p] + 1, Cell(hash[p], n[p] + 1))
      BY <1>12, <2>3 DEF WriteCell
    <3>4. /\ Len(file') = IF n[p] + 1 > Len(file) THEN n[p] + 1 ELSE Len(file)
          /\ file'[n[p] + 1] = Cell(hash[p], n[p] + 1)
          /\ \A j \in 1 .. Len(file) : j # n[p] + 1 => file'[j] = file[j]
      BY <3>1, <3>2, <3>3, WriteAtType
    <3>5. \A i \in 1 .. n[p] + 1 : file'[i] = Cell(hash[p], i)
      BY <2>3, <3>1, <3>4
    <3>6. hash'[p] = hash[p] /\ n'[p] = n[p] + 1 /\ off'[p] = n[p] + 1
      BY <1>T, <1>12, <2>3 DEF WriteCell
    <3>7. n[p] + 1 <= Len(file')
      BY <3>1, <3>4
    <3>8. CASE n[p] + 1 = PersistSize[hash[p]]
      <4>1. Holds(file', hash[p])
        BY <3>5, <3>7, <3>8 DEF Holds
      <4>2. pc'[p] \in {"trunc", "unlock"} /\ op'[p] # "read_with_lock"
        BY <1>T, <1>I, <1>12, <3>8 DEF WriteCell, AfterWrite, SessionInv, LockedOps
      <4>3. Holds(file, hash[p])'
        BY <4>1, <3>6
      <4>4. QED
        BY <3>6, <3>8, <4>2, <4>3 DEF TransferInv
    <3>9. CASE n[p] + 1 # PersistSize[hash[p]]
      <4>1. pc'[p] = "write" /\ n[p] + 1 < PersistSize[hash[p]]
        BY <1>12, <2>3, <3>1, <3>9 DEF WriteCell
      <4>2. \A i : Cell(hash[p], i)' = Cell(hash[p], i)
        BY <3>6
      <4>3. QED
        BY <3>5, <3>6, <3>7, <4>1, <4>2 DEF TransferInv
    <3>10. QED
      BY <3>8, <3>9
  <2>6. QED
    BY <1>12, <2>1, <2>2, <2>4, <2>5, StepKeeps DEF WriteCell
<1>13. ASSUME NEW p \in Proc, WriteError(p) PROVE LockedInv'
  <2>1. \A q \in Proc \ {p} : Frame(q)
    BY <1>T, <1>13 DEF WriteError, Retry, Frame
  <2>2. SessionInv(p)'
    BY <1>T, <1>I, <1>13 DEF WriteError, Retry, SessionInv, HasFile, LockMode,
       AfterWrite, LockedOps
  <2>3. TransferInv(p)'
    <3>1. /\ off[p] = n[p] /\ n[p] < PersistSize[hash[p]] /\ n[p] <= Len(file)
          /\ \A i \in 1 .. n[p] : file[i] = Cell(hash[p], i)
      BY <1>I, <1>13 DEF WriteError, TransferInv, HasFile
    <3>2. file' = file /\ off' = off /\ n' = n /\ hash' = hash /\ op' = op
      BY <1>13 DEF WriteError
    <3>3. pc'[p] = "write" \/ (pc'[p] = "unlock" /\ op[p] # "read_with_lock")
      BY <1>T, <1>I, <1>13 DEF WriteError, Retry, AfterWrite, SessionInv, LockedOps
    <3>4. \A i : Cell(hash[p], i)' = Cell(hash[p], i)
      BY <3>2
    <3>5. n[p] # PersistSize[hash[p]]
      BY <1>T, <3>1, FileAssumption
    <3>6. QED
      BY <3>1, <3>2, <3>3, <3>4, <3>5 DEF TransferInv
  <2>4. QED
    BY <1>13, <2>1, <2>2, <2>3, StepKeeps DEF WriteError
<1>14. ASSUME NEW p \in Proc, WriteStdout(p) PROVE LockedInv'
  <2>1. \A q \in Proc \ {p} : Frame(q)
    BY <1>T, <1>14 DEF WriteStdout, Frame
  <2>2. SessionInv(p)' /\ ~HasFile(p)'
    BY <1>T, <1>I, <1>14 DEF WriteStdout, SessionInv, HasFile, LockMode,
       AfterWrite, KVTREE_FAILURE, FileFd, LockedOps
  <2>3. TransferInv(p)'
    BY <2>2 DEF TransferInv
  <2>4. QED
    BY <1>T, <1>14, <2>1, <2>2, <2>3, StepKeeps DEF WriteStdout
<1>15. ASSUME NEW p \in Proc, Truncate(p) PROVE LockedInv'
  <2>1. \A q \in Proc \ {p} : Frame(q)
    BY <1>T, <1>15 DEF Truncate, Frame
  <2>2. SessionInv(p)'
    BY <1>T, <1>I, <1>15 DEF Truncate, SessionInv, HasFile, LockMode
  <2>3. CASE fd[p] # FileFd
    <3>1. file' = file /\ ~HasFile(p)'
      BY <1>15, <2>3 DEF Truncate, HasFile
    <3>2. TransferInv(p)'
      BY <3>1 DEF TransferInv
    <3>3. QED
      BY <1>15, <2>1, <2>2, <3>1, <3>2, StepKeeps DEF Truncate
  <2>4. CASE fd[p] = FileFd
    <3>1. lock[p] = "ex" /\ op[p] = "rmw"
      BY <1>I, <1>15, <2>4 DEF Truncate, SessionInv, HasFile, LockMode
    <3>2. n[p] = PersistSize[hash[p]] /\ Holds(file, hash[p])
      BY <1>I, <1>15, <2>4, <3>1 DEF Truncate, TransferInv, HasFile
    <3>3. file' = file \/ file' = TruncateTo(file, n[p])
      BY <1>15 DEF Truncate
    <3>4. ASSUME file' = TruncateTo(file, n[p])
          PROVE  Holds(file', hash[p])
      <4>1. file \in Seq(Cells) /\ n[p] \in Nat /\ Len(file) >= n[p] /\ Len(file) \in Nat
        BY <1>T, <3>2 DEF TypeOK, Holds
      <4>2. /\ Len(file') = n[p]
            /\ \A j \in 1 .. n[p] : j <= Len(file) => file'[j] = file[j]
        BY <3>4, <4>1, TruncateToType
      <4>3. QED
        BY <3>2, <4>1, <4>2 DEF Holds
    <3>5. Holds(file', hash[p])
      BY <3>2, <3>3, <3>4
    <3>6. /\ hash' = hash /\ n' = n /\ op' = op /\ pc'[p] = "unlock"
      BY <1>T, <1>15 DEF Truncate
    <3>7. TransferInv(p)'
      <4>1. Holds(file, hash[p])'
        BY <3>5, <3>6
      <4>2. QED
        BY <3>1, <3>6, <4>1 DEF TransferInv
    <3>8. QED
      BY <1>15, <2>1, <2>2, <3>1, <3>7, StepKeeps DEF Truncate
  <2>5. QED
    BY <2>3, <2>4
<1>16. ASSUME NEW p \in Proc, Unlock(p) PROVE LockedInv'
  <2>1. \A q \in Proc \ {p} : Frame(q)
    BY <1>T, <1>16 DEF Unlock, Frame
  <2>2. SessionInv(p)' /\ ~HasFile(p)'
    BY <1>T, <1>I, <1>16 DEF Unlock, SessionInv, HasFile, LockMode
  <2>3. TransferInv(p)'
    BY <2>2 DEF TransferInv
  <2>4. QED
    BY <1>T, <1>16, <2>1, <2>2, <2>3, StepKeeps DEF Unlock
<1>17. ASSUME NEW p \in Proc, Close(p) PROVE LockedInv'
  <2>1. \A q \in Proc \ {p} : Frame(q)
    BY <1>T, <1>17 DEF Close, Frame
  <2>2. SessionInv(p)' /\ ~HasFile(p)'
    BY <1>T, <1>I, <1>17 DEF Close, SessionInv, HasFile, LockMode
  <2>3. TransferInv(p)'
    BY <2>2 DEF TransferInv
  <2>4. QED
    BY <1>T, <1>17, <2>1, <2>2, <2>3, StepKeeps DEF Close
<1>18. ASSUME NEW p \in Proc, Crash(p) PROVE LockedInv'
  <2>1. \A q \in Proc \ {p} : Frame(q)
    BY <1>T, <1>18 DEF Crash, Frame
  <2>2. SessionInv(p)' /\ ~HasFile(p)'
    BY <1>T, <1>I, <1>18 DEF Crash, SessionInv, HasFile, LockMode
  <2>3. TransferInv(p)'
    BY <2>2 DEF TransferInv
  <2>4. QED
    BY <1>T, <1>18, <2>1, <2>2, <2>3, StepKeeps DEF Crash
<1>19. CASE UNCHANGED vars
  <2>1. ASSUME NEW q \in Proc PROVE SessionInv(q)' /\ TransferInv(q)'
    BY <1>I, <1>19, FrameKeeps DEF Frame, vars
  <2>2. LockExclusion'
    BY <1>19 DEF vars, LockedInv, LockExclusion
  <2>3. QED
    BY <2>1, <2>2 DEF LockedInv
<1>20. QED
  BY <1>1, <1>2, <1>3, <1>4, <1>5, <1>6, <1>7, <1>8, <1>9, <1>10, <1>11, <1>12,
     <1>13, <1>14, <1>15, <1>16, <1>17, <1>18, <1>19 DEF Next, Step, Finished

\* The initial state satisfies the invariant.
LEMMA LockedInvInit == Init => LockedInv
<1> SUFFICES ASSUME Init, NEW p \in Proc
             PROVE  LockExclusion /\ SessionInv(p) /\ TransferInv(p)
  BY DEF LockedInv, Init, LockExclusion
<1>1. pc[p] = "idle" /\ ~HasFile(p)
  BY DEF Init, HasFile
<1>2. LockExclusion
  BY DEF Init, LockExclusion
<1>3. SessionInv(p)
  BY <1>1 DEF Init, SessionInv
<1>4. TransferInv(p)
  BY <1>1 DEF TransferInv
<1>5. QED
  BY <1>2, <1>3, <1>4

\* The invariant of the locking calls holds in every reachable state.
THEOREM LockedInvHolds ==
  ASSUME Ops \subseteq LockedOps
  PROVE  Spec => []LockedInv
<1>1. TypeOK /\ LockedInv /\ [Next]_vars => LockedInv'
  BY LockedInvInductive
<1>2. QED
  BY <1>1, LockedInvInit, TypeCorrect, PTL DEF Spec

\* kvtree_file_lock_read_write: whatever operations the processes mix, and
\* whatever fails, an exclusive lock excludes every other lock.
THEOREM LockExclusionHolds == Spec => []LockExclusion
<1>1. Init => LockExclusion
  BY DEF Init, LockExclusion
<1>2. TypeOK /\ LockExclusion /\ [Next]_vars => LockExclusion'
  <2> SUFFICES ASSUME TypeOK, LockExclusion, [Next]_vars PROVE LockExclusion'
    OBVIOUS
  <2>1. ASSUME NEW p \in Proc, Lock(p) PROVE LockExclusion'
    <3>1. /\ \A q \in Proc \ {p} : lock'[q] = lock[q]
          /\ \A q \in Proc \ {p} :
               lock[q] = "none" \/ (lock[q] = "sh" /\ lock'[p] = "sh")
      BY <2>1 DEF Lock, TypeOK
    <3>2. QED
      BY <3>1, ExclusionKeeps
  <2>2. ASSUME NEW p \in Proc, Unlock(p) \/ Crash(p) PROVE LockExclusion'
    <3>1. lock'[p] = "none" /\ \A q \in Proc \ {p} : lock'[q] = lock[q]
      BY <2>2 DEF Unlock, Crash, TypeOK
    <3>2. QED
      BY <3>1, ExclusionKeeps
  <2>3. CASE lock' = lock
    BY <2>3 DEF LockExclusion
  <2>4. QED
    BY <2>1, <2>2, <2>3 DEF Next, Step, Finished, vars, Call, Access, Open,
       OpenError, LockError, ReadCell, ReadDone, ReadError, ReadStdout,
       WriteCloseUnlock, WriteCell, WriteError, WriteStdout, Truncate, Close
<1>3. QED
  BY <1>1, <1>2, TypeCorrect, PTL DEF Spec

\* api.rst:342: a locked read, and the read half of a read-modify-write, is
\* atomic.
THEOREM LockedReadIsAtomicHolds ==
  ASSUME Ops \subseteq LockedOps
  PROVE  Spec => []LockedReadIsAtomic
<1>1. LockedInv => LockedReadIsAtomic
  <2> SUFFICES ASSUME LockedInv, NEW p \in Proc, lock[p] # "none",
                      pc[p] = "user" \/ (pc[p] = "unlock" /\ op[p] = "read_with_lock")
               PROVE  got[p] = Content(file) \/ (got[p] = Torn /\ IOErrors)
    BY DEF LockedReadIsAtomic
  <2>1. HasFile(p)
    BY DEF LockedInv, SessionInv
  <2>2. QED
    BY <2>1 DEF LockedInv, TransferInv
<1>2. QED
  BY <1>1, LockedInvHolds, PTL

\* kvtree_write_with_lock, kvtree_write_close_unlock: a complete write under
\* the lock is what the file reads as, whatever the file held before.
THEOREM LockedWriteIsStoredHolds ==
  ASSUME Ops \subseteq LockedOps
  PROVE  Spec => []LockedWriteIsStored
<1>1. TypeOK /\ LockedInv => LockedWriteIsStored
  <2> SUFFICES ASSUME TypeOK, LockedInv, NEW p \in Proc, lock[p] = "ex",
                      pc[p] \in {"trunc", "unlock"}, n[p] = PersistSize[hash[p]]
               PROVE  Content(file) = hash[p]
    BY DEF LockedWriteIsStored
  <2>1. HasFile(p) /\ op[p] # "read_with_lock"
    BY DEF LockedInv, SessionInv, LockMode
  <2>2. Holds(file, hash[p])
    BY <2>1 DEF LockedInv, TransferInv
  <2>3. QED
    BY <2>2, HoldsContent DEF TypeOK
<1>2. QED
  BY <1>1, LockedInvHolds, TypeCorrect, PTL

=============================================================================
