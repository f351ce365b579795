------------------------ MODULE KVTreeFileStoreProof ------------------------
(***************************************************************************)
(* What a file can be read as (KVTreeFile), and that the locking calls     *)
(* implement KVTreeStore, for every set of processes, keys and sizes.      *)
(***************************************************************************)
EXTENDS KVTreeFileRefines, KVTreeFileProof

-----------------------------------------------------------------------------
(* Nothing is read that nobody wrote. *)

\* A data cell belongs to one of the trees W.
WrittenCell(W, c) == c.ix > HeaderSize => c.tree \in W

WrittenCells(W, f) == \A i \in 1 .. Len(f) : WrittenCell(W, f[i])

\* The inductive invariant: the cells of the file and those on their way to a
\* reader come from trees that were written.
WrittenInv ==
  /\ WrittenCells(written, file)
  /\ \A p \in Proc : WrittenCells(written, buf[p])
  /\ ReadsOnlyWhatWasWritten

\* A cell after write() is the new one, an old one or a hole.
LEMMA WriteAtCells ==
  ASSUME NEW W, NEW f \in Seq(Cells), NEW i \in Nat \ {0}, NEW c \in Cells,
         WrittenCells(W, f), WrittenCell(W, c)
  PROVE  WrittenCells(W, WriteAt(f, i, c))
<1>1. Len(f) \in Nat
  OBVIOUS
<1>2. WrittenCell(W, Hole)
  BY DEF WrittenCell, Hole, HeaderSize
<1>3. Len(WriteAt(f, i, c)) = IF i > Len(f) THEN i ELSE Len(f)
  BY WriteAtType
<1>4. ASSUME NEW j \in 1 .. Len(WriteAt(f, i, c))
      PROVE  WriteAt(f, i, c)[j] = IF j = i THEN c ELSE IF j <= Len(f) THEN f[j] ELSE Hole
  BY <1>1, <1>3, <1>4 DEF WriteAt
<1>5. QED
  BY <1>1, <1>2, <1>3, <1>4 DEF WrittenCells

\* A cell after ftruncate() is an old one or a hole.
LEMMA TruncateToCells ==
  ASSUME NEW W, NEW f \in Seq(Cells), NEW m \in Nat, WrittenCells(W, f)
  PROVE  WrittenCells(W, TruncateTo(f, m))
<1>1. Len(f) \in Nat
  OBVIOUS
<1>2. WrittenCell(W, Hole)
  BY DEF WrittenCell, Hole, HeaderSize
<1>3. Len(TruncateTo(f, m)) = m
  BY TruncateToType
<1>4. ASSUME NEW j \in 1 .. m
      PROVE  TruncateTo(f, m)[j] = IF j <= Len(f) THEN f[j] ELSE Hole
  BY <1>4 DEF TruncateTo
<1>5. QED
  BY <1>1, <1>2, <1>3, <1>4 DEF WrittenCells

\* The data cells of an accepted image name the tree that is read.
LEMMA WrittenContent ==
  ASSUME NEW W, NEW f \in Seq(Cells), WrittenCells(W, f), Content(f) # Torn
  PROVE  Content(f) \in W \cup {{}}
<1>1. CASE f = <<>>
  BY <1>1 DEF Content
<1>2. CASE f # <<>>
  <2>1. PICK t \in Trees : Holds(f, t)
    BY <1>2 DEF Content
  <2>2. Content(f) = t
    BY <2>1, HoldsContent
  <2>3. 3 \in 1 .. PersistSize[t] /\ 3 \in 1 .. Len(f)
    BY <2>1, FileAssumption DEF Holds, HeaderSize
  <2>4. f[3] = Cell(t, 3)
    BY <2>1, <2>3 DEF Holds
  <2>5. f[3].ix = 3 /\ f[3].tree = t
    BY <2>4 DEF Cell, HeaderSize
  <2>6. t \in W
    BY <2>3, <2>5 DEF WrittenCells, WrittenCell, HeaderSize
  <2>7. QED
    BY <2>2, <2>6
<1>3. QED
  BY <1>1, <1>2

\* A step that leaves the file alone, hands no new cells out and reads nothing
\* new keeps the invariant.
LEMMA WrittenKeeps ==
  ASSUME TypeOK, WrittenInv, file' = file, written' = written,
         \A q \in Proc : buf'[q] \in {buf[q], <<>>},
         \A q \in Proc : got'[q] \in {got[q], Torn, {}}
  PROVE  WrittenInv'
<1>1. WrittenCells(written, file)'
  BY DEF WrittenInv, WrittenCells, WrittenCell
<1>2. ASSUME NEW q \in Proc PROVE WrittenCells(written, buf[q])'
  <2>1. CASE buf'[q] = buf[q]
    BY <1>2, <2>1 DEF WrittenInv, WrittenCells, WrittenCell
  <2>2. CASE buf'[q] = <<>>
    BY <2>2 DEF WrittenCells
  <2>3. QED
    BY <1>2, <2>1, <2>2
<1>3. ReadsOnlyWhatWasWritten'
  BY DEF WrittenInv, ReadsOnlyWhatWasWritten
<1>4. QED
  BY <1>1, <1>2, <1>3 DEF WrittenInv

\* kvtree_read_fd: whatever operations the processes mix, with or without locks,
\* and whatever fails or dies, a read that succeeds returns a tree that was
\* written, or nothing from an empty file.
THEOREM ReadsOnlyWhatWasWrittenHolds == Spec => []ReadsOnlyWhatWasWritten
<1>1. Init => WrittenInv
  BY DEF Init, WrittenInv, WrittenCells, ReadsOnlyWhatWasWritten
<1>2. TypeOK /\ WrittenInv /\ [Next]_vars => WrittenInv'
  <2> SUFFICES ASSUME TypeOK, WrittenInv, [Next]_vars PROVE WrittenInv'
    OBVIOUS
  <2> USE DEF FreeBuf
  <2>T. /\ file \in Seq(Cells) /\ buf \in [Proc -> Seq(Cells)]
        /\ got \in [Proc -> {Torn} \cup Trees] /\ hash \in [Proc -> Trees]
        /\ off \in [Proc -> Nat] /\ n \in [Proc -> Nat]
    BY DEF TypeOK
  <2>1. ASSUME NEW p \in Proc, NEW o \in Ops, NEW h \in Trees, Call(p, o, h)
        PROVE  WrittenInv'
    BY <2>T, <2>1, WrittenKeeps DEF Call
  <2>2. ASSUME NEW p \in Proc,
               \/ Access(p) \/ OpenError(p) \/ Lock(p) \/ LockError(p) \/ WriteError(p)
               \/ WriteStdout(p) \/ Unlock(p) \/ Close(p)
        PROVE  WrittenInv'
    BY <2>T, <2>2, WrittenKeeps DEF Access, OpenError, Lock, LockError, WriteError,
       WriteStdout, Unlock, Close
  <2>3. ASSUME NEW p \in Proc, Open(p) PROVE WrittenInv'
    <3>1. CASE file' = file
      BY <2>T, <2>3, <3>1, WrittenKeeps DEF Open
    <3>2. CASE file' = <<>>
      BY <2>3, <3>2 DEF Open, WrittenInv, WrittenCells, WrittenCell, ReadsOnlyWhatWasWritten
    <3>3. QED
      BY <2>3, <3>1, <3>2 DEF Open
  <2>4. ASSUME NEW p \in Proc, ReadCell(p) PROVE WrittenInv'
    <3>1. /\ file' = file /\ written' = written /\ got' = got
          /\ buf' = [buf EXCEPT ![p] = Append(buf[p], file[off[p] + 1])]
          /\ off[p] < Len(file)
      BY <2>4 DEF ReadCell
    <3>2. WrittenCell(written, file[off[p] + 1]) /\ file[off[p] + 1] \in Cells
      <4>1. off[p] + 1 \in 1 .. Len(file)
        BY <2>T, <3>1
      <4>2. QED
        BY <2>T, <4>1 DEF WrittenInv, WrittenCells
    <3>3. WrittenCells(written, Append(buf[p], file[off[p] + 1]))
      <4>1. WrittenCells(written, buf[p]) /\ buf[p] \in Seq(Cells)
        BY <2>T DEF WrittenInv
      <4>2. QED
        BY <3>2, <4>1 DEF WrittenCells
    <3>4. ASSUME NEW q \in Proc PROVE WrittenCells(written', buf'[q])
      <4>1. CASE q = p
        BY <2>T, <3>1, <3>3, <4>1
      <4>2. CASE q # p
        BY <2>T, <3>1, <3>4, <4>2 DEF WrittenInv
      <4>3. QED
        BY <4>1, <4>2
    <3>5. QED
      BY <3>1, <3>4 DEF WrittenInv, WrittenCells, WrittenCell, ReadsOnlyWhatWasWritten
  <2>5. ASSUME NEW p \in Proc, ReadDone(p) PROVE WrittenInv'
    <3>1. /\ file' = file /\ written' = written
          /\ got' = [got EXCEPT ![p] = Content(buf[p])]
          /\ buf' = [buf EXCEPT ![p] = <<>>]
      BY <2>5 DEF ReadDone
    <3>2. Content(buf[p]) # Torn => Content(buf[p]) \in written \cup {{}}
      BY <2>T, WrittenContent DEF WrittenInv
    <3>3. ReadsOnlyWhatWasWritten'
      BY <2>T, <3>1, <3>2 DEF WrittenInv, ReadsOnlyWhatWasWritten
    <3>4. WrittenCells(written, file)' /\ \A q \in Proc : WrittenCells(written, buf[q])'
      BY <2>T, <3>1 DEF WrittenInv, WrittenCells, WrittenCell
    <3>5. QED
      BY <3>3, <3>4 DEF WrittenInv
  <2>6. ASSUME NEW p \in Proc, ReadError(p) PROVE WrittenInv'
    BY <2>T, <2>6, WrittenKeeps DEF ReadError
  <2>7. ASSUME NEW p \in Proc, ReadStdout(p) PROVE WrittenInv'
    BY <2>T, <2>7, WrittenKeeps DEF ReadStdout
  <2>8. ASSUME NEW p \in Proc, NEW t \in Trees, WriteCloseUnlock(p, t)
        PROVE  WrittenInv'
    BY <2>T, <2>8, WrittenKeeps DEF WriteCloseUnlock
  <2>9. ASSUME NEW p \in Proc, WriteCell(p) PROVE WrittenInv'
    <3>1. /\ file' = WriteAt(file, off[p] + 1, Cell(hash[p], n[p] + 1))
          /\ written' = written \cup {hash[p]} /\ got' = got /\ buf' = buf
      BY <2>9 DEF WriteCell
    <3>2. /\ off[p] + 1 \in Nat \ {0} /\ n[p] + 1 \in Nat /\ hash[p] \in Trees
      BY <2>T
    <3>3. Cell(hash[p], n[p] + 1) \in Cells
      BY <3>2, CellType
    <3>4. WrittenCell(written', Cell(hash[p], n[p] + 1))
      BY <3>1 DEF Cell, WrittenCell
    <3>5. /\ WrittenCells(written', file)
          /\ \A q \in Proc : WrittenCells(written', buf[q])
      BY <3>1 DEF WrittenInv, WrittenCells, WrittenCell
    <3>6. WrittenCells(written', file')
      BY <2>T, <3>1, <3>2, <3>3, <3>4, <3>5, WriteAtCells
    <3>7. QED
      BY <3>1, <3>5, <3>6 DEF WrittenInv, ReadsOnlyWhatWasWritten
  <2>10. ASSUME NEW p \in Proc, Truncate(p) PROVE WrittenInv'
    <3>1. CASE file' = file
      BY <2>T, <2>10, <3>1, WrittenKeeps DEF Truncate
    <3>2. CASE file' = TruncateTo(file, n[p])
      <4>1. WrittenCells(written, TruncateTo(file, n[p]))
        BY <2>T, TruncateToCells DEF WrittenInv
      <4>2. written' = written /\ buf' = buf /\ got' = got /\ WrittenCells(written', file')
        BY <2>10, <3>2, <4>1 DEF Truncate
      <4>3. QED
        BY <4>2 DEF WrittenInv, WrittenCells, WrittenCell, ReadsOnlyWhatWasWritten
    <3>3. QED
      BY <2>10, <3>1, <3>2 DEF Truncate
  <2>11. ASSUME NEW p \in Proc, Crash(p) PROVE WrittenInv'
    BY <2>T, <2>11, WrittenKeeps DEF Crash
  <2>12. CASE UNCHANGED vars
    BY <2>12, WrittenKeeps DEF vars
  <2>13. QED
    BY <2>1, <2>2, <2>3, <2>4, <2>5, <2>6, <2>7, <2>8, <2>9, <2>10, <2>11, <2>12
       DEF Next, Step, Finished
<1>3. WrittenInv => ReadsOnlyWhatWasWritten
  BY DEF WrittenInv
<1>4. QED
  BY <1>1, <1>2, <1>3, TypeCorrect, PTL DEF Spec

-----------------------------------------------------------------------------
(* The file between two writers. *)

\* Without I/O errors a writer does not give up: when it is about to unlock, all
\* its cells are stored.
CompleteInv ==
  ~IOErrors => \A p \in Proc :
    HasFile(p) /\ pc[p] = "unlock" /\ op[p] # "read_with_lock" =>
      n[p] = PersistSize[hash[p]]

\* A process whose state does not change keeps its part of CompleteInv; the
\* others do when they are not about to unlock, or have written everything.
LEMMA CompleteKeeps ==
  ASSUME CompleteInv, NEW p \in Proc, \A q \in Proc \ {p} : Frame(q),
         \/ Frame(p)
         \/ pc'[p] # "unlock" \/ op'[p] = "read_with_lock" \/ fd'[p] # FileFd
         \/ n'[p] = PersistSize[hash'[p]]
  PROVE  CompleteInv'
BY DEF CompleteInv, HasFile, Frame

\* CompleteInv is inductive when processes use the locking calls only.
LEMMA CompleteInductive ==
  ASSUME Ops \subseteq LockedOps, TypeOK, LockedInv, CompleteInv, [Next]_vars
  PROVE  CompleteInv'
<1> USE DEF Goto, SetRet, ResetRetries, FreeBuf, CloseFd
<1>T. /\ lock \in [Proc -> {"none", "sh", "ex"}] /\ pc \in [Proc -> PCs]
      /\ op \in [Proc -> AllOps] /\ fd \in [Proc -> {NoFd, KVTREE_FAILURE, FileFd}]
      /\ off \in [Proc -> Nat] /\ n \in [Proc -> Nat]
      /\ buf \in [Proc -> Seq(Cells)] /\ hash \in [Proc -> Trees]
      /\ got \in [Proc -> {Torn} \cup Trees]
  BY DEF TypeOK
<1>I. ASSUME NEW p \in Proc PROVE SessionInv(p) /\ TransferInv(p)
  BY DEF LockedInv
<1>1. ASSUME NEW p \in Proc, NEW o \in Ops, NEW h \in Trees, Call(p, o, h)
      PROVE  CompleteInv'
  <2>1. (\A q \in Proc \ {p} : Frame(q)) /\ pc'[p] # "unlock"
    BY <1>T, <1>1 DEF Call, Frame
  <2>2. QED
    BY <2>1, CompleteKeeps
<1>2. ASSUME NEW p \in Proc, Access(p) \/ Open(p) \/ Lock(p) \/ LockError(p)
      PROVE  CompleteInv'
  <2>1. (\A q \in Proc \ {p} : Frame(q)) /\ pc'[p] # "unlock"
    BY <1>T, <1>2 DEF Access, Open, Lock, LockError, Transfer, Frame
  <2>2. QED
    BY <2>1, CompleteKeeps
<1>3. ASSUME NEW p \in Proc, OpenError(p) \/ ReadError(p) \/ WriteError(p)
      PROVE  CompleteInv'
  BY <1>3 DEF OpenError, ReadError, WriteError, CompleteInv
<1>4. ASSUME NEW p \in Proc, ReadCell(p)
      PROVE  CompleteInv'
  <2>1. (\A q \in Proc \ {p} : Frame(q)) /\ pc'[p] # "unlock"
    BY <1>T, <1>4 DEF ReadCell, Frame
  <2>2. QED
    BY <2>1, CompleteKeeps
<1>5. ASSUME NEW p \in Proc, ReadDone(p) \/ ReadStdout(p)
      PROVE  CompleteInv'
  <2>1. /\ \A q \in Proc \ {p} : Frame(q)
        /\ pc'[p] # "unlock" \/ op'[p] = "read_with_lock"
    BY <1>T, <1>5 DEF ReadDone, ReadStdout, AfterRead, Frame
  <2>2. QED
    BY <2>1, CompleteKeeps
<1>6. ASSUME NEW p \in Proc, NEW t \in Trees, WriteCloseUnlock(p, t)
      PROVE  CompleteInv'
  <2>1. (\A q \in Proc \ {p} : Frame(q)) /\ pc'[p] # "unlock"
    BY <1>T, <1>6 DEF WriteCloseUnlock, Frame
  <2>2. QED
    BY <2>1, CompleteKeeps
<1>7. ASSUME NEW p \in Proc, WriteCell(p)
      PROVE  CompleteInv'
  <2>1. \A q \in Proc \ {p} : Frame(q)
    BY <1>T, <1>7 DEF WriteCell, Frame
  <2>2. pc'[p] # "unlock" \/ n'[p] = PersistSize[hash'[p]]
    BY <1>T, <1>7 DEF WriteCell
  <2>3. QED
    BY <2>1, <2>2, CompleteKeeps
<1>8. ASSUME NEW p \in Proc, WriteStdout(p)
      PROVE  CompleteInv'
  <2>1. (\A q \in Proc \ {p} : Frame(q)) /\ fd'[p] # FileFd
    BY <1>T, <1>8 DEF WriteStdout, Frame, KVTREE_FAILURE, FileFd
  <2>2. QED
    BY <2>1, CompleteKeeps
<1>9. ASSUME NEW p \in Proc, Truncate(p)
      PROVE  CompleteInv'
  <2>1. \A q \in Proc \ {p} : Frame(q)
    BY <1>T, <1>9 DEF Truncate, Frame
  <2>2. fd[p] = FileFd => n[p] = PersistSize[hash[p]]
    BY <1>I, <1>9 DEF Truncate, TransferInv, HasFile
  <2>3. fd'[p] # FileFd \/ n'[p] = PersistSize[hash'[p]]
    BY <1>9, <2>2 DEF Truncate
  <2>4. QED
    BY <2>1, <2>3, CompleteKeeps
<1>10. ASSUME NEW p \in Proc, Unlock(p) \/ Close(p) \/ Crash(p)
       PROVE  CompleteInv'
  <2>1. (\A q \in Proc \ {p} : Frame(q)) /\ pc'[p] # "unlock"
    BY <1>T, <1>10 DEF Unlock, Close, Crash, Frame
  <2>2. QED
    BY <2>1, CompleteKeeps
<1>11. CASE UNCHANGED vars
  BY <1>11 DEF vars, CompleteInv, HasFile
<1>12. QED
  BY <1>1, <1>2, <1>3, <1>4, <1>5, <1>6, <1>7, <1>8, <1>9, <1>10, <1>11
     DEF Next, Step, Finished

\* A writer that is about to unlock leaves a whole tree behind, unless its system
\* calls failed.
LEMMA WholeAtUnlock ==
  ASSUME TypeOK, LockedInv, CompleteInv, ~IOErrors,
         NEW p \in Proc, pc[p] = "unlock", lock[p] = "ex"
  PROVE  Content(file) # Torn
<1>1. HasFile(p) /\ op[p] # "read_with_lock"
  BY DEF LockedInv, SessionInv, LockMode
<1>2. n[p] = PersistSize[hash[p]]
  BY <1>1 DEF CompleteInv
<1>3. Holds(file, hash[p]) /\ hash[p] \in Trees /\ file \in Seq(Cells)
  BY <1>1, <1>2 DEF LockedInv, TransferInv, TypeOK
<1>4. QED
  BY <1>3, HoldsContent, FileAssumption

\* What a step does to the file, the locks and the crash counter.
LEMMA FileStep ==
  ASSUME Ops \subseteq LockedOps, TypeOK, LockedInv, [Next]_vars
  PROVE  \/ UNCHANGED <<file, lock, crashes>>
         \/ \E p \in Proc : lock[p] = "ex" /\ UNCHANGED <<lock, crashes>>
         \/ \E p \in Proc : /\ lock' = [lock EXCEPT ![p] = LockMode(p)]
                            /\ UNCHANGED <<file, crashes>> /\ lock[p] = "none"
         \/ \E p \in Proc : /\ pc[p] = "unlock" /\ lock' = [lock EXCEPT ![p] = "none"]
                            /\ UNCHANGED <<file, crashes>>
         \/ crashes' = crashes + 1
<1>I. ASSUME NEW p \in Proc PROVE SessionInv(p)
  BY DEF LockedInv
<1>1. ASSUME NEW p \in Proc, WriteCell(p)
      PROVE  lock[p] = "ex" /\ UNCHANGED <<lock, crashes>>
  BY <1>I, <1>1 DEF WriteCell, SessionInv, HasFile, LockMode
<1>2. ASSUME NEW p \in Proc, Truncate(p)
      PROVE  UNCHANGED <<lock, crashes>> /\ (file' = file \/ lock[p] = "ex")
  BY <1>I, <1>2 DEF Truncate, SessionInv, HasFile, LockMode
<1>3. ASSUME NEW p \in Proc, Lock(p)
      PROVE  /\ lock' = [lock EXCEPT ![p] = LockMode(p)] /\ lock[p] = "none"
             /\ UNCHANGED <<file, crashes>>
  BY <1>I, <1>3 DEF Lock, SessionInv, HasFile
<1>4. ASSUME NEW p \in Proc, Unlock(p)
      PROVE  /\ pc[p] = "unlock" /\ lock' = [lock EXCEPT ![p] = "none"]
             /\ UNCHANGED <<file, crashes>>
  BY <1>4 DEF Unlock
<1>5. ASSUME NEW p \in Proc, Crash(p) PROVE crashes' = crashes + 1
  BY <1>5 DEF Crash
<1>6. ASSUME NEW p \in Proc, Open(p) PROVE UNCHANGED <<file, lock, crashes>>
  BY <1>I, <1>6 DEF Open, SessionInv, LockedOps
<1>7. QED
  BY <1>1, <1>2, <1>3, <1>4, <1>5, <1>6
     DEF Next, Step, Finished, vars, Call, Access, OpenError, LockError, ReadCell,
     ReadDone, ReadError, ReadStdout, WriteCloseUnlock, WriteError, WriteStdout, Close

\* kvtree_read_with_lock: with no crash and no I/O error a locked reader never
\* finds a torn file, even if flock() may fail.
THEOREM WholeBetweenWritersHolds ==
  ASSUME Ops \subseteq LockedOps
  PROVE  Spec => []WholeBetweenWriters
<1>1. Init => CompleteInv /\ WholeBetweenWriters
  <2> SUFFICES ASSUME Init PROVE CompleteInv /\ WholeBetweenWriters
    OBVIOUS
  <2>1. CompleteInv
    BY DEF Init, CompleteInv
  <2>2. {} \in Trees /\ Content(file) = {}
    BY DEF Init, Content, Trees
  <2>3. QED
    BY <2>1, <2>2, FileAssumption DEF WholeBetweenWriters
<1>2. /\ TypeOK /\ LockedInv /\ CompleteInv /\ WholeBetweenWriters /\ [Next]_vars
      => CompleteInv' /\ WholeBetweenWriters'
  <2> SUFFICES ASSUME TypeOK, LockedInv, CompleteInv, WholeBetweenWriters, [Next]_vars
               PROVE  CompleteInv' /\ WholeBetweenWriters'
    OBVIOUS
  <2>1. CompleteInv'
    BY CompleteInductive
  <2>2. SUFFICES ASSUME crashes' = 0, ~IOErrors, \A p \in Proc : lock'[p] # "ex"
                 PROVE  Content(file') # Torn
    BY <2>1 DEF WholeBetweenWriters
  <2>3. crashes \in Nat /\ lock \in [Proc -> {"none", "sh", "ex"}]
    BY DEF TypeOK
  <2>4. CASE UNCHANGED <<file, lock, crashes>>
    BY <2>2, <2>4 DEF WholeBetweenWriters
  <2>5. ASSUME NEW p \in Proc, lock[p] = "ex", UNCHANGED <<lock, crashes>>
        PROVE  FALSE
    BY <2>2, <2>5
  <2>6. ASSUME NEW p \in Proc, lock' = [lock EXCEPT ![p] = LockMode(p)], lock[p] = "none",
               UNCHANGED <<file, crashes>>
        PROVE  Content(file') # Torn
    <3>1. \A q \in Proc : lock[q] # "ex"
      BY <2>2, <2>3, <2>6
    <3>2. QED
      BY <2>2, <2>6, <3>1 DEF WholeBetweenWriters
  <2>7. ASSUME NEW p \in Proc, pc[p] = "unlock", lock' = [lock EXCEPT ![p] = "none"],
               UNCHANGED <<file, crashes>>
        PROVE  Content(file') # Torn
    <3>1. CASE lock[p] = "ex"
      BY <2>2, <2>7, <3>1, WholeAtUnlock
    <3>2. CASE lock[p] # "ex"
      <4>1. \A q \in Proc : lock[q] # "ex"
        BY <2>2, <2>3, <2>7, <3>2
      <4>2. QED
        BY <2>2, <2>7, <4>1 DEF WholeBetweenWriters
    <3>3. QED
      BY <3>1, <3>2
  <2>8. CASE crashes' = crashes + 1
    BY <2>2, <2>3, <2>8
  <2>9. QED
    BY <2>4, <2>5, <2>6, <2>7, <2>8, FileStep
<1>3. QED
  BY <1>1, <1>2, TypeCorrect, LockedInvHolds, PTL DEF Spec

-----------------------------------------------------------------------------
(* The locking calls implement the store. *)

Writers == {p \in Proc : lock[p] = "ex"}

\* A call that has opened its file has a descriptor, and no error code is taken
\* for one unless flock() fails.
DescriptorInv ==
  \A p \in Proc : /\ pc[p] \notin {"idle", "access", "open"} => fd[p] # NoFd
                  /\ ~LockMayFail => fd[p] # KVTREE_FAILURE

\* Processes whose descriptor does not change keep DescriptorInv, and a step that
\* keeps its descriptor is not the one that opened it.
LEMMA DescriptorKeeps ==
  ASSUME TypeOK, DescriptorInv, NEW p \in Proc, fd' = fd,
         \A q \in Proc \ {p} : pc'[q] = pc[q],
         \/ pc[p] \notin {"idle", "access", "open"}
         \/ pc'[p] \in {"idle", "access", "open"}
  PROVE  DescriptorInv'
BY DEF DescriptorInv

\* DescriptorInv is inductive for any mix of operations.
LEMMA DescriptorInductive ==
  ASSUME TypeOK, DescriptorInv, [Next]_vars
  PROVE  DescriptorInv'
<1> USE DEF Goto, CloseFd
<1>1. /\ fd \in [Proc -> {NoFd, KVTREE_FAILURE, FileFd}] /\ pc \in [Proc -> PCs]
      /\ LockMayFail \in BOOLEAN
  BY FileAssumption DEF TypeOK
<1>2. ASSUME NEW p \in Proc, Open(p)
      PROVE  DescriptorInv'
  BY <1>1, <1>2 DEF Open, DescriptorInv, NoFd, FileFd, KVTREE_FAILURE
<1>3. ASSUME NEW p \in Proc, Close(p) \/ Crash(p)
      PROVE  DescriptorInv'
  <2>1. fd' = [fd EXCEPT ![p] = NoFd] /\ pc' = [pc EXCEPT ![p] = "idle"]
    BY <1>3 DEF Close, Crash
  <2>2. QED
    BY <1>1, <2>1 DEF DescriptorInv, NoFd, KVTREE_FAILURE
<1>4. ASSUME NEW p \in Proc, LockError(p)
      PROVE  DescriptorInv'
  <2>1. LockMayFail /\ fd' = [fd EXCEPT ![p] = KVTREE_FAILURE]
    BY <1>4 DEF LockError
  <2>2. \A q \in Proc \ {p} : pc'[q] = pc[q]
    BY <1>1, <1>4 DEF LockError
  <2>3. QED
    BY <1>1, <2>1, <2>2 DEF DescriptorInv, NoFd, KVTREE_FAILURE
<1>5. ASSUME NEW p \in Proc, Access(p) \/ OpenError(p)
      PROVE  DescriptorInv'
  BY <1>1, <1>5, DescriptorKeeps DEF Access, OpenError, Retry
<1>6. ASSUME NEW p \in Proc, Lock(p) \/ Truncate(p) \/ Unlock(p)
      PROVE  DescriptorInv'
  BY <1>1, <1>6, DescriptorKeeps DEF Lock, Truncate, Unlock
<1>7. ASSUME NEW p \in Proc, ReadCell(p) \/ ReadDone(p) \/ ReadError(p) \/ ReadStdout(p)
      PROVE  DescriptorInv'
  BY <1>1, <1>7, DescriptorKeeps DEF ReadCell, ReadDone, ReadError, ReadStdout, Retry
<1>8. ASSUME NEW p \in Proc, NEW t \in Trees, WriteCloseUnlock(p, t)
      PROVE  DescriptorInv'
  BY <1>1, <1>8, DescriptorKeeps DEF WriteCloseUnlock
<1>9. ASSUME NEW p \in Proc, WriteCell(p) \/ WriteError(p) \/ WriteStdout(p)
      PROVE  DescriptorInv'
  BY <1>1, <1>9, DescriptorKeeps DEF WriteCell, WriteError, WriteStdout, Retry
<1>10. ASSUME NEW p \in Proc, NEW o \in Ops, NEW h \in Trees, Call(p, o, h)
       PROVE  DescriptorInv'
  BY <1>1, <1>10, DescriptorKeeps DEF Call
<1>11. CASE UNCHANGED vars
  <2>1. fd' = fd /\ pc' = pc
    BY <1>11 DEF vars
  <2>2. QED
    BY <1>1, <2>1 DEF DescriptorInv
<1>12. QED
  BY <1>2, <1>3, <1>4, <1>5, <1>6, <1>7, <1>8, <1>9, <1>10, <1>11
     DEF Next, Step, Finished

\* Init establishes it.
LEMMA DescriptorInit == Init => DescriptorInv
<1> SUFFICES ASSUME Init PROVE DescriptorInv
  OBVIOUS
<1>1. ASSUME NEW p \in Proc PROVE fd[p] = NoFd /\ pc[p] = "idle"
  BY DEF Init
<1>2. ASSUME NEW p \in Proc PROVE fd[p] # KVTREE_FAILURE
  BY <1>1 DEF NoFd, KVTREE_FAILURE
<1>3. QED
  BY <1>1, <1>2 DEF DescriptorInv

\* The process with the exclusive lock is the only writer.
LEMMA OnlyWriter ==
  ASSUME LockExclusion, NEW p \in Proc, lock[p] = "ex"
  PROVE  Writers = {p}
BY DEF Writers, LockExclusion

\* Every system call of the locking calls is a step of the store or changes
\* nothing in it: open, reading and writing cells in the buffers, retries and
\* close stutter, flock and the unlock of a writer are Acquire and Release, each
\* stored cell and the ftruncate are Update, the end of a read is Get, and a new
\* call or a crash is Forget.
LEMMA StoreStep ==
  ASSUME Ops \subseteq LockedOps, ~LockMayFail, TypeOK, LockedInv, CompleteInv,
         DescriptorInv, [Next]_vars
  PROVE  [Store!Next]_(Store!vars)
<1> USE DEF Goto, SetRet, ResetRetries, FreeBuf, CloseFd
<1> USE DEF Store!Next, Store!vars
<1>T. /\ lock \in [Proc -> {"none", "sh", "ex"}] /\ pc \in [Proc -> PCs]
      /\ op \in [Proc -> AllOps] /\ fd \in [Proc -> {NoFd, KVTREE_FAILURE, FileFd}]
      /\ got \in [Proc -> {Torn} \cup Trees]
  BY DEF TypeOK
<1>I. ASSUME NEW p \in Proc PROVE SessionInv(p) /\ TransferInv(p)
  BY DEF LockedInv
<1>E. LockExclusion
  BY DEF LockedInv
<1>S. ASSUME UNCHANGED <<file, lock, got>> PROVE UNCHANGED Store!vars
  BY <1>S DEF Content, Holds
<1>1. ASSUME NEW p \in Proc, NEW o \in Ops, NEW h \in Trees, Call(p, o, h)
      PROVE  Store!Forget(p)
  <2>1. file' = file /\ lock' = lock /\ got' = [got EXCEPT ![p] = Torn]
    BY <1>1 DEF Call
  <2>2. lock[p] = "none"
    BY <1>I, <1>1 DEF Call, SessionInv, HasFile
  <2>3. QED
    BY <2>1, <2>2 DEF Store!Forget
<1>2. ASSUME NEW p \in Proc, Lock(p)
      PROVE  Store!Acquire(p) \/ UNCHANGED Store!vars
  <2>1. /\ file' = file /\ got' = got /\ lock' = [lock EXCEPT ![p] = LockMode(p)]
        /\ \A q \in Proc \ {p} :
             lock[q] = "none" \/ (lock[q] = "sh" /\ LockMode(p) = "sh")
    BY <1>2 DEF Lock
  <2>2. lock[p] = "none"
    BY <1>I, <1>2 DEF Lock, SessionInv, HasFile
  <2>3. CASE LockMode(p) = "sh"
    <3>1. Writers' = Writers
      BY <1>T, <2>1, <2>2, <2>3 DEF Writers
    <3>2. QED
      BY <2>1, <3>1 DEF Writers
  <2>4. CASE LockMode(p) = "ex"
    <3>1. Writers = {} /\ Writers' = {p}
      BY <1>T, <2>1, <2>2, <2>4 DEF Writers
    <3>2. QED
      BY <2>1, <3>1 DEF Writers, Store!Acquire
  <2>5. QED
    BY <2>3, <2>4 DEF LockMode
<1>3. ASSUME NEW p \in Proc, WriteCell(p)
      PROVE  Store!Update(p)
  <2>1. lock' = lock /\ got' = got
    BY <1>3 DEF WriteCell
  <2>2. Writers = {p}
    BY <1>E, <1>I, <1>3, OnlyWriter DEF WriteCell, SessionInv, HasFile, LockMode
  <2>3. Content(file') \in {Torn} \cup Trees
    BY ContentType
  <2>4. QED
    BY <2>1, <2>2, <2>3 DEF Store!Update, Writers
<1>4. ASSUME NEW p \in Proc, Truncate(p)
      PROVE  Store!Update(p) \/ UNCHANGED Store!vars
  <2>1. lock' = lock /\ got' = got
    BY <1>4 DEF Truncate
  <2>2. CASE fd[p] = FileFd
    <3>1. Writers = {p}
      BY <1>E, <1>I, <1>4, <2>2, OnlyWriter DEF Truncate, SessionInv, HasFile, LockMode
    <3>2. Content(file') \in {Torn} \cup Trees
      BY ContentType
    <3>3. QED
      BY <2>1, <3>1, <3>2 DEF Store!Update, Writers
  <2>3. CASE fd[p] # FileFd
    BY <1>4, <1>S, <2>1, <2>3 DEF Truncate
  <2>4. QED
    BY <2>2, <2>3
<1>5. ASSUME NEW p \in Proc, Unlock(p)
      PROVE  Store!Release(p) \/ UNCHANGED Store!vars
  <2>1. file' = file /\ got' = got /\ lock' = [lock EXCEPT ![p] = "none"]
    BY <1>5 DEF Unlock
  <2>2. CASE lock[p] = "ex"
    <3>1. Writers = {p} /\ Writers' = {}
      BY <1>T, <1>E, <2>1, <2>2, OnlyWriter DEF Writers, LockExclusion
    <3>2. Content(file) # Torn \/ IOErrors
      BY <1>5, <2>2, WholeAtUnlock DEF Unlock
    <3>3. QED
      BY <2>1, <3>1, <3>2 DEF Store!Release, Writers
  <2>3. CASE lock[p] # "ex"
    <3>1. Writers' = Writers
      BY <1>T, <2>1, <2>3 DEF Writers
    <3>2. QED
      BY <2>1, <3>1 DEF Writers
  <2>4. QED
    BY <2>2, <2>3
<1>6. ASSUME NEW p \in Proc, ReadDone(p)
      PROVE  Store!Get(p)
  <2>1. file' = file /\ lock' = lock /\ got' = [got EXCEPT ![p] = Content(buf[p])]
    BY <1>6 DEF ReadDone
  <2>2. HasFile(p) /\ lock[p] # "none"
    BY <1>I, <1>6 DEF ReadDone, HasFile, SessionInv, LockMode
  <2>3. Content(buf[p]) = Content(file)
    <3>1. /\ off[p] = Len(buf[p]) /\ Len(buf[p]) <= Len(file)
          /\ \A i \in 1 .. Len(buf[p]) : buf[p][i] = file[i]
      BY <1>I, <1>6, <2>2 DEF ReadDone, TransferInv
    <3>2. file \in Seq(Cells) /\ buf[p] \in Seq(Cells)
      BY DEF TypeOK
    <3>3. \/ Len(buf[p]) >= Len(file)
          \/ Len(buf[p]) >= HeaderSize /\ Len(buf[p]) >= buf[p][HeaderSize].size
      BY <1>6, <3>1, <3>2 DEF ReadDone, Want, HeaderSize
    <3>4. QED
      BY <3>1, <3>2, <3>3, PrefixContent
  <2>4. Writers \subseteq {p}
    BY <1>E, <2>2 DEF Writers, LockExclusion
  <2>5. QED
    BY <2>1, <2>3, <2>4 DEF Store!Get, Writers
<1>7. ASSUME NEW p \in Proc, Crash(p)
      PROVE  Store!Forget(p)
  <2>1. /\ file' = file /\ got' = [got EXCEPT ![p] = Torn]
        /\ lock' = [lock EXCEPT ![p] = "none"]
    BY <1>7 DEF Crash
  <2>2. Writers' = Writers \ {p}
    BY <1>T, <2>1 DEF Writers
  <2>3. QED
    BY <2>1, <2>2 DEF Store!Forget, Writers
<1>8. ASSUME NEW p \in Proc, Open(p) PROVE UNCHANGED <<file, lock, got>>
  BY <1>I, <1>8 DEF Open, SessionInv, LockedOps
<1>9. ASSUME NEW p \in Proc, ReadStdout(p) PROVE FALSE
  BY <1>9 DEF ReadStdout, DescriptorInv
<1>10. CASE UNCHANGED <<file, lock, got>>
  BY <1>10, <1>S
<1>11. QED
  BY <1>1, <1>2, <1>3, <1>4, <1>5, <1>6, <1>7, <1>8, <1>9, <1>10
     DEF Next, Step, Finished, vars, Access, OpenError, LockError, ReadCell,
     ReadError, WriteCloseUnlock, WriteError, WriteStdout, Close

\* api.rst:338-357: unless flock() fails, processes that use the locking calls see
\* one shared kvtree that writers change one after the other and that is read in
\* one instant, whatever the interleaving of their system calls, with I/O errors
\* and with writers that die.
THEOREM StoreSpecHolds ==
  ASSUME Ops \subseteq LockedOps, ~LockMayFail
  PROVE  Spec => StoreSpec
<1>1. Init => Store!Init
  BY DEF Init, Store!Init, Content
<1>2. Init => CompleteInv /\ DescriptorInv
  BY DescriptorInit DEF Init, CompleteInv
<1>3. TypeOK /\ LockedInv /\ CompleteInv /\ DescriptorInv /\ [Next]_vars
      => CompleteInv' /\ DescriptorInv'
  BY CompleteInductive, DescriptorInductive
<1>4. TypeOK /\ LockedInv /\ CompleteInv /\ DescriptorInv /\ [Next]_vars
      => [Store!Next]_(Store!vars)
  BY StoreStep
<1>5. QED
  BY <1>1, <1>2, <1>3, <1>4, TypeCorrect, LockedInvHolds, PTL
     DEF Spec, StoreSpec, Store!Spec

\* kvtree.c:1506: a process that goes on to transfer data under lock has the file
\* and its lock, unless flock() fails.
THEOREM OpenWithLockGivesFileHolds ==
  ASSUME Ops \subseteq LockedOps, ~LockMayFail
  PROVE  Spec => []OpenWithLockGivesFile
<1>1. TypeOK /\ DescriptorInv /\ [Next]_vars => DescriptorInv'
  BY DescriptorInductive
<1>2. TypeOK /\ LockedInv /\ DescriptorInv => OpenWithLockGivesFile
  <2> SUFFICES ASSUME TypeOK, LockedInv, DescriptorInv, NEW p \in Proc,
                      op[p] \in LockedOps, pc[p] \in {"read", "write"}
               PROVE  fd[p] = FileFd /\ lock[p] # "none"
    BY DEF OpenWithLockGivesFile
  <2>1. fd[p] # KVTREE_FAILURE /\ fd[p] # NoFd
    BY DEF DescriptorInv, LockedInv, SessionInv
  <2>2. fd[p] = FileFd
    BY <2>1 DEF TypeOK
  <2>3. QED
    BY <2>2 DEF LockedInv, SessionInv, HasFile, LockMode
<1>3. QED
  BY <1>1, <1>2, DescriptorInit, TypeCorrect, LockedInvHolds, PTL DEF Spec

=============================================================================
