------------------------ MODULE KVTreeRoundTripProof ------------------------
(***************************************************************************)
(* What a complete write leaves is read back: the proof of RoundTrip of    *)
(* KVTreeGather, for all numbers of ranks, all pack sizes, segment sizes   *)
(* and entries per file, and whatever earlier calls have left.             *)
(***************************************************************************)
EXTENDS KVTreeGatherProof

-----------------------------------------------------------------------------
(* Plans.  The ranks in D[k] have an entry for level k, and q sends its    *)
(* entry to A[k][q], which is in D[k + 1] and writes prefix.k.A[k][q].     *)

PlanOf(l, n, D, A) ==
  /\ l \in Nat \ {0} /\ n \in Nat \ {0}
  /\ DOMAIN D = Nat /\ DOMAIN A = Nat
  /\ D[0] = 0 .. n - 1
  /\ \A k \in 0 .. l : 0 \in D[k] /\ D[k] \subseteq 0 .. n - 1
  /\ \A k \in 0 .. l - 1 : \A q \in D[k] : A[k][q] \in D[k + 1]

\* The ranks whose entries writer w gets, and the file it writes.
SentTo(D, A, k, w) == {q \in D[k] : A[k][q] = w}
PartOf(n, g, D, A, k, w) ==
  IF k = 0 THEN DataOf(n, g, SentTo(D, A, 0, w)) ELSE MapOf(k, n, g, SentTo(D, A, k, w))

\* The files below level l, and those with the root at level l.
Planned(l, n, g, D, A, f, c) ==
  \E k \in 0 .. l - 1 : \E w \in D[k + 1] : f = Name(k, w) /\ c = PartOf(n, g, D, A, k, w)
PlannedAll(l, n, g, D, A, f, c) ==
  \/ Planned(l, n, g, D, A, f, c)
  \/ f = Root /\ c = MapOf(l, n, g, D[l])

\* Equal names have equal numbers.
LEMMA NameInjective ==
  ASSUME NEW k, NEW w, NEW j, NEW v, Name(k, w) = Name(j, v)
  PROVE  k = j /\ w = v
BY DEF Name

\* A plan has one content for a name.
LEMMA PlanFunctional ==
  ASSUME NEW l, NEW n, NEW g, NEW D, NEW A, NEW f, NEW c, NEW d,
         PlannedAll(l, n, g, D, A, f, c), PlannedAll(l, n, g, D, A, f, d)
  PROVE  c = d
<1>1. CASE f = Root
  BY <1>1, NameFacts DEF PlannedAll, Planned
<1>2. CASE f # Root
  <2>1. PICK k, w : f = Name(k, w) /\ c = PartOf(n, g, D, A, k, w)
    BY <1>2 DEF PlannedAll, Planned
  <2>2. PICK j, v : f = Name(j, v) /\ d = PartOf(n, g, D, A, j, v)
    BY <1>2 DEF PlannedAll, Planned
  <2>3. k = j /\ w = v
    <3>1. Name(k, w) = Name(j, v)
      BY <2>1, <2>2
    <3>2. QED
      BY <3>1, NameInjective
  <2>4. QED
    BY <2>1, <2>2, <2>3
<1>3. QED
  BY <1>1, <1>2

\* The file of a writer is in the plan, and so is the root.
LEMMA PlanHas ==
  ASSUME NEW l, NEW n, NEW g, NEW D, NEW A, PlanOf(l, n, D, A)
  PROVE  /\ \A k \in 0 .. l - 1 : \A w \in D[k + 1] :
              PlannedAll(l, n, g, D, A, Name(k, w), PartOf(n, g, D, A, k, w))
         /\ PlannedAll(l, n, g, D, A, Root, MapOf(l, n, g, D[l]))
BY DEF PlannedAll, Planned

-----------------------------------------------------------------------------
(* The invariant. *)

\* The content c is yet to be written to f.
InTodo(T, f, c) ==
  \E r \in DOMAIN T : \E i \in 1 .. Len(T[r]) : T[r][i].file = f /\ T[r][i].content = c

\* What the ranks have to write is what the levels so far have planned.
GatherPlan(T, l, n, g, V, D, A) ==
  /\ PlanOf(l, n, D, A)
  /\ D[l] = V
  /\ \A f, c : Planned(l, n, g, D, A, f, c) <=> InTodo(T, f, c)

\* What is left to write is planned, and what is planned is left or written.
WritePlan(T, fs, l, n, g, D, A) ==
  /\ PlanOf(l, n, D, A)
  /\ \A f, c : InTodo(T, f, c) => PlannedAll(l, n, g, D, A, f, c)
  /\ \A f, c : PlannedAll(l, n, g, D, A, f, c) =>
                 InTodo(T, f, c) \/ (f \in DOMAIN fs /\ fs[f] = c)

\* Everything planned is written.
Written(fs, l, n, g, D, A) ==
  /\ PlanOf(l, n, D, A)
  /\ \A f, c : PlannedAll(l, n, g, D, A, f, c) => f \in DOMAIN fs /\ fs[f] = c

\* The files that the ranks read in the map step for level k of the plan.
MapFiles(l, D) ==
  \/ \A r \in Rank : file[r] = IF r = 0 THEN Root ELSE NoFile
  \/ \E k \in 1 .. l - 1 : \A r \in Rank : file[r] = IF r \in D[k + 1] THEN Name(k, r) ELSE NoFile

\* A read after a complete write by as many ranks follows the plan, unless a
\* system call of its own fails.
Reading(l, D, A) ==
  /\ ~Idle => \A r \in Rank : data[r] = {}
  /\ DOMAIN data = Rank
  /\ \A r \in Rank : pc[r] = "map" => rc[r]
  /\ AllIn({"map", "mapcheck"}) =>
       /\ MapFiles(l, D)
       /\ \A r \in Rank : pc[r] = "mapcheck" =>
            \/ rc[r] /\ hash[r] = IF file[r] \in DOMAIN files THEN files[file[r]] ELSE EmptyHash
            \/ erred /\ ~rc[r]
  /\ AllIn({"data", "datacheck"}) =>
       \/ erred /\ \E r \in Rank : ~rc[r]
       \/ \A r \in Rank :
            /\ rc[r]
            /\ pc[r] = "data" => file[r] = IF r \in D[1] THEN Name(0, r) ELSE NoFile
            /\ pc[r] = "datacheck" =>
                 hash[r] = IF r \in D[1] THEN DataOf(ranks, gen, SentTo(D, A, 0, r)) ELSE EmptyHash
  /\ Idle =>
       \/ \A r \in Rank : rc[r] /\ data[r] = {Tree(gen, ranks, r)}
       \/ erred /\ \A r \in Rank : ~rc[r] /\ data[r] = {}

PlanInv ==
  /\ AllIn({"gather"}) => \E D, A : GatherPlan(todo, level, ranks, gen, valid, D, A)
  /\ Writing /\ (\A r \in Rank : rc[r]) =>
       \E l, D, A : WritePlan(todo, files, l, ranks, gen, D, A)

ReadInv ==
  whole # 0 => \E l, D, A : /\ Written(files, l, whole, gen, D, A)
                            /\ op = "read_scatter" /\ whole = ranks => Reading(l, D, A)

RoundTripInv == GatherInv /\ PlanInv /\ ReadInv

\* The invariant says that what was written is read back.
LEMMA RoundTripInvImplies == RoundTripInv => RoundTrip
<1> SUFFICES ASSUME RoundTripInv, op = "read_scatter", Idle, whole = ranks
             PROVE  \/ \A r \in Rank : rc[r] /\ data[r] = {Tree(gen, ranks, r)}
                    \/ erred /\ \A r \in Rank : ~rc[r] /\ data[r] = {}
  BY DEF RoundTrip
<1>1. whole # 0
  BY DEF RoundTripInv, GatherInv, LocalInv
<1>2. PICK l, D, A : Reading(l, D, A)
  BY <1>1 DEF RoundTripInv, ReadInv
<1>3. QED
  BY <1>2 DEF Reading

-----------------------------------------------------------------------------
(* Writing. *)

\* Before the first call nothing is planned.
LEMMA RoundTripInvInit == Init => RoundTripInv
<1> SUFFICES ASSUME Init PROVE RoundTripInv
  OBVIOUS
<1>1. GatherInv
  BY GatherInvInit
<1>2. 0 \in Rank /\ \A r \in Rank : pc[r] = "done"
  BY DEF Init, Rank
<1>3. PlanInv
  BY <1>2 DEF PlanInv, AllIn, Writing
<1>4. ReadInv
  BY DEF Init, ReadInv
<1>5. QED
  BY <1>1, <1>3, <1>4 DEF RoundTripInv

\* A file is opened: it is still to be written.
LEMMA OpenFilePlan ==
  ASSUME RoundTripInv, NEW r \in Rank, OpenFile(r)
  PROVE  RoundTripInv'
<1> USE DEF RoundTripInv
<1>1. 0 \in Rank
  BY RankZero DEF GatherInv
<1>2. /\ Writing /\ pc[r] = "write" /\ todo[r] # <<>> /\ whole = 0
      /\ pc \in [Rank -> Places] /\ DOMAIN todo = Rank
  BY DEF OpenFile, GatherInv, PhaseInv, AllIn, Writing, LocalInv, RefuseInv
<1>3. /\ pc' = [pc EXCEPT ![r] = "opened"]
      /\ files' = Store(NextWrite(r).file, EmptyHash)
      /\ todo' = todo /\ ranks' = ranks /\ gen' = gen /\ rc' = rc /\ whole' = 0
      /\ Rank' = Rank
  BY <1>2 DEF OpenFile, Rank
<1>4. PICK f, c : f = NextWrite(r).file /\ c = NextWrite(r).content
  OBVIOUS
<1>5. InTodo(todo, f, c)
  <2>1. 1 \in 1 .. Len(todo[r]) /\ NextWrite(r) = todo[r][1]
    BY <1>2, NextWriteIs
  <2>2. QED
    BY <1>2, <1>4, <2>1 DEF InTodo
<1>6. \A g \in DOMAIN files : g # f => g \in DOMAIN files' /\ files'[g] = files[g]
  BY <1>3, <1>4 DEF Store
<1>7. ASSUME NEW l, NEW D, NEW A, WritePlan(todo, files, l, ranks, gen, D, A)
      PROVE  WritePlan(todo, files', l, ranks, gen, D, A)
  <2>1. ASSUME NEW h, NEW d, PlannedAll(l, ranks, gen, D, A, h, d), ~InTodo(todo, h, d)
        PROVE  h \in DOMAIN files' /\ files'[h] = d
    <3>1. h \in DOMAIN files /\ files[h] = d
      BY <1>7, <2>1 DEF WritePlan
    <3>2. h # f
      <4>1. PlannedAll(l, ranks, gen, D, A, f, c)
        BY <1>5, <1>7 DEF WritePlan
      <4>2. h = f => d = c
        BY <2>1, <4>1, PlanFunctional
      <4>3. QED
        BY <1>5, <2>1, <4>2
    <3>3. QED
      BY <1>6, <3>1, <3>2
  <2>2. QED
    BY <1>7, <2>1 DEF WritePlan
<1>8. PlanInv'
  <2>1. ~AllIn({"gather"})'
    BY <1>1, <1>2, <1>3 DEF Writing, AllIn
  <2>2. (\A q \in Rank : rc[q]) => \E l, D, A : WritePlan(todo, files, l, ranks, gen, D, A)
    BY <1>2 DEF PlanInv
  <2>3. (\A q \in Rank' : rc'[q]) => \E l, D, A : WritePlan(todo', files', l, ranks', gen', D, A)
    BY <1>3, <1>7, <2>2
  <2>4. QED
    BY <2>1, <2>3 DEF PlanInv
<1>9. QED
  BY <1>3, <1>8, OpenFileStep DEF ReadInv

\* A file is written: it is as planned.
LEMMA WriteFilePlan ==
  ASSUME RoundTripInv, NEW r \in Rank, WriteFile(r)
  PROVE  RoundTripInv'
<1> USE DEF RoundTripInv
<1>1. 0 \in Rank
  BY RankZero DEF GatherInv
<1>2. /\ Writing /\ pc[r] = "opened" /\ todo[r] # <<>> /\ whole = 0
      /\ pc \in [Rank -> Places] /\ todo \in [Rank -> Seq(Items(gen))]
  BY DEF WriteFile, GatherInv, PhaseInv, AllIn, Writing, LocalInv, WriteInv, RefuseInv
<1>3. /\ pc' = [pc EXCEPT ![r] = "write"]
      /\ files' = Store(NextWrite(r).file, NextWrite(r).content)
      /\ todo' = [todo EXCEPT ![r] = Tail(todo[r])]
      /\ ranks' = ranks /\ gen' = gen /\ rc' = rc /\ whole' = 0
      /\ Rank' = Rank
  BY <1>2 DEF WriteFile, Rank
<1>4. PICK f, c : f = NextWrite(r).file /\ c = NextWrite(r).content
  OBVIOUS
<1>5. PICK n \in Nat \ {0} :
        /\ n = Len(todo[r]) /\ NextWrite(r) = todo[r][1]
        /\ Len(todo'[r]) = n - 1
        /\ \A i \in 1 .. n - 1 : todo'[r][i] = todo[r][i + 1]
  BY <1>2, <1>3, NextWriteIs
<1>6. InTodo(todo, f, c)
  <2>1. 1 \in 1 .. Len(todo[r])
    BY <1>5
  <2>2. QED
    BY <1>2, <1>4, <1>5, <2>1 DEF InTodo
<1>7. \A g \in DOMAIN files : g # f => g \in DOMAIN files' /\ files'[g] = files[g]
  BY <1>3, <1>4 DEF Store
<1>8. f \in DOMAIN files' /\ files'[f] = c
  BY <1>3, <1>4 DEF Store
<1>9. ASSUME NEW h, NEW d, InTodo(todo, h, d)
      PROVE  InTodo(todo', h, d) \/ (h = f /\ d = c)
  <2>1. PICK q \in Rank : \E i \in 1 .. Len(todo[q]) : todo[q][i].file = h /\ todo[q][i].content = d
    BY <1>2, <1>9 DEF InTodo
  <2>2. PICK i \in 1 .. Len(todo[q]) : todo[q][i].file = h /\ todo[q][i].content = d
    BY <2>1
  <2>3. CASE q # r
    BY <1>2, <1>3, <2>2, <2>3 DEF InTodo
  <2>4. CASE q = r /\ i = 1
    BY <1>4, <1>5, <2>2, <2>4
  <2>5. CASE q = r /\ i # 1
    <3>1. i - 1 \in 1 .. n - 1 /\ (i - 1) + 1 = i
      BY <1>5, <2>5
    <3>2. todo'[r][i - 1] = todo[r][i] /\ i - 1 \in 1 .. Len(todo'[r])
      BY <1>5, <3>1
    <3>3. r \in DOMAIN todo'
      BY <1>2, <1>3
    <3>4. QED
      BY <2>2, <2>5, <3>2, <3>3 DEF InTodo
  <2>6. QED
    BY <2>3, <2>4, <2>5
<1>10. ASSUME NEW h, NEW d, InTodo(todo', h, d)
       PROVE  InTodo(todo, h, d)
  <2>1. PICK q \in Rank : \E i \in 1 .. Len(todo'[q]) : todo'[q][i].file = h /\ todo'[q][i].content = d
    BY <1>2, <1>3, <1>10 DEF InTodo
  <2>2. PICK i \in 1 .. Len(todo'[q]) : todo'[q][i].file = h /\ todo'[q][i].content = d
    BY <2>1
  <2>3. CASE q # r
    BY <1>2, <1>3, <2>2, <2>3 DEF InTodo
  <2>4. CASE q = r
    <3>1. i \in 1 .. n - 1 /\ i + 1 \in 1 .. n
      BY <1>5, <2>4
    <3>2. todo'[r][i] = todo[r][i + 1] /\ i + 1 \in 1 .. Len(todo[r])
      BY <1>5, <3>1
    <3>3. QED
      BY <1>2, <2>2, <2>4, <3>2 DEF InTodo
  <2>5. QED
    BY <2>3, <2>4
<1>11. ASSUME NEW l, NEW D, NEW A, WritePlan(todo, files, l, ranks, gen, D, A)
       PROVE  WritePlan(todo', files', l, ranks, gen, D, A)
  <2>1. PlannedAll(l, ranks, gen, D, A, f, c)
    BY <1>6, <1>11 DEF WritePlan
  <2>2. ASSUME NEW h, NEW d, PlannedAll(l, ranks, gen, D, A, h, d), ~InTodo(todo', h, d)
        PROVE  h \in DOMAIN files' /\ files'[h] = d
    <3>1. CASE h = f
      BY <1>8, <2>1, <2>2, <3>1, PlanFunctional
    <3>2. CASE h # f
      <4>1. h \in DOMAIN files /\ files[h] = d
        BY <1>9, <1>11, <2>2, <3>2 DEF WritePlan
      <4>2. QED
        BY <1>7, <3>2, <4>1
    <3>3. QED
      BY <3>1, <3>2
  <2>3. QED
    BY <1>10, <1>11, <2>2 DEF WritePlan
<1>12. PlanInv'
  <2>1. ~AllIn({"gather"})'
    BY <1>1, <1>2, <1>3 DEF Writing, AllIn
  <2>2. (\A q \in Rank : rc[q]) => \E l, D, A : WritePlan(todo, files, l, ranks, gen, D, A)
    BY <1>2 DEF PlanInv
  <2>3. (\A q \in Rank' : rc'[q]) => \E l, D, A : WritePlan(todo', files', l, ranks', gen', D, A)
    BY <1>3, <1>11, <2>2
  <2>4. QED
    BY <2>1, <2>3 DEF PlanInv
<1>13. QED
  BY <1>3, <1>12, WriteFileStep DEF ReadInv

\* A file cannot be written, or not be closed: the write will not return
\* KVTREE_SUCCESS.
LEMMA WriteErrorPlan ==
  ASSUME RoundTripInv, NEW r \in Rank, WriteError(r) \/ CloseError(r)
  PROVE  RoundTripInv'
<1> USE DEF RoundTripInv
<1>1. /\ Writing /\ whole = 0 /\ pc[r] \in {"write", "opened"} /\ pc \in [Rank -> Places]
      /\ rc \in [Rank -> BOOLEAN]
  BY DEF WriteError, CloseError, GatherInv, PhaseInv, AllIn, Writing, LocalInv, RefuseInv
<1>2. rc' = [rc EXCEPT ![r] = FALSE] /\ pc' = [pc EXCEPT ![r] = "write"] /\ whole' = 0
  BY <1>1 DEF WriteError, CloseError
<1>3. Rank' = Rank /\ ~rc'[r] /\ pc'[r] = "write"
  BY <1>1, <1>2 DEF Rank
<1>4. PlanInv'
  BY <1>3 DEF PlanInv, AllIn
<1>5. QED
  BY <1>2, <1>4, WriteErrorStep DEF ReadInv

\* The write returns: if all ranks have succeeded, everything planned is written.
LEMMA EndWritePlan ==
  ASSUME RoundTripInv, EndWrite
  PROVE  RoundTripInv'
<1> USE DEF RoundTripInv
<1>1. 0 \in Rank
  BY RankZero DEF GatherInv
<1>2. /\ Writing /\ \A r \in Rank : todo[r] = <<>>
      /\ DOMAIN todo = Rank
  BY <1>1 DEF EndWrite, GatherInv, PhaseInv, AllIn, Writing, LocalInv
<1>3. /\ pc' = [r \in Rank |-> "done"]
      /\ whole' = IF \A r \in Rank : rc[r] THEN ranks ELSE 0
      /\ files' = files /\ gen' = gen /\ op' = op /\ Rank' = Rank
  BY DEF EndWrite, Locals, Rank, AllTrue
<1>4. PlanInv'
  BY <1>1, <1>3 DEF PlanInv, AllIn, Writing
<1>5. ASSUME \A r \in Rank : rc[r]
      PROVE  \E l, D, A : Written(files, l, ranks, gen, D, A)
  <2>1. PICK l, D, A : WritePlan(todo, files, l, ranks, gen, D, A)
    BY <1>2, <1>5 DEF PlanInv
  <2>2. \A f, c : ~InTodo(todo, f, c)
    BY <1>2 DEF InTodo
  <2>3. Written(files, l, ranks, gen, D, A)
    BY <2>1, <2>2 DEF WritePlan, Written
  <2>4. QED
    BY <2>3
<1>6. ReadInv'
  <2>1. op' # "read_scatter"
    BY <1>2, <1>3 DEF Writing
  <2>2. whole' # 0 => \E l, D, A : Written(files', l, whole', gen', D, A)
    BY <1>3, <1>5
  <2>3. QED
    BY <2>1, <2>2 DEF ReadInv
<1>7. QED
  BY <1>4, <1>6, EndWriteStep

-----------------------------------------------------------------------------
(* Reading. *)

\* The map files of a plan have been written.
LEMMA MapFilesWritten ==
  ASSUME NEW l, NEW D, NEW A, GatherInv, Written(files, l, whole, gen, D, A), MapFiles(l, D),
         NEW r \in Rank, file[r] # NoFile
  PROVE  /\ file[r] \in DOMAIN files
         /\ files[file[r]].level > 0
<1>1. PlanOf(l, whole, D, A)
  BY DEF Written
<1>2. CASE \A q \in Rank : file[q] = IF q = 0 THEN Root ELSE NoFile
  <2>1. file[r] = Root
    BY <1>2
  <2>2. Root \in DOMAIN files /\ files[Root] = MapOf(l, whole, gen, D[l])
    BY <1>1, PlanHas DEF Written
  <2>3. l > 0
    BY <1>1 DEF PlanOf
  <2>4. QED
    BY <2>1, <2>2, <2>3, ContentFacts
<1>3. CASE \E k \in 1 .. l - 1 : \A q \in Rank :
             file[q] = IF q \in D[k + 1] THEN Name(k, q) ELSE NoFile
  <2>1. PICK k \in 1 .. l - 1 : \A q \in Rank :
             file[q] = IF q \in D[k + 1] THEN Name(k, q) ELSE NoFile
    BY <1>3
  <2>2. r \in D[k + 1] /\ file[r] = Name(k, r)
    BY <2>1
  <2>3. l \in Nat
    BY <1>1 DEF PlanOf
  <2>4. k \in 0 .. l - 1 /\ k > 0
    BY <2>3
  <2>5. /\ Name(k, r) \in DOMAIN files
        /\ files[Name(k, r)] = PartOf(whole, gen, D, A, k, r)
    <3>1. PlannedAll(l, whole, gen, D, A, Name(k, r), PartOf(whole, gen, D, A, k, r))
      BY <1>1, <2>2, <2>4, PlanHas
    <3>2. QED
      BY <3>1 DEF Written
  <2>6. PartOf(whole, gen, D, A, k, r).level = k
    BY <2>4, ContentFacts DEF PartOf
  <2>7. QED
    BY <2>2, <2>4, <2>5, <2>6
<1>4. QED
  BY <1>2, <1>3 DEF MapFiles

\* A kvtree_read_scatter begins.
LEMMA ReadScatterPlan ==
  ASSUME RoundTripInv, NEW n \in Jobs, ReadScatter(n)
  PROVE  RoundTripInv'
<1> USE DEF RoundTripInv
<1>1. PICK R : R = 0 .. n - 1 /\ 0 \in R
  BY GatherAssumption
<1>2. /\ gen' = gen /\ whole' = whole /\ files' = files
      /\ pc' = [r \in R |-> "map"] /\ rc' = [r \in R |-> TRUE]
      /\ data' = [r \in R |-> {}]
      /\ file' = [r \in R |-> IF r = 0 THEN Root ELSE NoFile]
      /\ Rank' = R
  BY <1>1 DEF ReadScatter, Call, Locals, NoData, FirstFiles, Rank
<1>3. PlanInv'
  BY <1>1, <1>2 DEF PlanInv, AllIn, Writing
<1>4. ASSUME NEW l, NEW D, NEW A PROVE Reading(l, D, A)'
  BY <1>1, <1>2 DEF Reading, AllIn, Idle, MapFiles
<1>5. ReadInv'
  <2>1. whole # 0 => \E l, D, A : Written(files, l, whole, gen, D, A)
    BY DEF ReadInv
  <2>2. QED
    BY <1>2, <1>4, <2>1 DEF ReadInv
<1>6. QED
  BY <1>3, <1>5, ReadScatterStep

\* A map is read.
LEMMA ReadMapPlan ==
  ASSUME RoundTripInv, NEW r \in Rank, ReadMap(r)
  PROVE  RoundTripInv'
<1> USE DEF RoundTripInv
<1>1. /\ op = "read_scatter" /\ AllIn({"map", "mapcheck"}) /\ pc[r] = "map"
      /\ pc \in [Rank -> Places] /\ rc \in [Rank -> BOOLEAN] /\ hash \in [Rank -> Contents]
      /\ 0 \in Rank
  BY RankZero DEF GatherInv, ReadMap, PhaseInv, AllIn, Writing, LocalInv
<1>2. /\ pc' = [pc EXCEPT ![r] = "mapcheck"] /\ hash' = [hash EXCEPT ![r] = Loaded(r)]
      /\ rc' = [rc EXCEPT ![r] = file[r] = NoFile \/ Readable(r)]
      /\ files' = files /\ op' = op /\ ranks' = ranks /\ file' = file /\ data' = data
      /\ gen' = gen /\ whole' = whole /\ erred' = erred
      /\ Rank' = Rank
  BY <1>1 DEF ReadMap, Rank
<1>3. AllIn({"map", "mapcheck"})' /\ ~Idle /\ ~Idle'
  BY <1>1, <1>2 DEF AllIn, Idle
<1>4. PlanInv'
  BY <1>1, <1>2, <1>3 DEF PlanInv, AllIn, Writing
<1>5. ASSUME NEW l, NEW D, NEW A, Written(files, l, whole, gen, D, A), Reading(l, D, A)
      PROVE  Reading(l, D, A)'
  <2>1. /\ \A q \in Rank : data[q] = {}
        /\ DOMAIN data = Rank /\ MapFiles(l, D)
        /\ \A q \in Rank : pc[q] = "mapcheck" =>
            \/ rc[q] /\ hash[q] = IF file[q] \in DOMAIN files THEN files[file[q]] ELSE EmptyHash
            \/ erred /\ ~rc[q]
        /\ \A q \in Rank : pc[q] = "map" => rc[q]
    BY <1>1, <1>3, <1>5 DEF Reading
  <2>2. file[r] = NoFile \/ Readable(r)
    BY <1>5, <2>1, MapFilesWritten DEF Readable
  <2>3. rc' = [rc EXCEPT ![r] = TRUE]
    BY <1>2, <2>2
  <2>4. \A q \in Rank : pc'[q] = "mapcheck" =>
            \/ rc'[q] /\ hash'[q] = IF file[q] \in DOMAIN files THEN files[file[q]] ELSE EmptyHash
            \/ erred /\ ~rc'[q]
    BY <1>1, <1>2, <2>1, <2>3 DEF Loaded, Readable
  <2>5. \A q \in Rank : pc'[q] = "map" => rc'[q]
    BY <1>1, <1>2, <2>1, <2>3
  <2>6. MapFiles(l, D)'
    BY <1>2, <2>1 DEF MapFiles
  <2>7. ~AllIn({"data", "datacheck"})'
    BY <1>1, <1>2, <1>3 DEF AllIn
  <2>8. QED
    BY <1>2, <1>3, <2>1, <2>4, <2>5, <2>6, <2>7 DEF Reading
<1>6. ReadInv'
  BY <1>1, <1>2, <1>5 DEF ReadInv
<1>7. QED
  BY <1>4, <1>6, ReadMapStep

\* A data file is read.
LEMMA ReadDataPlan ==
  ASSUME RoundTripInv, NEW r \in Rank, ReadData(r)
  PROVE  RoundTripInv'
<1> USE DEF RoundTripInv
<1>1. /\ op = "read_scatter" /\ AllIn({"data", "datacheck"}) /\ pc[r] = "data"
      /\ pc \in [Rank -> Places] /\ rc \in [Rank -> BOOLEAN] /\ hash \in [Rank -> Contents]
      /\ file \in [Rank -> Names \cup {NoFile}] /\ 0 \in Rank
  BY RankZero DEF GatherInv, ReadData, PhaseInv, AllIn, Writing, LocalInv
<1>2. /\ pc' = [pc EXCEPT ![r] = "datacheck"] /\ hash' = [hash EXCEPT ![r] = Loaded(r)]
      /\ rc' = [rc EXCEPT ![r] = rc[r] /\ (file[r] = NoFile \/ RanksMatch(r))]
      /\ file' = [file EXCEPT ![r] = NoFile]
      /\ files' = files /\ op' = op /\ ranks' = ranks /\ data' = data
      /\ gen' = gen /\ whole' = whole /\ erred' = erred
      /\ Rank' = Rank
  BY <1>1 DEF ReadData, Rank
<1>3. AllIn({"data", "datacheck"})' /\ ~Idle /\ ~Idle'
  BY <1>1, <1>2 DEF AllIn, Idle
<1>4. PlanInv'
  BY <1>1, <1>2, <1>3 DEF PlanInv, AllIn, Writing
<1>5. ASSUME NEW l, NEW D, NEW A, Written(files, l, whole, gen, D, A), Reading(l, D, A),
             whole = ranks
      PROVE  Reading(l, D, A)'
  <2>1. (\A q \in Rank : data[q] = {}) /\ DOMAIN data = Rank
    BY <1>3, <1>5 DEF Reading
  <2>2. /\ ~AllIn({"map", "mapcheck"})'
        /\ \A q \in Rank : pc'[q] # "map"
    BY <1>1, <1>2, <1>3 DEF AllIn
  <2>3. CASE erred /\ \E q \in Rank : ~rc[q]
    <3>1. \E q \in Rank : ~rc'[q]
      BY <1>1, <1>2, <2>3
    <3>2. QED
      BY <1>2, <1>3, <2>1, <2>2, <2>3, <3>1 DEF Reading
  <2>4. CASE \A q \in Rank :
            /\ rc[q]
            /\ pc[q] = "data" => file[q] = IF q \in D[1] THEN Name(0, q) ELSE NoFile
            /\ pc[q] = "datacheck" =>
                 hash[q] = IF q \in D[1] THEN DataOf(ranks, gen, SentTo(D, A, 0, q)) ELSE EmptyHash
    <3>1. PlanOf(l, whole, D, A) /\ 0 \in 0 .. l - 1
      BY <1>5 DEF Written, PlanOf
    <3>2. r \in D[1] => /\ Name(0, r) \in DOMAIN files
                        /\ files[Name(0, r)] = DataOf(ranks, gen, SentTo(D, A, 0, r))
      <4>1. r \in D[1] => PlannedAll(l, whole, gen, D, A, Name(0, r), PartOf(whole, gen, D, A, 0, r))
        BY <3>1, PlanHas
      <4>2. QED
        BY <1>5, <4>1 DEF Written, PartOf
    <3>3. /\ Loaded(r) = IF r \in D[1] THEN DataOf(ranks, gen, SentTo(D, A, 0, r)) ELSE EmptyHash
          /\ file[r] = NoFile \/ RanksMatch(r)
      <4>1. CASE r \in D[1]
        <5>1. Loaded(r) = DataOf(ranks, gen, SentTo(D, A, 0, r))
          BY <1>1, <2>4, <3>2, <4>1 DEF Loaded, Readable
        <5>2. QED
          BY <4>1, <5>1, ContentFacts DEF RanksMatch
      <4>2. CASE r \notin D[1]
        <5>1. file[r] = NoFile
          BY <1>1, <2>4, <4>2
        <5>2. Loaded(r) = EmptyHash
          BY <5>1, LoadedFits DEF GatherInv
        <5>3. QED
          BY <4>2, <5>1, <5>2
      <4>3. QED
        BY <4>1, <4>2
    <3>4. rc' = [rc EXCEPT ![r] = TRUE]
      BY <1>2, <2>4, <3>3
    <3>5. \A q \in Rank :
            /\ rc'[q]
            /\ pc'[q] = "data" => file'[q] = IF q \in D[1] THEN Name(0, q) ELSE NoFile
            /\ pc'[q] = "datacheck" =>
                 hash'[q] = IF q \in D[1] THEN DataOf(ranks, gen, SentTo(D, A, 0, q)) ELSE EmptyHash
      BY <1>1, <1>2, <2>4, <3>3, <3>4
    <3>6. QED
      BY <1>2, <1>3, <2>1, <2>2, <3>5 DEF Reading
  <2>5. QED
    BY <1>1, <1>5, <2>3, <2>4 DEF Reading
<1>6. ReadInv'
  BY <1>1, <1>2, <1>5 DEF ReadInv
<1>7. QED
  BY <1>4, <1>6, ReadDataStep

\* A system call of the read fails: it will fail on all ranks.
LEMMA ReadErrorPlan ==
  ASSUME RoundTripInv, NEW r \in Rank, ReadError(r)
  PROVE  RoundTripInv'
<1> USE DEF RoundTripInv
<1>1. /\ op = "read_scatter" /\ pc[r] \in {"map", "data"}
      /\ pc[r] = "map" => AllIn({"map", "mapcheck"})
      /\ pc[r] = "data" => AllIn({"data", "datacheck"})
      /\ pc \in [Rank -> Places] /\ rc \in [Rank -> BOOLEAN] /\ hash \in [Rank -> Contents]
      /\ file \in [Rank -> Names \cup {NoFile}] /\ 0 \in Rank
  BY RankZero DEF GatherInv, ReadError, PhaseInv, AllIn, Writing, LocalInv
<1>2. /\ hash' = [hash EXCEPT ![r] = EmptyHash] /\ erred' = TRUE
      /\ rc' = [rc EXCEPT ![r] = FALSE]
      /\ files' = files /\ op' = op /\ ranks' = ranks /\ data' = data
      /\ gen' = gen /\ whole' = whole
      /\ Rank' = Rank
      /\ ~rc'[r]
  BY <1>1 DEF ReadError, Fault, Rank
<1>3. /\ pc[r] = "map" => pc' = [pc EXCEPT ![r] = "mapcheck"] /\ file' = file
      /\ pc[r] = "data" => pc' = [pc EXCEPT ![r] = "datacheck"]
  BY <1>1 DEF ReadError
<1>4. /\ pc[r] = "map" => AllIn({"map", "mapcheck"})'
      /\ pc[r] = "data" => AllIn({"data", "datacheck"})'
      /\ ~Idle /\ ~Idle'
  BY <1>1, <1>2, <1>3 DEF AllIn, Idle
<1>5. PlanInv'
  BY <1>1, <1>2, <1>4 DEF PlanInv, AllIn, Writing
<1>6. ASSUME NEW l, NEW D, NEW A, Reading(l, D, A)
      PROVE  Reading(l, D, A)'
  <2>1. (\A q \in Rank : data[q] = {}) /\ DOMAIN data = Rank
    BY <1>4, <1>6 DEF Reading
  <2>2. CASE pc[r] = "map"
    <3>1. /\ MapFiles(l, D)
          /\ \A q \in Rank : pc[q] = "mapcheck" =>
              \/ rc[q] /\ hash[q] = IF file[q] \in DOMAIN files THEN files[file[q]] ELSE EmptyHash
              \/ erred /\ ~rc[q]
          /\ \A q \in Rank : pc[q] = "map" => rc[q]
      BY <1>1, <1>6, <2>2 DEF Reading
    <3>2. \A q \in Rank : pc'[q] = "mapcheck" =>
              \/ rc'[q] /\ hash'[q] = IF file[q] \in DOMAIN files THEN files[file[q]] ELSE EmptyHash
              \/ ~rc'[q]
      BY <1>1, <1>2, <1>3, <2>2, <3>1
    <3>3. \A q \in Rank : pc'[q] = "map" => rc'[q]
      BY <1>1, <1>2, <1>3, <2>2, <3>1
    <3>4. MapFiles(l, D)' /\ ~AllIn({"data", "datacheck"})'
      BY <1>1, <1>2, <1>3, <1>4, <2>2, <3>1 DEF MapFiles, AllIn
    <3>5. QED
      BY <1>2, <1>3, <1>4, <2>1, <2>2, <3>2, <3>3, <3>4 DEF Reading
  <2>3. CASE pc[r] = "data"
    <3>1. /\ ~AllIn({"map", "mapcheck"})'
          /\ \A q \in Rank : pc'[q] # "map"
      BY <1>1, <1>2, <1>4, <2>3 DEF AllIn
    <3>2. QED
      BY <1>2, <1>4, <2>1, <3>1 DEF Reading
  <2>4. QED
    BY <1>1, <2>2, <2>3
<1>7. ReadInv'
  BY <1>1, <1>2, <1>6 DEF ReadInv
<1>8. QED
  BY <1>5, <1>7, ReadErrorStep

\* The maps that have been read send on the ranks that the plan has one level
\* below, and no others.
LEMMA MapsSend ==
  ASSUME GatherInv, NEW l, NEW D, NEW A, Written(files, l, whole, gen, D, A), Reading(l, D, A),
         whole = ranks, op = "read_scatter", \A r \in Rank : pc[r] = "mapcheck", MapRead
  PROVE  \E k \in 1 .. l : LevelId = k /\ \A q \in Rank : Senders(q) # {} <=> q \in D[k]
<1>1. 0 \in Rank /\ Rank = 0 .. ranks - 1 /\ ranks \in Nat \ {0}
  BY RankZero DEF GatherInv, LocalInv
<1>2. /\ PlanOf(l, ranks, D, A) /\ l \in Nat \ {0}
      /\ \A k \in 0 .. l : 0 \in D[k] /\ D[k] \subseteq Rank
      /\ \A k \in 0 .. l - 1 : \A q \in D[k] : A[k][q] \in D[k + 1]
  BY <1>1 DEF Written, PlanOf
<1>3. /\ AllIn({"map", "mapcheck"}) /\ MapFiles(l, D)
      /\ \A r \in Rank :
           hash[r] = IF file[r] \in DOMAIN files THEN files[file[r]] ELSE EmptyHash
  <2>1. AllIn({"map", "mapcheck"})
    BY DEF AllIn
  <2>2. QED
    BY <2>1 DEF Reading, MapRead, AllTrue
<1>4. /\ \A r \in Rank : file[r] = NoFile => hash[r] = EmptyHash
      /\ file[0] # NoFile
  BY <1>3 DEF GatherInv, MapInv
<1>5. LevelId = hash[0].level
  BY <1>4 DEF LevelId
<1>6. CASE \A q \in Rank : file[q] = IF q = 0 THEN Root ELSE NoFile
  <2>1. PlannedAll(l, ranks, gen, D, A, Root, MapOf(l, ranks, gen, D[l]))
    BY <1>2, PlanHas
  <2>2. Root \in DOMAIN files /\ files[Root] = MapOf(l, ranks, gen, D[l])
    BY <2>1 DEF Written
  <2>3. hash[0] = MapOf(l, ranks, gen, D[l])
    BY <1>1, <1>3, <1>6, <2>2
  <2>4. hash[0].level = l /\ DOMAIN hash[0].entries = D[l]
    BY <2>3, ContentFacts
  <2>5. \A s \in Rank : s # 0 => DOMAIN hash[s].entries = {}
    <3>1. \A s \in Rank : s # 0 => hash[s] = EmptyHash
      BY <1>4, <1>6
    <3>2. QED
      BY <3>1, ContentFacts
  <2>6. \A q \in Rank : Senders(q) # {} <=> q \in D[l]
    BY <1>1, <2>4, <2>5 DEF Senders
  <2>7. l \in 1 .. l
    BY <1>2
  <2>8. QED
    BY <1>5, <2>4, <2>6, <2>7
<1>7. CASE \E k \in 1 .. l - 1 : \A q \in Rank :
             file[q] = IF q \in D[k + 1] THEN Name(k, q) ELSE NoFile
  <2>1. PICK k \in 1 .. l - 1 : \A q \in Rank :
             file[q] = IF q \in D[k + 1] THEN Name(k, q) ELSE NoFile
    BY <1>7
  <2>2. k \in 0 .. l - 1 /\ k \in 1 .. l /\ k + 1 \in 0 .. l /\ k # 0 /\ k \in 0 .. l
    BY <1>2
  <2>3. ASSUME NEW s \in Rank, s \in D[k + 1]
        PROVE  hash[s].level = k /\ DOMAIN hash[s].entries = SentTo(D, A, k, s)
    <3>1. PlannedAll(l, ranks, gen, D, A, Name(k, s), PartOf(ranks, gen, D, A, k, s))
      BY <1>2, <2>2, <2>3, PlanHas
    <3>2. Name(k, s) \in DOMAIN files /\ files[Name(k, s)] = PartOf(ranks, gen, D, A, k, s)
      BY <3>1 DEF Written
    <3>3. hash[s] = MapOf(k, ranks, gen, SentTo(D, A, k, s))
      BY <1>3, <2>1, <2>2, <2>3, <3>2 DEF PartOf
    <3>4. QED
      BY <3>3, ContentFacts
  <2>4. \A s \in Rank : s \notin D[k + 1] => DOMAIN hash[s].entries = {}
    <3>1. \A s \in Rank : s \notin D[k + 1] => hash[s] = EmptyHash
      BY <1>4, <2>1
    <3>2. QED
      BY <3>1, ContentFacts
  <2>5. ASSUME NEW q \in Rank, q \in D[k]
        PROVE  A[k][q] \in Senders(q)
    <3>1. A[k][q] \in D[k + 1] /\ A[k][q] \in Rank
      BY <1>2, <2>2, <2>5
    <3>2. q \in SentTo(D, A, k, A[k][q])
      BY <2>5 DEF SentTo
    <3>3. QED
      BY <2>3, <3>1, <3>2 DEF Senders
  <2>6. ASSUME NEW q \in Rank, NEW s \in Senders(q)
        PROVE  q \in D[k]
    BY <2>3, <2>4 DEF Senders, SentTo
  <2>7. 0 \in D[k + 1]
    BY <1>2, <2>2
  <2>8. QED
    BY <1>1, <1>5, <2>2, <2>3, <2>5, <2>6, <2>7
<1>8. QED
  BY <1>3, <1>6, <1>7 DEF MapFiles

\* The ranks go on to the files of the plan one level below.
LEMMA ScatterMapPlan ==
  ASSUME RoundTripInv, ScatterMap
  PROVE  RoundTripInv'
<1> USE DEF RoundTripInv
<1>1. 0 \in Rank
  BY RankZero DEF GatherInv
<1>2. op = "read_scatter" /\ MapRead /\ \A r \in Rank : pc[r] = "mapcheck"
  BY <1>1 DEF ScatterMap, GatherInv, PhaseInv, AllIn, Writing
<1>3. /\ pc' = [r \in Rank |-> IF LevelId > 1 THEN "map" ELSE "data"]
      /\ file' = [r \in Rank |-> NextFile(r)] /\ hash' = [r \in Rank |-> EmptyHash]
      /\ files' = files /\ op' = op /\ ranks' = ranks /\ rc' = rc /\ data' = data
      /\ gen' = gen /\ whole' = whole /\ erred' = erred
      /\ Rank' = Rank
  BY DEF ScatterMap, Rank
<1>4. ~Idle /\ ~Idle'
  BY <1>1, <1>2, <1>3 DEF Idle
<1>5. PlanInv'
  BY <1>1, <1>2, <1>3 DEF PlanInv, AllIn, Writing
<1>6. ASSUME NEW l, NEW D, NEW A, Written(files, l, whole, gen, D, A), Reading(l, D, A),
             whole = ranks
      PROVE  Reading(l, D, A)'
  <2>1. (\A q \in Rank : data[q] = {}) /\ DOMAIN data = Rank /\ \A q \in Rank : rc[q]
    BY <1>2, <1>4, <1>6 DEF Reading, MapRead, AllTrue
  <2>2. PICK k \in 1 .. l : LevelId = k /\ \A q \in Rank : Senders(q) # {} <=> q \in D[k]
    BY <1>2, <1>6, MapsSend
  <2>3. \A q \in Rank : file'[q] = IF q \in D[k] THEN Name(k - 1, q) ELSE NoFile
    BY <1>2, <1>3, <2>2, MapsAgree
  <2>4. l \in Nat \ {0}
    BY <1>6 DEF Written, PlanOf
  <2>5. CASE k > 1
    <3>1. \A q \in Rank : pc'[q] = "map"
      BY <1>3, <2>2, <2>5
    <3>2. k - 1 \in 1 .. l - 1 /\ (k - 1) + 1 = k
      BY <2>4, <2>5
    <3>3. MapFiles(l, D)'
      BY <1>3, <2>3, <3>2 DEF MapFiles
    <3>4. ~AllIn({"data", "datacheck"})'
      BY <1>1, <1>3, <3>1 DEF AllIn
    <3>5. QED
      BY <1>3, <1>4, <2>1, <3>1, <3>3, <3>4 DEF Reading
  <2>6. CASE k = 1
    <3>1. \A q \in Rank : pc'[q] = "data"
      BY <1>3, <2>2, <2>6
    <3>2. \A q \in Rank : file'[q] = IF q \in D[1] THEN Name(0, q) ELSE NoFile
      BY <2>3, <2>6
    <3>3. ~AllIn({"map", "mapcheck"})'
      BY <1>1, <1>3, <3>1 DEF AllIn
    <3>4. QED
      BY <1>3, <1>4, <2>1, <3>1, <3>2, <3>3 DEF Reading
  <2>7. k > 1 \/ k = 1
    BY <2>4
  <2>8. QED
    BY <2>5, <2>6, <2>7
<1>7. ReadInv'
  BY <1>2, <1>3, <1>6 DEF ReadInv
<1>8. QED
  BY <1>5, <1>7, ScatterMapStep

\* Somebody could not read its map: a system call of the read has failed.
LEMMA ScatterMapFailsPlan ==
  ASSUME RoundTripInv, ScatterMapFails
  PROVE  RoundTripInv'
<1> USE DEF RoundTripInv
<1>1. 0 \in Rank
  BY RankZero DEF GatherInv
<1>2. op = "read_scatter" /\ ~MapRead /\ \A r \in Rank : pc[r] = "mapcheck"
  BY <1>1 DEF ScatterMapFails, GatherInv, PhaseInv, AllIn, Writing
<1>3. /\ pc' = [r \in Rank |-> "data"] /\ rc' = [r \in Rank |-> FALSE]
      /\ files' = files /\ op' = op /\ ranks' = ranks /\ data' = data
      /\ gen' = gen /\ whole' = whole /\ erred' = erred
      /\ Rank' = Rank
  BY DEF ScatterMapFails, Rank
<1>4. ~Idle /\ ~Idle'
  BY <1>1, <1>2, <1>3 DEF Idle
<1>5. PlanInv'
  BY <1>1, <1>2, <1>3 DEF PlanInv, AllIn, Writing
<1>6. ASSUME NEW l, NEW D, NEW A, Written(files, l, whole, gen, D, A), Reading(l, D, A)
      PROVE  Reading(l, D, A)'
  <2>1. /\ \A q \in Rank : data[q] = {}
        /\ DOMAIN data = Rank /\ MapFiles(l, D)
        /\ \A q \in Rank :
            \/ rc[q] /\ hash[q] = IF file[q] \in DOMAIN files THEN files[file[q]] ELSE EmptyHash
            \/ erred /\ ~rc[q]
    BY <1>2, <1>4, <1>6 DEF Reading, AllIn
  <2>2. erred
    <3>1. SUFFICES ASSUME ~erred PROVE FALSE
      OBVIOUS
    <3>2. \A q \in Rank : file[q] # NoFile => hash[q].level > 0
      BY <1>6, <2>1, <3>1, MapFilesWritten
    <3>3. MapRead
      BY <2>1, <3>1, <3>2 DEF MapRead, AllTrue
    <3>4. QED
      BY <1>2, <3>3
  <2>3. /\ ~AllIn({"map", "mapcheck"})'
        /\ \A q \in Rank : pc'[q] # "map" /\ ~rc'[q]
    BY <1>1, <1>3 DEF AllIn
  <2>4. QED
    BY <1>1, <1>3, <1>4, <2>1, <2>2, <2>3 DEF Reading
<1>7. ReadInv'
  BY <1>2, <1>3, <1>6 DEF ReadInv
<1>8. QED
  BY <1>5, <1>7, ScatterMapFailsStep

\* The trees reach their ranks: each rank gets its own.
LEMMA ScatterPlan ==
  ASSUME RoundTripInv, Scatter
  PROVE  RoundTripInv'
<1> USE DEF RoundTripInv
<1>1. 0 \in Rank
  BY RankZero DEF GatherInv
<1>2. op = "read_scatter" /\ \A r \in Rank : pc[r] = "datacheck"
  BY <1>1 DEF Scatter, GatherInv, PhaseInv, AllIn, Writing
<1>3. /\ pc' = [r \in Rank |-> "done"] /\ rc' = [r \in Rank |-> AllTrue]
      /\ data' = IF AllTrue
                 THEN [r \in Rank |-> UNION {hash[s].entries[r] : s \in Senders(r)}]
                 ELSE data
      /\ files' = files /\ op' = op /\ ranks' = ranks
      /\ gen' = gen /\ whole' = whole /\ erred' = erred
      /\ Rank' = Rank
  BY DEF Scatter, Locals, Rank
<1>4. ~Idle /\ Idle'
  BY <1>1, <1>2, <1>3 DEF Idle
<1>5. PlanInv'
  BY <1>1, <1>2, <1>3 DEF PlanInv, AllIn, Writing
<1>6. ASSUME NEW l, NEW D, NEW A, Written(files, l, whole, gen, D, A), Reading(l, D, A),
             whole = ranks
      PROVE  Reading(l, D, A)'
  <2>1. (\A q \in Rank : data[q] = {}) /\ DOMAIN data = Rank
    BY <1>4, <1>6 DEF Reading
  <2>2. /\ ~AllIn({"map", "mapcheck"})' /\ ~AllIn({"data", "datacheck"})'
        /\ \A q \in Rank : pc'[q] # "map"
    BY <1>1, <1>3 DEF AllIn
  <2>3. CASE erred /\ \E q \in Rank : ~rc[q]
    <3>1. ~AllTrue
      BY <2>3 DEF AllTrue
    <3>2. data' = data /\ \A q \in Rank : ~rc'[q]
      BY <1>3, <3>1
    <3>3. QED
      BY <1>3, <1>4, <2>1, <2>2, <2>3, <3>2 DEF Reading
  <2>4. CASE \A q \in Rank : rc[q] /\
               hash[q] = IF q \in D[1] THEN DataOf(ranks, gen, SentTo(D, A, 0, q)) ELSE EmptyHash
    <3>1. AllTrue
      BY <2>4 DEF AllTrue
    <3>2. Rank = 0 .. ranks - 1
      BY <1>2 DEF GatherInv, LocalInv
    <3>3. D[0] = Rank /\ D[1] \subseteq Rank /\ \A q \in D[0] : A[0][q] \in D[1]
      <4>1. l \in Nat \ {0} /\ PlanOf(l, ranks, D, A)
        BY <1>6 DEF Written, PlanOf
      <4>2. 0 \in 0 .. l - 1 /\ 1 \in 0 .. l /\ 0 + 1 = 1
        BY <4>1
      <4>3. QED
        BY <3>2, <4>1, <4>2 DEF PlanOf
    <3>4. ASSUME NEW r \in Rank
          PROVE  data'[r] = {Tree(gen, ranks, r)}
      <4>1. ASSUME NEW s \in Rank, s \in D[1]
            PROVE  /\ DOMAIN hash[s].entries = SentTo(D, A, 0, s)
                   /\ \A q \in SentTo(D, A, 0, s) : hash[s].entries[q] = {Tree(gen, ranks, q)}
        <5>1. hash[s] = DataOf(ranks, gen, SentTo(D, A, 0, s))
          BY <2>4, <4>1
        <5>2. QED
          BY <5>1, ContentFacts
      <4>2. ASSUME NEW s \in Rank, s \notin D[1]
            PROVE  DOMAIN hash[s].entries = {}
        <5>1. hash[s] = EmptyHash
          BY <2>4, <4>2
        <5>2. QED
          BY <5>1, ContentFacts
      <4>3. \A s \in Senders(r) : hash[s].entries[r] = {Tree(gen, ranks, r)}
        BY <4>1, <4>2 DEF Senders
      <4>4. A[0][r] \in Senders(r)
        <5>1. r \in SentTo(D, A, 0, A[0][r])
          BY <3>3 DEF SentTo
        <5>2. QED
          BY <3>3, <4>1, <5>1 DEF Senders
      <4>5. data'[r] = UNION {hash[s].entries[r] : s \in Senders(r)}
        BY <1>3, <3>1
      <4>6. QED
        BY <4>3, <4>4, <4>5
    <3>5. DOMAIN data' = Rank /\ \A r \in Rank : rc'[r]
      BY <1>3, <3>1
    <3>6. QED
      BY <1>3, <1>4, <2>2, <3>4, <3>5 DEF Reading
  <2>5. QED
    BY <1>2, <1>6, <2>3, <2>4 DEF Reading, AllIn
<1>7. ReadInv'
  BY <1>2, <1>3, <1>6 DEF ReadInv
<1>8. QED
  BY <1>5, <1>7, ScatterStep

-----------------------------------------------------------------------------
(* Planning. *)

\* A kvtree_write_gather begins: its plan has one level.
LEMMA WriteGatherPlan ==
  ASSUME RoundTripInv, NEW size \in Inputs, WriteGather(size)
  PROVE  RoundTripInv'
<1> USE DEF RoundTripInv
<1>1. PICK n, W, item : WriteGatherWith(n, W, item)
  BY WriteGatherIs
<1>2. PICK R : R = 0 .. n - 1
  OBVIOUS
<1>3. /\ n \in Nat \ {0} /\ Chosen(R, W)
      /\ \A r \in R : /\ item[r].file = Name(0, r)
                      /\ item[r].content = DataOf(n, gen + 1, {q \in R : W[q] = r})
      /\ ranks' = n /\ pc' = [r \in R |-> "gather"] /\ level' = 1
      /\ valid' = {r \in R : W[r] = r}
      /\ todo' = [r \in R |-> IF W[r] = r THEN <<item[r]>> ELSE <<>>]
  BY <1>1, <1>2 DEF WriteGatherWith
<1>4. gen' = gen + 1 /\ whole' = 0 /\ Rank' = R /\ 0 \in R
  BY <1>2, <1>3 DEF WriteGather, Rank
<1>5. PICK D, A : /\ D = [k \in Nat |-> IF k = 0 THEN R ELSE valid']
                  /\ A = [k \in Nat |-> W]
  OBVIOUS
<1>6. /\ D[0] = R /\ D[1] = valid' /\ A[0] = W /\ DOMAIN D = Nat /\ DOMAIN A = Nat
  BY <1>5
<1>7. PlanOf(1, n, D, A)
  <2>1. 0 \in valid' /\ valid' \subseteq R /\ \A q \in R : W[q] \in valid'
    BY <1>3, <1>4 DEF Chosen
  <2>2. \A k \in 0 .. 1 : k = 0 \/ k = 1
    OBVIOUS
  <2>3. \A k \in 0 .. 1 - 1 : k = 0 /\ k + 1 = 1
    OBVIOUS
  <2>4. \A k \in 0 .. 1 : 0 \in D[k] /\ D[k] \subseteq R
    BY <1>4, <1>6, <2>1, <2>2
  <2>5. \A k \in 0 .. 1 - 1 : \A q \in D[k] : A[k][q] \in D[k + 1]
    BY <1>6, <2>1, <2>3
  <2>6. QED
    BY <1>2, <1>3, <1>6, <2>4, <2>5 DEF PlanOf
<1>8. ASSUME NEW w \in R
      PROVE  PartOf(n, gen + 1, D, A, 0, w) = item[w].content
  <2>1. SentTo(D, A, 0, w) = {q \in R : W[q] = w}
    BY <1>6 DEF SentTo
  <2>2. QED
    BY <1>3, <2>1 DEF PartOf
<1>9. ASSUME NEW f, NEW c
      PROVE  Planned(1, n, gen + 1, D, A, f, c) <=>
               \E w \in R : W[w] = w /\ f = item[w].file /\ c = item[w].content
  <2>1. \A k : k \in 0 .. 1 - 1 <=> k = 0
    OBVIOUS
  <2>2. Planned(1, n, gen + 1, D, A, f, c) <=>
          \E w \in D[1] : f = Name(0, w) /\ c = PartOf(n, gen + 1, D, A, 0, w)
    <3>1. 0 + 1 = 1
      OBVIOUS
    <3>2. QED
      BY <2>1, <3>1 DEF Planned
  <2>3. QED
    BY <1>3, <1>6, <1>8, <2>2
<1>10. ASSUME NEW f, NEW c
       PROVE  InTodo(todo', f, c) <=>
                \E w \in R : W[w] = w /\ f = item[w].file /\ c = item[w].content
  <2>1. ASSUME NEW r \in R
        PROVE  /\ W[r] = r => Len(todo'[r]) = 1 /\ todo'[r][1] = item[r]
               /\ W[r] # r => Len(todo'[r]) = 0
    BY <1>3
  <2>2. DOMAIN todo' = R
    BY <1>3
  <2>3. ASSUME NEW r \in R
        PROVE  (\E i \in 1 .. Len(todo'[r]) : todo'[r][i].file = f /\ todo'[r][i].content = c)
               <=> W[r] = r /\ f = item[r].file /\ c = item[r].content
    <3>1. (\A i : i \in 1 .. 1 <=> i = 1) /\ \A i : i \notin 1 .. 0
      OBVIOUS
    <3>2. QED
      BY <2>1, <3>1
  <2>4. QED
    BY <2>2, <2>3 DEF InTodo
<1>11. GatherPlan(todo', 1, n, gen + 1, valid', D, A)
  BY <1>6, <1>7, <1>9, <1>10 DEF GatherPlan
<1>12. PlanInv'
  <2>1. ~Writing'
    BY <1>3, <1>4 DEF Writing, AllIn
  <2>2. \E E, B : GatherPlan(todo', level', ranks', gen', valid', E, B)
    BY <1>3, <1>4, <1>11
  <2>3. QED
    BY <2>1, <2>2 DEF PlanInv
<1>13. QED
  BY <1>4, <1>12, WriteGatherStep DEF ReadInv

\* U is T with the items of the writers before what they have yet to write.
WithFirst(R, W, item, T, U) ==
  \A f, c : InTodo(U, f, c) <=>
    \/ InTodo(T, f, c)
    \/ \E r \in R : W[r] = r /\ f = item[r].file /\ c = item[r].content

\* A file is put before those that a rank has yet to write.
LEMMA InTodoFirst ==
  ASSUME NEW R, NEW I, NEW W, NEW T \in [R -> Seq(I)], NEW item,
         \A r \in R : W[r] = r => item[r] \in I,
         NEW U, U = [r \in R |-> IF W[r] = r THEN <<item[r]>> \o T[r] ELSE T[r]]
  PROVE  WithFirst(R, W, item, T, U)
<1> SUFFICES ASSUME NEW f, NEW c
             PROVE  InTodo(U, f, c) <=>
                      \/ InTodo(T, f, c)
                      \/ \E r \in R : W[r] = r /\ f = item[r].file /\ c = item[r].content
  BY DEF WithFirst
<1>1. DOMAIN U = R /\ DOMAIN T = R
  OBVIOUS
<1>2. ASSUME NEW r \in R
      PROVE  (\E i \in 1 .. Len(U[r]) : U[r][i].file = f /\ U[r][i].content = c) <=>
               \/ \E i \in 1 .. Len(T[r]) : T[r][i].file = f /\ T[r][i].content = c
               \/ W[r] = r /\ f = item[r].file /\ c = item[r].content
  <2>1. PICK m \in Nat : m = Len(T[r]) /\ T[r] \in Seq(I)
    OBVIOUS
  <2>2. CASE W[r] # r
    BY <2>2
  <2>3. CASE W[r] = r
    <3>1. PICK s : s = <<item[r]>> \o T[r]
      OBVIOUS
    <3>2. /\ Len(s) = m + 1 /\ s[1] = item[r]
          /\ \A j \in 1 .. m : s[j + 1] = T[r][j]
      BY <2>1, <2>3, <3>1, PutFirst
    <3>3. U[r] = s
      BY <2>3, <3>1
    <3>4. \A i \in 1 .. m + 1 : i = 1 \/ (i - 1 \in 1 .. m /\ s[i] = T[r][i - 1])
      BY <3>2
    <3>5. \A j \in 1 .. m : j + 1 \in 1 .. m + 1
      OBVIOUS
    <3>6. 1 \in 1 .. m + 1
      OBVIOUS
    <3>7. (\E i \in 1 .. m + 1 : s[i].file = f /\ s[i].content = c) <=>
               \/ \E i \in 1 .. m : T[r][i].file = f /\ T[r][i].content = c
               \/ f = item[r].file /\ c = item[r].content
      <4>1. ASSUME NEW i \in 1 .. m + 1, s[i].file = f /\ s[i].content = c
            PROVE  \/ \E j \in 1 .. m : T[r][j].file = f /\ T[r][j].content = c
                   \/ f = item[r].file /\ c = item[r].content
        BY <3>2, <3>4, <4>1
      <4>2. ASSUME NEW j \in 1 .. m, T[r][j].file = f /\ T[r][j].content = c
            PROVE  s[j + 1].file = f /\ s[j + 1].content = c /\ j + 1 \in 1 .. m + 1
        BY <3>2, <3>5, <4>2
      <4>3. QED
        BY <3>2, <3>6, <4>1, <4>2
    <3>8. QED
      BY <2>1, <2>3, <3>2, <3>3, <3>7
  <2>4. QED
    BY <2>2, <2>3
<1>3. ASSUME InTodo(U, f, c)
      PROVE  \/ InTodo(T, f, c)
             \/ \E r \in R : W[r] = r /\ f = item[r].file /\ c = item[r].content
  <2>1. PICK r \in R : \E i \in 1 .. Len(U[r]) : U[r][i].file = f /\ U[r][i].content = c
    BY <1>1, <1>3 DEF InTodo
  <2>2. QED
    BY <1>1, <1>2, <2>1 DEF InTodo
<1>4. ASSUME InTodo(T, f, c)
      PROVE  InTodo(U, f, c)
  <2>1. PICK r \in R : \E i \in 1 .. Len(T[r]) : T[r][i].file = f /\ T[r][i].content = c
    BY <1>1, <1>4 DEF InTodo
  <2>2. \E i \in 1 .. Len(U[r]) : U[r][i].file = f /\ U[r][i].content = c
    BY <1>2, <2>1
  <2>3. QED
    BY <1>1, <2>2 DEF InTodo
<1>5. ASSUME NEW r \in R, W[r] = r /\ f = item[r].file /\ c = item[r].content
      PROVE  InTodo(U, f, c)
  <2>1. \E i \in 1 .. Len(U[r]) : U[r][i].file = f /\ U[r][i].content = c
    BY <1>2, <1>5
  <2>2. QED
    BY <1>1, <2>1 DEF InTodo
<1>6. QED
  BY <1>3, <1>4, <1>5

\* The plan with a level more, in which V are the writers and W chooses them.
Grown(l, n, g, D, A, V, W, E, B) ==
  /\ PlanOf(l + 1, n, E, B) /\ E[l + 1] = V
  /\ \A f, c : Planned(l + 1, n, g, E, B, f, c) <=>
       \/ Planned(l, n, g, D, A, f, c)
       \/ \E w \in V : f = Name(l, w) /\ c = MapOf(l, n, g, {q \in D[l] : W[q] = w})

\* A plan gets another level.
LEMMA PlanGrows ==
  ASSUME NEW l, NEW n, NEW g, NEW D, NEW A, PlanOf(l, n, D, A),
         NEW V, 0 \in V, V \subseteq 0 .. n - 1,
         NEW W, \A q \in D[l] : W[q] \in V,
         NEW E, E = [D EXCEPT ![l + 1] = V],
         NEW B, B = [A EXCEPT ![l] = W]
  PROVE  Grown(l, n, g, D, A, V, W, E, B)
<1>1. /\ l \in Nat \ {0} /\ n \in Nat \ {0} /\ DOMAIN D = Nat /\ DOMAIN A = Nat
      /\ D[0] = 0 .. n - 1
      /\ \A k \in 0 .. l : 0 \in D[k] /\ D[k] \subseteq 0 .. n - 1
      /\ \A k \in 0 .. l - 1 : \A q \in D[k] : A[k][q] \in D[k + 1]
  BY DEF PlanOf
<1>2. /\ l + 1 \in Nat \ {0} /\ (l + 1) - 1 = l
      /\ \A k \in 0 .. l + 1 : k \in 0 .. l \/ k = l + 1
      /\ \A k \in 0 .. l : k \in Nat /\ k # l + 1 /\ (k \in 0 .. l - 1 \/ k = l)
      /\ \A k \in 0 .. l - 1 : k \in 0 .. l /\ k # l /\ k + 1 \in 0 .. l
      /\ l \in 0 .. l /\ 0 \in 0 .. l
  BY <1>1
<1>3. /\ DOMAIN E = Nat /\ DOMAIN B = Nat /\ E[l + 1] = V /\ B[l] = W
      /\ \A k \in 0 .. l : E[k] = D[k]
      /\ \A k \in 0 .. l - 1 : B[k] = A[k] /\ E[k + 1] = D[k + 1]
  BY <1>1, <1>2
<1>4. PlanOf(l + 1, n, E, B)
  <2>1. \A k \in 0 .. l + 1 : 0 \in E[k] /\ E[k] \subseteq 0 .. n - 1
    BY <1>1, <1>2, <1>3
  <2>2. ASSUME NEW k \in 0 .. l, NEW q \in E[k] PROVE B[k][q] \in E[k + 1]
    <3>1. CASE k = l
      BY <1>2, <1>3, <3>1
    <3>2. CASE k \in 0 .. l - 1
      BY <1>1, <1>2, <1>3, <3>2
    <3>3. QED
      BY <1>2, <3>1, <3>2
  <2>3. QED
    BY <1>1, <1>2, <1>3, <2>1, <2>2 DEF PlanOf
<1>5. ASSUME NEW k \in 0 .. l - 1, NEW w
      PROVE  PartOf(n, g, E, B, k, w) = PartOf(n, g, D, A, k, w)
  <2>1. SentTo(E, B, k, w) = SentTo(D, A, k, w)
    BY <1>2, <1>3 DEF SentTo
  <2>2. QED
    BY <2>1 DEF PartOf
<1>6. ASSUME NEW w
      PROVE  PartOf(n, g, E, B, l, w) = MapOf(l, n, g, {q \in D[l] : W[q] = w})
  <2>1. SentTo(E, B, l, w) = {q \in D[l] : W[q] = w}
    BY <1>2, <1>3 DEF SentTo
  <2>2. l # 0
    BY <1>1
  <2>3. QED
    BY <2>1, <2>2 DEF PartOf
<1>7. ASSUME NEW f, NEW c
      PROVE  Planned(l + 1, n, g, E, B, f, c) <=>
              \/ Planned(l, n, g, D, A, f, c)
              \/ \E w \in V : f = Name(l, w) /\ c = MapOf(l, n, g, {q \in D[l] : W[q] = w})
  <2>1. Planned(l + 1, n, g, E, B, f, c) <=>
          \E k \in 0 .. l : \E w \in E[k + 1] : f = Name(k, w) /\ c = PartOf(n, g, E, B, k, w)
    BY <1>2 DEF Planned
  <2>2. (\E k \in 0 .. l - 1 : \E w \in E[k + 1] : f = Name(k, w) /\ c = PartOf(n, g, E, B, k, w))
        <=> Planned(l, n, g, D, A, f, c)
    <3>1. ASSUME NEW k \in 0 .. l - 1
          PROVE  (\E w \in E[k + 1] : f = Name(k, w) /\ c = PartOf(n, g, E, B, k, w))
                 <=> \E w \in D[k + 1] : f = Name(k, w) /\ c = PartOf(n, g, D, A, k, w)
      <4>1. E[k + 1] = D[k + 1] /\ \A w : PartOf(n, g, E, B, k, w) = PartOf(n, g, D, A, k, w)
        BY <1>3, <1>5
      <4>2. QED
        BY <4>1
    <3>2. QED
      BY <3>1 DEF Planned
  <2>3. (\E w \in E[l + 1] : f = Name(l, w) /\ c = PartOf(n, g, E, B, l, w))
        <=> \E w \in V : f = Name(l, w) /\ c = MapOf(l, n, g, {q \in D[l] : W[q] = w})
    <3>1. ASSUME NEW w
          PROVE  c = PartOf(n, g, E, B, l, w) <=> c = MapOf(l, n, g, {q \in D[l] : W[q] = w})
      BY <1>6
    <3>2. ASSUME NEW w \in E[l + 1], f = Name(l, w), c = PartOf(n, g, E, B, l, w)
          PROVE  \E v \in V : f = Name(l, v) /\ c = MapOf(l, n, g, {q \in D[l] : W[q] = v})
      <4>1. w \in V
        BY <1>3
      <4>2. c = MapOf(l, n, g, {q \in D[l] : W[q] = w})
        BY <1>6, <3>2, Zenon
      <4>3. QED
        BY <3>2, <4>1, <4>2, Zenon
    <3>3. ASSUME NEW w \in V, f = Name(l, w), c = MapOf(l, n, g, {q \in D[l] : W[q] = w})
          PROVE  \E v \in E[l + 1] : f = Name(l, v) /\ c = PartOf(n, g, E, B, l, v)
      BY <1>3, <3>1, <3>3
    <3>4. QED
      BY <3>2, <3>3, Zenon
  <2>4. (\E k \in 0 .. l : \E w \in E[k + 1] : f = Name(k, w) /\ c = PartOf(n, g, E, B, k, w))
        <=> \/ \E k \in 0 .. l - 1 : \E w \in E[k + 1] : f = Name(k, w) /\ c = PartOf(n, g, E, B, k, w)
            \/ \E w \in E[l + 1] : f = Name(l, w) /\ c = PartOf(n, g, E, B, l, w)
    BY <1>2
  <2>5. QED
    BY <2>1, <2>2, <2>3, <2>4
<1>8. QED
  BY <1>3, <1>4, <1>7 DEF Grown

\* One level of kvtree_write_gather_map: the plan gets a level, or is complete.
LEMMA WriteGatherMapPlan ==
  ASSUME RoundTripInv, WriteGatherMap
  PROVE  RoundTripInv'
<1> USE DEF RoundTripInv
<1>1. 0 \in Rank
  BY RankZero DEF GatherInv
<1>2. /\ op = "write_gather" /\ AllIn({"gather"}) /\ whole = 0
      /\ \A r \in Rank : pc[r] = "gather"
  BY <1>1 DEF WriteGatherMap, GatherInv, PhaseInv, AllIn, Writing, RefuseInv
<1>3. /\ valid \subseteq Rank /\ Rank = 0 .. ranks - 1 /\ pc \in [Rank -> Places]
      /\ todo \in [Rank -> Seq(Items(gen))]
  BY <1>2 DEF GatherInv, LocalInv
<1>4. /\ files' = files /\ op' = op /\ ranks' = ranks /\ rc' = rc /\ gen' = gen /\ whole' = 0
  BY <1>2 DEF WriteGatherMap
<1>5. PICK W, item : GatherMapWith(W, item)
  BY GatherMapIs
<1>6. /\ item \in [Rank -> [file : Names, content : Contents]]
      /\ Chosen(Rank, W)
      /\ \A r \in Rank :
           /\ item[r].file = IF \A q \in Rank : W[q] = 0 THEN Root ELSE Name(level, r)
           /\ item[r].content = MapOf(level, ranks, gen, {q \in valid : W[q] = r})
      /\ todo' = [r \in Rank |-> IF W[r] = r THEN <<item[r]>> \o todo[r] ELSE todo[r]]
      /\ valid' = {r \in Rank : W[r] = r}
      /\ level' = level + 1
      /\ pc' = IF \A q \in Rank : W[q] = 0 THEN [r \in Rank |-> "write"] ELSE pc
  BY <1>5 DEF GatherMapWith
<1>7. Rank' = Rank
  BY <1>3, <1>6 DEF Rank
<1>8. PICK D, A : GatherPlan(todo, level, ranks, gen, valid, D, A)
  BY <1>2 DEF PlanInv
<1>9. /\ PlanOf(level, ranks, D, A) /\ D[level] = valid
      /\ \A f, c : Planned(level, ranks, gen, D, A, f, c) <=> InTodo(todo, f, c)
  BY <1>8 DEF GatherPlan
<1>10. \A f, c : InTodo(todo', f, c) <=>
         \/ InTodo(todo, f, c)
         \/ \E r \in Rank : W[r] = r /\ f = item[r].file /\ c = item[r].content
  <2>1. PICK I : I = Items(gen) \cup [file : Names, content : Contents]
    OBVIOUS
  <2>2. todo \in [Rank -> Seq(I)]
    <3>1. Items(gen) \subseteq I
      BY <2>1
    <3>2. \A r \in Rank : todo[r] \in Seq(I)
      <4>1. TAKE r \in Rank
      <4>2. todo[r] \in Seq(Items(gen))
        BY <1>3
      <4>3. QED
        BY <3>1, <4>2
    <3>3. QED
      BY <1>3, <3>2
  <2>3. \A r \in Rank : W[r] = r => item[r] \in I
    BY <1>6, <2>1
  <2>4. todo' = [r \in Rank |-> IF W[r] = r THEN <<item[r]>> \o todo[r] ELSE todo[r]]
    BY <1>6
  <2>5. WithFirst(Rank, W, item, todo, todo')
    BY <2>2, <2>3, <2>4, InTodoFirst
  <2>6. QED
    BY <2>5 DEF WithFirst
<1>11. CASE \A q \in Rank : W[q] = 0
  <2>1. item[0].file = Root /\ item[0].content = MapOf(level, ranks, gen, D[level])
    <3>1. {q \in valid : W[q] = 0} = valid
      BY <1>3, <1>11
    <3>2. QED
      BY <1>1, <1>6, <1>9, <1>11, <3>1
  <2>2. \A r \in Rank : W[r] = r <=> r = 0
    BY <1>1, <1>11
  <2>3. ASSUME NEW f, NEW c
        PROVE  InTodo(todo', f, c) <=> PlannedAll(level, ranks, gen, D, A, f, c)
    <3>1. (\E r \in Rank : W[r] = r /\ f = item[r].file /\ c = item[r].content)
          <=> f = Root /\ c = MapOf(level, ranks, gen, D[level])
      BY <1>1, <2>1, <2>2
    <3>2. QED
      BY <1>9, <1>10, <3>1 DEF PlannedAll
  <2>4. WritePlan(todo', files, level, ranks, gen, D, A)
    BY <1>9, <2>3 DEF WritePlan
  <2>5. ~AllIn({"gather"})'
    BY <1>1, <1>6, <1>7, <1>11 DEF AllIn
  <2>6. PlanInv'
    <3>1. \E l, E, B : WritePlan(todo', files', l, ranks', gen', E, B)
      BY <1>4, <2>4
    <3>2. QED
      BY <2>5, <3>1 DEF PlanInv
  <2>7. QED
    BY <1>4, <2>6, WriteGatherMapStep DEF ReadInv
<1>12. CASE ~\A q \in Rank : W[q] = 0
  <2>1. PICK E, B : E = [D EXCEPT ![level + 1] = valid'] /\ B = [A EXCEPT ![level] = W]
    OBVIOUS
  <2>2. /\ 0 \in valid' /\ valid' \subseteq 0 .. ranks - 1
        /\ \A q \in D[level] : W[q] \in valid'
    BY <1>1, <1>3, <1>6, <1>9 DEF Chosen
  <2>3. /\ PlanOf(level + 1, ranks, E, B) /\ E[level + 1] = valid'
        /\ \A f, c : Planned(level + 1, ranks, gen, E, B, f, c) <=>
             \/ Planned(level, ranks, gen, D, A, f, c)
             \/ \E w \in valid' : /\ f = Name(level, w)
                                  /\ c = MapOf(level, ranks, gen, {q \in D[level] : W[q] = w})
    <3>1. Grown(level, ranks, gen, D, A, valid', W, E, B)
      BY <1>9, <2>1, <2>2, PlanGrows
    <3>2. QED
      BY <3>1 DEF Grown
  <2>4. ASSUME NEW w \in Rank
        PROVE  /\ item[w].file = Name(level, w)
               /\ item[w].content = MapOf(level, ranks, gen, {q \in D[level] : W[q] = w})
    BY <1>6, <1>9, <1>12
  <2>5. ASSUME NEW f, NEW c
        PROVE  Planned(level + 1, ranks, gen, E, B, f, c) <=> InTodo(todo', f, c)
    <3>1. (\E w \in valid' : /\ f = Name(level, w)
                             /\ c = MapOf(level, ranks, gen, {q \in D[level] : W[q] = w}))
          <=> \E r \in Rank : W[r] = r /\ f = item[r].file /\ c = item[r].content
      <4>1. \A r : r \in valid' <=> r \in Rank /\ W[r] = r
        BY <1>6
      <4>2. ASSUME NEW w \in valid', f = Name(level, w),
                   c = MapOf(level, ranks, gen, {q \in D[level] : W[q] = w})
            PROVE  w \in Rank /\ W[w] = w /\ f = item[w].file /\ c = item[w].content
        <5>1. w \in Rank /\ W[w] = w
          BY <4>1
        <5>2. item[w].content = MapOf(level, ranks, gen, {q \in D[level] : W[q] = w})
          BY <2>4, <5>1, Zenon
        <5>3. f = item[w].file
          BY <2>4, <4>2, <5>1
        <5>4. QED
          BY <4>2, <5>1, <5>2, <5>3, Zenon
      <4>3. ASSUME NEW w \in Rank, W[w] = w, f = item[w].file, c = item[w].content
            PROVE  /\ w \in valid' /\ f = Name(level, w)
                   /\ c = MapOf(level, ranks, gen, {q \in D[level] : W[q] = w})
        <5>1. w \in valid'
          BY <4>1, <4>3
        <5>2. item[w].content = MapOf(level, ranks, gen, {q \in D[level] : W[q] = w})
          BY <2>4, Zenon
        <5>3. f = Name(level, w)
          BY <2>4, <4>3
        <5>4. QED
          BY <4>3, <5>1, <5>2, <5>3, Zenon
      <4>4. QED
        BY <4>2, <4>3, Zenon
    <3>2. QED
      BY <1>9, <1>10, <2>3, <3>1
  <2>6. GatherPlan(todo', level', ranks, gen, valid', E, B)
    BY <1>6, <2>3, <2>5 DEF GatherPlan
  <2>7. ~Writing'
    BY <1>1, <1>2, <1>6, <1>7, <1>12 DEF Writing, AllIn
  <2>8. PlanInv'
    <3>1. \E F, C : GatherPlan(todo', level', ranks', gen', valid', F, C)
      BY <1>4, <2>6
    <3>2. QED
      BY <2>7, <3>1 DEF PlanInv
  <2>9. QED
    BY <1>4, <2>8, WriteGatherMapStep DEF ReadInv
<1>13. QED
  BY <1>11, <1>12

\* A kvtree_write_to_gather begins: its plan has one level, with a rank sent to
\* the first rank of its part.
LEMMA WriteToGatherPlan ==
  ASSUME RoundTripInv, NEW n \in Jobs, NEW e \in PerFile, WriteToGather(n, e)
  PROVE  RoundTripInv'
<1> USE DEF RoundTripInv
<1>1. /\ n \in Nat \ {0} /\ e \in Nat \ {0}
      /\ todo' = [r \in {0} |-> todo'[0]]
      /\ PartsAndRoot(n, e, gen + 1, todo'[0])
  BY WriteToGatherIs
<1>2. /\ ranks' = n /\ gen' = gen + 1 /\ whole' = 0 /\ files' = files
      /\ pc' = [r \in {0} |-> "write"] /\ Rank' = {0}
  BY DEF WriteToGather, Locals, Rank
<1>3. PICK g : g = gen + 1
  OBVIOUS
<1>4. PICK P \in SUBSET Nat : P = PartWriters(n, e) /\ 0 \in P
  BY <1>1, PartsCounted
<1>5. PICK m \in Nat \ {0} : m = Cardinality(P)
  BY <1>1, <1>4, PartsCounted
<1>6. PICK s : /\ s = todo'[0] /\ Len(s) = m + 1
               /\ \A i \in 1 .. m : s[i] = PartItem(n, e, g, i)
               /\ s[m + 1] = PartRoot(n, e, g)
  BY <1>1, <1>3, <1>4, <1>5 DEF PartsAndRoot
<1>7. PICK R : R = 0 .. n - 1 /\ 0 \in R /\ R \subseteq Nat
  BY <1>1
<1>8. PICK D, A : /\ D = [k \in Nat |-> IF k = 0 THEN R ELSE P]
                  /\ A = [k \in Nat |-> [q \in R |-> (q \div e) * e]]
  OBVIOUS
<1>9. /\ D[0] = R /\ D[1] = P /\ DOMAIN D = Nat /\ DOMAIN A = Nat
      /\ \A q \in R : A[0][q] = (q \div e) * e
  BY <1>8
<1>10. ASSUME NEW q \in R
       PROVE  q \div e \in Nat /\ (q \div e) * e \in P
  <2>1. q \in Nat /\ q <= n - 1 /\ n - 1 \in Nat
    BY <1>1, <1>7
  <2>2. PICK a \in Nat : a = q \div e
    BY <1>1, <2>1, DivisionFacts
  <2>3. a * e \in Nat /\ (a * e) % e = 0 /\ a * e <= q
    BY <1>1, <2>1, <2>2, DivisionFacts
  <2>4. a * e \in 0 .. n - 1
    BY <2>1, <2>3
  <2>5. QED
    BY <1>4, <2>2, <2>3, <2>4 DEF PartWriters
<1>11. PlanOf(1, n, D, A)
  <2>1. P \subseteq R
    BY <1>4, <1>7 DEF PartWriters
  <2>2. \A k \in 0 .. 1 : k = 0 \/ k = 1
    OBVIOUS
  <2>3. \A k \in 0 .. 1 - 1 : k = 0 /\ k + 1 = 1
    OBVIOUS
  <2>4. QED
    <3>1. \A q \in R : A[0][q] \in D[1]
      BY <1>9, <1>10
    <3>2. QED
      <4>1. \A k \in 0 .. 1 : 0 \in D[k] /\ D[k] \subseteq 0 .. n - 1
        BY <1>4, <1>7, <1>9, <2>1, <2>2
      <4>2. \A k \in 0 .. 1 - 1 : \A q \in D[k] : A[k][q] \in D[k + 1]
        BY <1>9, <2>3, <3>1
      <4>3. 1 \in Nat \ {0} /\ D[0] = 0 .. n - 1
        BY <1>7, <1>9
      <4>4. QED
        BY <1>1, <1>9, <4>1, <4>2, <4>3 DEF PlanOf
<1>12. ASSUME NEW i \in 1 .. m
       PROVE  /\ (i - 1) * e \in P
              /\ s[i].file = Name(0, (i - 1) * e)
              /\ s[i].content = PartOf(n, g, D, A, 0, (i - 1) * e)
  <2>1. PICK j \in Nat : j = i - 1
    OBVIOUS
  <2>2. j * e \in P
    BY <1>1, <1>4, <1>5, <2>1, PartsCounted
  <2>3. ASSUME NEW q \in R
        PROVE  A[0][q] = j * e <=> q \div e = j
    <3>1. PICK a \in Nat : a = q \div e
      BY <1>10
    <3>2. (a * e) \div e = a /\ (j * e) \div e = j
      BY <1>1, <3>1, DivisionFacts
    <3>3. QED
      BY <1>9, <3>1, <3>2
  <2>4. SentTo(D, A, 0, j * e) = {q \in 0 .. n - 1 : q \div e = j}
    BY <1>7, <1>9, <2>3 DEF SentTo
  <2>5. s[i] = PartItem(n, e, g, i)
    BY <1>6
  <2>6. s[i].file = Name(0, j * e) /\ s[i].content = DataOf(n, g, {q \in 0 .. n - 1 : q \div e = j})
    BY <2>1, <2>5 DEF PartItem
  <2>7. QED
    BY <2>1, <2>2, <2>4, <2>6 DEF PartOf
<1>13. s[m + 1].file = Root /\ s[m + 1].content = MapOf(1, n, g, D[1])
  BY <1>4, <1>6, <1>9 DEF PartRoot
<1>14. ASSUME NEW f, NEW c
       PROVE  InTodo(todo', f, c) <=> PlannedAll(1, n, g, D, A, f, c)
  <2>1. InTodo(todo', f, c) <=> \E i \in 1 .. m + 1 : s[i].file = f /\ s[i].content = c
    <3>1. DOMAIN todo' = {0}
      BY <1>1
    <3>2. QED
      BY <1>6, <3>1 DEF InTodo
  <2>2. Planned(1, n, g, D, A, f, c) <=>
          \E w \in P : f = Name(0, w) /\ c = PartOf(n, g, D, A, 0, w)
    <3>1. (\A k : k \in 0 .. 1 - 1 <=> k = 0) /\ 0 + 1 = 1
      OBVIOUS
    <3>2. QED
      BY <1>9, <3>1 DEF Planned
  <2>3. ASSUME NEW i \in 1 .. m + 1, s[i].file = f /\ s[i].content = c
        PROVE  PlannedAll(1, n, g, D, A, f, c)
    <3>1. CASE i \in 1 .. m
      BY <1>12, <2>2, <2>3, <3>1 DEF PlannedAll
    <3>2. CASE i = m + 1
      BY <1>13, <2>3, <3>2 DEF PlannedAll
    <3>3. QED
      BY <3>1, <3>2
  <2>4. ASSUME NEW w \in P, f = Name(0, w), c = PartOf(n, g, D, A, 0, w)
        PROVE  \E i \in 1 .. m + 1 : s[i].file = f /\ s[i].content = c
    <3>1. w \in Nat /\ w = (w \div e) * e /\ (w \div e) + 1 \in 1 .. m
      BY <1>1, <1>4, <1>5, PartsCounted
    <3>2. PICK a \in Nat : a = w \div e
      BY <1>1, <3>1, DivisionFacts
    <3>3. a + 1 \in 1 .. m /\ a + 1 \in 1 .. m + 1 /\ (a + 1) - 1 = a
      BY <3>1, <3>2
    <3>4. s[a + 1].file = f /\ s[a + 1].content = c
      BY <1>12, <2>4, <3>1, <3>2, <3>3
    <3>5. QED
      BY <3>3, <3>4
  <2>5. f = Root /\ c = MapOf(1, n, g, D[1]) =>
          \E i \in 1 .. m + 1 : s[i].file = f /\ s[i].content = c
    <3>1. m + 1 \in 1 .. m + 1
      OBVIOUS
    <3>2. QED
      BY <1>13, <3>1
  <2>6. QED
    BY <2>1, <2>2, <2>3, <2>4, <2>5 DEF PlannedAll
<1>15. WritePlan(todo', files, 1, n, g, D, A)
  BY <1>11, <1>14 DEF WritePlan
<1>16. PlanInv'
  <2>1. ~AllIn({"gather"})'
    BY <1>2 DEF AllIn
  <2>2. \E l, E, B : WritePlan(todo', files', l, ranks', gen', E, B)
    BY <1>2, <1>3, <1>15
  <2>3. QED
    BY <2>1, <2>2 DEF PlanInv
<1>17. QED
  BY <1>2, <1>16, WriteToGatherStep DEF ReadInv

-----------------------------------------------------------------------------
(* The rest. *)

\* A kvtree_read_scatter_single leaves the files alone.
LEMMA ReadScatterSinglePlan ==
  ASSUME RoundTripInv, NEW bad, ReadScatterSingle(bad)
  PROVE  RoundTripInv'
<1> USE DEF RoundTripInv
<1>1. /\ op' = "read_scatter_single" /\ gen' = gen /\ whole' = whole /\ files' = files
      /\ Rank' = {0} /\ pc'[0] = "done"
  BY DEF ReadScatterSingle, Call, Locals, Rank
<1>2. PlanInv'
  BY <1>1 DEF PlanInv, AllIn, Writing
<1>3. ReadInv'
  BY <1>1 DEF ReadInv
<1>4. QED
  BY <1>2, <1>3, ReadScatterSingleStep

\* A crash tears no file of a write that is complete.
LEMMA CrashPlan ==
  ASSUME RoundTripInv, Crash
  PROVE  RoundTripInv'
<1> USE DEF RoundTripInv
<1>1. /\ op' = "none" /\ gen' = gen /\ whole' = whole /\ Rank' = {0} /\ pc'[0] = "done"
  BY DEF Crash, Locals, Rank
<1>2. PlanInv'
  BY <1>1 DEF PlanInv, AllIn, Writing
<1>3. PICK torn : /\ files' = Lose(torn)
                  /\ torn \subseteq {NextWrite(r).file : r \in {r \in Rank : pc[r] = "opened"}}
  BY DEF Crash
<1>4. whole # 0 => torn = {}
  <2>1. ASSUME NEW r \in Rank, pc[r] = "opened"
        PROVE  whole = 0
    BY <2>1 DEF GatherInv, PhaseInv, AllIn, RefuseInv, Writing
  <2>2. QED
    BY <1>3, <2>1
<1>5. DOMAIN files' = DOMAIN files \ torn /\ \A f \in DOMAIN files' : files'[f] = files[f]
  BY <1>1, <1>3, LoseFits DEF GatherInv
<1>6. ReadInv'
  <2>1. ASSUME whole # 0, NEW l, NEW D, NEW A, Written(files, l, whole, gen, D, A)
        PROVE  Written(files', l, whole, gen, D, A)
    BY <1>4, <1>5, <2>1 DEF Written
  <2>2. QED
    BY <1>1, <2>1 DEF ReadInv
<1>7. QED
  BY <1>2, <1>6, CrashStep

\* Every step keeps the invariant.
LEMMA RoundTripInvInductive == RoundTripInv /\ [Next]_vars => RoundTripInv'
<1> SUFFICES ASSUME RoundTripInv, [Next]_vars
             PROVE  RoundTripInv'
  OBVIOUS
<1>1. CASE Start
  BY <1>1, WriteGatherPlan, WriteToGatherPlan, ReadScatterPlan, ReadScatterSinglePlan DEF Start
<1>2. CASE Step
  BY <1>2, WriteGatherMapPlan, EndWritePlan, ScatterMapPlan, ScatterMapFailsPlan, ScatterPlan,
     OpenFilePlan, WriteFilePlan, WriteErrorPlan, ReadMapPlan, ReadDataPlan, ReadErrorPlan DEF Step
<1>3. CASE Crash
  BY <1>3, CrashPlan
<1>4. CASE UNCHANGED vars
  <2>1. /\ files' = files /\ op' = op /\ ranks' = ranks /\ gen' = gen /\ whole' = whole
        /\ pc' = pc /\ rc' = rc /\ level' = level /\ valid' = valid /\ todo' = todo
        /\ file' = file /\ hash' = hash /\ data' = data /\ erred' = erred
    BY <1>4 DEF vars, locals
  <2>2. Rank' = Rank
    BY <2>1 DEF Rank
  <2>3. GatherInv'
    BY <1>4, GatherInvInductive DEF RoundTripInv
  <2>4. PlanInv'
    BY <2>1, <2>2 DEF RoundTripInv, PlanInv, AllIn, Writing
  <2>5. ASSUME NEW l, NEW D, NEW A, Reading(l, D, A) PROVE Reading(l, D, A)'
    BY <2>1, <2>2, <2>5 DEF Reading, MapFiles, AllIn, Idle
  <2>6. ReadInv'
    BY <2>1, <2>5 DEF RoundTripInv, ReadInv
  <2>7. QED
    BY <2>3, <2>4, <2>6 DEF RoundTripInv
<1>5. QED
  BY <1>1, <1>2, <1>3, <1>4 DEF Next, Finished

-----------------------------------------------------------------------------
(* Theorems. *)

\* The invariant holds in every state.
THEOREM RoundTripInvHolds == Spec => []RoundTripInv
<1>1. Init => RoundTripInv
  BY RoundTripInvInit
<1>2. RoundTripInv /\ [Next]_vars => RoundTripInv'
  BY RoundTripInvInductive
<1>3. QED
  BY <1>1, <1>2, PTL DEF Spec

\* gatherscatter.rst:67, for every job size, pack size and number of entries per
\* file: after a kvtree_write_gather or kvtree_write_to_gather that succeeded, a
\* kvtree_read_scatter by as many ranks gives each rank its kvtree, unless a
\* system call of the read fails, and then it fails on all ranks.
THEOREM RoundTripHolds == Spec => []RoundTrip
BY RoundTripInvHolds, RoundTripInvImplies, PTL

=============================================================================
