---------------------------- MODULE KVTreeGather ----------------------------
(***************************************************************************)
(* The gather/scatter files under one prefix: kvtree_write_gather and      *)
(* kvtree_read_scatter (kvtree_mpi_io.c), which the ranks of an MPI job    *)
(* call together, and kvtree_write_to_gather and kvtree_read_scatter_single*)
(* (kvtree.c), which one process calls.                                    *)
(*                                                                         *)
(* Calls of one job after the other find the files that earlier calls have *)
(* left, complete or not.  Between two collectives the ranks run on their  *)
(* own; a collective is one step of all ranks, enabled when each of them   *)
(* has arrived at it.  The collectives at the start of kvtree_write_gather *)
(* touch no file, so the work of the ranks between them is part of the     *)
(* collective's step.                                                      *)
(*                                                                         *)
(* The kvtree of a rank is the set of the trees merged into it.  A tree is *)
(* identified by the call that wrote it, the number of ranks of that call  *)
(* and the rank it belongs to.                                             *)
(***************************************************************************)
EXTENDS KVTreeSegments, FiniteSets, Sequences

CONSTANTS
  Jobs,          \* numbers of ranks that a job may have
  Inputs,        \* pack sizes that the kvtrees of the ranks of a job may have
  EntrySize,     \* pack size of a FILE/OFFSET pair in a map
  PerFile,       \* values of entries_per_file to consider
  Ops,           \* the calls to consider
  MaxCalls,      \* bound: calls
  MaxCrashes,    \* bound: crashes of a job
  MaxErrors      \* bound: failing system calls

ASSUME GatherAssumption ==
  /\ Jobs \subseteq Nat \ {0}
  /\ \A size \in Inputs : \E n \in Jobs : size \in [0 .. n - 1 -> Nat \ {0}]
  /\ PerFile \subseteq Nat \ {0}
  /\ Ops \subseteq {"write_gather", "read_scatter", "write_to_gather", "read_scatter_single"}
  /\ MaxCalls \in Nat /\ MaxCrashes \in Nat /\ MaxErrors \in Nat

\* Two pairs fit in a segment, so that every level has fewer files than the one
\* below it and the recursion of kvtree_write_gather_map ends.
ASSUME EntryAssumption == EntrySize \in Nat \ {0} /\ 2 * EntrySize <= SegSize

VARIABLES
  files,    \* files[f]: content of file prefix.f that can be read
  op,       \* the call in progress or the last one
  ranks,    \* RANKS: of the job, of kvtree_write_to_gather, or expected_ranks
  pc,       \* pc[r]: where r is
  rc,       \* rc[r]: is rc still KVTREE_SUCCESS?
  level,    \* level of the map that is gathered next
  valid,    \* ranks with an entry for that map
  todo,     \* todo[r]: files that r has yet to write, with their contents
  file,     \* file[r]: file that r reads next, NoFile if it is not a reader
  hash,     \* hash[r]: what r has read
  data,     \* data[r]: what is returned to, or by read_scatter_single for, r
  calls, crashes, errors,    \* counters for the bounds
  gen,      \* history: number of write calls so far
  whole,    \* history: ranks of the last write if it returned KVTREE_SUCCESS, else 0
  unclosed, \* history: has the last write stored a part whose close() failed?
  erred     \* history: has a system call of this call failed?

locals == <<pc, rc, level, valid, todo, file, hash, data>>
vars   == <<files, op, ranks, locals, calls, crashes, errors, gen, whole, unclosed, erred>>

\* The processes of the call.
Rank == DOMAIN pc

-----------------------------------------------------------------------------
(* Files.  A file that exists but cannot be read whole is the same to every *)
(* reader and writer as one that is not there: it is not in DOMAIN files.   *)

\* File names: prefix itself, and prefix.level.writer.
Root       == <<>>
Name(k, w) == <<k, w>>
NoFile     == <<-1>>

NoLevel == -1

\* LEVEL, RANKS and the kvtree under RANK.  The generation is not in the file.
Content(k, n, g, entries) == [level |-> k, ranks |-> n, gen |-> g, entries |-> entries]

\* What kvtree_read_fd yields for a file of length 0.
EmptyHash == Content(NoLevel, 0, 0, <<>>)

\* The tree of rank r in write number g, made by n ranks.
Tree(g, n, r) == [gen |-> g, ranks |-> n, rank |-> r]

Store(f, c) == [g \in DOMAIN files \cup {f} |-> IF g = f THEN c ELSE files[g]]
Lose(fs)    == Restrict(files, DOMAIN files \ fs)

Idle == \A r \in Rank : pc[r] = "done"

\* The local state of a call on ranks R that begins, or ends, at where.
Locals(R, where, ok, tree) ==
  /\ pc' = [r \in R |-> where]
  /\ rc' = [r \in R |-> ok]
  /\ level' = 1
  /\ hash' = [r \in R |-> EmptyHash]
  /\ data' = tree

\* Mutant: rank 0 speaks for all.
AllTrueRankZero == rc[0]

\* kvtree_alltrue of the return codes.
AllTrue == \A r \in Rank : rc[r]

NoData(R) == [r \in R |-> {}]

Init ==
  /\ files = <<>>
  /\ op = "none"
  /\ ranks = 1
  /\ pc = [r \in {0} |-> "done"]
  /\ rc = [r \in {0} |-> TRUE]
  /\ level = 1
  /\ valid = {}
  /\ todo = [r \in {0} |-> <<>>]
  /\ file = [r \in {0} |-> NoFile]
  /\ hash = [r \in {0} |-> EmptyHash]
  /\ data = NoData({0})
  /\ calls = 0 /\ crashes = 0 /\ errors = 0
  /\ gen = 0 /\ whole = 0 /\ unclosed = FALSE /\ erred = FALSE

\* A call begins.
Call(o) ==
  /\ Idle
  /\ o \in Ops
  /\ calls < MaxCalls
  /\ op' = o
  /\ calls' = calls + 1
  /\ UNCHANGED crashes

\* A system call fails.
Fault(k) ==
  /\ errors + k <= MaxErrors
  /\ errors' = errors + k
  /\ erred' = TRUE

-----------------------------------------------------------------------------
(* kvtree_write_gather. *)

\* pick_writer and the exchange to the writers, up to kvtree_write_gather_map:
\* each writer holds the trees of its segment.
WriteGather(size) ==
  LET R       == DOMAIN size
      n       == Cardinality(R)
      W(r)    == WriterOf(size, r)
      part(w) == Content(0, n, gen + 1, [q \in {q \in R : W(q) = w} |-> {Tree(gen + 1, n, q)}])
  IN
  /\ Call("write_gather")
  /\ ranks' = n
  /\ Locals(R, "gather", TRUE, NoData(R))
  /\ valid' = {r \in R : W(r) = r}
  /\ todo' = [r \in R |-> IF W(r) = r THEN <<[file |-> Name(0, r), content |-> part(r)]>>
                                      ELSE <<>>]
  /\ file' = [r \in R |-> NoFile]
  /\ gen' = gen + 1 /\ whole' = 0 /\ unclosed' = FALSE /\ erred' = FALSE
  /\ UNCHANGED <<files, errors>>

\* Mutants: a writer does not send to itself; the entries name files of this level.
MapEntriesNotSelf(w, qs) == [q \in qs \ {w} |-> Name(level - 1, q)]
MapEntriesOwnLevel(w, qs) == [q \in qs |-> Name(level, q)]

\* The FILE entries that writer w gets from ranks qs: their files, one level below.
MapEntries(w, qs) == [q \in qs |-> Name(level - 1, q)]

\* One level of kvtree_write_gather_map before it writes: the names of the files
\* below go to the writers of this level.  The recursion comes before the file
\* of this level is written, so the new file is put before those of lower levels.
WriteGatherMap ==
  LET count    == [r \in Rank |-> IF r \in valid THEN EntrySize ELSE 0]
      W(r)     == WriterOf(count, r)
      allranks == \A r \in Rank : W(r) = 0
      map(w)   == [file    |-> IF allranks THEN Root ELSE Name(level, w),
                   content |-> Content(level, ranks, gen,
                                       MapEntries(w, {q \in valid : W(q) = w}))]
  IN
  /\ \A r \in Rank : pc[r] = "gather"
  /\ todo' = [r \in Rank |-> IF W(r) = r THEN <<map(r)>> \o todo[r] ELSE todo[r]]
  /\ valid' = {r \in Rank : W(r) = r}
  /\ level' = level + 1
  /\ pc' = IF allranks THEN [r \in Rank |-> "write"] ELSE pc
  /\ UNCHANGED <<files, op, ranks, rc, file, hash, data, calls, crashes, errors,
                 gen, whole, unclosed, erred>>

-----------------------------------------------------------------------------
(* kvtree_write_to_gather: part files in the order of the ranks, then the root. *)

WriteToGather(n, e) ==
  LET writers == {w \in 0 .. n - 1 : w % e = 0}
      part(w) == [file    |-> Name(0, w),
                  content |-> Content(0, n, gen + 1,
                                [q \in {q \in 0 .. n - 1 : q \div e = w \div e}
                                   |-> {Tree(gen + 1, n, q)}])]
      root    == [file    |-> Root,
                  content |-> Content(1, n, gen + 1, [w \in writers |-> Name(0, w)])]
  IN
  /\ Call("write_to_gather")
  /\ ranks' = n
  /\ Locals({0}, "write", TRUE, NoData({0}))
  /\ valid' = {}
  /\ todo' = [r \in {0} |-> Append([i \in 1 .. Cardinality(writers) |-> part((i - 1) * e)], root)]
  /\ file' = [r \in {0} |-> NoFile]
  /\ gen' = gen + 1 /\ whole' = 0 /\ unclosed' = FALSE /\ erred' = FALSE
  /\ UNCHANGED <<files, errors>>

-----------------------------------------------------------------------------
(* Writing the files. *)

NextWrite(r) == Head(todo[r])

\* kvtree_open with O_TRUNC.
OpenFile(r) ==
  /\ pc[r] = "write"
  /\ todo[r] # <<>>
  /\ files' = Store(NextWrite(r).file, EmptyHash)
  /\ pc' = [pc EXCEPT ![r] = "opened"]
  /\ UNCHANGED <<op, ranks, rc, level, valid, todo, file, hash, data, calls,
                 crashes, errors, gen, whole, unclosed, erred>>

\* kvtree_write_attempt and kvtree_close.  kvtree_write_gather does not look at
\* what kvtree_close returns.
WriteFile(r) ==
  /\ pc[r] = "opened"
  /\ files' = Store(NextWrite(r).file, NextWrite(r).content)
  /\ todo' = [todo EXCEPT ![r] = Tail(@)]
  /\ pc' = [pc EXCEPT ![r] = "write"]
  /\ UNCHANGED <<op, ranks, rc, level, valid, file, hash, data, calls, crashes,
                 errors, gen, whole, unclosed, erred>>

\* What is left to write when the next file has failed.  kvtree_write_gather goes
\* on; kvtree_write_to_gather goes to the root, which names the parts so far and
\* the one that failed.
AfterFailure(r) ==
  IF op = "write_gather" \/ NextWrite(r).file = Root
  THEN Tail(todo[r])
  ELSE <<[todo[r][Len(todo[r])] EXCEPT !.content.entries =
            Restrict(@, {w \in DOMAIN @ : w <= NextWrite(r).file[2]})]>>

\* The file cannot be opened, or not be written and is left empty or torn.
WriteError(r) ==
  /\ todo[r] # <<>>
  /\ \/ pc[r] = "write" /\ files' = files
     \/ pc[r] = "opened" /\ files' \in {files, Lose({NextWrite(r).file})}
  /\ Fault(1)
  /\ rc' = [rc EXCEPT ![r] = FALSE]
  /\ todo' = [todo EXCEPT ![r] = AfterFailure(r)]
  /\ pc' = [pc EXCEPT ![r] = "write"]
  /\ UNCHANGED <<op, ranks, level, valid, file, hash, data, calls, crashes, gen, whole, unclosed>>

\* kvtree_write_file, which kvtree_write_to_gather calls, has stored the file, but
\* close() fails and so does the call.
CloseError(r) ==
  /\ op = "write_to_gather"
  /\ pc[r] = "opened"
  /\ files' = Store(NextWrite(r).file, NextWrite(r).content)
  /\ Fault(1)
  /\ rc' = [rc EXCEPT ![r] = FALSE]
  /\ todo' = [todo EXCEPT ![r] = AfterFailure(r)]
  /\ pc' = [pc EXCEPT ![r] = "write"]
  /\ unclosed' = (unclosed \/ NextWrite(r).file # Root)
  /\ UNCHANGED <<op, ranks, level, valid, file, hash, data, calls, crashes, gen, whole>>

\* The write returns, kvtree_write_gather after kvtree_alltrue.
EndWrite ==
  /\ \A r \in Rank : pc[r] = "write" /\ todo[r] = <<>>
  /\ Locals(Rank, "done", AllTrue, data)
  /\ valid' = {}
  /\ whole' = IF AllTrue THEN ranks ELSE 0
  /\ UNCHANGED <<files, op, ranks, todo, file, calls, crashes, errors, gen, unclosed,
                 erred>>

-----------------------------------------------------------------------------
(* kvtree_read_scatter. *)

\* Mutant: the other ranks leave file unset.
FirstFilesUnset(R) == [r \in {0} |-> Root]

\* Rank 0 is the only reader to start with.
FirstFiles(R) == [r \in R |-> IF r = 0 THEN Root ELSE NoFile]

ReadScatter(n) ==
  LET R == 0 .. n - 1 IN
  /\ Call("read_scatter")
  /\ ranks' = n
  /\ Locals(R, "map", TRUE, NoData(R))
  /\ valid' = {}
  /\ todo' = [r \in R |-> <<>>]
  /\ file' = FirstFiles(R)
  /\ erred' = FALSE
  /\ UNCHANGED <<files, errors, gen, whole, unclosed>>

\* What r reads: of a file that cannot be read, nothing.
Readable(r) == file[r] \in DOMAIN files
Loaded(r)   == IF Readable(r) THEN files[file[r]] ELSE EmptyHash

\* kvtree_read_scatter_map up to the first kvtree_alltrue.
ReadMap(r) ==
  /\ pc[r] = "map"
  /\ hash' = [hash EXCEPT ![r] = Loaded(r)]
  /\ rc' = [rc EXCEPT ![r] = file[r] = NoFile \/ Readable(r)]
  /\ pc' = [pc EXCEPT ![r] = "mapcheck"]
  /\ UNCHANGED <<files, op, ranks, level, valid, todo, file, data, calls, crashes,
                 errors, gen, whole, unclosed, erred>>

\* The readers whose kvtree has an entry for r.  An entry for a rank that is not
\* in the job is lost in the exchange.
Senders(r) == {s \in Rank : r \in DOMAIN hash[s].entries}

NextFile(r) == IF Senders(r) = {} THEN NoFile
               ELSE LET s == CHOOSE s \in Senders(r) : TRUE IN hash[s].entries[r]

\* Everyone has read its map, with a LEVEL and with FILE entries: a file of level
\* 0 has none.
MapRead == AllTrue /\ \A r \in Rank : file[r] # NoFile => hash[r].level > 0

\* The level that rank 0 broadcasts.
LevelId == IF file[0] # NoFile THEN hash[0].level ELSE NoLevel

\* The entries go to the readers of the next level.
ScatterMap ==
  /\ \A r \in Rank : pc[r] = "mapcheck"
  /\ MapRead
  /\ file' = [r \in Rank |-> NextFile(r)]
  /\ hash' = [r \in Rank |-> EmptyHash]
  /\ pc' = [r \in Rank |-> IF LevelId > 1 THEN "map" ELSE "data"]
  /\ UNCHANGED <<files, op, ranks, rc, level, valid, todo, data, calls, crashes,
                 errors, gen, whole, unclosed, erred>>

\* Mutant: the step is tried again.
ScatterMapRetries ==
  /\ \A r \in Rank : pc[r] = "mapcheck"
  /\ ~MapRead
  /\ rc' = [r \in Rank |-> FALSE]
  /\ hash' = [r \in Rank |-> EmptyHash]
  /\ pc' = [r \in Rank |-> "map"]
  /\ UNCHANGED <<files, op, ranks, level, valid, todo, file, data, calls, crashes,
                 errors, gen, whole, unclosed, erred>>

\* Somebody has failed: nobody moves on to another file.
ScatterMapFails ==
  /\ \A r \in Rank : pc[r] = "mapcheck"
  /\ ~MapRead
  /\ rc' = [r \in Rank |-> FALSE]
  /\ hash' = [r \in Rank |-> EmptyHash]
  /\ pc' = [r \in Rank |-> "data"]
  /\ UNCHANGED <<files, op, ranks, level, valid, todo, file, data, calls, crashes,
                 errors, gen, whole, unclosed, erred>>

\* Mutants: RANKS is not checked; a file that cannot be read counts as empty.
RanksMatchAny(r) == Readable(r)
RanksMatchIfRead(r) == Readable(r) => Loaded(r).ranks = ranks

\* The RANKS of the data file, 0 if there is none, are the size of the job.
RanksMatch(r) == Loaded(r).ranks = ranks

\* Read the data file.
ReadData(r) ==
  /\ pc[r] = "data"
  /\ hash' = [hash EXCEPT ![r] = Loaded(r)]
  /\ rc' = [rc EXCEPT ![r] = @ /\ (file[r] = NoFile \/ RanksMatch(r))]
  /\ file' = [file EXCEPT ![r] = NoFile]
  /\ pc' = [pc EXCEPT ![r] = "datacheck"]
  /\ UNCHANGED <<files, op, ranks, level, valid, todo, data, calls, crashes,
                 errors, gen, whole, unclosed, erred>>

\* An open() or read() of r fails.
ReadError(r) ==
  /\ pc[r] \in {"map", "data"}
  /\ file[r] # NoFile
  /\ Fault(1)
  /\ hash' = [hash EXCEPT ![r] = EmptyHash]
  /\ rc' = [rc EXCEPT ![r] = FALSE]
  /\ IF pc[r] = "map"
     THEN pc' = [pc EXCEPT ![r] = "mapcheck"] /\ UNCHANGED file
     ELSE pc' = [pc EXCEPT ![r] = "datacheck"] /\ file' = [file EXCEPT ![r] = NoFile]
  /\ UNCHANGED <<files, op, ranks, level, valid, todo, data, calls, crashes, gen, whole, unclosed>>

\* The trees go to their ranks, unless somebody has failed.
Scatter ==
  /\ \A r \in Rank : pc[r] = "datacheck"
  /\ Locals(Rank, "done", AllTrue,
            IF AllTrue THEN [r \in Rank |-> UNION {hash[s].entries[r] : s \in Senders(r)}] ELSE data)
  /\ UNCHANGED <<files, op, ranks, valid, todo, file, calls, crashes, errors, gen,
                 whole, unclosed, erred>>

-----------------------------------------------------------------------------
(* kvtree_read_scatter_single: all prefix.0.* files, whatever the root says; *)
(* bad are the files whose reading fails.  A failing regcomp or opendir ends *)
(* the call in the same way as a root that cannot be read.                   *)

\* Mutant: the pattern leaves out writer 0.
SubFilesNotZero(fs) == {f \in fs : Len(f) = 2 /\ files[f].level = 0 /\ f[1] = 0 /\ f[2] > 0}

\* The subfiles: named prefix.0.<number>, with LEVEL 0.
SubFiles(fs) == {f \in fs : Len(f) = 2 /\ files[f].level = 0 /\ f[1] = 0}

ReadScatterSingle(bad) ==
  LET good  == DOMAIN files \ bad
      root  == Root \in good /\ files[Root] # EmptyHash
      subs  == SubFiles(good)
      keys(f) == DOMAIN files[f].entries
      actual  == SumFunctionOnSet([f \in subs |-> Cardinality(keys(f))], subs)
      merged  == [q \in UNION {keys(f) : f \in subs} |->
                    UNION {files[f].entries[q] : f \in {f \in subs : q \in keys(f)}}]
  IN
  /\ Call("read_scatter_single")
  /\ errors' = errors + Cardinality(bad)
  /\ errors' <= MaxErrors
  /\ erred' = (bad # {})
  /\ ranks' = IF root THEN files[Root].ranks ELSE 0
  /\ IF root THEN Locals({0}, "done", actual = files[Root].ranks, merged)
             ELSE Locals({0}, "done", FALSE, NoData({}))
  /\ valid' = {}
  /\ todo' = [r \in {0} |-> <<>>]
  /\ file' = [r \in {0} |-> NoFile]
  /\ UNCHANGED <<files, gen, whole, unclosed>>

-----------------------------------------------------------------------------
\* The job dies; files being written may be torn.
Crash ==
  /\ ~Idle
  /\ crashes < MaxCrashes
  /\ crashes' = crashes + 1
  /\ \E torn \in SUBSET {NextWrite(r).file : r \in {r \in Rank : pc[r] = "opened"}} :
       files' = Lose(torn)
  /\ op' = "none"
  /\ ranks' = 1
  /\ Locals({0}, "done", FALSE, NoData({0}))
  /\ valid' = {}
  /\ todo' = [r \in {0} |-> <<>>]
  /\ file' = [r \in {0} |-> NoFile]
  /\ UNCHANGED <<calls, errors, gen, whole, unclosed, erred>>

Step ==
  \/ WriteGatherMap \/ EndWrite \/ ScatterMap \/ ScatterMapFails \/ Scatter
  \/ \E r \in Rank : \/ OpenFile(r) \/ WriteFile(r) \/ WriteError(r) \/ CloseError(r)
                     \/ ReadMap(r) \/ ReadData(r) \/ ReadError(r)

Start ==
  \/ \E size \in Inputs : WriteGather(size)
  \/ \E n \in Jobs : (\E e \in PerFile : WriteToGather(n, e)) \/ ReadScatter(n)
  \/ \E bad \in SUBSET DOMAIN files : ReadScatterSingle(bad)

Finished == Idle /\ calls = MaxCalls /\ UNCHANGED vars

Next == Start \/ Step \/ Crash \/ Finished

Spec == Init /\ [][Next]_vars

\* The processes of a call keep running, and MPI makes progress.
FairSpec == Spec /\ WF_vars(Step)

-----------------------------------------------------------------------------
(* Properties. *)

\* The variables have their types.
TypeOK ==
  /\ \A f \in DOMAIN files : Len(f) \in {0, 2} /\ files[f].level \in Nat \cup {NoLevel}
  /\ ranks \in Nat
  /\ \A r \in Rank : /\ rc[r] \in BOOLEAN
                     /\ pc[r] \in {"gather", "write", "opened", "map", "mapcheck",
                                   "data", "datacheck", "done"}
  /\ DOMAIN rc = Rank /\ DOMAIN todo = Rank /\ DOMAIN file = Rank /\ DOMAIN hash = Rank
  /\ valid \subseteq Rank
  /\ \A r \in DOMAIN data : \A t \in data[r] : t.gen \in 1 .. gen

\* kvtree_read_scatter_map takes the first entry that reaches a rank and looks no
\* further: right only if all maps that can be met in one step send a rank to the
\* same file.  A rank w is always sent to prefix.level.w, whichever jobs, crashed
\* or not, the maps come from.
OneFilePerReader ==
  \A f \in DOMAIN files : files[f].level > 0 =>
    /\ f = Root \/ f[1] = files[f].level
    /\ \A w \in DOMAIN files[f].entries : files[f].entries[w] = Name(files[f].level - 1, w)

\* kvtree_mpi_io.c:473, "rank 0, which we assume to be a reader in all steps": in
\* each map step, and in the data step if no map step has failed, rank 0 has a
\* file.  Otherwise its LEVEL of -1 would end the descent in the middle and maps
\* would be handed out as data.
RankZeroReads ==
  op = "read_scatter" /\ pc[0] \in {"map", "mapcheck", "data"} => file[0] # NoFile

\* gatherscatter.rst:67: a write that all ranks saw succeed is read back by a job
\* of the same size with KVTREE_SUCCESS and gives each rank exactly the kvtree it
\* had written, whatever files of earlier jobs, of other sizes or crashed, are
\* left under the prefix.  Only a failing system call of the read itself may
\* make it fail, and then it fails on all ranks.
RoundTrip ==
  op = "read_scatter" /\ Idle /\ whole = ranks =>
    \/ \A r \in Rank : rc[r] /\ data[r] = {Tree(gen, ranks, r)}
    \/ erred /\ \A r \in Rank : ~rc[r] /\ data[r] = {}

\* kvtree_read_scatter, "check that the number of ranks match": a job of another
\* size than the one that made the files is refused, on all ranks, although the
\* RANKS of the map files are never looked at.
OtherSizeRefused ==
  op = "read_scatter" /\ Idle /\ whole \notin {0, ranks} => \A r \in Rank : ~rc[r]

\* A crashed or failed write is either noticed by the readers or had got far
\* enough: as long as all files come from one write, a read that succeeds has the
\* kvtree of every rank.  There is one exception: when close() of a part file fails,
\* kvtree_write_to_gather returns KVTREE_FAILURE and leaves a root that names only
\* the parts so far, all of them readable.  kvtree_read_scatter then succeeds on all
\* ranks and has nothing for the ranks after those parts; the count of entries in
\* kvtree_read_scatter_single notices also that.
PartialWriteNoticed ==
  LET upTo(k) == [r \in 0 .. ranks - 1 |-> IF r < k THEN {Tree(gen, ranks, r)} ELSE {}] IN
  /\ op \in {"read_scatter", "read_scatter_single"} /\ Idle /\ rc[0]
  /\ \A f \in DOMAIN files : files[f].gen \in {0, gen}
  => \/ data = upTo(ranks)
     \/ op = "read_scatter" /\ unclosed /\ \E k \in 1 .. ranks - 1 : data = upTo(k)

\* Even when writes over each other have crashed and left a mix of files, a
\* successful kvtree_read_scatter gives a rank nothing but trees that a rank of
\* this number has written in a job of this size.
OwnTreesOnly ==
  op = "read_scatter" /\ Idle /\ rc[0] =>
    \A r \in Rank : \A t \in data[r] : t.rank = r /\ t.ranks = ranks

\* kvtree_read_scatter_single after a complete write, if no prefix.0.* file of
\* another write is left, returns every rank's kvtree.
SingleRoundTrip ==
  /\ op = "read_scatter_single" /\ whole # 0 /\ ~erred
  /\ \A f \in SubFiles(DOMAIN files) : files[f].gen = gen
  => rc[0] /\ data = [r \in 0 .. whole - 1 |-> {Tree(gen, whole, r)}]

\* Every call returns on every rank: no rank leaves a collective call early, or
\* enters one that the others do not.
CallsReturn == ~Idle ~> Idle

\* kvtree_read_scatter_single_test.c:11, "Also verify that if one of the
\* PREFIX.*.* files is missing, that the function correctly fails": with
\* KVTREE_SUCCESS the kvtree of every rank has been found.
SingleIsComplete ==
  op = "read_scatter_single" /\ rc[0] => 0 .. ranks - 1 \subseteq DOMAIN data

=============================================================================
