# Verification of KVTree

TLA+ models of KVTree, the hierarchical key/value library of VeloC/SCR, with the
TLC runs that check them and TLAPS proofs about the file layer, the exchange,
`pick_writer` and the gather/scatter files. Source lines in this directory refer to `src/` of the
repository; `PROJECT.json` maps every definition to the lines it models.

## 1. Inventory

KVTree is a C library without threads of its own. Concurrency comes from the
processes that share a kvtree file and from the MPI ranks that call its
collectives.

| Component | State | Operations | Interacts with | What makes it correct |
|---|---|---|---|---|
| In-memory kvtree (`kvtree.c` 43-1099) | linked lists of elements (key, child pointer) | new, delete, set, setf, get, getf, extract, unset, unset_all, merge, sort, sort_int, set_kv, unset_kv, pack, unpack | everything below packs, unpacks and merges kvtrees | one element per key; every hash has one owner and is freed once; merge is union; a packed and unpacked tree is the same tree |
| Typed values (`kvtree_util.c`) | none | set and get of int, str, byte count, ... | in-memory kvtree | a set value replaces all earlier ones; a get gives the one value of a key |
| Files (`kvtree.c` 1108-1500, `kvtree_io.c`) | a file with header, packed data, CRC; a descriptor and its offset; retry counters | write_file, read_file, open, close, read_attempt, write_attempt | file system | a read that succeeds returns a tree that somebody wrote; every call returns |
| Locking (`kvtree.c` 1502-1699, `kvtree_io.c` 138-243) | flock on the descriptor | read_with_lock, write_with_lock, lock_open_read + write_close_unlock | several processes, one file | reads are atomic, writes are stored whole, a read-modify-write loses nothing |
| Exchange (`kvtree_mpi.c` 87-166, 222-518) | current, keep, send and receive kvtrees of each rank; hop limits | exchange, exchange_direction, sendrecv, exchange_sendq | MPI | each tree arrives once, at its destination; the collective ends |
| Send, receive, broadcast (`kvtree_mpi.c` 29-84, 169-219) | none | send, recv, bcast | MPI | what arrives is what was sent |
| Gather and scatter (`kvtree_mpi_io.c`, `kvtree.c` 1706-1922) | a tree of map files and data files | write_gather, read_scatter, pick_writer, write_to_gather, read_scatter_single | MPI, files | the ranks agree on who writes what; every rank of a job of the same size reads back its own kvtree, whatever older files are left; incomplete sets and sets of another job size are refused on all ranks |
| Integer packing, byte order (`kvtree_helpers.c`, `kvtree_byteswap.h`) | none | pack_*/unpack_* | pack, file header | round trip |
| Printing, logging, TotalView, `queue.h` | none | output; vendored code | | |

Hard behaviours, each listed with its line under `hazards` in `PROJECT.json`:
system calls of several processes interleave inside one library call; a process
dies between two `write()` calls; retry loops resume half-done transfers; a lock
or a transfer fails after an earlier step worked; neighbours in an MPI exchange
are rounds apart and use a single tag; hop limits cut the exchange short; files of
several writes, complete or not, lie under one prefix; long call sequences move
ownership of subtrees.

## 2. Modules

| Module | Models | Uses |
|---|---|---|
| `KVTreeFile` | the file layer, one action per system call | |
| `KVTreeStore` | abstract: one shared kvtree, atomic reads, one writer | |
| `KVTreeFileRefines` | refinement mapping from `KVTreeFile` to `KVTreeStore` | both |
| `KVTreeFileProof` | TLAPS proofs: types, locked reads and writes | `KVTreeFile` |
| `KVTreeFileStoreProof` | TLAPS proofs: what reads return, the refinement of `KVTreeStore` | `KVTreeFileProof`, `KVTreeFileRefines` |
| `KVTreeExchange` | Bruck exchange over MPI channels, send, receive and broadcast before it | |
| `KVTreeExchangeProof` | TLAPS proofs: what the channels hold, where the items are, the result | `KVTreeExchange`, `KVTreeNumbersProof` |
| `KVTreeSegments` | how sizes cut the ranks into segments: the result of `pick_writer` as a function | |
| `KVTreePickWriter` | `pick_writer` message by message, shown to compute that function | `KVTreeSegments` |
| `KVTreeGather` | the gather/scatter files over several jobs | `KVTreeSegments` |
| `KVTreeNumbersProof` | TLAPS lemmas on numbers: least and greatest members, remainders | |
| `KVTreeSegmentsProof` | TLAPS lemmas on segments and their writers | `KVTreeSegments`, `KVTreeNumbersProof` |
| `KVTreePickWriterProof` | TLAPS proofs: `pick_writer` computes the function | `KVTreePickWriter`, `KVTreeSegmentsProof` |
| `KVTreeGatherProof` | TLAPS proofs: what files can hold and what a read may do with them | `KVTreeGather`, `KVTreeSegmentsProof` |
| `KVTreeRoundTripProof` | TLAPS proof: what was written is read back | `KVTreeGatherProof` |
| `KVTreeHeap` | in-memory kvtree as a heap of lists | `KVTreeForest` |
| `KVTreeForest` | abstract: a kvtree is its set of paths | |
| `MCKVTreeFile`, `MCKVTreeExchange`, `MCKVTreeHeap`, `MCKVTreePickWriter`, `MCKVTreeGather` | constants and symmetry for TLC | |

Definitions whose comment begins with "Mutant" are variants of the definition
that follows, each with one plausible mistake. No specification uses them; they
are what a property is tested against (`mutants` in `PROJECT.json`).

### KVTreeFile

A kvtree is the set of its keys, so `kvtree_merge` is union. The file is a
sequence of cells; a cell is a piece that one `write()` stores whole. Two cells
are the header (magic, type, version; then size and flags), the others carry
packed data and CRC and are tagged with the tree they belong to. That stands for
the assumption that a CRC over pieces of different trees does not match
(`Holds`, `Content`). Trees have images of different lengths.

Each process has a program counter whose values name the next system call, the
descriptor, the file offset, the cells read (`buf`) or written (`n`) so far, and
the retries left. `Call` enters one of the five operations; `Access`, `Open`,
`Lock`, `ReadCell`, `ReadDone`, `WriteCloseUnlock`, `WriteCell`, `Truncate`,
`Unlock`, `Close` are the steps; `OpenError`, `LockError`, `ReadError`,
`WriteError` the failures, with the code's retry limits. After `LockError` the
descriptor is 1, as in the code, and `ReadStdout`/`WriteStdout` say what reading
and writing the standard output does to the kvtree file: nothing. `Crash` kills a
process at any point; the kernel closes the descriptor and drops the lock.

Simplifications: a header that fails a check is rejected after the rest was read,
not before; `EINTR`/`EAGAIN`, which the loops do not count, are stuttering steps;
unlocking an open descriptor does not fail; the machine itself does not crash, so
`fsync` has no effect. NULL arguments are rejected at entry by every call and are
left out.

### KVTreeExchange

The tree from rank `s` to rank `d` is the item `<<s, d>>`, the "D"/"S" kvtrees
are sets of items. `Split` and `Allreduce` are `kvtree_exchange` up to its two
passes; `StartRound`, `Receive`, `PostData`, `EndRound` are one turn of the loop
of `kvtree_exchange_direction_hops` with `kvtree_sendrecv` inside it; `EndPass`
is its end. MPI is a FIFO channel per ordered pair of ranks, since all messages
use one tag and communicator. A kvtree that packs to more than INT_MAX bytes, for
which `kvtree_sendrecv`, `kvtree_send` and `kvtree_bcast` abort the job before they
send (`kvtree_mpi.c` 34, 120, 180), is left out.
`Buffered` says whether a send completes before it
is received: both are allowed by MPI, and both are checked.

In the modes "send" and "bcast" an exchange follows a `kvtree_send` from rank 0 to
the last rank, or a `kvtree_bcast` from rank 0. The ranks that have no part in the
transfer are ahead of the others, and the sizes and trees of both calls are in the
same channels.

### KVTreeSegments, KVTreePickWriter

`Start` is `pick_writer` up to its loop: the offset that `MPI_Scan` returns is
taken as the sum it is specified to be. `Post`, `Receive` and `Merge` are one turn
of the loop, `Output` and `Bcast` the rest. Ranks may be rounds apart; the
channels are FIFO and `buffered` says whether sends complete by themselves.
`ScanWindow` gives the state of a rank at every moment as a function of the sizes,
`WritersAgree` that the outputs are `WriterOf` of `KVTreeSegments`.

### KVTreeGather

`files` holds what is under one prefix: the root, `prefix.level.writer` for every
other file, with LEVEL, RANKS and the entries under RANK. It outlives the calls.
A file that is not there and one that cannot be read whole are the same to all
callers (reads fail, writes truncate), so the second kind is left out of `files`;
an empty file is different, `kvtree_read_fd` returns 0 for it and no error. A
rank's kvtree is the set of the trees that were merged into it; a tree is named by
the write, the size of its job and the rank, so a property can tell an old tree
from a new one although the files cannot.

A call takes as many steps as its file accesses and collectives. Between two
collectives the ranks run independently: `OpenFile`, `WriteFile`, `WriteError`,
`CloseError`, `ReadMap`, `ReadData`, `ReadError`. A collective is one step of all ranks, enabled
when all have arrived: `WriteGatherMap` is a level of `kvtree_write_gather_map` up
to its recursive call, `EndWrite` the last `kvtree_alltrue` of
`kvtree_write_gather`, `ScatterMap` and `ScatterMapFails` the rest of a level of
`kvtree_read_scatter_map`, `Scatter` the end of `kvtree_read_scatter`. That
replaces `pick_writer` by `WriterOf` (checked by `KVTreePickWriter`) and
`kvtree_exchange_direction` by the delivery of every tree (`Delivered` of
`KVTreeExchange`). Because the recursion comes before the write, the files of a
rank are written from the root down. `kvtree_write_to_gather` is one process that
writes the parts and then the root, and goes to the root at once if a part fails;
its input has a tree for each of the `ranks`. It calls `kvtree_write_file`, which
fails also when everything is stored and only `close()` fails (`CloseError`);
`kvtree_write_gather` does not look at the result of `kvtree_close`. The history
variable `unclosed` records that a part was stored and not closed. Data that
`write()` has accepted is not lost afterwards, whatever `fsync` and `close` return. `kvtree_read_scatter_single` is one
step: nobody writes while it runs. `Crash` ends the job at any moment; files that
are open may be torn or empty.

`EntryAssumption` says that two map entries fit in a segment. With 1 MB this is so
for every prefix; without it the levels would not shrink and the recursion of
`kvtree_write_gather_map` would not end.

### KVTreeHeap

`heap` maps addresses to lists, `roots` is what the caller owns. Each API call
that changes a kvtree is an action, `kvtree_exchange_sendq` and the typed setters
included; the recursions of merge, delete and unpack are RECURSIVE operators. The
getters are the operators `GetVal` and `GetInt`. A caller passes as value only a kvtree it owns and gives
it away, and does not merge a kvtree with a part of itself. Keys are integers
with their `strcmp` rank. `kvtree_malloc` aborts when memory is out, so a call
that needs more addresses than there are has no successor. The history variable
`call` names the call, so that `ForestSpec` compares each call with the abstract
action of the same name; TLC leaves it out of its states (`VIEW`), since no
action depends on it.

## 3. Runs

| Run | Checks | Bounds |
|---|---|---|
| `KVTreeFileLocked` | `TypeOK`, `LockedReadIsAtomic`, `LockedWriteIsStored`, `WholeBetweenWriters`, `LockedInv` (the inductive invariant of the proofs), `StoreSpec` (refinement of `KVTreeStore`) | 2 processes, 2 calls each, 4 trees, 1 crash |
| `KVTreeFileUnlocked` | `ReadsOnlyWhatWasWritten` | 3 processes, one call each of read_file, write_file and read-modify-write, 1 crash |
| `KVTreeFileReturns` | `CallsReturn` | 2 processes, one call each of all five operations, all errors, 1 crash, fairness |
| `KVTreeExchange3` | `TypeOK`, `SizesAndTreesMatch`, `NothingStranded`, `BruckDistance`, `ItemsConserved`, `Delivered` | 3 ranks, all 512 send patterns, exchange, both directions, an exchange after send/recv or bcast, buffered sends |
| `KVTreeExchange5` | `NothingStranded`, `BruckDistance`, `Delivered`, `Terminates` | 5 ranks, dense and single-sender patterns, rendezvous sends, fairness |
| `KVTreeHeap` | `TypeOK`, `UniqueKeys`, `SingleOwner`, `NoLeak`, `TypedGets`, `ForestSpec` | 4 hashes, 2 keys, 3 kvtrees of the caller |
| `KVTreePickWriter` | `TypeOK`, `ScanWindow`, `WritersAgree`, `NoMessageLeft`, `Returns` | 5 ranks, 6 size vectors, with and without buffering, fairness |
| `KVTreeGather` | `TypeOK`, `OneFilePerReader`, `RankZeroReads`, `RoundTrip`, `OtherSizeRefused`, `PartialWriteNoticed`, `OwnTreesOnly`, `SingleRoundTrip`, `CallsReturn` | jobs of 2 and 3 ranks, 3 calls, 1 crash, 1 failing system call, fairness |

Why the bounds are enough to meet the interesting cases: two processes give every
reader/writer and writer/writer overlap, two calls a call after a crash or after
a longer tree, the four trees images of three lengths. Two retries make "absorb
an error" and "give up" different. With three ranks a tree is kept for a round,
sent and delivered, but the pass to the left of `kvtree_exchange` is empty; five
is enough for three rounds, for trees in both passes with different hop limits,
and, with a given direction, for a tree that is forwarded (distance three). Four
hashes are the least with which merge descends into a child on both sides. Five
ranks give the scan of `pick_writer` three rounds, the last one not a power of
two; the size vectors put the starters at the ends, in the middle, everywhere and
nowhere. In `KVTreeGather` three segments make data files, two maps and a root of
level 2, one or two segments data files and a root of level 1; three calls are a write, a second write over its files by a job
of the same or another size, and a read; one crash and one error can hit any of
them.
Symmetry is used for processes and keys in the safety runs of the file (the
specification and the properties treat them alike), and for addresses in the
heap, where the CHOOSE that picks a free address commutes with renaming up to
another renaming of the free ones. Runs with a liveness property use none.

Fairness: `KVTreeFile!FairSpec` is weak fairness of each process's steps inside
the library and of handing back a file locked by `kvtree_lock_open_read`: the
operating system runs every process, `flock` is granted when it stays free, and a
caller that never writes back holds everybody up by design. It does not say that
system calls succeed. `LockError` is not among the fair steps: `flock` may fail, but a
process that waits is not saved by a failure, so `CallsReturn` holds only because
every path, after errors and crashes too, gives up the lock. The calls of a process are
bounded, so nobody can take the lock again and again before a waiting process. `KVTreeExchange!FairSpec` is weak fairness of each rank: a
collective is called by all ranks and MPI makes progress. `KVTreePickWriter` has
the same fairness. `KVTreeGather!FairSpec` is weak fairness of a step of any rank
or collective: each call has finitely many of them, so it says only that a call in
progress is not abandoned.

### Disagreements between code and documentation

Each has a run that TLC must refute.

| Run | Property | What happens |
|---|---|---|
| `KVTreeFileLockFails` | `OpenWithLockGivesFile` | when `flock` fails `kvtree_open_with_lock` returns `KVTREE_FAILURE` = 1 and the callers use descriptor 1 |
| `KVTreeFileSuccess` | `SuccessMeansTransferred` | `kvtree_lock_open_read` succeeds although it read nothing, `kvtree_write_with_lock` although the write failed |
| `KVTreePickWriterSegment` | `SegmentBounded` | sizes that end on segment boundaries never start a segment: one writer gets everything, against the limit of 1 MB in gatherscatter.rst |
| `KVTreeGatherSingle` | `SingleIsComplete` | `kvtree_read_scatter_single` counts the entries of files an earlier write has left and takes an incomplete set for complete (and refuses a complete set in the same way, which is why `SingleRoundTrip` excludes leftovers) |

What the checks do not promise: when a write crashes over a complete set of a job
of the same size, nothing in the files tells the two writes apart. A read may then
succeed and give a rank its older tree, the merge of both, or nothing. What holds
in every such mix is `OwnTreesOnly`; `PartialWriteNoticed` is for files of one
write. It has an exception that is a weakness of the code: when `close()` of a part file
fails, `kvtree_write_to_gather` leaves its loop (`kvtree.c` 1768) and writes a root with
RANKS of the whole job that names the parts so far. All of them are readable, so a
later `kvtree_read_scatter` returns `KVTREE_SUCCESS` on all ranks and gives the ranks
after those parts nothing. The caller of the write was told, the files do not show it.
The property says that this is the only way to an incomplete successful read, and
that `kvtree_read_scatter_single`, which counts the entries, refuses the set. `kvtree_write_with_lock` leaves the tail of a longer old file behind the new
image (harmless to readers, which stop at the size in the header), and the int
comparison of `kvtree_sort_int` overflows for keys further apart than an int.

## 4. Proofs

The theorems hold for every value of the constants that the ASSUMEs allow; TLC
evaluates those in every run. The bounds `MaxCalls`, `MaxCrashes`, `MaxErrors`
and the like may be any numbers.

### The file layer (`KVTreeFileProof`, `KVTreeFileStoreProof`)

For every set of processes and keys, every image length, any number of retries,
calls and crashes, with or without errors. `FileAssumption` says that images are
longer than the header and that the rejected content is not a tree.

- `TypeCorrect`: `Spec => []TypeOK`. It rests on lemmas on the cell operators
  (`WriteAtType`, `TruncateToType`, `ContentType`) and on `RetryType`.
- `LockedInvHolds`: `Spec => []LockedInv` if the processes use only the locking
  calls. Neither property below is inductive: that a read is what the file holds
  needs that the cells read so far are a prefix of the file (`TransferInv`), that
  nobody else writes meanwhile, which needs that the lock follows the control
  state (`SessionInv`), and `LockExclusion`. `StepKeeps` shows that a step of
  `p` keeps the parts that speak of `p`, `FrameKeeps` that it keeps those of the
  others: either it leaves the file alone or `p` holds the exclusive lock.
  `HoldsUnique` and `PrefixContent` say that an image determines its tree and
  that a reader that stopped at the size in the header, or at the end of the
  file, has seen enough.
- `LockedReadIsAtomicHolds` and `LockedWriteIsStoredHolds` follow.
- `LockExclusionHolds` needs no assumption on the operations.
- `ReadsOnlyWhatWasWrittenHolds`, for any mix of locked and unlocked operations:
  every data cell in the file or in a buffer is tagged with a tree that somebody
  wrote (`WrittenCells`), and the content of cells is the tree of their tags.
- `WholeBetweenWritersHolds`, for the locking calls: without errors and crashes a
  writer does not give up its lock before it has stored everything
  (`CompleteInv`).
- `StoreSpecHolds`: `Spec => StoreSpec` for the locking calls if `flock` does not
  fail. Under the mapping of `KVTreeFileRefines` each system call is a step of
  `KVTreeStore` or a stutter; `DescriptorInv` says that a process in a transfer has the
  file. That `flock` does not fail is needed: with descriptor 1 a
  read-modify-write goes on without its lock (`KVTreeFileLockFails`).
- `OpenWithLockGivesFileHolds`: the property that the run `KVTreeFileLockFails`
  refutes holds if `flock` does not fail, so that is the only way to break it.

With I/O errors the locked calls rest on these proofs: the run checks `LockedInv`
without errors, the theorems hold with them.

### Segments and `pick_writer` (`KVTreeSegmentsProof`, `KVTreePickWriterProof`)

For every number of ranks, all sizes and segment sizes, with and without buffered
sends.

- The lemmas on segments say that rank 0 starts one, that the writer of a rank is
  the last starter at or before it, and that a writer is its own writer.
- `TypeCorrect`: `Spec => []TypeOK`.
- `RoundsInvHolds`: the inductive invariant. `RoundInv` is `ScanWindow` with what a
  waiting rank has received; `PairInv` says for each ordered pair of ranks which
  messages are in their channel, by the rounds the two are in: the stride doubles,
  so a pair meets in one round only, and the message in the channel is
  the scan of the sender at that round. The strides are `Pow`, the least set with 1
  and the double of each member, so that what holds of all strides is shown by
  giving a set that is closed in the same way.
- `ScanWindowHolds`, `NoMessageLeftHolds` and `WritersAgreeHolds` follow: at the end
  the window is all ranks up to `r`, and the last starter in it is `WriterOf`.

### Gather and scatter files (`KVTreeGatherProof`, `KVTreeRoundTripProof`)

For all job sizes, pack sizes, segment sizes and entries per file, and any
sequence of calls, crashes and failing system calls over one prefix. The folds in
`Offset` stay closed: the proofs use of `WriterOf` only the lemmas on segments.

- `GatherInvHolds`: the inductive invariant. `FilesInv` says what a name can hold,
  whichever writes it comes from: nothing, data in a file of level 0, a map of
  level `k` in `prefix.k.w` or the root, with `prefix.(k-1).q` as the entry of
  `q`, and with an entry for rank 0 if rank 0 reads it. `WriteInv` says the same of
  what is still to be written, `MapInv` and `DataInv` of what the ranks have read,
  `RefuseInv` follows the RANKS of `prefix.0.0`, the only file every read of rank 0
  ends in. `PhaseInv` and `LocalInv` are control and types. There is one lemma per
  action.
- `TypeCorrect`, `OneFilePerReaderHolds`, `RankZeroReadsHolds`,
  `OwnTreesOnlyHolds`, `OtherSizeRefusedHolds` follow.
- `RoundTripHolds`. Its inductive invariant `RoundTripInv` adds a plan: for each
  level the ranks `D[k]` that have an entry and the writers `A[k]` they send it to.
  While the levels are gathered, what the ranks have to write is the plan so far
  (`GatherPlan`); while they write, what is planned is left to write or written,
  if nobody has failed (`WritePlan`); after a write that succeeded everything
  planned is in the files (`Written`), until the next write. A read by as many
  ranks descends along the plan (`Reading`): `MapsSend` shows that the maps of level
  `k` send on exactly the ranks in `D[k]`, so that no leftover file is ever opened,
  and at level 0 each rank gets its tree from the one writer of its plan.

### The exchange (`KVTreeExchangeProof`)

For every number of ranks, all send kvtrees, all modes, and MPI with and without
buffering. `PowerAssumption` is the law that doubling the stride goes from one power
of two to the next; it is stated because the provers know `^` of numbers only, and TLC
evaluates it.

- `ExchangeInvHolds`: the inductive invariant `IInv`. No property below is inductive:
  what a rank receives depends on what its source posted rounds ago, or in the pass
  before. A pair of ranks meets in at most one round of a pass, the one whose stride
  is their distance (`RoundIs`, `PartnersAre`), so at most two transfers can be pending
  in a channel: one of the pass to the left, or of `kvtree_send`, and one of the pass
  to the right. `PostedA`, `RecvdA`, `PostedB` and `RecvdB` count the messages of the
  two transfers from where the ranks are, without history variables, and `ChanInv`
  says that the channel holds exactly what is posted and not received, a size and then
  its tree (`Wire`).
  `ItemInv` says that an item in the current hash is where its rounds so far have
  brought it (`Here`: the low bits of its distance are gone); `InboxInv` and `ChanInv`
  say the same of items in messages, for the round after. `HopsInv` says that the
  limits are the same on all ranks after `MPI_Allreduce` and enough for every item;
  without it a rank could be in a round that its partner leaves out. There is a lemma per part
  (`StepTyped`, `StepMode`, `StepHops`, `StepRound`, `StepItem`, `StepInbox`, `StepGot`,
  `StepChan`); for the channels the steps are of four kinds: quiet ones, posting
  (`PostsChan`), `kvtree_send` (`FirstPostsChan`) and receiving (`TakesChan`).
  `FirstPending` and `SecondPending` are the heart: a rank takes a message of the
  transfer it is in, since whoever has posted for the next pass has posted everything
  before it, and who is in the second pass has taken everything of the first.
- `TypeCorrect`, `SizesAndTreesMatchHolds` and `BruckDistanceHolds` follow.
  `NothingStrandedHolds`: at the end of a pass the distance of every item has no bit
  left, because the stride has reached the number of ranks, or the hop limit is at
  least `StepsOf` the distance, after which `StepsOfIs` shows no bit is left.
- `PlaceInvHolds`: from the split on an item is with one rank or on the way to one
  (`Covered`) and never with two (`OneHolder`). Only `Split` makes a holder and only
  `PostData` changes it (`HeldKept`, `HeldSplit`, `HeldPost`). That what a rank sends is
  in no other place of it, messages under way to it included, is `LeavesApart`: within
  a pass an item never returns to a rank it has left (`NoReturn`).
- `NoMessageLeftHolds`: when all ranks are done every posted message has been received
  (`ChannelsEmpty`), so the next call on the communicator finds none.
- `ItemsConservedHolds` and `DeliveredHolds` follow: at the end the one holder of an
  item has it in its output, and that is its destination.

### Only model-checked

- Liveness under fairness (`CallsReturn`, `Returns`, `Terminates`): out of the prover's
  reach.
- `PartialWriteNoticed`, `SingleRoundTrip`: `kvtree_read_scatter_single` compares
  RANKS with a sum over files, and what a sum is for every set of files needs
  induction over data.
- `KVTreeHeap` and its refinement of `KVTreeForest`: merge, delete and unpack are
  RECURSIVE operators.

## 5. Not modelled

fcntl locks (a build option), integer packing and byte order, the text form of
typed values, `kvtree_list_int`, `kvtree_elem_extract_by_addr`, printing, logging,
the debugger display, vendored `queue.h`. `PROJECT.json` gives the reason for each.

## 6. Plan

Done: the models of all components, with the abstractions of the file layer and of
the in-memory kvtree: every operation of the library that changes shared state has
an action. Proved: the file layer with its refinement, `pick_writer`, the
gather/scatter files, and the exchange. Left, because the provers cannot do induction
over data: what the recursions of `KVTreeHeap` and the sum of
`kvtree_read_scatter_single` compute.
