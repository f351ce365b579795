-------------------------- MODULE KVTreePickWriter --------------------------
(***************************************************************************)
(* pick_writer (kvtree_mpi_io.c): the ranks find the writer of their       *)
(* segment with a segmented scan.  In the round with stride step a rank    *)
(* sends what it knows to rank + step and merges what rank - step knew     *)
(* before that round.  All rounds use one tag, so a rank that is ahead     *)
(* queues its messages: MPI is a FIFO channel per ordered pair of ranks.   *)
(***************************************************************************)
EXTENDS KVTreeSegments, FiniteSets, Sequences

CONSTANTS
  N,          \* number of ranks in the communicator
  Counts,     \* the byte counts to consider
  Bufferings  \* the values of buffered to consider

Rank == 0 .. N - 1

ASSUME PickWriterAssumption ==
  /\ N \in Nat \ {0}
  /\ Counts \subseteq [Rank -> Nat]
  /\ Bufferings \subseteq BOOLEAN

VARIABLES
  buffered,  \* does MPI_Isend complete before the message is received?
  count,     \* count[r]: bytes that r contributes
  pc,        \* pc[r]: where r is
  step,      \* step[r]: stride of the round
  send,      \* send[r]: KVTREE_MAP_COUNT, _RANKS and _RANK of r
  recv,      \* recv[r]: what the posted MPI_Irecv has got, if anything
  chan,      \* chan[s][d]: messages from s to d that are not yet received
  writer,    \* writer[r]: *outwriter
  allranks   \* allranks[r]: *outallranks

vars == <<buffered, count, pc, step, send, recv, chan, writer, allranks>>

MPI_PROC_NULL == -1

Msg    == [count : Nat, ranks : Nat, rank : Rank \cup {MPI_PROC_NULL}]
NoMsg  == [count |-> 0, ranks |-> 0, rank |-> MPI_PROC_NULL]

-----------------------------------------------------------------------------
Init ==
  /\ buffered \in Bufferings
  /\ count \in Counts
  /\ pc = [r \in Rank |-> "offset"]
  /\ step = [r \in Rank |-> 1]
  /\ send = [r \in Rank |-> NoMsg]
  /\ recv = [r \in Rank |-> NoMsg]
  /\ chan = [s \in Rank |-> [d \in Rank |-> <<>>]]
  /\ writer = [r \in Rank |-> MPI_PROC_NULL]
  /\ allranks = [r \in Rank |-> FALSE]

\* Mutant: ranks are counted from 1.
StartOneBased(r) ==
  LET new == StartsNew(count, r) IN
  /\ pc[r] = "offset"
  /\ send' = [send EXCEPT ![r] = [count |-> IF new THEN 1 ELSE 0,
                                  ranks |-> 1,
                                  rank  |-> IF new THEN r + 1 ELSE MPI_PROC_NULL]]
  /\ pc' = [pc EXCEPT ![r] = "round"]
  /\ UNCHANGED <<buffered, count, step, recv, chan, writer, allranks>>

\* MPI_Scan gives the offset; the rank knows whether it starts a segment.
Start(r) ==
  LET new == StartsNew(count, r) IN
  /\ pc[r] = "offset"
  /\ send' = [send EXCEPT ![r] = [count |-> IF new THEN 1 ELSE 0,
                                  ranks |-> 1,
                                  rank  |-> IF new THEN r ELSE MPI_PROC_NULL]]
  /\ pc' = [pc EXCEPT ![r] = "round"]
  /\ UNCHANGED <<buffered, count, step, recv, chan, writer, allranks>>

HasLeft(r)  == r - step[r] >= 0
HasRight(r) == r + step[r] < N

\* Post the receive from the left and the send to the right partner.
Post(r) ==
  /\ pc[r] = "round"
  /\ step[r] < N
  /\ chan' = IF HasRight(r)
             THEN [chan EXCEPT ![r][r + step[r]] = Append(@, send[r])]
             ELSE chan
  /\ pc' = [pc EXCEPT ![r] = "wait"]
  /\ UNCHANGED <<buffered, count, step, send, recv, writer, allranks>>

\* The posted MPI_Irecv matches the next message of the left partner.
Receive(r) ==
  /\ pc[r] = "wait"
  /\ HasLeft(r)
  /\ recv[r] = NoMsg
  /\ chan[r - step[r]][r] # <<>>
  /\ recv' = [recv EXCEPT ![r] = Head(chan[r - step[r]][r])]
  /\ chan' = [chan EXCEPT ![r - step[r]][r] = Tail(@)]
  /\ UNCHANGED <<buffered, count, pc, step, send, writer, allranks>>

\* Mutant: MPI_Waitall waits for the send only.
WaitallSendOnly(r) ==
  HasRight(r) => buffered \/ chan[r][r + step[r]] = <<>>

\* MPI_Waitall returns: what was posted has completed.
Waitall(r) ==
  /\ HasLeft(r) => recv[r] # NoMsg
  /\ HasRight(r) => buffered \/ chan[r][r + step[r]] = <<>>

\* Mutant: the ranks of the left partner are counted although a segment starts
\* here.
CombineCountsAll(mine, left) ==
  [count |-> mine.count + left.count,
   ranks |-> mine.ranks + left.ranks,
   rank  |-> IF mine.rank = MPI_PROC_NULL THEN left.rank ELSE mine.rank]

\* The reduction: a rank that knows its writer takes only the count.
Combine(mine, left) ==
  IF mine.rank = MPI_PROC_NULL
  THEN [count |-> mine.count + left.count,
        ranks |-> mine.ranks + left.ranks,
        rank  |-> left.rank]
  ELSE [mine EXCEPT !.count = @ + left.count]

\* Merge the data of the left partner and go to the next round.
Merge(r) ==
  /\ pc[r] = "wait"
  /\ Waitall(r)
  /\ send' = [send EXCEPT ![r] = IF HasLeft(r) THEN Combine(@, recv[r]) ELSE @]
  /\ recv' = [recv EXCEPT ![r] = NoMsg]
  /\ step' = [step EXCEPT ![r] = 2 * @]
  /\ pc' = [pc EXCEPT ![r] = "round"]
  /\ UNCHANGED <<buffered, count, chan, writer, allranks>>

\* The loop is over: the rank has its writer and enters MPI_Bcast.
Output(r) ==
  /\ pc[r] = "round"
  /\ step[r] >= N
  /\ writer' = [writer EXCEPT ![r] = send[r].rank]
  /\ allranks' = [allranks EXCEPT ![r] = (send[r].ranks = N)]
  /\ pc' = [pc EXCEPT ![r] = "bcast"]
  /\ UNCHANGED <<buffered, count, step, send, recv, chan>>

\* Mutants: ranks go on until one writer is left; the broadcast comes from rank 0.
BcastUntilAll(r) ==
  /\ pc[r] = "bcast"
  /\ pc[N - 1] \in {"bcast", "done"}
  /\ allranks' = [allranks EXCEPT ![r] = allranks[N - 1]]
  /\ pc' = [pc EXCEPT ![r] = IF allranks[N - 1] THEN "done" ELSE "round"]
  /\ UNCHANGED <<buffered, count, step, send, recv, chan, writer>>

BcastFromZero(r) ==
  /\ pc[r] = "bcast"
  /\ pc[0] \in {"bcast", "done"}
  /\ allranks' = [allranks EXCEPT ![r] = allranks[0]]
  /\ pc' = [pc EXCEPT ![r] = "done"]
  /\ UNCHANGED <<buffered, count, step, send, recv, chan, writer>>

\* MPI_Bcast from the last rank, the only one that knows the total.
Bcast(r) ==
  /\ pc[r] = "bcast"
  /\ pc[N - 1] \in {"bcast", "done"}
  /\ allranks' = [allranks EXCEPT ![r] = allranks[N - 1]]
  /\ pc' = [pc EXCEPT ![r] = "done"]
  /\ UNCHANGED <<buffered, count, step, send, recv, chan, writer>>

-----------------------------------------------------------------------------
Step(r) == \/ Start(r) \/ Post(r) \/ Receive(r) \/ Merge(r) \/ Output(r)
           \/ Bcast(r)

Done == \A r \in Rank : pc[r] = "done"

Next == (\E r \in Rank : Step(r)) \/ (Done /\ UNCHANGED vars)

Spec == Init /\ [][Next]_vars

\* Every rank of a collective call keeps running.
FairSpec == Spec /\ \A r \in Rank : WF_vars(Step(r))

-----------------------------------------------------------------------------
(* Properties. *)

\* The variables have their types.
TypeOK ==
  /\ buffered \in BOOLEAN
  /\ count \in [Rank -> Nat]
  /\ pc \in [Rank -> {"offset", "round", "wait", "bcast", "done"}]
  /\ step \in [Rank -> Nat \ {0}]
  /\ send \in [Rank -> Msg]
  /\ recv \in [Rank -> Msg]
  /\ chan \in [Rank -> [Rank -> Seq(Msg)]]
  /\ writer \in [Rank -> Rank \cup {MPI_PROC_NULL}]
  /\ allranks \in [Rank -> BOOLEAN]

\* The ranks that r has heard of when its stride is w, and which of them start
\* a segment if c are the byte counts.
Window(r, w) == {q \in Rank : r - w < q /\ q <= r}
Starters(c, r, w) == {q \in Window(r, w) : StartsNew(c, q)}

\* What a scan over that window yields.
Scan(c, r, w) ==
  LET new == Starters(c, r, w) IN
  [count |-> Cardinality(new),
   ranks |-> IF new = {} THEN Cardinality(Window(r, w)) ELSE r - Max(new) + 1,
   rank  |-> IF new = {} THEN MPI_PROC_NULL ELSE Max(new)]

\* The segmented scan of pick_writer: whatever the other ranks are ahead or
\* behind, before its round with stride w a rank knows exactly the result over
\* the w ranks up to itself; nothing is merged twice, in a wrong round or from
\* beyond the start of its segment.
ScanWindow == \A r \in Rank : pc[r] # "offset" => send[r] = Scan(count, r, step[r])

\* The ranks agree on the cut into segments: each one has the closest starter at
\* or before it, so a writer is its own writer and the ranks of a segment are
\* adjacent; and all know whether rank 0 has everything (*outallranks, which ends
\* the recursion of kvtree_write_gather_map on all ranks or on none).
WritersAgree ==
  /\ \A r \in Rank : pc[r] \in {"bcast", "done"} => writer[r] = WriterOf(count, r)
  /\ \A r \in Rank : pc[r] = "done" =>
       allranks[r] = (\A q \in Rank : WriterOf(count, q) = 0)

\* No message is left for the exchange that follows on the same communicator and
\* tag: what a rank has not received when it is done was not sent to it.
NoMessageLeft ==
  \A r \in Rank : pc[r] \in {"bcast", "done"} => \A s \in Rank : chan[s][r] = <<>>

\* pick_writer returns on every rank.
Returns == <>Done

\* kvtree_mpi_io.c:284, "pick our writer so that we send roughly 1MB of data to
\* each", and gatherscatter.rst:41: when no rank has more than a segment of its
\* own, no writer is given more than two.
SegmentBounded ==
  (\A r \in Rank : count[r] <= SegSize) =>
    \A w \in Rank : Done =>
      SumFunctionOnSet(count, {r \in Rank : writer[r] = w}) <= 2 * SegSize

=============================================================================
