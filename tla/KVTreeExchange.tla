--------------------------- MODULE KVTreeExchange ---------------------------
(***************************************************************************)
(* kvtree_exchange and kvtree_exchange_direction (kvtree_mpi.c): the ranks *)
(* of a communicator exchange kvtrees with Bruck's index algorithm, over   *)
(* kvtree_sendrecv, which first exchanges pack sizes and then the packed   *)
(* trees on the same communicator and tag.  kvtree_send and kvtree_recv    *)
(* use that tag too: in two of the modes a point-to-point transfer or a    *)
(* kvtree_bcast precedes the exchange, and ranks that have no part in it   *)
(* are ahead in the exchange.                                              *)
(*                                                                         *)
(* The tree that rank s sends to rank d is the item <<s, d>>.  A "D"/"S"   *)
(* kvtree is the set of the items in it, so kvtree_merge is union.  MPI is *)
(* a FIFO channel per ordered pair of ranks (messages of one pair, tag and *)
(* communicator do not overtake).                                          *)
(***************************************************************************)
EXTENDS Integers, Sequences, FiniteSets, FiniteSetsExt

CONSTANTS
  N,         \* number of ranks in the communicator
  Inputs,    \* the send kvtrees to consider: input[r] is r's set of destinations
  Modes,     \* the calls to consider, see mode below
  Buffered   \* does MPI_Isend complete before the message is received?

Rank == 0 .. N - 1

ASSUME ExchangeAssumption ==
  /\ N \in Nat \ {0}
  /\ Inputs \subseteq [Rank -> SUBSET Rank]
  /\ Modes \subseteq {"exchange", "left", "right", "send", "bcast"}
  /\ Modes \cap {"send", "bcast"} # {} => N > 1
  /\ Buffered \in BOOLEAN

\* step *= 2 and bit <<= 1 are powers of two.  (A law of arithmetic: it is named for the
\* proofs, whose provers know ^ of numbers only.)
ASSUME PowerAssumption == \A k \in 0 .. N : 2^(k + 1) = 2 * 2^k

VARIABLES
  input,      \* input[r]: destinations in the send kvtree of r
  mode,       \* "exchange", or the direction given to kvtree_exchange_direction,
              \* or the call before an exchange to the right
  got,        \* got[r]: items that kvtree_recv or kvtree_bcast gave r
  pc,         \* pc[r]: where r is
  dir,        \* dir[r]: direction of the pass r is in
  hops,       \* hops[r][d]: hop limit of the pass in direction d, -1 for none
  right_in,   \* right_in[r]: items kvtree_exchange put in its right hash
  hop_count,  \* hop_count[r]: rounds done in this pass
  current,    \* current[r]: items r holds, the keep hash inside a round
  out,        \* out[r]: items merged into the receive kvtree of r
  inbox,      \* inbox[r]: the message the posted MPI_Irecv has got, if any
  size_recv,  \* size_recv[r]: the pack size received in this round
  sending,    \* sending[r]: items of this round's send hash
  chan        \* chan[s][d]: messages from s to d that are not yet received

vars == <<input, mode, got, pc, dir, hops, right_in, hop_count, current, out, inbox,
          size_recv, sending, chan>>

Items == Rank \X Rank

\* Mutant: the count at the head of the packed form is subtracted.
PackSizeNoCount(items) == Cardinality(items) - 1

\* kvtree_pack_size of a "D"/"S" kvtree: never 0, an empty tree packs its count.
PackSize(items) == 1 + Cardinality(items)

\* The two messages of a transfer.  A kvtree of more than INT_MAX bytes, for which
\* kvtree_sendrecv, kvtree_send and kvtree_bcast abort the job before they send, is
\* left out.
SizeMsg(items) == [type |-> "size", size |-> PackSize(items), items |-> {}]
DataMsg(items) == [type |-> "data", size |-> PackSize(items), items |-> items]
NoMsg          == [type |-> "none", size |-> 0, items |-> {}]

\* Distance from r to d going in direction dr.
Dist(r, d, dr) == (IF dr = "right" THEN d - r ELSE r - d) % N

\* dist & 2^k
BitSet(dist, k) == (dist \div 2^k) % 2 = 1

\* The rounds in which an item at this distance moves.
MoveRounds(dist) == {k \in 0 .. N : 2^k < N /\ BitSet(dist, k)}

\* Mutant: rounds are counted from zero.
StepsOfFromZero(dist) == IF MoveRounds(dist) = {} THEN 0 ELSE Max(MoveRounds(dist))

\* Hops the item makes, and the number of rounds until its last hop.
HopsOf(dist)  == Cardinality(MoveRounds(dist))
StepsOf(dist) == IF MoveRounds(dist) = {} THEN 0 ELSE Max(MoveRounds(dist)) + 1

-----------------------------------------------------------------------------
\* What a rank calls first.
FirstCall(m, r) ==
  CASE m = "exchange" -> "split"
    [] m = "bcast" -> "bcast"
    [] m = "send" /\ r = 0 -> "send"
    [] m = "send" /\ r = N - 1 -> "recv"
    [] OTHER -> "round"

Init ==
  /\ input \in Inputs
  /\ mode \in Modes
  /\ got = [r \in Rank |-> {}]
  /\ pc = [r \in Rank |-> FirstCall(mode, r)]
  /\ dir = [r \in Rank |-> IF mode \in {"exchange", "left"} THEN "left" ELSE "right"]
  /\ hops = [r \in Rank |-> [left |-> -1, right |-> -1]]
  /\ right_in = [r \in Rank |-> {}]
  /\ hop_count = [r \in Rank |-> 0]
  /\ current = [r \in Rank |-> IF mode = "exchange" THEN {} ELSE {r} \X input[r]]
  /\ out = [r \in Rank |-> {}]
  /\ inbox = [r \in Rank |-> NoMsg]
  /\ size_recv = [r \in Rank |-> 0]
  /\ sending = [r \in Rank |-> {}]
  /\ chan = [s \in Rank |-> [d \in Rank |-> <<>>]]

\* kvtree_exchange sends an item left if that takes fewer hops, else right.
GoesLeft(r, d) == HopsOf(Dist(r, d, "left")) < HopsOf(Dist(r, d, "right"))

\* Mutant: hops taken for steps.
StepsNeededHops(r, ds, dr) == Max({0} \cup {HopsOf(Dist(r, d, dr)) : d \in ds})

\* The largest number of rounds any of these items needs.
StepsNeeded(r, ds, dr) == Max({0} \cup {StepsOf(Dist(r, d, dr)) : d \in ds})

\* kvtree_exchange up to MPI_Allreduce: split the send hash by direction.
Split(r) ==
  LET lefts == {d \in input[r] : GoesLeft(r, d)} IN
  /\ pc[r] = "split"
  /\ current' = [current EXCEPT ![r] = {r} \X lefts]
  /\ right_in' = [right_in EXCEPT ![r] = {r} \X (input[r] \ lefts)]
  /\ hops' = [hops EXCEPT ![r] =
                [left  |-> StepsNeeded(r, lefts, "left"),
                 right |-> StepsNeeded(r, input[r] \ lefts, "right")]]
  /\ pc' = [pc EXCEPT ![r] = "reduce"]
  /\ UNCHANGED <<input, mode, got, dir, hop_count, out, inbox, size_recv, sending, chan>>

\* MPI_Allreduce with MPI_MAX: r leaves it after every rank has entered it.
\* A rank that left before holds the maximum already, which changes no maximum.
Allreduce(r) ==
  /\ pc[r] = "reduce"
  /\ \A q \in Rank : pc[q] # "split"
  /\ hops' = [hops EXCEPT ![r] = [left  |-> Max({hops[q].left : q \in Rank}),
                                  right |-> Max({hops[q].right : q \in Rank})]]
  /\ pc' = [pc EXCEPT ![r] = "round"]
  /\ UNCHANGED <<input, mode, got, dir, right_in, hop_count, current, out, inbox,
                 size_recv, sending, chan>>

-----------------------------------------------------------------------------
(* kvtree_send from rank 0 to kvtree_recv on the last rank; kvtree_bcast from *)
(* rank 0.                                                                    *)

\* The kvtree that is sent: no destination of the exchange.
Sent == {<<0, N>>}

\* The first MPI_Send of kvtree_send, the second one, and its end.
SendSize(r) ==
  /\ pc[r] = "send"
  /\ chan' = [chan EXCEPT ![r][N - 1] = Append(@, SizeMsg(Sent))]
  /\ pc' = [pc EXCEPT ![r] = "sent_size"]
  /\ UNCHANGED <<input, mode, got, dir, hops, right_in, hop_count, current, out,
                 inbox, size_recv, sending>>

SendData(r) ==
  /\ pc[r] = "sent_size"
  /\ Buffered \/ chan[r][N - 1] = <<>>
  /\ chan' = [chan EXCEPT ![r][N - 1] = Append(@, DataMsg(Sent))]
  /\ pc' = [pc EXCEPT ![r] = "sent_data"]
  /\ UNCHANGED <<input, mode, got, dir, hops, right_in, hop_count, current, out,
                 inbox, size_recv, sending>>

SendReturns(r) ==
  /\ pc[r] = "sent_data"
  /\ Buffered \/ chan[r][N - 1] = <<>>
  /\ pc' = [pc EXCEPT ![r] = "round"]
  /\ UNCHANGED <<input, mode, got, dir, hops, right_in, hop_count, current, out,
                 inbox, size_recv, sending, chan>>

\* kvtree_recv has the size, and then the tree.
RecvSize(r) ==
  /\ pc[r] = "recv"
  /\ inbox[r] # NoMsg
  /\ size_recv' = [size_recv EXCEPT ![r] = inbox[r].size]
  /\ inbox' = [inbox EXCEPT ![r] = NoMsg]
  /\ pc' = [pc EXCEPT ![r] = "recv_data"]
  /\ UNCHANGED <<input, mode, got, dir, hops, right_in, hop_count, current, out,
                 sending, chan>>

RecvData(r) ==
  /\ pc[r] = "recv_data"
  /\ inbox[r] # NoMsg
  /\ got' = [got EXCEPT ![r] = inbox[r].items]
  /\ size_recv' = [size_recv EXCEPT ![r] = 0]
  /\ inbox' = [inbox EXCEPT ![r] = NoMsg]
  /\ pc' = [pc EXCEPT ![r] = "round"]
  /\ UNCHANGED <<input, mode, dir, hops, right_in, hop_count, current, out, sending,
                 chan>>

\* The two MPI_Bcast of kvtree_bcast.  A rank leaves one after rank 0 has
\* entered it.
BcastSize(r) ==
  /\ pc[r] = "bcast"
  /\ size_recv' = [size_recv EXCEPT ![r] = PackSize(Sent)]
  /\ pc' = [pc EXCEPT ![r] = "bcast_data"]
  /\ UNCHANGED <<input, mode, got, dir, hops, right_in, hop_count, current, out,
                 inbox, sending, chan>>

BcastData(r) ==
  /\ pc[r] = "bcast_data"
  /\ pc[0] # "bcast"
  /\ got' = [got EXCEPT ![r] = Sent]
  /\ size_recv' = [size_recv EXCEPT ![r] = 0]
  /\ pc' = [pc EXCEPT ![r] = "round"]
  /\ UNCHANGED <<input, mode, dir, hops, right_in, hop_count, current, out, inbox,
                 sending, chan>>

-----------------------------------------------------------------------------
(* kvtree_exchange_direction_hops and kvtree_sendrecv. *)

\* The condition of the while loop.
MoreRounds(r) == LET limit == hops[r][dir[r]] IN
                 2^hop_count[r] < N /\ (limit < 0 \/ hop_count[r] < limit)

Partner(r, dr) == (IF dr = "right" THEN r + 2^hop_count[r] ELSE r - 2^hop_count[r]) % N
Dst(r) == Partner(r, dir[r])
Src(r) == Partner(r, IF dir[r] = "right" THEN "left" ELSE "right")

Send(r, m) == chan' = [chan EXCEPT ![r][Dst(r)] = Append(@, m)]

Mine(r, items) == {i \in items : i[2] = r}

\* Mutant: everything far enough away is sent, not what has the bit set.
OutgoingFar(r) == {i \in current[r] \ Mine(r, current[r]) :
                     Dist(r, i[2], dir[r]) >= 2^hop_count[r]}

\* Items to send in this round.
Outgoing(r) == {i \in current[r] \ Mine(r, current[r]) :
                  BitSet(Dist(r, i[2], dir[r]), hop_count[r])}

\* Mutant: what has arrived leaves current without reaching the output.
StartRoundNoOutput(r) ==
  /\ pc[r] = "round"
  /\ MoreRounds(r)
  /\ sending' = [sending EXCEPT ![r] = Outgoing(r)]
  /\ current' = [current EXCEPT ![r] = (@ \ Mine(r, @)) \ Outgoing(r)]
  /\ Send(r, SizeMsg(Outgoing(r)))
  /\ pc' = [pc EXCEPT ![r] = "size"]
  /\ UNCHANGED <<input, mode, got, dir, hops, right_in, hop_count, out, inbox, size_recv>>

\* Start a round: deliver, split into send and keep, and post the pack sizes.
StartRound(r) ==
  /\ pc[r] = "round"
  /\ MoreRounds(r)
  /\ out' = [out EXCEPT ![r] = @ \cup Mine(r, current[r])]
  /\ sending' = [sending EXCEPT ![r] = Outgoing(r)]
  /\ current' = [current EXCEPT ![r] = (@ \ Mine(r, @)) \ Outgoing(r)]
  /\ Send(r, SizeMsg(Outgoing(r)))
  /\ pc' = [pc EXCEPT ![r] = "size"]
  /\ UNCHANGED <<input, mode, got, dir, hops, right_in, hop_count, inbox, size_recv>>

\* The rank that r receives from.
Source(r) == IF pc[r] \in {"recv", "recv_data"} THEN 0 ELSE Src(r)

\* MPI_Recv or the posted MPI_Irecv matches the next message from the source rank.
Receive(r) ==
  /\ pc[r] \in {"size", "data", "recv", "recv_data"}
  /\ inbox[r] = NoMsg
  /\ chan[Source(r)][r] # <<>>
  /\ inbox' = [inbox EXCEPT ![r] = Head(chan[Source(r)][r])]
  /\ chan' = [chan EXCEPT ![Source(r)][r] = Tail(@)]
  /\ UNCHANGED <<input, mode, got, pc, dir, hops, right_in, hop_count, current, out,
                 size_recv, sending>>

\* Mutant: only the send is waited for.
CompleteSendOnly(r) == Buffered \/ chan[r][Dst(r)] = <<>>

\* MPI_Waitall returns: the receive is complete, and the send too.
Complete(r) == inbox[r] # NoMsg /\ (Buffered \/ chan[r][Dst(r)] = <<>>)

\* The sizes are exchanged: post the packed trees.
PostData(r) ==
  /\ pc[r] = "size"
  /\ Complete(r)
  /\ size_recv' = [size_recv EXCEPT ![r] = inbox[r].size]
  /\ inbox' = [inbox EXCEPT ![r] = NoMsg]
  /\ Send(r, DataMsg(sending[r]))
  /\ pc' = [pc EXCEPT ![r] = "data"]
  /\ UNCHANGED <<input, mode, got, dir, hops, right_in, hop_count, current, out, sending>>

\* Mutants: what was kept is dropped; step and bit are not doubled.
EndRoundDropsKeep(r) ==
  /\ pc[r] = "data"
  /\ Complete(r)
  /\ current' = [current EXCEPT ![r] = inbox[r].items]
  /\ inbox' = [inbox EXCEPT ![r] = NoMsg]
  /\ sending' = [sending EXCEPT ![r] = {}]
  /\ size_recv' = [size_recv EXCEPT ![r] = 0]
  /\ hop_count' = [hop_count EXCEPT ![r] = @ + 1]
  /\ pc' = [pc EXCEPT ![r] = "round"]
  /\ UNCHANGED <<input, mode, got, dir, hops, right_in, out, chan>>

EndRoundSameStep(r) ==
  /\ pc[r] = "data"
  /\ Complete(r)
  /\ current' = [current EXCEPT ![r] = @ \cup inbox[r].items]
  /\ inbox' = [inbox EXCEPT ![r] = NoMsg]
  /\ sending' = [sending EXCEPT ![r] = {}]
  /\ size_recv' = [size_recv EXCEPT ![r] = 0]
  /\ pc' = [pc EXCEPT ![r] = "round"]
  /\ UNCHANGED <<input, mode, got, dir, hops, right_in, hop_count, out, chan>>

\* The trees are exchanged: unpack, merge into keep, next round.
EndRound(r) ==
  /\ pc[r] = "data"
  /\ Complete(r)
  /\ current' = [current EXCEPT ![r] = @ \cup inbox[r].items]
  /\ inbox' = [inbox EXCEPT ![r] = NoMsg]
  /\ sending' = [sending EXCEPT ![r] = {}]
  /\ size_recv' = [size_recv EXCEPT ![r] = 0]
  /\ hop_count' = [hop_count EXCEPT ![r] = @ + 1]
  /\ pc' = [pc EXCEPT ![r] = "round"]
  /\ UNCHANGED <<input, mode, got, dir, hops, right_in, out, chan>>

\* Mutant: the exchange ends after the pass to the left.
EndPassLeftOnly(r) ==
  /\ pc[r] = "round"
  /\ ~MoreRounds(r)
  /\ out' = [out EXCEPT ![r] = @ \cup Mine(r, current[r])]
  /\ pc' = [pc EXCEPT ![r] = "done"]
  /\ current' = [current EXCEPT ![r] = {}]
  /\ UNCHANGED <<input, mode, got, dir, hops, right_in, hop_count, inbox, size_recv,
                 sending, chan>>

\* The pass is over: deliver what is left for r and drop the current hash.
\* kvtree_exchange goes on with its right hash.
EndPass(r) ==
  /\ pc[r] = "round"
  /\ ~MoreRounds(r)
  /\ out' = [out EXCEPT ![r] = @ \cup Mine(r, current[r])]
  /\ IF mode = "exchange" /\ dir[r] = "left"
     THEN /\ dir' = [dir EXCEPT ![r] = "right"]
          /\ current' = [current EXCEPT ![r] = right_in[r]]
          /\ right_in' = [right_in EXCEPT ![r] = {}]
          /\ hop_count' = [hop_count EXCEPT ![r] = 0]
          /\ UNCHANGED pc
     ELSE /\ pc' = [pc EXCEPT ![r] = "done"]
          /\ current' = [current EXCEPT ![r] = {}]
          /\ UNCHANGED <<dir, right_in, hop_count>>
  /\ UNCHANGED <<input, mode, got, hops, inbox, size_recv, sending, chan>>

-----------------------------------------------------------------------------
Step(r) == \/ Split(r) \/ Allreduce(r) \/ StartRound(r) \/ Receive(r)
           \/ PostData(r) \/ EndRound(r) \/ EndPass(r)
           \/ SendSize(r) \/ SendData(r) \/ SendReturns(r) \/ RecvSize(r) \/ RecvData(r)
           \/ BcastSize(r) \/ BcastData(r)

Done == \A r \in Rank : pc[r] = "done"

Next == (\E r \in Rank : Step(r)) \/ (Done /\ UNCHANGED vars)

Spec == Init /\ [][Next]_vars

\* Every rank of a collective call keeps running.
FairSpec == Spec /\ \A r \in Rank : WF_vars(Step(r))

-----------------------------------------------------------------------------
(* Properties. *)

\* The variables have their types: sizes that kvtree_sendrecv allocates are
\* never negative, and only items travel.
TypeOK ==
  /\ input \in [Rank -> SUBSET Rank]
  /\ mode \in {"exchange", "left", "right", "send", "bcast"}
  /\ got \in [Rank -> SUBSET Sent]
  /\ pc \in [Rank -> {"split", "reduce", "round", "size", "data", "done", "send",
                      "sent_size", "sent_data", "recv", "recv_data", "bcast", "bcast_data"}]
  /\ dir \in [Rank -> {"left", "right"}]
  /\ hops \in [Rank -> [left : Nat \cup {-1}, right : Nat \cup {-1}]]
  /\ right_in \in [Rank -> SUBSET Items]
  /\ hop_count \in [Rank -> Nat]
  /\ current \in [Rank -> SUBSET Items]
  /\ out \in [Rank -> SUBSET Items]
  /\ sending \in [Rank -> SUBSET Items]
  /\ size_recv \in [Rank -> Nat]

\* kvtree_sendrecv and kvtree_send use one tag for sizes and trees, and a
\* neighbour may be a round, a whole pass or a call ahead: still an MPI_Irecv for
\* a size gets a size, and one for a tree gets the tree that the size announced.
SizesAndTreesMatch ==
  \A r \in Rank : inbox[r] # NoMsg =>
    IF pc[r] \in {"size", "recv"} THEN inbox[r].type = "size"
    ELSE inbox[r].type = "data" /\ inbox[r].size = size_recv[r]

\* kvtree_mpi.c:371, "check that all items are really destined for this rank":
\* when a pass ends, by step >= ranks or by the hop limit that kvtree_exchange
\* computes, the rank is left with nothing that is not its own.
NothingStranded ==
  \A r \in Rank : pc[r] = "round" /\ ~MoreRounds(r) =>
    \A i \in current[r] : i[2] = r

\* Bruck's invariant: before round k an item is 2^k * m away from where it goes.
BruckDistance ==
  \A r \in Rank : pc[r] = "round" =>
    \A i \in current[r] : Dist(r, i[2], dir[r]) % 2^hop_count[r] = 0

\* Where the items of the send kvtrees are: with a rank, or in a message (the
\* send hash stays with the rank until its size has gone out).
Held(r) == current[r] \cup right_in[r] \cup out[r] \cup inbox[r].items
           \cup (IF pc[r] = "size" THEN sending[r] ELSE {})
           \cup UNION {UNION {chan[s][r][j].items : j \in DOMAIN chan[s][r]} : s \in Rank}

\* No tree is lost or delivered twice on its way: each one is in exactly one
\* place from the split to the end (merges and the final kvtree_delete of
\* current in kvtree_exchange_direction_hops).
ItemsConserved ==
  \A s \in Rank : pc[s] # "split" =>
    \A d \in input[s] :
      Cardinality({r \in Rank : <<s, d>> \in Held(r)}) = 1

\* The result of the collective: kvtree.h, each rank gets exactly the trees the
\* other ranks have sent to it, under the rank that sent them; and the receivers of
\* kvtree_send and kvtree_bcast have what was sent to them.
Delivered ==
  Done => \A d \in Rank :
    /\ out[d] = {i \in Items : i[2] = d /\ d \in input[i[1]]}
    /\ (mode = "send" /\ d = N - 1) \/ mode = "bcast" => got[d] = Sent

\* The collective ends on every rank: sends and receives never wait in a circle.
Terminates == <>Done

=============================================================================
