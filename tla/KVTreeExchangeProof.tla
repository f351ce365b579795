------------------------ MODULE KVTreeExchangeProof ------------------------
(***************************************************************************)
(* Proofs about KVTreeExchange for every number of ranks, all send         *)
(* kvtrees, every mode, and MPI with or without buffering.                 *)
(***************************************************************************)
EXTENDS KVTreeExchange, KVTreeNumbersProof

-----------------------------------------------------------------------------
(* Strides. *)

Dirs == {"left", "right"}

\* The number of ranks is positive.
LEMMA NIs == N \in Nat \ {0}
BY ExchangeAssumption

\* The stride of a round: a number greater than that of the round.
LEMMA PowerIs ==
  ASSUME NEW k \in 0 .. N + 1
  PROVE  2^k \in Nat \ {0} /\ k < 2^k
<1>1. DEFINE S == {j \in 0 .. N + 1 : ~(j < 2^j)}
<1>2. SUFFICES ASSUME S # {} PROVE FALSE
  BY NIs
<1>3. PICK m \in S : \A j \in S : m <= j
  <2>1. S \in SUBSET Nat
    BY NIs
  <2>2. QED
    BY <1>2, <2>1, LeastExists
<1>4. m \in 0 .. N + 1 /\ ~(m < 2^m)
  BY <1>3
<1>5. m # 0
  <2>1. ASSUME m = 0 PROVE ~(0 < 2^0)
    BY <1>4, <2>1, Zenon
  <2>2. 0 < 2^0
    OBVIOUS
  <2>3. QED
    BY <2>1, <2>2, Zenon
<1>6. m - 1 \in 0 .. N /\ (m - 1) + 1 = m
  BY <1>4, <1>5, NIs
<1>7. m - 1 < 2^(m - 1)
  BY <1>3, <1>6, NIs
<1>8. 2^m = 2 * 2^(m - 1)
  BY <1>6, PowerAssumption
<1>9. QED
  BY <1>4, <1>6, <1>7, <1>8

\* The stride of a round is at least the double of that of every earlier round.
LEMMA PowerGrows ==
  ASSUME NEW j \in 0 .. N + 1, NEW k \in 0 .. N + 1, j < k
  PROVE  2 * 2^j <= 2^k
<1>1. DEFINE S == {m \in 0 .. N + 1 : j < m /\ ~(2 * 2^j <= 2^m)}
<1>2. SUFFICES ASSUME S # {} PROVE FALSE
  BY NIs
<1>3. PICK m \in S : \A i \in S : m <= i
  <2>1. S \in SUBSET Nat
    BY NIs
  <2>2. QED
    BY <1>2, <2>1, LeastExists
<1>4. m \in 0 .. N + 1 /\ j < m /\ ~(2 * 2^j <= 2^m)
  BY <1>3
<1>5. m - 1 \in 0 .. N /\ (m - 1) + 1 = m
  BY <1>4, NIs
<1>6. 2^m = 2 * 2^(m - 1) /\ 2^(m - 1) \in Nat
  BY <1>5, PowerAssumption, PowerIs, NIs
<1>7. 2^j \in Nat
  BY PowerIs
<1>8. m - 1 # j
  BY <1>4, <1>6, <1>7
<1>9. 2 * 2^j <= 2^(m - 1)
  BY <1>3, <1>4, <1>5, <1>8, NIs
<1>10. QED
  BY <1>4, <1>6, <1>7, <1>9

\* Different rounds have different strides.
LEMMA PowerInjective ==
  ASSUME NEW j \in 0 .. N + 1, NEW k \in 0 .. N + 1, 2^j = 2^k
  PROVE  j = k
<1>1. 2^j \in Nat \ {0} /\ 2^k \in Nat \ {0} /\ j \in Nat /\ k \in Nat
  BY PowerIs, NIs
<1>2. ~(j < k) /\ ~(k < j)
  BY <1>1, PowerGrows
<1>3. QED
  BY <1>1, <1>2

\* A stride below the number of ranks is that of a round below it.
LEMMA RoundBelow ==
  ASSUME NEW k \in 0 .. N + 1, 2^k < N
  PROVE  k \in 0 .. N - 1 /\ k + 1 \in 0 .. N
BY PowerIs, NIs

-----------------------------------------------------------------------------
(* Distances on the ring of ranks. *)

\* dist and "if (dist < 0) dist += ranks".
LEMMA DistIs ==
  ASSUME NEW r \in Rank, NEW d \in Rank
  PROVE  /\ Dist(r, d, "right") = IF r <= d THEN d - r ELSE d - r + N
         /\ Dist(r, d, "left") = IF d <= r THEN r - d ELSE r - d + N
<1>1. N \in Nat \ {0} /\ r \in 0 .. N - 1 /\ d \in 0 .. N - 1
  BY NIs DEF Rank
<1>2. d - r \in Int /\ -N <= d - r /\ d - r < 2 * N /\ d - r < N
  BY <1>1
<1>3. r - d \in Int /\ -N <= r - d /\ r - d < 2 * N /\ r - d < N
  BY <1>1
<1>4. (d - r) % N = IF d - r < 0 THEN d - r + N ELSE d - r
  BY <1>1, <1>2, ModWrap
<1>5. (r - d) % N = IF r - d < 0 THEN r - d + N ELSE r - d
  BY <1>1, <1>3, ModWrap
<1>6. QED
  BY <1>1, <1>4, <1>5 DEF Dist

\* A distance is less than the number of ranks, and 0 only to the rank itself.
LEMMA DistType ==
  ASSUME NEW r \in Rank, NEW d \in Rank, NEW dr \in Dirs
  PROVE  Dist(r, d, dr) \in 0 .. N - 1 /\ (Dist(r, d, dr) = 0 <=> r = d)
<1>1. N \in Nat \ {0} /\ r \in 0 .. N - 1 /\ d \in 0 .. N - 1
  BY NIs DEF Rank
<1>2. CASE dr = "right"
  BY <1>1, <1>2, DistIs
<1>3. CASE dr = "left"
  BY <1>1, <1>3, DistIs
<1>4. QED
  BY <1>2, <1>3 DEF Dirs

\* Two ranks at the same distance from a third are the same.
LEMMA DistInjective ==
  ASSUME NEW r \in Rank, NEW q \in Rank, NEW d \in Rank, NEW dr \in Dirs
  PROVE  /\ Dist(r, d, dr) = Dist(q, d, dr) => r = q
         /\ Dist(d, r, dr) = Dist(d, q, dr) => r = q
<1>1. N \in Nat \ {0} /\ r \in 0 .. N - 1 /\ d \in 0 .. N - 1 /\ q \in 0 .. N - 1
  BY NIs DEF Rank
<1>2. CASE dr = "right"
  BY <1>1, <1>2, DistIs
<1>3. CASE dr = "left"
  BY <1>1, <1>3, DistIs
<1>4. QED
  BY <1>2, <1>3 DEF Dirs

\* The rank at a distance from r, and the one r is at that distance from.
At(r, dr, w)   == (IF dr = "right" THEN r + w ELSE r - w) % N
From(r, dr, w) == At(r, IF dr = "right" THEN "left" ELSE "right", w)

\* "left += ranks" and "right -= ranks": the partners of a round with stride w are ranks
\* at distance w, and sending over w brings an item w closer.
LEMMA AtIs ==
  ASSUME NEW r \in Rank, NEW dr \in Dirs, NEW w \in 1 .. N - 1
  PROVE  /\ At(r, dr, w) \in Rank /\ Dist(r, At(r, dr, w), dr) = w
         /\ From(r, dr, w) \in Rank /\ Dist(From(r, dr, w), r, dr) = w
<1>1. N \in Nat \ {0} /\ r \in 0 .. N - 1 /\ w \in 1 .. N - 1
  BY NIs DEF Rank
<1>2. r + w \in Int /\ -N <= r + w /\ r + w < 2 * N /\ ~(r + w < 0)
  BY <1>1
<1>3. r - w \in Int /\ -N <= r - w /\ r - w < 2 * N /\ r - w < N
  BY <1>1
<1>4. (r + w) % N = IF r + w < N THEN r + w ELSE r + w - N
  <2>1. PICK x \in Int : x = r + w
    BY <1>2
  <2>2. x % N = IF x < 0 THEN x + N ELSE IF x < N THEN x ELSE x - N
    BY <1>1, <1>2, <2>1, ModWrap
  <2>3. QED
    BY <1>1, <1>2, <2>1, <2>2
<1>5. (r - w) % N = IF r - w < 0 THEN r - w + N ELSE r - w
  BY <1>1, <1>3, ModWrap
<1>6. (r + w) % N \in Rank /\ (r - w) % N \in Rank
  BY <1>1, <1>4, <1>5 DEF Rank
<1>7. Dist(r, (r + w) % N, "right") = w /\ Dist((r - w) % N, r, "right") = w
  BY <1>1, <1>4, <1>5, <1>6, DistIs
<1>8. Dist(r, (r - w) % N, "left") = w /\ Dist((r + w) % N, r, "left") = w
  BY <1>1, <1>4, <1>5, <1>6, DistIs
<1>9. CASE dr = "right"
  BY <1>6, <1>7, <1>9 DEF At, From
<1>10. CASE dr = "left"
  BY <1>6, <1>8, <1>10 DEF At, From
<1>11. QED
  BY <1>9, <1>10 DEF Dirs

\* Going w closer to a rank that is at least w away.
LEMMA DistCloser ==
  ASSUME NEW r \in Rank, NEW q \in Rank, NEW d \in Rank, NEW dr \in Dirs,
         Dist(r, q, dr) <= Dist(r, d, dr)
  PROVE  Dist(q, d, dr) = Dist(r, d, dr) - Dist(r, q, dr)
<1>1. N \in Nat \ {0} /\ r \in 0 .. N - 1 /\ d \in 0 .. N - 1 /\ q \in 0 .. N - 1
  BY NIs DEF Rank
<1>2. CASE dr = "right"
  BY <1>1, <1>2, DistIs
<1>3. CASE dr = "left"
  BY <1>1, <1>3, DistIs
<1>4. QED
  BY <1>2, <1>3 DEF Dirs

-----------------------------------------------------------------------------
(* Items on their way. *)

\* The largest step that kvtree_exchange finds for a distance: after that many rounds
\* the stride is beyond the distance.
LEMMA StepsOfIs ==
  ASSUME NEW x \in 0 .. N - 1
  PROVE  /\ StepsOf(x) \in 0 .. N + 1
         /\ \A k \in 0 .. N : StepsOf(x) <= k => x < 2^k
<1>1. N \in Nat \ {0} /\ x \in Nat /\ x < N
  BY NIs
<1>2. MoveRounds(x) \in SUBSET Nat /\ \A j \in MoveRounds(x) : j <= N
  BY <1>1 DEF MoveRounds
<1>3. ASSUME MoveRounds(x) # {}
      PROVE  /\ Max(MoveRounds(x)) \in 0 .. N
             /\ \A j \in MoveRounds(x) : j <= Max(MoveRounds(x))
  <2>1. Max(MoveRounds(x)) \in MoveRounds(x)
        /\ \A j \in MoveRounds(x) : j <= Max(MoveRounds(x))
    BY <1>1, <1>2, <1>3, MaxIsGreatest
  <2>2. QED
    BY <1>1, <1>2, <2>1
<1>4. StepsOf(x) \in 0 .. N + 1
  BY <1>1, <1>3 DEF StepsOf
<1>5. ASSUME NEW k \in 0 .. N, StepsOf(x) <= k, ~(x < 2^k)
      PROVE  FALSE
  <2>1. DEFINE S == {j \in 0 .. N + 1 : x < 2^j}
  <2>2. S \in SUBSET Nat /\ N + 1 \in S
    <3>1. N + 1 \in 0 .. N + 1
      BY <1>1
    <3>2. N + 1 < 2^(N + 1) /\ 2^(N + 1) \in Nat
      BY <3>1, PowerIs
    <3>3. QED
      BY <1>1, <3>1, <3>2
  <2>3. PICK m \in S : \A j \in S : m <= j
    <3>1. S # {}
      BY <2>2
    <3>2. QED
      BY <2>2, <3>1, LeastExists
  <2>4. m \in 0 .. N + 1 /\ x < 2^m
    BY <2>3
  <2>5. k \in 0 .. N + 1 /\ 2^k \in Nat /\ 2^m \in Nat
    BY <1>1, <2>4, PowerIs
  <2>6. k < m
    <3>1. ASSUME m < k PROVE FALSE
      <4>1. 2 * 2^m <= 2^k
        BY <2>4, <2>5, <3>1, PowerGrows
      <4>2. QED
        BY <1>1, <1>5, <2>4, <2>5, <4>1
    <3>2. m # k
      BY <1>5, <2>4
    <3>3. QED
      BY <1>1, <2>4, <3>1, <3>2
  <2>7. PICK j \in 0 .. N : j = m - 1
    BY <1>1, <2>4, <2>6
  <2>8. 2^m = 2 * 2^j /\ 2^j \in Nat \ {0}
    <3>1. j + 1 = m /\ j \in 0 .. N + 1
      BY <1>1, <2>4, <2>7
    <3>2. QED
      BY <3>1, PowerAssumption, PowerIs
  <2>9. ~(x < 2^j)
    BY <1>1, <2>3, <2>4, <2>7
  <2>10. x \div 2^j = 1
    <3>1. PICK w \in Nat \ {0} : w = 2^j
      BY <2>8
    <3>2. w <= x /\ x < 2 * w
      BY <1>1, <2>4, <2>8, <2>9, <3>1
    <3>3. x \div w = 1
      BY ONLY <3>2, x \in Nat, w \in Nat \ {0}
    <3>4. QED
      BY <3>1, <3>3
  <2>11. j \in MoveRounds(x)
    <3>1. 2^j < N
      BY <1>1, <2>8, <2>9
    <3>2. BitSet(x, j)
      <4>1. 1 % 2 = 1
        OBVIOUS
      <4>2. QED
        BY <2>10, <4>1, Zenon DEF BitSet
    <3>3. QED
      BY <3>1, <3>2 DEF MoveRounds
  <2>12. StepsOf(x) >= j + 1
    BY <1>1, <1>3, <2>11 DEF StepsOf
  <2>13. QED
    BY <1>1, <1>4, <1>5, <2>6, <2>7, <2>12
<1>6. QED
  BY <1>4, <1>5

\* The items of the send kvtrees of all ranks.
Sends(inp) == {i \in Items : i[2] \in inp[i[1]]}

\* The pass that takes the item.
Way(m, i) ==
  IF m = "exchange" THEN IF GoesLeft(i[1], i[2]) THEN "left" ELSE "right"
  ELSE IF m = "left" THEN "left" ELSE "right"

\* Before round k of its pass an item is where the rounds before have brought it: the low k
\* bits of its distance are gone.
Here(inp, m, i, r, dr, k) ==
  /\ i \in Sends(inp)
  /\ Way(m, i) = dr
  /\ Dist(r, i[2], dr) = Dist(i[1], i[2], dr) - (Dist(i[1], i[2], dr) % 2^k)

AllHere(inp, m, items, r, dr, k) == \A i \in items : Here(inp, m, i, r, dr, k)

\* Items, and the pass of an item.
LEMMA SendsIs ==
  ASSUME NEW inp, NEW m, NEW i \in Sends(inp)
  PROVE  /\ i \in Items /\ i[1] \in Rank /\ i[2] \in Rank /\ i = <<i[1], i[2]>>
         /\ i[2] \in inp[i[1]] /\ Way(m, i) \in Dirs
BY DEF Sends, Items, Way, Dirs

\* Every item is with the rank that sends it before the first round.
LEMMA HereFirst ==
  ASSUME NEW inp, NEW m, NEW i \in Sends(inp)
  PROVE  Here(inp, m, i, i[1], Way(m, i), 0)
<1>1. i[1] \in Rank /\ i[2] \in Rank /\ Way(m, i) \in Dirs
  BY SendsIs
<1>2. Dist(i[1], i[2], Way(m, i)) \in Nat
  BY <1>1, DistType, NIs
<1>3. PICK x \in Nat : x = Dist(i[1], i[2], Way(m, i))
  BY <1>2
<1>4. x - (x % 2^0) = x
  OBVIOUS
<1>5. QED
  BY <1>3, <1>4 DEF Here

\* What a rank holds before the first round is its own.
LEMMA HereFirstOwn ==
  ASSUME NEW inp, NEW m, NEW i, NEW r \in Rank, NEW dr \in Dirs, Here(inp, m, i, r, dr, 0)
  PROVE  i[1] = r
<1>1. i[1] \in Rank /\ i[2] \in Rank
  BY SendsIs DEF Here
<1>2. PICK x \in Nat : x = Dist(i[1], i[2], dr)
  BY <1>1, DistType, NIs
<1>3. x - (x % 2^0) = x
  OBVIOUS
<1>4. Dist(r, i[2], dr) = Dist(i[1], i[2], dr)
  BY <1>2, <1>3 DEF Here
<1>5. QED
  BY <1>1, <1>4, DistInjective

\* Bruck's invariant, and "dist & bit" of a round: an item with the bit set is one stride
\* or more away, and a stride further it is where it has to be for the next round; an
\* item with the bit clear is there already.
LEMMA HereNext ==
  ASSUME NEW inp, NEW m, NEW i, NEW r \in Rank, NEW dr \in Dirs, NEW k \in 0 .. N, 2^k < N,
         Here(inp, m, i, r, dr, k)
  PROVE  /\ Dist(r, i[2], dr) % 2^k = 0
         /\ BitSet(Dist(r, i[2], dr), k) => Here(inp, m, i, At(r, dr, 2^k), dr, k + 1)
         /\ ~BitSet(Dist(r, i[2], dr), k) => Here(inp, m, i, r, dr, k + 1)
<1>1. i \in Sends(inp) /\ i[1] \in Rank /\ i[2] \in Rank
  BY SendsIs DEF Here
<1>2. PICK w \in Nat \ {0} : w = 2^k
  BY PowerIs, NIs
<1>3. w \in 1 .. N - 1
  BY <1>2, NIs
<1>4. 2^(k + 1) = 2 * w
  BY <1>2, PowerAssumption
<1>5. PICK x \in Nat : x = Dist(i[1], i[2], dr)
  BY <1>1, DistType, NIs
<1>6. PICK u : u = Dist(r, i[2], dr)
  OBVIOUS
<1>7. u = x - (x % w)
  BY <1>2, <1>5, <1>6 DEF Here
<1>8. /\ u \in Nat /\ u % w = 0
      /\ (u \div w) % 2 = 1 => u >= w /\ x - (x % (2 * w)) = u - w
      /\ (u \div w) % 2 # 1 => x - (x % (2 * w)) = u
  BY <1>7, UpperPart
<1>9. ASSUME BitSet(u, k)
      PROVE  Here(inp, m, i, At(r, dr, w), dr, k + 1)
  <2>1. u >= w /\ x - (x % (2 * w)) = u - w
    BY <1>2, <1>8, <1>9 DEF BitSet
  <2>2. At(r, dr, w) \in Rank /\ Dist(r, At(r, dr, w), dr) = w
    BY <1>3, AtIs
  <2>3. Dist(At(r, dr, w), i[2], dr) = u - w
    BY <1>1, <1>6, <1>8, <2>1, <2>2, DistCloser
  <2>4. QED
    BY <1>1, <1>4, <1>5, <2>1, <2>3 DEF Here
<1>10. ASSUME ~BitSet(u, k)
       PROVE  Here(inp, m, i, r, dr, k + 1)
  <2>1. x - (x % (2 * w)) = u
    BY <1>2, <1>8, <1>10 DEF BitSet
  <2>2. QED
    BY <1>1, <1>4, <1>5, <1>6, <2>1 DEF Here
<1>11. QED
  BY <1>2, <1>6, <1>8, <1>9, <1>10

\* Once the stride is beyond its distance an item has arrived.
LEMMA HereLast ==
  ASSUME NEW inp, NEW m, NEW i, NEW r \in Rank, NEW dr \in Dirs, NEW k \in 0 .. N + 1,
         Here(inp, m, i, r, dr, k), Dist(i[1], i[2], dr) < 2^k
  PROVE  i[2] = r
<1>1. i[1] \in Rank /\ i[2] \in Rank
  BY SendsIs DEF Here
<1>2. PICK x \in Nat, w \in Nat \ {0} : x = Dist(i[1], i[2], dr) /\ w = 2^k
  BY <1>1, DistType, PowerIs, NIs
<1>3. x - (x % w) = 0
  BY <1>2, BelowNoUpper
<1>4. Dist(r, i[2], dr) = 0
  BY <1>2, <1>3 DEF Here
<1>5. QED
  BY <1>1, <1>4, DistType

-----------------------------------------------------------------------------
(* Messages and channels. *)

\* What is packed: a set of items, or the tree of kvtree_send.
Trees == SUBSET (Items \cup Sent)

Msg == {SizeMsg(x) : x \in Trees} \cup {DataMsg(x) : x \in Trees}

\* The first and the second message that carry a tree.
Message(x, n) == IF n = 1 THEN SizeMsg(x) ELSE DataMsg(x)

\* kvtree_pack_size is positive.
LEMMA PackSizeType ==
  ASSUME NEW x \in Trees
  PROVE  PackSize(x) \in Nat \ {0}
<1>1. IsFiniteSet(Rank)
  <2>1. 0 \in Int /\ N - 1 \in Int
    BY NIs
  <2>2. QED
    BY <2>1, FS_Interval DEF Rank
<1>2. IsFiniteSet(Items)
  BY <1>1, FS_Product DEF Items
<1>3. IsFiniteSet(Sent)
  BY FS_Singleton DEF Sent
<1>4. IsFiniteSet(Items \cup Sent)
  BY <1>2, <1>3, FS_Union
<1>5. IsFiniteSet(x)
  BY <1>4, FS_Subset DEF Trees
<1>6. Cardinality(x) \in Nat
  BY <1>5, FS_CardinalityType
<1>7. QED
  BY <1>6 DEF PackSize

\* The fields of a message.
LEMMA MessageIs ==
  ASSUME NEW x \in Trees, NEW n \in 1 .. 2
  PROVE  /\ Message(x, n) \in Msg /\ Message(x, n) # NoMsg
         /\ Message(x, n).size = PackSize(x) /\ Message(x, n).size \in Nat
         /\ n = 1 => Message(x, n).type = "size" /\ Message(x, n).items = {}
         /\ n = 2 => Message(x, n).type = "data" /\ Message(x, n).items = x
<1>1. PackSize(x) \in Nat
  BY PackSizeType
<1>2. Message(x, n) \in Msg
  BY DEF Message, Msg
<1>3. CASE n = 1
  BY <1>1, <1>2, <1>3 DEF Message, SizeMsg, NoMsg
<1>4. CASE n = 2
  BY <1>1, <1>2, <1>4 DEF Message, DataMsg, NoMsg
<1>5. QED
  BY <1>3, <1>4

\* A channel with what is pending of two transfers, of tree xa and then of tree xb: pa and pb
\* messages of them have been posted, ra and rb received.
Wire(q, pa, ra, xa, pb, rb, xb) ==
  /\ q \in Seq(Msg) /\ xa \in Trees /\ xb \in Trees
  /\ pa \in 0 .. 2 /\ ra \in 0 .. 2 /\ ra <= pa
  /\ pb \in 0 .. 2 /\ rb \in 0 .. 2 /\ rb <= pb
  /\ Len(q) = (pa - ra) + (pb - rb)
  /\ \A j \in 1 .. pa - ra : q[j] = Message(xa, ra + j)
  /\ \A j \in 1 .. pb - rb : q[(pa - ra) + j] = Message(xb, rb + j)

\* A channel without pending messages is empty.
LEMMA WireNone ==
  ASSUME NEW q, NEW pa, NEW ra, NEW xa, NEW pb, NEW rb, NEW xb,
         Wire(q, pa, ra, xa, pb, rb, xb), pa = ra, pb = rb
  PROVE  q = <<>>
BY DEF Wire

\* A message in the channel is pending in one of the transfers.
LEMMA WireSome ==
  ASSUME NEW q, NEW pa, NEW ra, NEW xa, NEW pb, NEW rb, NEW xb,
         Wire(q, pa, ra, xa, pb, rb, xb), q # <<>>
  PROVE  ra < pa \/ rb < pb
BY DEF Wire

\* Posting the next message of the first transfer: nothing of the second one has been.
LEMMA WireSendA ==
  ASSUME NEW q, NEW pa, NEW ra, NEW xa, NEW xb, NEW x \in Trees,
         Wire(q, pa, ra, xa, 0, 0, xb), pa < 2, pa = 1 => x = xa
  PROVE  Wire(Append(q, Message(x, pa + 1)), pa + 1, ra, x, 0, 0, xb)
<1>1. /\ q \in Seq(Msg) /\ pa \in 0 .. 1 /\ ra \in 0 .. 1 /\ ra <= pa /\ xb \in Trees
      /\ Len(q) = pa - ra
      /\ \A j \in 1 .. pa - ra : q[j] = Message(xa, ra + j)
  BY DEF Wire
<1>2. PICK m \in Msg : m = Message(x, pa + 1)
  BY <1>1, MessageIs
<1>3. /\ Append(q, m) \in Seq(Msg) /\ Len(Append(q, m)) = Len(q) + 1
      /\ Append(q, m)[Len(q) + 1] = m
      /\ \A j \in 1 .. Len(q) : Append(q, m)[j] = q[j]
  BY <1>1
<1>4. ASSUME NEW j \in 1 .. pa + 1 - ra
      PROVE  Append(q, m)[j] = Message(x, ra + j)
  <2>1. CASE j = pa + 1 - ra
    <3>1. ra + j = pa + 1 /\ j = Len(q) + 1
      BY <1>1, <2>1
    <3>2. QED
      BY <1>2, <1>3, <3>1
  <2>2. CASE j # pa + 1 - ra
    <3>1. j \in 1 .. pa - ra /\ j \in 1 .. Len(q) /\ pa = 1
      BY <1>1, <2>2
    <3>2. QED
      BY <1>1, <1>3, <3>1
  <2>3. QED
    BY <2>1, <2>2
<1>5. \A j \in 1 .. 0 - 0 : Append(q, m)[(pa + 1 - ra) + j] = Message(xb, 0 + j)
  OBVIOUS
<1>6. pa + 1 \in 0 .. 2 /\ ra \in 0 .. 2 /\ ra <= pa + 1 /\ Len(q) + 1 = (pa + 1 - ra) + (0 - 0)
  BY <1>1
<1>7. QED
  BY <1>1, <1>2, <1>3, <1>4, <1>5, <1>6 DEF Wire

\* Posting the next message of the second transfer.
LEMMA WireSendB ==
  ASSUME NEW q, NEW pa, NEW ra, NEW xa, NEW pb, NEW rb, NEW xb, NEW x \in Trees,
         Wire(q, pa, ra, xa, pb, rb, xb), pb < 2, pb = 1 => x = xb
  PROVE  Wire(Append(q, Message(x, pb + 1)), pa, ra, xa, pb + 1, rb, x)
<1>1. /\ q \in Seq(Msg) /\ pa \in 0 .. 2 /\ ra \in 0 .. 2 /\ ra <= pa /\ xa \in Trees
      /\ pb \in 0 .. 1 /\ rb \in 0 .. 1 /\ rb <= pb
      /\ Len(q) = (pa - ra) + (pb - rb)
      /\ \A j \in 1 .. pa - ra : q[j] = Message(xa, ra + j)
      /\ \A j \in 1 .. pb - rb : q[(pa - ra) + j] = Message(xb, rb + j)
  BY DEF Wire
<1>2. PICK m \in Msg : m = Message(x, pb + 1)
  BY <1>1, MessageIs
<1>3. /\ Append(q, m) \in Seq(Msg) /\ Len(Append(q, m)) = Len(q) + 1
      /\ Append(q, m)[Len(q) + 1] = m
      /\ \A j \in 1 .. Len(q) : Append(q, m)[j] = q[j]
  BY <1>1
<1>4. ASSUME NEW j \in 1 .. pb + 1 - rb
      PROVE  Append(q, m)[(pa - ra) + j] = Message(x, rb + j)
  <2>1. CASE j = pb + 1 - rb
    <3>1. rb + j = pb + 1 /\ (pa - ra) + j = Len(q) + 1
      BY <1>1, <2>1
    <3>2. QED
      BY <1>2, <1>3, <3>1
  <2>2. CASE j # pb + 1 - rb
    <3>1. j \in 1 .. pb - rb /\ (pa - ra) + j \in 1 .. Len(q) /\ pb = 1
      BY <1>1, <2>2
    <3>2. QED
      BY <1>1, <1>3, <3>1
  <2>3. QED
    BY <2>1, <2>2
<1>5. ASSUME NEW j \in 1 .. pa - ra
      PROVE  Append(q, m)[j] = Message(xa, ra + j)
  <2>1. j \in 1 .. Len(q)
    BY <1>1
  <2>2. QED
    BY <1>1, <1>3, <2>1
<1>6. pb + 1 \in 0 .. 2 /\ rb \in 0 .. 2 /\ rb <= pb + 1
      /\ Len(q) + 1 = (pa - ra) + (pb + 1 - rb)
  BY <1>1
<1>7. PICK v \in 0 .. 2 : v = pb + 1
  BY <1>6
<1>8. /\ Append(q, m) \in Seq(Msg) /\ Len(Append(q, m)) = (pa - ra) + (v - rb)
      /\ rb \in 0 .. 2 /\ rb <= v
  BY <1>1, <1>3, <1>6, <1>7
<1>9. \A j \in 1 .. v - rb : Append(q, m)[(pa - ra) + j] = Message(x, rb + j)
  BY <1>1, <1>4, <1>7
<1>10. Wire(Append(q, m), pa, ra, xa, v, rb, x)
  BY <1>1, <1>5, <1>8, <1>9, Zenon DEF Wire
<1>11. QED
  BY <1>2, <1>7, <1>10

\* Receiving the next message of the first transfer.
LEMMA WireRecvA ==
  ASSUME NEW q, NEW pa, NEW ra, NEW xa, NEW pb, NEW rb, NEW xb,
         Wire(q, pa, ra, xa, pb, rb, xb), ra < pa
  PROVE  Head(q) = Message(xa, ra + 1) /\ Wire(Tail(q), pa, ra + 1, xa, pb, rb, xb)
<1>1. /\ q \in Seq(Msg) /\ pa \in 0 .. 2 /\ ra \in 0 .. 1 /\ ra <= pa
      /\ xa \in Trees /\ xb \in Trees /\ pb \in 0 .. 2 /\ rb \in 0 .. 2 /\ rb <= pb
      /\ Len(q) = (pa - ra) + (pb - rb)
      /\ \A j \in 1 .. pa - ra : q[j] = Message(xa, ra + j)
      /\ \A j \in 1 .. pb - rb : q[(pa - ra) + j] = Message(xb, rb + j)
  BY DEF Wire
<1>2. /\ Tail(q) \in Seq(Msg) /\ Len(Tail(q)) = Len(q) - 1 /\ Head(q) = q[1]
      /\ \A j \in 1 .. Len(q) - 1 : Tail(q)[j] = q[j + 1]
  <2>1. q # <<>> /\ Len(q) \in Nat
    BY <1>1
  <2>2. QED
    BY <1>1, <2>1
<1>3. Head(q) = Message(xa, ra + 1)
  BY <1>1, <1>2
<1>4. ASSUME NEW j \in 1 .. pa - (ra + 1)
      PROVE  Tail(q)[j] = Message(xa, (ra + 1) + j)
  <2>1. j + 1 \in 1 .. pa - ra /\ j \in 1 .. Len(q) - 1 /\ ra + (j + 1) = (ra + 1) + j
    BY <1>1
  <2>2. q[j + 1] = Message(xa, ra + (j + 1))
    BY <1>1, <2>1
  <2>3. QED
    BY <1>2, <2>1, <2>2
<1>5. ASSUME NEW j \in 1 .. pb - rb
      PROVE  Tail(q)[(pa - (ra + 1)) + j] = Message(xb, rb + j)
  <2>1. PICK i \in 1 .. Len(q) - 1 : i = (pa - (ra + 1)) + j /\ i + 1 = (pa - ra) + j
    BY <1>1
  <2>2. Tail(q)[i] = q[(pa - ra) + j]
    BY <1>2, <2>1
  <2>3. QED
    BY <1>1, <2>1, <2>2
<1>6. ra + 1 \in 0 .. 2 /\ ra + 1 <= pa /\ Len(q) - 1 = (pa - (ra + 1)) + (pb - rb)
  BY <1>1
<1>7. QED
  BY <1>1, <1>2, <1>3, <1>4, <1>5, <1>6 DEF Wire

\* Receiving the next message of the second transfer: nothing of the first one is pending.
LEMMA WireRecvB ==
  ASSUME NEW q, NEW pa, NEW xa, NEW pb, NEW rb, NEW xb,
         Wire(q, pa, pa, xa, pb, rb, xb), rb < pb
  PROVE  Head(q) = Message(xb, rb + 1) /\ Wire(Tail(q), pa, pa, xa, pb, rb + 1, xb)
<1>1. /\ q \in Seq(Msg) /\ pa \in 0 .. 2 /\ pa - pa = 0
      /\ xa \in Trees /\ xb \in Trees /\ pb \in 0 .. 2 /\ rb \in 0 .. 1 /\ rb <= pb
      /\ Len(q) = (pa - pa) + (pb - rb)
      /\ \A j \in 1 .. pb - rb : q[(pa - pa) + j] = Message(xb, rb + j)
  BY DEF Wire
<1>2. Len(q) = pb - rb /\ \A j \in 1 .. pb - rb : q[j] = Message(xb, rb + j)
  BY <1>1
<1>3. /\ Tail(q) \in Seq(Msg) /\ Len(Tail(q)) = Len(q) - 1 /\ Head(q) = q[1]
      /\ \A j \in 1 .. Len(q) - 1 : Tail(q)[j] = q[j + 1]
  <2>1. q # <<>> /\ Len(q) \in Nat
    BY <1>1, <1>2
  <2>2. QED
    BY <1>1, <2>1
<1>4. Head(q) = Message(xb, rb + 1)
  BY <1>1, <1>2, <1>3
<1>5. ASSUME NEW j \in 1 .. pb - (rb + 1)
      PROVE  Tail(q)[(pa - pa) + j] = Message(xb, (rb + 1) + j)
  <2>1. j + 1 \in 1 .. pb - rb /\ j \in 1 .. Len(q) - 1 /\ rb + (j + 1) = (rb + 1) + j
        /\ (pa - pa) + j = j
    BY <1>1, <1>2
  <2>2. q[j + 1] = Message(xb, rb + (j + 1))
    BY <1>2, <2>1
  <2>3. QED
    BY <1>3, <2>1, <2>2
<1>6. \A j \in 1 .. pa - pa : Tail(q)[j] = Message(xa, pa + j)
  BY <1>1
<1>7. rb + 1 \in 0 .. 2 /\ rb + 1 <= pb /\ Len(q) - 1 = (pa - pa) + (pb - (rb + 1))
  BY <1>1, <1>2
<1>8. QED
  BY <1>1, <1>3, <1>4, <1>5, <1>6, <1>7 DEF Wire

-----------------------------------------------------------------------------
(* Progress of the ranks, counted in messages.  In a pass a pair of ranks has at most one *)
(* round in which the first sends to the second, since the stride of that round is        *)
(* their distance.                                                                         *)

\* In some round of a pass in direction dr, s sends to d; that round.
Paired(s, d, dr) == \E k \in 0 .. N : Dist(s, d, dr) = 2^k
Round(s, d, dr)  == CHOOSE k \in 0 .. N : Dist(s, d, dr) = 2^k

\* The limits of rank r allow round k.
Within(r, dr, k) == 2^k < N /\ (hops[r][dr] < 0 \/ k < hops[r][dr])

\* Rank r is in the exchange proper; it is inside of a round.
Under(r)   == pc[r] \in {"round", "size", "data", "done"}
InRound(r) == pc[r] \in {"size", "data"}

\* Rank r has done, or is in, round k of the pass in direction dr.
Past(r, dr, k) ==
  \/ dir[r] = dr /\ k < hop_count[r]
  \/ mode = "exchange" /\ dr = "left" /\ dir[r] = "right" /\ Within(r, "left", k)
Busy(r, dr, k) == dir[r] = dr /\ hop_count[r] = k /\ InRound(r)

\* Messages of that round that r has posted, and has received.
Full(r) == IF inbox[r] = NoMsg THEN 0 ELSE 1
PostedIn(r, dr, k) ==
  IF Past(r, dr, k) THEN 2
  ELSE IF Busy(r, dr, k) THEN IF pc[r] = "size" THEN 1 ELSE 2
  ELSE 0
RecvdIn(r, dr, k) ==
  IF Past(r, dr, k) THEN 2
  ELSE IF Busy(r, dr, k) THEN IF pc[r] = "size" THEN Full(r) ELSE 1 + Full(r)
  ELSE 0

\* The same for kvtree_send and kvtree_recv.
PostedFirst(r) == IF pc[r] = "send" THEN 0 ELSE IF pc[r] = "sent_size" THEN 1 ELSE 2
RecvdFirst(r)  == IF pc[r] = "recv" THEN Full(r)
                  ELSE IF pc[r] = "recv_data" THEN 1 + Full(r) ELSE 2

\* Messages from s to d in the pass to the right, and before it: in the pass to the left,
\* or in the transfer of kvtree_send.
PostedB(s, d) ==
  IF Paired(s, d, "right") THEN PostedIn(s, "right", Round(s, d, "right")) ELSE 0
RecvdB(s, d) ==
  IF Paired(s, d, "right") THEN RecvdIn(d, "right", Round(s, d, "right")) ELSE 0
PostedA(s, d) ==
  IF mode = "send" THEN IF s = 0 /\ d = N - 1 THEN PostedFirst(s) ELSE 0
  ELSE IF Paired(s, d, "left") THEN PostedIn(s, "left", Round(s, d, "left")) ELSE 0
RecvdA(s, d) ==
  IF mode = "send" THEN IF s = 0 /\ d = N - 1 THEN RecvdFirst(d) ELSE 0
  ELSE IF Paired(s, d, "left") THEN RecvdIn(d, "left", Round(s, d, "left")) ELSE 0

-----------------------------------------------------------------------------
(* The inductive invariant. *)

\* Types, with those of the messages.
Typed ==
  /\ TypeOK
  /\ hop_count \in [Rank -> 0 .. N]
  /\ inbox \in [Rank -> Msg \cup {NoMsg}]
  /\ chan \in [Rank -> [Rank -> Seq(Msg)]]
  /\ mode \in {"send", "bcast"} => N > 1

\* Which rank can be where.
ModeInv(r) ==
  /\ pc[r] \in {"split", "reduce"} => mode = "exchange" /\ dir[r] = "left"
  /\ pc[r] \in {"send", "sent_size", "sent_data"} => mode = "send" /\ r = 0
  /\ pc[r] \in {"recv", "recv_data"} => mode = "send" /\ r = N - 1
  /\ pc[r] \in {"bcast", "bcast_data"} => mode = "bcast"
  /\ mode \in {"right", "send", "bcast"} => dir[r] = "right"
  /\ mode = "left" => dir[r] = "left"
  /\ ~Under(r) => hop_count[r] = 0 /\ out[r] = {}
  /\ inbox[r] # NoMsg => pc[r] \in {"size", "data", "recv", "recv_data"}

\* Hop limits: after MPI_Allreduce they are at least those of every rank, so they are the
\* same everywhere, and enough for every item.
HopsInv(r) ==
  /\ mode # "exchange" => hops[r].left = -1 /\ hops[r].right = -1
  /\ mode = "exchange" /\ pc[r] # "split" =>
       /\ hops[r].left \in 0 .. N + 1 /\ hops[r].right \in 0 .. N + 1
       /\ \A d \in input[r] :
            StepsOf(Dist(r, d, Way(mode, <<r, d>>))) <= hops[r][Way(mode, <<r, d>>)]
  /\ mode = "exchange" /\ Under(r) =>
       \A q \in Rank : /\ pc[q] # "split"
                       /\ hops[q].left <= hops[r].left /\ hops[q].right <= hops[r].right

\* The rounds that r has done and the one it is in are within the limits, and a rank
\* that is done has no round left.
RoundInv(r) ==
  /\ hop_count[r] > 0 => Within(r, dir[r], hop_count[r] - 1)
  /\ InRound(r) => MoreRounds(r)
  /\ pc[r] = "done" => ~MoreRounds(r) /\ (mode = "exchange" => dir[r] = "right")

\* Items of the ranks: those in current are where the next round needs them, those that
\* are sent will be.
ItemInv(r) ==
  /\ AllHere(input, mode, current[r], r, dir[r],
             IF InRound(r) THEN hop_count[r] + 1 ELSE hop_count[r])
  /\ pc[r] \in {"split", "done"} => current[r] = {}
  /\ InRound(r) => AllHere(input, mode, sending[r], Dst(r), dir[r], hop_count[r] + 1)
  /\ \A i \in right_in[r] : i \in Sends(input) /\ i[1] = r /\ Way(mode, i) = "right"
  /\ mode # "exchange" \/ dir[r] = "right" \/ pc[r] = "split" => right_in[r] = {}
  /\ \A i \in out[r] : i \in Sends(input) /\ i[2] = r

\* What MPI_Irecv or MPI_Recv has got.
InboxInv(r) == inbox[r] # NoMsg =>
  /\ pc[r] \in {"size", "recv"} => inbox[r].type = "size" /\ inbox[r].items = {}
  /\ pc[r] \in {"data", "recv_data"} => inbox[r].type = "data" /\ inbox[r].size = size_recv[r]
  /\ pc[r] = "data" => AllHere(input, mode, inbox[r].items, r, dir[r], hop_count[r] + 1)
  /\ pc[r] = "recv_data" => inbox[r].items = Sent

\* What kvtree_recv and kvtree_bcast return.
GotInv(r) ==
  /\ mode = "send" /\ r = N - 1 /\ pc[r] \notin {"recv", "recv_data"} => got[r] = Sent
  /\ mode = "bcast" /\ pc[r] \notin {"bcast", "bcast_data"} => got[r] = Sent

\* The channel from s to d holds what s has posted and d has not received, a size and its
\* tree at a time.
HeldSize(d) == IF inbox[d] # NoMsg THEN inbox[d].size ELSE size_recv[d]
FirstTree(s) == IF mode = "send" THEN Sent ELSE sending[s]
GoodFirst(s, d, x) ==
  IF mode = "send" THEN x = Sent
  ELSE AllHere(input, mode, x, d, "left", Round(s, d, "left") + 1)
GoodSecond(s, d, x) == AllHere(input, mode, x, d, "right", Round(s, d, "right") + 1)
Carries(s, d, xa, xb) ==
  /\ Wire(chan[s][d], PostedA(s, d), RecvdA(s, d), xa, PostedB(s, d), RecvdB(s, d), xb)
  /\ PostedA(s, d) = 1 => xa = FirstTree(s)
  /\ PostedB(s, d) = 1 => xb = sending[s]
  /\ RecvdA(s, d) = 1 => HeldSize(d) = PackSize(xa)
  /\ RecvdB(s, d) = 1 => HeldSize(d) = PackSize(xb)
  /\ PostedA(s, d) = 2 /\ RecvdA(s, d) < 2 => GoodFirst(s, d, xa)
  /\ PostedB(s, d) = 2 /\ RecvdB(s, d) < 2 => GoodSecond(s, d, xb)
ChanInv(s, d) == \E xa, xb \in Trees : Carries(s, d, xa, xb)

LocalInv == \A r \in Rank : /\ ModeInv(r) /\ HopsInv(r) /\ RoundInv(r)
                             /\ ItemInv(r) /\ InboxInv(r) /\ GotInv(r)

IInv == Typed /\ LocalInv /\ \A s, d \in Rank : ChanInv(s, d)

-----------------------------------------------------------------------------
(* Facts that hold in every state of the invariant. *)

\* The round of a pair.
LEMMA RoundIs ==
  ASSUME NEW s \in Rank, NEW d \in Rank, NEW dr \in Dirs
  PROVE  /\ Paired(s, d, dr) => /\ Round(s, d, dr) \in 0 .. N
                                /\ Dist(s, d, dr) = 2^Round(s, d, dr)
                                /\ 2^Round(s, d, dr) < N
         /\ \A k \in 0 .. N : Dist(s, d, dr) = 2^k => Paired(s, d, dr) /\ Round(s, d, dr) = k
<1>1. Dist(s, d, dr) \in 0 .. N - 1
  BY DistType
<1>2. ASSUME Paired(s, d, dr)
      PROVE  Round(s, d, dr) \in 0 .. N /\ Dist(s, d, dr) = 2^Round(s, d, dr)
  BY <1>2 DEF Paired, Round
<1>3. ASSUME NEW k \in 0 .. N, Dist(s, d, dr) = 2^k
      PROVE  Paired(s, d, dr) /\ Round(s, d, dr) = k
  <2>1. Paired(s, d, dr)
    BY <1>3 DEF Paired
  <2>2. Round(s, d, dr) \in 0 .. N /\ 2^Round(s, d, dr) = 2^k
    BY <1>2, <1>3, <2>1
  <2>3. Round(s, d, dr) \in 0 .. N + 1 /\ k \in 0 .. N + 1
    BY <2>2, NIs
  <2>4. QED
    BY <2>1, <2>2, <2>3, PowerInjective
<1>4. QED
  BY <1>1, <1>2, <1>3, NIs

\* The partners of a round: the destination of s is d exactly if s is the source of d.
LEMMA PartnersAre ==
  ASSUME Typed, NEW r \in Rank, 2^hop_count[r] < N
  PROVE  /\ Dst(r) = At(r, dir[r], 2^hop_count[r]) /\ Dst(r) \in Rank
         /\ Paired(r, Dst(r), dir[r]) /\ Round(r, Dst(r), dir[r]) = hop_count[r]
         /\ Src(r) \in Rank
         /\ Paired(Src(r), r, dir[r]) /\ Round(Src(r), r, dir[r]) = hop_count[r]
         /\ \A d \in Rank : Paired(r, d, dir[r]) /\ Round(r, d, dir[r]) = hop_count[r] => d = Dst(r)
         /\ \A s \in Rank : Paired(s, r, dir[r]) /\ Round(s, r, dir[r]) = hop_count[r] => s = Src(r)
<1>1. dir[r] \in Dirs /\ hop_count[r] \in 0 .. N
  BY DEF Typed, TypeOK, Dirs
<1>2. PICK w \in 1 .. N - 1 : w = 2^hop_count[r]
  BY <1>1, PowerIs, NIs
<1>3. Dst(r) = At(r, dir[r], w) /\ Src(r) = From(r, dir[r], w)
  BY <1>2 DEF Dst, Src, Partner, At, From
<1>4. /\ Dst(r) \in Rank /\ Dist(r, Dst(r), dir[r]) = w
      /\ Src(r) \in Rank /\ Dist(Src(r), r, dir[r]) = w
  BY <1>1, <1>3, AtIs
<1>5. /\ Paired(r, Dst(r), dir[r]) /\ Round(r, Dst(r), dir[r]) = hop_count[r]
      /\ Paired(Src(r), r, dir[r]) /\ Round(Src(r), r, dir[r]) = hop_count[r]
  BY <1>1, <1>2, <1>4, RoundIs
<1>6. ASSUME NEW d \in Rank, Paired(r, d, dir[r]), Round(r, d, dir[r]) = hop_count[r]
      PROVE  d = Dst(r)
  <2>1. Dist(r, d, dir[r]) = w
    BY <1>1, <1>2, <1>6, RoundIs
  <2>2. QED
    BY <1>1, <1>4, <2>1, DistInjective
<1>7. ASSUME NEW s \in Rank, Paired(s, r, dir[r]), Round(s, r, dir[r]) = hop_count[r]
      PROVE  s = Src(r)
  <2>1. Dist(s, r, dir[r]) = w
    BY <1>1, <1>2, <1>7, RoundIs
  <2>2. QED
    BY <1>1, <1>4, <2>1, DistInjective
<1>8. QED
  BY <1>2, <1>3, <1>4, <1>5, <1>6, <1>7

-----------------------------------------------------------------------------
(* Initial states. *)

\* Where a rank starts.
LEMMA FirstCallIs ==
  ASSUME NEW m \in {"exchange", "left", "right", "send", "bcast"}, NEW r \in Rank,
         m = "send" => N > 1
  PROVE  /\ FirstCall(m, r) \in {"split", "bcast", "send", "recv", "round"}
         /\ FirstCall(m, r) = "split" <=> m = "exchange"
         /\ FirstCall(m, r) = "bcast" <=> m = "bcast"
         /\ FirstCall(m, r) = "send" <=> m = "send" /\ r = 0
         /\ FirstCall(m, r) = "recv" <=> m = "send" /\ r = N - 1
<1>1. N \in Nat \ {0} /\ r \in Int
  BY NIs DEF Rank
<1>2. CASE m = "exchange"
  BY <1>2 DEF FirstCall
<1>3. CASE m = "bcast"
  BY <1>3 DEF FirstCall
<1>4. CASE m = "send" /\ r = 0
  BY <1>1, <1>4 DEF FirstCall
<1>5. CASE m = "send" /\ r = N - 1
  BY <1>1, <1>5 DEF FirstCall
<1>6. CASE m \in {"left", "right"}
  <2>1. FirstCall(m, r) = "round"
    BY <1>6 DEF FirstCall
  <2>2. QED
    BY <1>6, <2>1
<1>7. CASE m = "send" /\ r # 0 /\ r # N - 1
  <2>1. FirstCall(m, r) = "round"
    BY <1>7 DEF FirstCall
  <2>2. QED
    BY <1>7, <2>1
<1>8. QED
  BY <1>2, <1>3, <1>4, <1>5, <1>6, <1>7

\* The initial states satisfy the local part of the invariant.
LEMMA InitLocal == Init => Typed /\ LocalInv
<1>1. SUFFICES ASSUME Init PROVE Typed /\ LocalInv
  OBVIOUS
<1>2. /\ N \in Nat \ {0} /\ Inputs \subseteq [Rank -> SUBSET Rank]
      /\ mode \in {"exchange", "left", "right", "send", "bcast"}
      /\ input \in [Rank -> SUBSET Rank]
  BY <1>1, ExchangeAssumption DEF Init
<1>3. mode \in {"send", "bcast"} => N > 1
  BY <1>1, ExchangeAssumption DEF Init
<1>4. \A r \in Rank : {r} \X input[r] \in SUBSET Items
  BY <1>2 DEF Items
<1>5. TypeOK
  <2>1. pc \in [Rank -> {"split", "reduce", "round", "size", "data", "done", "send",
                         "sent_size", "sent_data", "recv", "recv_data", "bcast", "bcast_data"}]
    BY <1>1, <1>2, <1>3, FirstCallIs DEF Init
  <2>2. current \in [Rank -> SUBSET Items]
    BY <1>1, <1>4 DEF Init
  <2>3. hops \in [Rank -> [left : Nat \cup {-1}, right : Nat \cup {-1}]]
    BY <1>1 DEF Init
  <2>4. QED
    BY <1>1, <1>2, <2>1, <2>2, <2>3 DEF Init, TypeOK
<1>6. Typed
  <2>1. chan \in [Rank -> [Rank -> Seq(Msg)]]
    BY <1>1 DEF Init
  <2>2. QED
    BY <1>1, <1>2, <1>3, <1>5, <2>1 DEF Init, Typed
<1>7. ASSUME NEW r \in Rank
      PROVE  /\ ModeInv(r) /\ HopsInv(r) /\ RoundInv(r)
             /\ ItemInv(r) /\ InboxInv(r) /\ GotInv(r)
  <2>1. /\ pc[r] = FirstCall(mode, r) /\ inbox[r] = NoMsg /\ hop_count[r] = 0 /\ out[r] = {}
        /\ hops[r] = [left |-> -1, right |-> -1] /\ right_in[r] = {}
        /\ dir[r] = (IF mode \in {"exchange", "left"} THEN "left" ELSE "right")
        /\ current[r] = (IF mode = "exchange" THEN {} ELSE {r} \X input[r])
    BY <1>1 DEF Init
  <2>2. ModeInv(r)
    BY <1>2, <2>1, <1>3, FirstCallIs DEF ModeInv, Under
  <2>3. HopsInv(r)
    BY <1>2, <1>3, <2>1, FirstCallIs DEF HopsInv, Under
  <2>4. RoundInv(r)
    BY <1>2, <1>3, <2>1, FirstCallIs DEF RoundInv, InRound
  <2>5. ItemInv(r)
    <3>1. ASSUME NEW i \in current[r]
          PROVE  Here(input, mode, i, r, dir[r], 0)
      <4>1. mode # "exchange" /\ i \in {r} \X input[r]
        BY <2>1
      <4>2. i[1] = r /\ i \in Sends(input)
        BY <1>2, <4>1 DEF Sends, Items
      <4>3. Way(mode, i) = dir[r]
        BY <1>2, <2>1, <4>1 DEF Way
      <4>4. QED
        BY <4>2, <4>3, HereFirst
    <3>2. ~InRound(r) /\ pc[r] # "done"
      BY <1>2, <1>3, <2>1, FirstCallIs DEF InRound
    <3>3. pc[r] = "split" => current[r] = {}
      <4>1. FirstCall(mode, r) = "split" => mode = "exchange"
        BY <1>2, <1>3, FirstCallIs
      <4>2. mode = "exchange" => current[r] = {}
        BY <2>1
      <4>3. QED
        BY <2>1, <4>1, <4>2
    <3>4. QED
      BY <2>1, <3>1, <3>2, <3>3 DEF ItemInv, AllHere
  <2>6. InboxInv(r)
    BY <2>1 DEF InboxInv
  <2>7. GotInv(r)
    BY <1>2, <1>3, <2>1, FirstCallIs DEF GotInv
  <2>8. QED
    BY <2>2, <2>3, <2>4, <2>5, <2>6, <2>7
<1>8. QED
  BY <1>6, <1>7 DEF LocalInv

\* Initially nothing has been posted.
LEMMA InitChan == Init => \A s, d \in Rank : ChanInv(s, d)
<1>1. SUFFICES ASSUME Init, NEW s \in Rank, NEW d \in Rank PROVE ChanInv(s, d)
  OBVIOUS
<1>2. mode \in {"exchange", "left", "right", "send", "bcast"} /\ Typed /\ N \in Nat \ {0}
      /\ (mode = "send" => N > 1)
  BY <1>1, InitLocal, NIs DEF Typed, TypeOK
<1>3. /\ chan[s][d] = <<>> /\ inbox[d] = NoMsg
      /\ hop_count[s] = 0 /\ hop_count[d] = 0
      /\ pc[s] = FirstCall(mode, s) /\ pc[d] = FirstCall(mode, d)
      /\ dir[s] = (IF mode \in {"exchange", "left"} THEN "left" ELSE "right")
      /\ dir[d] = (IF mode \in {"exchange", "left"} THEN "left" ELSE "right")
  BY <1>1 DEF Init
<1>4. ~InRound(s) /\ ~InRound(d)
  BY <1>2, <1>3, FirstCallIs DEF InRound
<1>5. ASSUME NEW dr \in Dirs, NEW k \in 0 .. N
      PROVE  PostedIn(s, dr, k) = 0 /\ RecvdIn(d, dr, k) = 0
  BY <1>2, <1>3, <1>4 DEF PostedIn, RecvdIn, Past, Busy, Dirs
<1>6. PostedB(s, d) = 0 /\ RecvdB(s, d) = 0
  <2>1. Paired(s, d, "right") => Round(s, d, "right") \in 0 .. N
    BY RoundIs DEF Dirs
  <2>2. QED
    BY <1>5, <2>1 DEF PostedB, RecvdB, Dirs
<1>7. PostedA(s, d) = 0 /\ RecvdA(s, d) = 0
  <2>1. Paired(s, d, "left") => Round(s, d, "left") \in 0 .. N
    BY RoundIs DEF Dirs
  <2>2. CASE mode = "send" /\ s = 0 /\ d = N - 1
    <3>1. pc[s] = "send" /\ pc[d] = "recv"
      BY <1>2, <1>3, <2>2, FirstCallIs
    <3>2. QED
      BY <1>3, <2>2, <3>1 DEF PostedA, RecvdA, PostedFirst, RecvdFirst, Full
  <2>3. CASE mode = "send" /\ ~(s = 0 /\ d = N - 1)
    BY <2>3 DEF PostedA, RecvdA
  <2>4. CASE mode # "send"
    BY <1>5, <2>1, <2>4 DEF PostedA, RecvdA, Dirs
  <2>5. QED
    BY <2>2, <2>3, <2>4
<1>8. {} \in Trees
  BY DEF Trees
<1>9. Wire(<<>>, 0, 0, {}, 0, 0, {})
  BY <1>8 DEF Wire
<1>10. Carries(s, d, {}, {})
  BY <1>3, <1>6, <1>7, <1>9 DEF Carries
<1>11. QED
  BY <1>8, <1>10 DEF ChanInv

-----------------------------------------------------------------------------
(* Steps: types. *)

\* The steps that kvtree_exchange counts for one direction are enough for each item.
LEMMA StepsNeededIs ==
  ASSUME NEW r \in Rank, NEW ds \in SUBSET Rank, NEW dr \in Dirs
  PROVE  /\ StepsNeeded(r, ds, dr) \in 0 .. N + 1
         /\ \A d \in ds : StepsOf(Dist(r, d, dr)) <= StepsNeeded(r, ds, dr)
<1>1. DEFINE S == {0} \cup {StepsOf(Dist(r, d, dr)) : d \in ds}
<1>2. \A d \in ds : StepsOf(Dist(r, d, dr)) \in 0 .. N + 1
  BY DistType, StepsOfIs
<1>3. S \in SUBSET Nat /\ S # {} /\ N + 1 \in Nat /\ \A x \in S : x <= N + 1
  BY <1>2, NIs
<1>4. Max(S) \in S /\ \A x \in S : x <= Max(S)
  BY <1>3, MaxIsGreatest
<1>5. QED
  BY <1>3, <1>4 DEF StepsNeeded

\* MPI_Allreduce with MPI_MAX yields a limit that is at least that of every rank.
LEMMA ReducedIs ==
  ASSUME IInv, NEW r \in Rank, pc[r] = "reduce", \A q \in Rank : pc[q] # "split"
  PROVE  /\ Max({hops[q].left : q \in Rank}) \in 0 .. N + 1
         /\ \A q \in Rank : hops[q].left <= Max({hops[p].left : p \in Rank})
         /\ Max({hops[q].right : q \in Rank}) \in 0 .. N + 1
         /\ \A q \in Rank : hops[q].right <= Max({hops[p].right : p \in Rank})
         /\ \E q \in Rank : Max({hops[p].left : p \in Rank}) = hops[q].left
         /\ \E q \in Rank : Max({hops[p].right : p \in Rank}) = hops[q].right
<1>1. mode = "exchange"
  BY DEF IInv, LocalInv, ModeInv
<1>2. \A q \in Rank : hops[q].left \in 0 .. N + 1 /\ hops[q].right \in 0 .. N + 1
  BY <1>1 DEF IInv, LocalInv, HopsInv
<1>3. DEFINE S == {hops[q].left : q \in Rank}
             T == {hops[q].right : q \in Rank}
<1>4. S \in SUBSET Nat /\ S # {} /\ N + 1 \in Nat /\ \A x \in S : x <= N + 1
  BY <1>2, NIs
<1>5. T \in SUBSET Nat /\ T # {} /\ \A x \in T : x <= N + 1
  BY <1>2, NIs
<1>6. Max(S) \in S /\ \A x \in S : x <= Max(S)
  BY <1>4, MaxIsGreatest
<1>7. Max(T) \in T /\ \A x \in T : x <= Max(T)
  BY <1>4, <1>5, MaxIsGreatest
<1>8. /\ Max(S) \in 0 .. N + 1 /\ \A q \in Rank : hops[q].left <= Max(S)
      /\ \E q \in Rank : Max(S) = hops[q].left
  BY <1>2, <1>6
<1>9. /\ Max(T) \in 0 .. N + 1 /\ \A q \in Rank : hops[q].right <= Max(T)
      /\ \E q \in Rank : Max(T) = hops[q].right
  BY <1>2, <1>7
<1>10. QED
  BY <1>8, <1>9

\* The loop condition is that the next round is within the limits.
LEMMA MoreRoundsIs ==
  ASSUME Typed, NEW r \in Rank
  PROVE  /\ MoreRounds(r) <=> Within(r, dir[r], hop_count[r])
         /\ MoreRounds(r) => 2^hop_count[r] < N /\ hop_count[r] + 1 \in 0 .. N
<1>1. MoreRounds(r) <=> Within(r, dir[r], hop_count[r])
  BY DEF MoreRounds, Within
<1>2. ASSUME MoreRounds(r) PROVE 2^hop_count[r] < N /\ hop_count[r] + 1 \in 0 .. N
  <2>1. 2^hop_count[r] < N
    BY <1>2 DEF MoreRounds
  <2>2. hop_count[r] \in 0 .. N + 1
    BY NIs DEF Typed
  <2>3. QED
    BY <2>1, <2>2, RoundBelow
<1>3. QED
  BY <1>1, <1>2

\* Posting a message to the destination of the round keeps the channels typed.
LEMMA SendTyped ==
  ASSUME Typed, NEW r \in Rank, NEW d \in Rank, NEW m \in Msg,
         chan' = [chan EXCEPT ![r][d] = Append(@, m)]
  PROVE  chan' \in [Rank -> [Rank -> Seq(Msg)]]
<1>1. chan \in [Rank -> [Rank -> Seq(Msg)]]
  BY DEF Typed
<1>2. chan[r] \in [Rank -> Seq(Msg)] /\ Append(chan[r][d], m) \in Seq(Msg)
  BY <1>1
<1>3. QED
  BY <1>1, <1>2

\* What a step of one rank leaves alone: the inputs, and the state of the other ranks.
LEMMA StepFrame ==
  ASSUME Typed, NEW r \in Rank, Step(r)
  PROVE  /\ input' = input /\ mode' = mode
         /\ \A q \in Rank : q # r =>
              /\ got'[q] = got[q] /\ pc'[q] = pc[q] /\ dir'[q] = dir[q]
              /\ hops'[q] = hops[q] /\ right_in'[q] = right_in[q]
              /\ hop_count'[q] = hop_count[q] /\ current'[q] = current[q]
              /\ out'[q] = out[q] /\ inbox'[q] = inbox[q]
              /\ size_recv'[q] = size_recv[q] /\ sending'[q] = sending[q]
<1> USE DEF Typed, TypeOK
<1>1. CASE Split(r)
  BY <1>1 DEF Split
<1>2. CASE Allreduce(r)
  BY <1>2 DEF Allreduce
<1>3. CASE StartRound(r)
  BY <1>3 DEF StartRound
<1>4. CASE Receive(r)
  BY <1>4 DEF Receive
<1>5. CASE PostData(r)
  BY <1>5 DEF PostData
<1>6. CASE EndRound(r)
  BY <1>6 DEF EndRound
<1>7. CASE EndPass(r)
  BY <1>7 DEF EndPass
<1>8. CASE SendSize(r) \/ SendData(r) \/ SendReturns(r)
  BY <1>8 DEF SendSize, SendData, SendReturns
<1>9. CASE RecvSize(r) \/ RecvData(r)
  BY <1>9 DEF RecvSize, RecvData
<1>10. CASE BcastSize(r) \/ BcastData(r)
  BY <1>10 DEF BcastSize, BcastData
<1>11. QED
  BY <1>1, <1>2, <1>3, <1>4, <1>5, <1>6, <1>7, <1>8, <1>9, <1>10 DEF Step

\* Items of the invariant are items.
LEMMA AllHereItems ==
  ASSUME NEW inp, NEW m, NEW x, NEW r, NEW dr, NEW k, AllHere(inp, m, x, r, dr, k)
  PROVE  x \in SUBSET Items
BY DEF AllHere, Here, Sends

\* The hash that a rank sends in a round.
LEMMA OutgoingType ==
  ASSUME Typed, NEW r \in Rank
  PROVE  Outgoing(r) \in SUBSET Items /\ Outgoing(r) \in Trees /\ sending[r] \in Trees
BY DEF Outgoing, Typed, TypeOK, Trees

\* Every step keeps the types.
LEMMA StepTyped ==
  ASSUME IInv, NEW r \in Rank, Step(r)
  PROVE  Typed'
<1>1. Typed /\ TypeOK /\ N \in Nat \ {0}
  BY NIs DEF IInv, Typed
<1>2. ModeInv(r) /\ HopsInv(r) /\ RoundInv(r) /\ ItemInv(r) /\ InboxInv(r)
  BY DEF IInv, LocalInv
<1>3. Sent \in Trees
  BY DEF Trees
<1>4. \A m \in Msg : m.size \in Nat
  BY PackSizeType DEF Msg, SizeMsg, DataMsg
<1>5. CASE Split(r)
  <2>1. PICK lefts \in SUBSET Rank : lefts = {d \in input[r] : GoesLeft(r, d)}
    BY <1>1 DEF TypeOK
  <2>2. input[r] \ lefts \in SUBSET Rank
    BY <1>1 DEF TypeOK
  <2>3. {r} \X lefts \in SUBSET Items /\ {r} \X (input[r] \ lefts) \in SUBSET Items
    BY <2>1, <2>2 DEF Items
  <2>4. StepsNeeded(r, lefts, "left") \in Nat /\ StepsNeeded(r, input[r] \ lefts, "right") \in Nat
    BY <2>1, <2>2, StepsNeededIs DEF Dirs
  <2>5. [left |-> StepsNeeded(r, lefts, "left"),
         right |-> StepsNeeded(r, input[r] \ lefts, "right")]
          \in [left : Nat \cup {-1}, right : Nat \cup {-1}]
    BY <2>4
  <2>6. /\ current' = [current EXCEPT ![r] = {r} \X lefts]
        /\ right_in' = [right_in EXCEPT ![r] = {r} \X (input[r] \ lefts)]
        /\ hops' = [hops EXCEPT ![r] =
                      [left  |-> StepsNeeded(r, lefts, "left"),
                       right |-> StepsNeeded(r, input[r] \ lefts, "right")]]
        /\ pc' = [pc EXCEPT ![r] = "reduce"]
        /\ UNCHANGED <<input, mode, got, dir, hop_count, out, inbox, size_recv, sending, chan>>
    BY <1>5, <2>1 DEF Split
  <2>7. QED
    BY <1>1, <2>3, <2>5, <2>6 DEF TypeOK, Typed
<1>6. CASE Allreduce(r)
  <2>1. /\ Max({hops[q].left : q \in Rank}) \in Nat
        /\ Max({hops[q].right : q \in Rank}) \in Nat
    <3>1. pc[r] = "reduce" /\ \A q \in Rank : pc[q] # "split"
      BY <1>6 DEF Allreduce
    <3>2. /\ Max({hops[q].left : q \in Rank}) \in 0 .. N + 1
          /\ Max({hops[q].right : q \in Rank}) \in 0 .. N + 1
      BY <3>1, ReducedIs
    <3>3. QED
      BY <3>2
  <2>2. QED
    BY <1>1, <1>6, <2>1 DEF Allreduce, TypeOK, Typed
<1>7. CASE StartRound(r)
  <2>1. 2^hop_count[r] < N
    BY <1>1, <1>7, MoreRoundsIs DEF StartRound
  <2>2. Dst(r) \in Rank
    BY <1>1, <2>1, PartnersAre
  <2>3. Outgoing(r) \in SUBSET Items /\ SizeMsg(Outgoing(r)) \in Msg
    BY <1>1, OutgoingType DEF Msg
  <2>4. chan' \in [Rank -> [Rank -> Seq(Msg)]]
    BY <1>1, <1>7, <2>2, <2>3, SendTyped DEF StartRound, Send
  <2>5. Mine(r, current[r]) \in SUBSET Items /\ current[r] \in SUBSET Items
    BY <1>1 DEF TypeOK, Mine
  <2>6. QED
    BY <1>1, <1>7, <2>3, <2>4, <2>5 DEF StartRound, TypeOK, Typed
<1>8. CASE Receive(r)
  <2>1. Source(r) \in Rank
    <3>1. CASE pc[r] \in {"recv", "recv_data"}
      BY <1>1, <3>1 DEF Source, Rank
    <3>2. CASE pc[r] \in {"size", "data"}
      <4>1. 2^hop_count[r] < N
        BY <1>1, <1>2, <3>2, MoreRoundsIs DEF RoundInv, InRound
      <4>2. QED
        BY <1>1, <3>2, <4>1, PartnersAre DEF Source
    <3>3. QED
      BY <1>8, <3>1, <3>2 DEF Receive
  <2>2. PICK q \in Rank : q = Source(r)
    BY <2>1
  <2>3. /\ chan[q][r] \in Seq(Msg) /\ chan[q][r] # <<>>
        /\ inbox' = [inbox EXCEPT ![r] = Head(chan[q][r])]
        /\ chan' = [chan EXCEPT ![q][r] = Tail(@)]
    BY <1>1, <1>8, <2>2 DEF Receive, Typed
  <2>4. Head(chan[q][r]) \in Msg /\ Tail(chan[q][r]) \in Seq(Msg)
    BY <2>3
  <2>5. chan[q] \in [Rank -> Seq(Msg)] /\ chan \in [Rank -> [Rank -> Seq(Msg)]]
    BY <1>1 DEF Typed
  <2>6. chan' \in [Rank -> [Rank -> Seq(Msg)]]
    BY <2>3, <2>4, <2>5
  <2>7. inbox' \in [Rank -> Msg \cup {NoMsg}]
    BY <1>1, <2>3, <2>4 DEF Typed
  <2>8. QED
    BY <1>1, <1>8, <2>6, <2>7 DEF Receive, TypeOK, Typed
<1>9. CASE PostData(r)
  <2>1. 2^hop_count[r] < N
    BY <1>1, <1>2, <1>9, MoreRoundsIs DEF PostData, RoundInv, InRound
  <2>2. Dst(r) \in Rank
    BY <1>1, <2>1, PartnersAre
  <2>3. DataMsg(sending[r]) \in Msg
    BY <1>1, OutgoingType DEF Msg
  <2>4. chan' \in [Rank -> [Rank -> Seq(Msg)]]
    BY <1>1, <1>9, <2>2, <2>3, SendTyped DEF PostData, Send
  <2>5. inbox[r].size \in Nat
    BY <1>1, <1>4, <1>9 DEF PostData, Complete, Typed
  <2>6. QED
    BY <1>1, <1>9, <2>4, <2>5 DEF PostData, TypeOK, Typed
<1>10. CASE EndRound(r)
  <2>1. hop_count[r] + 1 \in 0 .. N
    BY <1>1, <1>2, <1>10, MoreRoundsIs DEF EndRound, RoundInv, InRound
  <2>2. inbox[r].items \in SUBSET Items
    BY <1>2, <1>10, AllHereItems DEF EndRound, Complete, InboxInv
  <2>3. hop_count' \in [Rank -> 0 .. N] /\ hop_count' \in [Rank -> Nat]
    BY <1>1, <1>10, <2>1 DEF EndRound, Typed, TypeOK
  <2>4. current' \in [Rank -> SUBSET Items]
    BY <1>1, <1>10, <2>2 DEF EndRound, TypeOK
  <2>5. QED
    BY <1>1, <1>10, <2>3, <2>4 DEF EndRound, TypeOK, Typed
<1>11. CASE EndPass(r)
  <2>1. Mine(r, current[r]) \in SUBSET Items
    BY <1>1 DEF TypeOK, Mine
  <2>2. out' \in [Rank -> SUBSET Items]
    BY <1>1, <1>11, <2>1 DEF EndPass, TypeOK
  <2>3. CASE mode = "exchange" /\ dir[r] = "left"
    <3>1. /\ dir' = [dir EXCEPT ![r] = "right"]
          /\ current' = [current EXCEPT ![r] = right_in[r]]
          /\ right_in' = [right_in EXCEPT ![r] = {}]
          /\ hop_count' = [hop_count EXCEPT ![r] = 0]
          /\ UNCHANGED <<pc, input, mode, got, hops, inbox, size_recv, sending, chan>>
      BY <1>11, <2>3 DEF EndPass
    <3>2. hop_count' \in [Rank -> 0 .. N] /\ hop_count' \in [Rank -> Nat]
      BY <1>1, <3>1 DEF TypeOK, Typed
    <3>3. current' \in [Rank -> SUBSET Items] /\ right_in' \in [Rank -> SUBSET Items]
      BY <1>1, <3>1 DEF TypeOK
    <3>4. QED
      BY <1>1, <2>2, <3>1, <3>2, <3>3 DEF TypeOK, Typed
  <2>4. CASE ~(mode = "exchange" /\ dir[r] = "left")
    BY <1>1, <1>11, <2>2, <2>4 DEF EndPass, TypeOK, Typed
  <2>5. QED
    BY <2>3, <2>4
<1>12. CASE SendSize(r) \/ SendData(r)
  <2>1. N - 1 \in Rank /\ SizeMsg(Sent) \in Msg /\ DataMsg(Sent) \in Msg
    BY <1>1, <1>3 DEF Rank, Msg
  <2>2. chan' \in [Rank -> [Rank -> Seq(Msg)]]
    BY <1>1, <1>12, <2>1, SendTyped DEF SendSize, SendData
  <2>3. CASE SendSize(r)
    BY <1>1, <2>2, <2>3 DEF SendSize, TypeOK, Typed
  <2>4. CASE SendData(r)
    BY <1>1, <2>2, <2>4 DEF SendData, TypeOK, Typed
  <2>5. QED
    BY <1>12, <2>3, <2>4
<1>13. CASE SendReturns(r)
  BY <1>1, <1>13 DEF SendReturns, TypeOK, Typed
<1>14. CASE RecvSize(r)
  <2>1. inbox[r].size \in Nat
    BY <1>1, <1>4, <1>14 DEF RecvSize, Typed
  <2>2. QED
    BY <1>1, <1>14, <2>1 DEF RecvSize, TypeOK, Typed
<1>15. CASE RecvData(r)
  <2>1. inbox[r].items = Sent
    BY <1>2, <1>15 DEF RecvData, InboxInv
  <2>2. QED
    BY <1>1, <1>15, <2>1 DEF RecvData, TypeOK, Typed
<1>16. CASE BcastSize(r) \/ BcastData(r)
  <2>1. PackSize(Sent) \in Nat
    BY <1>3, PackSizeType
  <2>2. CASE BcastSize(r)
    BY <1>1, <2>1, <2>2 DEF BcastSize, TypeOK, Typed
  <2>3. CASE BcastData(r)
    BY <1>1, <2>3 DEF BcastData, TypeOK, Typed
  <2>4. QED
    BY <1>16, <2>2, <2>3
<1>17. QED
  BY <1>5, <1>6, <1>7, <1>8, <1>9, <1>10, <1>11, <1>12, <1>13, <1>14, <1>15, <1>16 DEF Step

-----------------------------------------------------------------------------
(* Steps: the local invariants. *)

\* Ranks are where their call puts them.
LEMMA StepMode ==
  ASSUME IInv, NEW r \in Rank, Step(r), NEW q \in Rank
  PROVE  ModeInv(q)'
<1>1. Typed /\ TypeOK /\ ModeInv(q) /\ ModeInv(r) /\ RoundInv(r)
  BY DEF IInv, Typed, LocalInv
<1>2. CASE q # r
  <2>1. /\ mode' = mode /\ pc'[q] = pc[q] /\ dir'[q] = dir[q] /\ hop_count'[q] = hop_count[q]
        /\ inbox'[q] = inbox[q] /\ out'[q] = out[q]
    BY <1>1, <1>2, StepFrame
  <2>2. QED
    BY <1>1, <2>1 DEF ModeInv, Under
<1>3. CASE q = r
  <2> USE <1>1, <1>3 DEF ModeInv, Under, TypeOK
  <2>1. CASE Split(r)
    BY <2>1 DEF Split
  <2>2. CASE Allreduce(r)
    BY <2>2 DEF Allreduce
  <2>3. CASE StartRound(r)
    BY <2>3 DEF StartRound
  <2>4. CASE Receive(r)
    BY <2>4 DEF Receive
  <2>5. CASE PostData(r)
    BY <2>5 DEF PostData, Typed
  <2>6. CASE EndRound(r)
    BY <2>6 DEF EndRound, Typed
  <2>7. CASE EndPass(r)
    BY <2>7 DEF EndPass
  <2>8. CASE SendSize(r)
    BY <2>8 DEF SendSize
  <2>9. CASE SendData(r)
    BY <2>9 DEF SendData
  <2>10. CASE SendReturns(r)
    BY <2>10 DEF SendReturns
  <2>11. CASE RecvSize(r)
    BY <2>11 DEF RecvSize, Typed
  <2>12. CASE RecvData(r)
    BY <2>12 DEF RecvData, Typed
  <2>13. CASE BcastSize(r)
    BY <2>13 DEF BcastSize
  <2>14. CASE BcastData(r)
    BY <2>14 DEF BcastData
  <2>15. QED
    BY <2>1, <2>2, <2>3, <2>4, <2>5, <2>6, <2>7, <2>8, <2>9, <2>10, <2>11, <2>12, <2>13,
       <2>14 DEF Step
<1>4. QED
  BY <1>2, <1>3

\* kvtree_recv and kvtree_bcast return what was sent.
LEMMA StepGot ==
  ASSUME IInv, NEW r \in Rank, Step(r), NEW q \in Rank
  PROVE  GotInv(q)'
<1>1. Typed /\ TypeOK /\ GotInv(q) /\ GotInv(r) /\ ModeInv(r) /\ InboxInv(r)
  BY DEF IInv, Typed, LocalInv
<1>2. CASE q # r
  <2>1. mode' = mode /\ pc'[q] = pc[q] /\ got'[q] = got[q]
    BY <1>1, <1>2, StepFrame
  <2>2. QED
    BY <1>1, <2>1 DEF GotInv
<1>3. CASE q = r
  <2> USE <1>1, <1>3 DEF GotInv, TypeOK
  <2>1. CASE Split(r)
    BY <2>1 DEF Split, ModeInv
  <2>2. CASE Allreduce(r)
    BY <2>2 DEF Allreduce, ModeInv
  <2>3. CASE StartRound(r)
    BY <2>3 DEF StartRound
  <2>4. CASE Receive(r)
    BY <2>4 DEF Receive
  <2>5. CASE PostData(r)
    BY <2>5 DEF PostData
  <2>6. CASE EndRound(r)
    BY <2>6 DEF EndRound
  <2>7. CASE EndPass(r)
    BY <2>7 DEF EndPass
  <2>8. CASE SendSize(r) \/ SendData(r) \/ SendReturns(r)
    <3>1. pc[r] \in {"send", "sent_size", "sent_data"} /\ mode' = mode /\ got' = got
      BY <2>8 DEF SendSize, SendData, SendReturns
    <3>2. mode = "send" /\ r = 0
      BY <3>1 DEF ModeInv
    <3>3. N - 1 # 0
      BY <3>2, NIs DEF Typed
    <3>4. QED
      BY <3>1, <3>2, <3>3
  <2>9. CASE RecvSize(r)
    BY <2>9 DEF RecvSize, ModeInv
  <2>10. CASE RecvData(r)
    <3>1. inbox[r].items = Sent
      BY <2>10 DEF RecvData, InboxInv
    <3>2. mode = "send"
      BY <2>10 DEF RecvData, ModeInv
    <3>3. QED
      BY <2>10, <3>1, <3>2 DEF RecvData
  <2>11. CASE BcastSize(r)
    BY <2>11 DEF BcastSize, ModeInv
  <2>12. CASE BcastData(r)
    BY <2>12 DEF BcastData, ModeInv
  <2>13. QED
    BY <2>1, <2>2, <2>3, <2>4, <2>5, <2>6, <2>7, <2>8, <2>9, <2>10, <2>11, <2>12 DEF Step
<1>4. QED
  BY <1>2, <1>3

\* Only Split and Allreduce change hop limits, and only they leave the first two places
\* of kvtree_exchange.
LEMMA HopsFrame ==
  ASSUME IInv, NEW r \in Rank, Step(r), ~Split(r), ~Allreduce(r)
  PROVE  /\ hops' = hops
         /\ \A q \in Rank : (pc'[q] = "split" <=> pc[q] = "split")
         /\ mode = "exchange" => \A q \in Rank : Under(q)' <=> Under(q)
<1>1. Typed /\ TypeOK /\ ModeInv(r)
  BY DEF IInv, Typed, LocalInv
<1>2. hops' = hops
  BY DEF Step, StartRound, Receive, PostData, EndRound, EndPass, SendSize, SendData,
         SendReturns, RecvSize, RecvData, BcastSize, BcastData
<1>3. \A q \in Rank : q # r => pc'[q] = pc[q]
  BY <1>1, StepFrame
<1>4. pc[r] # "split" /\ pc'[r] # "split" /\ (mode = "exchange" => Under(r) /\ Under(r)')
  <2> USE <1>1 DEF ModeInv, TypeOK, Under
  <2>1. CASE StartRound(r)
    BY <2>1 DEF StartRound
  <2>2. CASE Receive(r)
    BY <2>2 DEF Receive
  <2>3. CASE PostData(r)
    BY <2>3 DEF PostData
  <2>4. CASE EndRound(r)
    BY <2>4 DEF EndRound
  <2>5. CASE EndPass(r)
    BY <2>5 DEF EndPass
  <2>6. CASE SendSize(r) \/ SendData(r) \/ SendReturns(r)
    BY <2>6 DEF SendSize, SendData, SendReturns
  <2>7. CASE RecvSize(r) \/ RecvData(r)
    BY <2>7 DEF RecvSize, RecvData
  <2>8. CASE BcastSize(r) \/ BcastData(r)
    BY <2>8 DEF BcastSize, BcastData
  <2>9. QED
    BY <2>1, <2>2, <2>3, <2>4, <2>5, <2>6, <2>7, <2>8 DEF Step
<1>5. QED
  BY <1>2, <1>3, <1>4 DEF Under

\* The direction that kvtree_exchange picks for an item.
LEMMA WayIs ==
  ASSUME mode = "exchange", NEW r \in Rank, NEW d \in Rank
  PROVE  Way(mode, <<r, d>>) = IF GoesLeft(r, d) THEN "left" ELSE "right"
BY DEF Way

\* Hop limits stay enough for all items, and agree after MPI_Allreduce.
LEMMA StepHops ==
  ASSUME IInv, NEW r \in Rank, Step(r), NEW q \in Rank
  PROVE  HopsInv(q)'
<1>1. /\ Typed /\ TypeOK /\ HopsInv(q) /\ ModeInv(q) /\ ModeInv(r) /\ HopsInv(r)
      /\ input' = input /\ mode' = mode /\ N \in Nat
      /\ \A p \in Rank : HopsInv(p)
  BY StepFrame, NIs DEF IInv, Typed, LocalInv
<1>2. \A p \in Rank : p # r => pc'[p] = pc[p] /\ hops'[p] = hops[p]
  BY <1>1, StepFrame
<1>3. CASE ~Split(r) /\ ~Allreduce(r)
  <2>1. /\ hops' = hops
        /\ \A p \in Rank : (pc'[p] = "split" <=> pc[p] = "split")
        /\ mode = "exchange" => (Under(q)' <=> Under(q))
    BY <1>3, HopsFrame
  <2>2. QED
    BY <1>1, <2>1 DEF HopsInv
<1>4. CASE Split(r)
  <2>1. PICK lefts \in SUBSET Rank : lefts = {d \in input[r] : GoesLeft(r, d)}
    BY <1>1 DEF TypeOK
  <2>2. input[r] \ lefts \in SUBSET Rank /\ input[r] \in SUBSET Rank
    BY <1>1 DEF TypeOK
  <2>3. /\ pc[r] = "split" /\ pc'[r] = "reduce"
        /\ hops'[r].left = StepsNeeded(r, lefts, "left")
        /\ hops'[r].right = StepsNeeded(r, input[r] \ lefts, "right")
    BY <1>1, <1>4, <2>1 DEF Split, TypeOK
  <2>4. mode = "exchange"
    BY <1>1, <2>3 DEF ModeInv
  <2>5. /\ hops'[r].left \in 0 .. N + 1 /\ hops'[r].right \in 0 .. N + 1
        /\ \A d \in lefts : StepsOf(Dist(r, d, "left")) <= hops'[r].left
        /\ \A d \in input[r] \ lefts : StepsOf(Dist(r, d, "right")) <= hops'[r].right
    BY <2>1, <2>2, <2>3, StepsNeededIs DEF Dirs
  <2>6. ASSUME NEW d \in input[r]
        PROVE  StepsOf(Dist(r, d, Way(mode, <<r, d>>))) <= hops'[r][Way(mode, <<r, d>>)]
    <3>1. CASE GoesLeft(r, d)
      <4>1. Way(mode, <<r, d>>) = "left" /\ d \in lefts
        BY <2>1, <2>2, <2>4, <3>1, WayIs
      <4>2. QED
        BY <2>5, <4>1
    <3>2. CASE ~GoesLeft(r, d)
      <4>1. Way(mode, <<r, d>>) = "right" /\ d \in input[r] \ lefts
        BY <2>1, <2>2, <2>4, <3>2, WayIs
      <4>2. QED
        BY <2>5, <4>1
    <3>3. QED
      BY <3>1, <3>2
  <2>8. \A p \in Rank : ~Under(p)'
    <3>1. ASSUME NEW p \in Rank PROVE ~Under(p)
      BY <1>1, <2>3, <2>4 DEF HopsInv
    <3>2. QED
      BY <1>2, <2>3, <3>1 DEF Under
  <2>9. CASE q = r
    BY <1>1, <2>3, <2>4, <2>5, <2>6, <2>8, <2>9 DEF HopsInv
  <2>10. CASE q # r
    BY <1>1, <1>2, <2>4, <2>8, <2>10 DEF HopsInv
  <2>11. QED
    BY <2>9, <2>10
<1>5. CASE Allreduce(r)
  <2>1. pc[r] = "reduce" /\ (\A p \in Rank : pc[p] # "split") /\ mode = "exchange"
    BY <1>1, <1>5 DEF Allreduce, ModeInv
  <2>2. PICK ml, mr : /\ ml = Max({hops[p].left : p \in Rank})
                      /\ mr = Max({hops[p].right : p \in Rank})
    OBVIOUS
  <2>3. /\ ml \in 0 .. N + 1 /\ mr \in 0 .. N + 1
        /\ \A p \in Rank : hops[p].left <= ml /\ hops[p].right <= mr
        /\ \E p \in Rank : ml = hops[p].left
        /\ \E p \in Rank : mr = hops[p].right
    BY <2>1, <2>2, ReducedIs
  <2>4. hops'[r].left = ml /\ hops'[r].right = mr /\ pc'[r] = "round"
    BY <1>1, <1>5, <2>2 DEF Allreduce, TypeOK
  <2>5. \A p \in Rank : /\ hops[p].left \in 0 .. N + 1 /\ hops[p].right \in 0 .. N + 1
                        /\ pc'[p] # "split"
    BY <1>1, <1>2, <2>1, <2>4 DEF HopsInv
  <2>6. \A p \in Rank : hops'[p].left <= ml /\ hops'[p].right <= mr
    BY <1>2, <2>3, <2>4, NIs
  <2>7. CASE q = r
    <3>1. ASSUME NEW d \in input[r]
          PROVE  StepsOf(Dist(r, d, Way(mode, <<r, d>>))) <= hops'[r][Way(mode, <<r, d>>)]
      <4>1. d \in Rank
        BY <1>1 DEF TypeOK
      <4>2. PICK w \in Dirs : w = Way(mode, <<r, d>>)
        BY <2>1, <4>1, WayIs DEF Dirs
      <4>3. StepsOf(Dist(r, d, w)) <= hops[r][w]
        BY <1>1, <2>1, <4>2 DEF HopsInv
      <4>4. StepsOf(Dist(r, d, w)) \in 0 .. N + 1
        BY <4>1, DistType, StepsOfIs
      <4>5. hops[r].left <= hops'[r].left /\ hops[r].right <= hops'[r].right
        BY <2>3, <2>4
      <4>6. hops[r][w] <= hops'[r][w] /\ hops[r][w] \in Int /\ hops'[r][w] \in Int
        <5>1. CASE w = "left"
          BY <2>3, <2>4, <2>5, <4>5, <5>1
        <5>2. CASE w = "right"
          BY <2>3, <2>4, <2>5, <4>5, <5>2
        <5>3. QED
          BY <5>1, <5>2 DEF Dirs
      <4>7. QED
        BY <4>2, <4>3, <4>4, <4>6
    <3>2. QED
      BY <1>1, <2>1, <2>3, <2>4, <2>5, <2>6, <2>7, <3>1 DEF HopsInv
  <2>8. CASE q # r
    <3>1. ASSUME Under(q) PROVE ml <= hops[q].left /\ mr <= hops[q].right
      BY <1>1, <2>1, <2>3, <3>1 DEF HopsInv
    <3>2. pc'[q] = pc[q] /\ hops'[q] = hops[q]
      BY <1>2, <2>8
    <3>3. ASSUME Under(q), NEW p \in Rank
          PROVE  hops'[p].left <= hops'[q].left /\ hops'[p].right <= hops'[q].right
      <4>1. CASE p = r
        BY <2>4, <3>1, <3>2, <3>3, <4>1
      <4>2. CASE p # r
        BY <1>1, <1>2, <2>1, <3>2, <3>3, <4>2 DEF HopsInv
      <4>3. QED
        BY <4>1, <4>2
    <3>4. QED
      BY <1>1, <2>1, <2>5, <3>2, <3>3 DEF HopsInv, Under
  <2>9. QED
    BY <2>7, <2>8
<1>6. QED
  BY <1>3, <1>4, <1>5

\* Ranks do the rounds within the limits, and all of them.
LEMMA StepRound ==
  ASSUME IInv, NEW r \in Rank, Step(r), NEW q \in Rank
  PROVE  RoundInv(q)'
<1>1. /\ Typed /\ TypeOK /\ RoundInv(q) /\ RoundInv(r) /\ ModeInv(r) /\ mode' = mode
      /\ hop_count[r] \in 0 .. N
  BY StepFrame DEF IInv, Typed, LocalInv
<1>2. CASE q # r
  <2>1. /\ pc'[q] = pc[q] /\ dir'[q] = dir[q] /\ hop_count'[q] = hop_count[q]
        /\ hops'[q] = hops[q]
    BY <1>1, <1>2, StepFrame
  <2>2. QED
    BY <1>1, <2>1 DEF RoundInv, InRound, Within, MoreRounds
<1>3. CASE q = r
  <2> USE <1>1, <1>3 DEF RoundInv, InRound, TypeOK
  <2>1. CASE Split(r)
    BY <2>1 DEF Split, ModeInv, Under
  <2>2. CASE Allreduce(r)
    BY <2>2 DEF Allreduce, ModeInv, Under
  <2>3. CASE StartRound(r)
    BY <2>3 DEF StartRound, Within, MoreRounds
  <2>4. CASE Receive(r)
    BY <2>4 DEF Receive, Within, MoreRounds
  <2>5. CASE PostData(r)
    BY <2>5 DEF PostData, Within, MoreRounds
  <2>6. CASE EndRound(r)
    <3>1. /\ pc'[r] = "round" /\ hop_count'[r] = hop_count[r] + 1 /\ dir' = dir /\ hops' = hops
          /\ hop_count'[r] - 1 = hop_count[r]
      BY <2>6 DEF EndRound
    <3>2. Within(r, dir[r], hop_count[r])
      BY <2>6, MoreRoundsIs DEF EndRound
    <3>3. QED
      BY <3>1, <3>2 DEF Within
  <2>7. CASE EndPass(r)
    <3>1. CASE mode = "exchange" /\ dir[r] = "left"
      BY <2>7, <3>1 DEF EndPass
    <3>2. CASE ~(mode = "exchange" /\ dir[r] = "left")
      BY <2>7, <3>2 DEF EndPass, Within, MoreRounds
    <3>3. QED
      BY <3>1, <3>2
  <2>8. CASE SendSize(r) \/ SendData(r) \/ SendReturns(r)
    BY <2>8 DEF SendSize, SendData, SendReturns, ModeInv, Under
  <2>9. CASE RecvSize(r) \/ RecvData(r)
    BY <2>9 DEF RecvSize, RecvData, ModeInv, Under
  <2>10. CASE BcastSize(r) \/ BcastData(r)
    BY <2>10 DEF BcastSize, BcastData, ModeInv, Under
  <2>11. QED
    BY <2>1, <2>2, <2>3, <2>4, <2>5, <2>6, <2>7, <2>8, <2>9, <2>10 DEF Step
<1>4. QED
  BY <1>2, <1>3

\* A round moves the items with the bit set by its stride, and no others.
LEMMA StepItem ==
  ASSUME IInv, NEW r \in Rank, Step(r), NEW q \in Rank
  PROVE  ItemInv(q)'
<1>1. /\ Typed /\ TypeOK /\ ItemInv(q) /\ ItemInv(r) /\ ModeInv(r) /\ RoundInv(r) /\ InboxInv(r)
      /\ mode' = mode /\ input' = input /\ hop_count[r] \in 0 .. N /\ dir[r] \in Dirs
  BY StepFrame DEF IInv, Typed, TypeOK, LocalInv, Dirs
<1>2. CASE q # r
  <2>1. /\ pc'[q] = pc[q] /\ dir'[q] = dir[q] /\ hop_count'[q] = hop_count[q]
        /\ current'[q] = current[q] /\ sending'[q] = sending[q]
        /\ right_in'[q] = right_in[q] /\ out'[q] = out[q]
    BY <1>1, <1>2, StepFrame
  <2>2. Dst(q)' = Dst(q)
    BY <2>1 DEF Dst, Partner
  <2>3. QED
    BY <1>1, <2>1, <2>2 DEF ItemInv, InRound
<1>3. CASE q = r
  <2>1. CASE Split(r)
    <3>1. PICK lefts : lefts = {d \in input[r] : GoesLeft(r, d)}
      OBVIOUS
    <3>2. /\ pc[r] = "split" /\ pc'[r] = "reduce" /\ current'[r] = {r} \X lefts
          /\ right_in'[r] = {r} \X (input[r] \ lefts)
          /\ dir' = dir /\ hop_count' = hop_count /\ out' = out
      BY <1>1, <2>1, <3>1 DEF Split, TypeOK
    <3>3. mode = "exchange" /\ dir[r] = "left" /\ hop_count[r] = 0 /\ ~Under(r)
      BY <1>1, <3>2 DEF ModeInv, Under
    <3>4. ASSUME NEW d \in input[r]
          PROVE  /\ <<r, d>> \in Sends(input)
                 /\ Way(mode, <<r, d>>) = IF d \in lefts THEN "left" ELSE "right"
      <4>1. d \in Rank
        BY <1>1 DEF TypeOK
      <4>2. QED
        BY <3>1, <3>3, <4>1, WayIs DEF Sends, Items
    <3>5. ASSUME NEW i \in current'[r]
          PROVE  Here(input, mode, i, r, "left", 0)
      <4>1. PICK d \in lefts : i = <<r, d>>
        BY <3>2
      <4>2. i \in Sends(input) /\ Way(mode, i) = "left" /\ i[1] = r
        BY <3>1, <3>4, <4>1
      <4>3. QED
        BY <4>2, HereFirst
    <3>6. ASSUME NEW i \in right_in'[r]
          PROVE  i \in Sends(input) /\ i[1] = r /\ Way(mode, i) = "right"
      BY <3>1, <3>2, <3>4
    <3>7. QED
      BY <1>1, <1>3, <3>2, <3>3, <3>5, <3>6 DEF ItemInv, AllHere, InRound
  <2>2. CASE Allreduce(r)
    BY <1>1, <1>3, <2>2 DEF Allreduce, ItemInv, InRound, TypeOK
  <2>3. CASE StartRound(r)
    <3>1. /\ pc[r] = "round" /\ pc'[r] = "size" /\ MoreRounds(r)
          /\ out'[r] = out[r] \cup Mine(r, current[r])
          /\ sending'[r] = Outgoing(r)
          /\ current'[r] = (current[r] \ Mine(r, current[r])) \ Outgoing(r)
          /\ dir' = dir /\ hop_count' = hop_count /\ right_in' = right_in
      BY <1>1, <2>3 DEF StartRound, TypeOK
    <3>2. 2^hop_count[r] < N
      BY <1>1, <3>1, MoreRoundsIs
    <3>3. Dst(r) = At(r, dir[r], 2^hop_count[r]) /\ Dst(r)' = Dst(r)
      BY <1>1, <3>1, <3>2, PartnersAre DEF Dst, Partner
    <3>4. \A i \in current[r] : Here(input, mode, i, r, dir[r], hop_count[r])
      BY <1>1, <3>1 DEF ItemInv, AllHere, InRound
    <3>5. ASSUME NEW i \in sending'[r]
          PROVE  Here(input, mode, i, Dst(r), dir[r], hop_count[r] + 1)
      <4>1. i \in current[r] /\ BitSet(Dist(r, i[2], dir[r]), hop_count[r])
        BY <3>1 DEF Outgoing
      <4>2. QED
        BY <1>1, <3>2, <3>3, <3>4, <4>1, HereNext
    <3>6. ASSUME NEW i \in current'[r]
          PROVE  Here(input, mode, i, r, dir[r], hop_count[r] + 1)
      <4>1. i \in current[r] /\ ~BitSet(Dist(r, i[2], dir[r]), hop_count[r])
        BY <3>1 DEF Outgoing
      <4>2. QED
        BY <1>1, <3>2, <3>4, <4>1, HereNext
    <3>7. ASSUME NEW i \in out'[r]
          PROVE  i \in Sends(input) /\ i[2] = r
      <4>1. CASE i \in out[r]
        BY <1>1, <4>1 DEF ItemInv
      <4>2. CASE i \in Mine(r, current[r])
        BY <3>4, <4>2 DEF Mine, Here
      <4>3. QED
        BY <3>1, <4>1, <4>2
    <3>8. QED
      BY <1>1, <1>3, <3>1, <3>3, <3>5, <3>6, <3>7 DEF ItemInv, AllHere, InRound
  <2>4. CASE Receive(r)
    <3>1. Dst(r)' = Dst(r)
      BY <2>4 DEF Receive, Dst, Partner
    <3>2. QED
      BY <1>1, <1>3, <2>4, <3>1 DEF Receive, ItemInv, InRound
  <2>5. CASE PostData(r)
    <3>1. Dst(r)' = Dst(r)
      BY <2>5 DEF PostData, Dst, Partner
    <3>2. QED
      BY <1>1, <1>3, <2>5, <3>1 DEF PostData, ItemInv, InRound, TypeOK
  <2>6. CASE EndRound(r)
    <3>1. /\ pc[r] = "data" /\ inbox[r] # NoMsg /\ pc'[r] = "round"
          /\ hop_count'[r] = hop_count[r] + 1
          /\ current'[r] = current[r] \cup inbox[r].items
          /\ dir' = dir /\ out' = out /\ right_in' = right_in
      BY <1>1, <2>6 DEF EndRound, Complete, TypeOK
    <3>2. ASSUME NEW i \in current'[r]
          PROVE  Here(input, mode, i, r, dir[r], hop_count[r] + 1)
      <4>1. CASE i \in current[r]
        BY <1>1, <3>1, <4>1 DEF ItemInv, AllHere, InRound
      <4>2. CASE i \in inbox[r].items
        BY <1>1, <3>1, <4>2 DEF InboxInv, AllHere
      <4>3. QED
        BY <3>1, <4>1, <4>2
    <3>3. QED
      BY <1>1, <1>3, <3>1, <3>2 DEF ItemInv, AllHere, InRound
  <2>7. CASE EndPass(r)
    <3>1. /\ pc[r] = "round" /\ out'[r] = out[r] \cup Mine(r, current[r])
      BY <1>1, <2>7 DEF EndPass, TypeOK
    <3>2. ASSUME NEW i \in out'[r]
          PROVE  i \in Sends(input) /\ i[2] = r
      <4>1. CASE i \in out[r]
        BY <1>1, <4>1 DEF ItemInv
      <4>2. CASE i \in Mine(r, current[r])
        BY <1>1, <3>1, <4>2 DEF Mine, ItemInv, AllHere, Here, InRound
      <4>3. QED
        BY <3>1, <4>1, <4>2
    <3>3. CASE mode = "exchange" /\ dir[r] = "left"
      <4>1. /\ dir'[r] = "right" /\ current'[r] = right_in[r] /\ right_in'[r] = {}
            /\ hop_count'[r] = 0 /\ pc' = pc
        BY <1>1, <2>7, <3>3 DEF EndPass, TypeOK, Typed
      <4>2. ASSUME NEW i \in right_in[r]
            PROVE  Here(input, mode, i, r, "right", 0)
        <5>1. i \in Sends(input) /\ i[1] = r /\ Way(mode, i) = "right"
          BY <1>1 DEF ItemInv
        <5>2. QED
          BY <5>1, HereFirst
      <4>3. QED
        BY <1>1, <1>3, <3>1, <3>2, <4>1, <4>2 DEF ItemInv, AllHere, InRound
    <3>4. CASE ~(mode = "exchange" /\ dir[r] = "left")
      <4>1. /\ pc'[r] = "done" /\ current'[r] = {} /\ dir' = dir /\ right_in' = right_in
            /\ hop_count' = hop_count
        BY <1>1, <2>7, <3>4 DEF EndPass, TypeOK
      <4>2. right_in[r] = {}
        BY <1>1, <3>4 DEF ItemInv, Dirs
      <4>3. QED
        BY <1>1, <1>3, <3>2, <4>1, <4>2 DEF ItemInv, AllHere, InRound
    <3>5. QED
      BY <3>3, <3>4
  <2>8. CASE SendSize(r) \/ SendData(r) \/ SendReturns(r)
    BY <1>1, <1>3, <2>8 DEF SendSize, SendData, SendReturns, ItemInv, InRound, TypeOK
  <2>9. CASE RecvSize(r) \/ RecvData(r)
    BY <1>1, <1>3, <2>9 DEF RecvSize, RecvData, ItemInv, InRound, TypeOK
  <2>10. CASE BcastSize(r) \/ BcastData(r)
    BY <1>1, <1>3, <2>10 DEF BcastSize, BcastData, ItemInv, InRound, TypeOK
  <2>11. QED
    BY <2>1, <2>2, <2>3, <2>4, <2>5, <2>6, <2>7, <2>8, <2>9, <2>10 DEF Step
<1>4. QED
  BY <1>2, <1>3

-----------------------------------------------------------------------------
(* Steps: the counts of messages. *)

\* All counts of rank r are as before.
SamePosted(r) ==
  /\ \A dr \in Dirs, k \in 0 .. N : PostedIn(r, dr, k)' = PostedIn(r, dr, k)
  /\ mode = "send" /\ r = 0 => PostedFirst(r)' = PostedFirst(r)
SameRecvd(r) ==
  /\ \A dr \in Dirs, k \in 0 .. N : RecvdIn(r, dr, k)' = RecvdIn(r, dr, k)
  /\ mode = "send" /\ r = N - 1 => RecvdFirst(r)' = RecvdFirst(r)

\* Then those of its pairs are.
LEMMA SamePairs ==
  ASSUME mode' = mode, NEW s \in Rank, NEW d \in Rank
  PROVE  /\ SamePosted(s) => PostedA(s, d)' = PostedA(s, d) /\ PostedB(s, d)' = PostedB(s, d)
         /\ SameRecvd(d) => RecvdA(s, d)' = RecvdA(s, d) /\ RecvdB(s, d)' = RecvdB(s, d)
<1>1. /\ Paired(s, d, "left") => Round(s, d, "left") \in 0 .. N
      /\ Paired(s, d, "right") => Round(s, d, "right") \in 0 .. N
  BY RoundIs DEF Dirs
<1>2. ASSUME SamePosted(s)
      PROVE  PostedA(s, d)' = PostedA(s, d) /\ PostedB(s, d)' = PostedB(s, d)
  <2>1. PostedB(s, d)' = PostedB(s, d)
    BY <1>1, <1>2 DEF SamePosted, PostedB, Dirs
  <2>2. PostedA(s, d)' = PostedA(s, d)
    BY <1>1, <1>2 DEF SamePosted, PostedA, Dirs
  <2>3. QED
    BY <2>1, <2>2
<1>3. ASSUME SameRecvd(d)
      PROVE  RecvdA(s, d)' = RecvdA(s, d) /\ RecvdB(s, d)' = RecvdB(s, d)
  <2>1. RecvdB(s, d)' = RecvdB(s, d)
    BY <1>1, <1>3 DEF SameRecvd, RecvdB, Dirs
  <2>2. RecvdA(s, d)' = RecvdA(s, d)
    BY <1>1, <1>3 DEF SameRecvd, RecvdA, Dirs
  <2>3. QED
    BY <2>1, <2>2
<1>4. QED
  BY <1>2, <1>3

\* A step of r leaves the counts of the other ranks alone.
LEMMA OthersSame ==
  ASSUME Typed, NEW r \in Rank, Step(r), NEW q \in Rank, q # r
  PROVE  SamePosted(q) /\ SameRecvd(q)
<1>1. /\ mode' = mode /\ pc'[q] = pc[q] /\ dir'[q] = dir[q] /\ hop_count'[q] = hop_count[q]
      /\ hops'[q] = hops[q] /\ inbox'[q] = inbox[q]
  BY StepFrame
<1>2. ASSUME NEW dr, NEW k
      PROVE  /\ PostedIn(q, dr, k)' = PostedIn(q, dr, k)
             /\ RecvdIn(q, dr, k)' = RecvdIn(q, dr, k)
  <2>1. Past(q, dr, k)' <=> Past(q, dr, k)
    BY <1>1 DEF Past, Within
  <2>2. (Busy(q, dr, k)' <=> Busy(q, dr, k)) /\ Full(q)' = Full(q)
    BY <1>1 DEF Busy, InRound, Full
  <2>3. QED
    BY <1>1, <2>1, <2>2 DEF PostedIn, RecvdIn
<1>3. PostedFirst(q)' = PostedFirst(q) /\ RecvdFirst(q)' = RecvdFirst(q)
  BY <1>1 DEF PostedFirst, RecvdFirst, Full
<1>4. QED
  BY <1>2, <1>3 DEF SamePosted, SameRecvd

\* The limits allow the rounds before an allowed round, and none after one that is not.
LEMMA WithinBelow ==
  ASSUME Typed, NEW r \in Rank, NEW dr \in Dirs, NEW j \in 0 .. N, NEW k \in 0 .. N, j <= k,
         Within(r, dr, k)
  PROVE  Within(r, dr, j)
<1>1. hops[r][dr] \in Int
  BY DEF Typed, TypeOK, Dirs
<1>2. j \in 0 .. N + 1 /\ k \in 0 .. N + 1 /\ N \in Nat \ {0}
  BY NIs
<1>3. 2^j \in Nat /\ 2^k \in Nat
  BY <1>2, PowerIs
<1>4. 2^j <= 2^k
  <2>1. CASE j = k
    BY <1>3, <2>1
  <2>2. CASE j < k
    BY <1>2, <1>3, <2>2, PowerGrows
  <2>3. QED
    BY <1>2, <2>1, <2>2
<1>5. QED
  BY <1>1, <1>2, <1>3, <1>4 DEF Within

\* At the end of a pass the rounds that r has done are the rounds within its limits.
LEMMA PassDone ==
  ASSUME Typed, NEW r \in Rank, RoundInv(r), ~MoreRounds(r), NEW k \in 0 .. N
  PROVE  k < hop_count[r] <=> Within(r, dir[r], k)
<1>1. hop_count[r] \in 0 .. N /\ dir[r] \in Dirs /\ N \in Nat
  BY NIs DEF Typed, TypeOK, Dirs
<1>2. ASSUME k < hop_count[r] PROVE Within(r, dir[r], k)
  <2>1. hop_count[r] > 0 /\ hop_count[r] - 1 \in 0 .. N /\ k <= hop_count[r] - 1
    BY <1>1, <1>2
  <2>2. Within(r, dir[r], hop_count[r] - 1)
    BY <2>1 DEF RoundInv
  <2>3. QED
    BY <1>1, <2>1, <2>2, WithinBelow
<1>3. ASSUME ~(k < hop_count[r]), Within(r, dir[r], k) PROVE FALSE
  <2>1. hop_count[r] <= k
    BY <1>1, <1>3
  <2>2. Within(r, dir[r], hop_count[r])
    BY <1>1, <1>3, <2>1, WithinBelow
  <2>3. QED
    BY <2>2, MoreRoundsIs
<1>4. QED
  BY <1>2, <1>3

\* Steps that neither post nor receive a message.
Quiet(r) == \/ Split(r) \/ Allreduce(r) \/ EndRound(r) \/ EndPass(r) \/ SendReturns(r)
            \/ RecvSize(r) \/ RecvData(r) \/ BcastSize(r) \/ BcastData(r)

\* The end of a round and of a pass, and the steps before the exchange, change no count.
LEMMA QuietSame ==
  ASSUME IInv, NEW r \in Rank, Quiet(r)
  PROVE  SamePosted(r) /\ SameRecvd(r) /\ chan' = chan
<1>1. /\ Typed /\ TypeOK /\ ModeInv(r) /\ RoundInv(r) /\ hop_count[r] \in 0 .. N
      /\ N \in Nat \ {0} /\ (mode = "send" => N - 1 # 0)
  BY NIs DEF IInv, Typed, LocalInv
<1>2. mode' = mode /\ chan' = chan
  BY DEF Quiet, Split, Allreduce, EndRound, EndPass, SendReturns, RecvSize, RecvData,
         BcastSize, BcastData
<1>3. ASSUME ~Under(r), hop_count'[r] = hop_count[r], dir'[r] = dir[r],
             pc'[r] \notin {"size", "data"}
      PROVE  \A dr \in Dirs, k \in 0 .. N :
               /\ PostedIn(r, dr, k)' = PostedIn(r, dr, k)
               /\ RecvdIn(r, dr, k)' = RecvdIn(r, dr, k)
  <2>1. hop_count[r] = 0 /\ (mode = "exchange" => dir[r] = "left")
        /\ ~InRound(r) /\ ~(InRound(r)')
    BY <1>1, <1>3 DEF ModeInv, Under, InRound, TypeOK
  <2>2. ASSUME NEW dr \in Dirs, NEW k \in 0 .. N
        PROVE  ~Past(r, dr, k) /\ ~(Past(r, dr, k)') /\ ~Busy(r, dr, k) /\ ~(Busy(r, dr, k)')
    BY <1>2, <1>3, <2>1 DEF Past, Busy
  <2>3. QED
    BY <2>2 DEF PostedIn, RecvdIn
<1>4. CASE Split(r)
  <2>1. /\ pc[r] = "split" /\ pc'[r] = "reduce" /\ mode = "exchange"
        /\ dir' = dir /\ hop_count' = hop_count
    BY <1>1, <1>4 DEF Split, ModeInv, TypeOK
  <2>2. QED
    BY <1>2, <1>3, <2>1 DEF SamePosted, SameRecvd, Under
<1>5. CASE Allreduce(r)
  <2>1. /\ pc[r] = "reduce" /\ pc'[r] = "round" /\ mode = "exchange"
        /\ dir' = dir /\ hop_count' = hop_count
    BY <1>1, <1>5 DEF Allreduce, ModeInv, TypeOK
  <2>2. QED
    BY <1>2, <1>3, <2>1 DEF SamePosted, SameRecvd, Under
<1>6. CASE EndRound(r)
  <2>1. /\ pc[r] = "data" /\ pc'[r] = "round" /\ inbox[r] # NoMsg
        /\ dir' = dir /\ hop_count'[r] = hop_count[r] + 1 /\ hops' = hops
    BY <1>1, <1>6 DEF EndRound, Complete, TypeOK
  <2>2. InRound(r) /\ ~(InRound(r)') /\ Full(r) = 1
    BY <2>1 DEF InRound, Full
  <2>3. ASSUME NEW dr \in Dirs, NEW k \in 0 .. N
        PROVE  /\ PostedIn(r, dr, k)' = PostedIn(r, dr, k)
               /\ RecvdIn(r, dr, k)' = RecvdIn(r, dr, k)
    <3>1. Past(r, dr, k)' <=> Past(r, dr, k) \/ Busy(r, dr, k)
      BY <1>1, <1>2, <2>1, <2>2 DEF Past, Busy, Within
    <3>2. ~(Busy(r, dr, k)')
      BY <2>2 DEF Busy
    <3>3. QED
      BY <2>1, <2>2, <3>1, <3>2 DEF PostedIn, RecvdIn
  <2>4. PostedFirst(r)' = PostedFirst(r) /\ RecvdFirst(r)' = RecvdFirst(r)
    BY <2>1 DEF PostedFirst, RecvdFirst
  <2>5. QED
    BY <1>2, <2>3, <2>4 DEF SamePosted, SameRecvd
<1>7. CASE EndPass(r)
  <2>1. pc[r] = "round" /\ ~MoreRounds(r) /\ hops' = hops /\ inbox' = inbox
    BY <1>7 DEF EndPass
  <2>2. pc'[r] \in {"round", "done"}
    BY <1>1, <1>7, <2>1 DEF EndPass, TypeOK
  <2>3. ~InRound(r) /\ ~(InRound(r)')
    BY <2>1, <2>2 DEF InRound
  <2>4. PostedFirst(r)' = PostedFirst(r) /\ RecvdFirst(r)' = RecvdFirst(r)
    BY <2>1, <2>2 DEF PostedFirst, RecvdFirst
  <2>5. ASSUME NEW dr \in Dirs, NEW k \in 0 .. N
        PROVE  Past(r, dr, k)' <=> Past(r, dr, k)
    <3>1. CASE mode = "exchange" /\ dir[r] = "left"
      <4>1. dir'[r] = "right" /\ hop_count'[r] = 0
        BY <1>1, <1>7, <3>1 DEF EndPass, TypeOK
      <4>2. k < hop_count[r] <=> Within(r, "left", k)
        BY <1>1, <2>1, <3>1, PassDone
      <4>3. Within(r, "left", k)' <=> Within(r, "left", k)
        BY <2>1 DEF Within
      <4>4. CASE dr = "left"
        BY <1>2, <3>1, <4>1, <4>2, <4>3, <4>4 DEF Past
      <4>5. CASE dr = "right"
        BY <1>2, <3>1, <4>1, <4>5 DEF Past
      <4>6. QED
        BY <4>4, <4>5 DEF Dirs
    <3>2. CASE ~(mode = "exchange" /\ dir[r] = "left")
      BY <1>2, <1>7, <2>1, <3>2 DEF EndPass, Past, Within
    <3>3. QED
      BY <3>1, <3>2
  <2>6. ASSUME NEW dr \in Dirs, NEW k \in 0 .. N
        PROVE  ~Busy(r, dr, k) /\ ~(Busy(r, dr, k)')
    BY <2>3 DEF Busy
  <2>7. \A dr \in Dirs, k \in 0 .. N :
          /\ PostedIn(r, dr, k)' = PostedIn(r, dr, k)
          /\ RecvdIn(r, dr, k)' = RecvdIn(r, dr, k)
    BY <2>5, <2>6 DEF PostedIn, RecvdIn
  <2>8. QED
    BY <1>2, <2>4, <2>7 DEF SamePosted, SameRecvd
<1>8. CASE SendReturns(r)
  <2>1. /\ pc[r] = "sent_data" /\ pc'[r] = "round" /\ dir' = dir /\ hop_count' = hop_count
        /\ mode = "send" /\ r = 0
    BY <1>1, <1>8 DEF SendReturns, ModeInv, TypeOK
  <2>2. PostedFirst(r)' = PostedFirst(r)
    BY <2>1 DEF PostedFirst
  <2>3. QED
    BY <1>1, <1>2, <1>3, <2>1, <2>2 DEF SamePosted, SameRecvd, Under
<1>9. CASE RecvSize(r) \/ RecvData(r)
  <2>1. /\ inbox[r] # NoMsg /\ inbox'[r] = NoMsg /\ dir' = dir /\ hop_count' = hop_count
        /\ \/ pc[r] = "recv" /\ pc'[r] = "recv_data"
           \/ pc[r] = "recv_data" /\ pc'[r] = "round"
    BY <1>1, <1>9 DEF RecvSize, RecvData, Typed, TypeOK
  <2>2. mode = "send" /\ r = N - 1
    BY <1>1, <2>1 DEF ModeInv
  <2>3. RecvdFirst(r)' = RecvdFirst(r)
    BY <2>1 DEF RecvdFirst, Full
  <2>4. QED
    BY <1>1, <1>2, <1>3, <2>1, <2>2, <2>3 DEF SamePosted, SameRecvd, Under
<1>10. CASE BcastSize(r) \/ BcastData(r)
  <2>1. /\ dir' = dir /\ hop_count' = hop_count
        /\ pc[r] \in {"bcast", "bcast_data"} /\ pc'[r] \in {"bcast_data", "round"}
    BY <1>1, <1>10 DEF BcastSize, BcastData, TypeOK
  <2>2. mode = "bcast"
    BY <1>1, <2>1 DEF ModeInv
  <2>3. QED
    BY <1>1, <1>2, <1>3, <2>1, <2>2 DEF SamePosted, SameRecvd, Under
<1>11. QED
  BY <1>2, <1>4, <1>5, <1>6, <1>7, <1>8, <1>9, <1>10 DEF Quiet

\* A count of one tells where the rank is.
LEMMA CountOne ==
  ASSUME NEW s \in Rank, NEW d \in Rank
  PROVE  /\ PostedA(s, d) = 1 /\ mode # "send" => pc[s] = "size"
         /\ PostedB(s, d) = 1 => pc[s] = "size"
         /\ RecvdA(s, d) = 1 \/ RecvdB(s, d) = 1 =>
              pc[d] \in {"size", "data", "recv", "recv_data"}
<1>1. \A dr, k : PostedIn(s, dr, k) = 1 => pc[s] = "size"
  BY DEF PostedIn
<1>2. \A dr, k : RecvdIn(d, dr, k) = 1 => pc[d] \in {"size", "data"}
  BY DEF RecvdIn, Busy, InRound
<1>3. RecvdFirst(d) = 1 => pc[d] \in {"recv", "recv_data"}
  BY DEF RecvdFirst
<1>4. QED
  BY <1>1, <1>2, <1>3 DEF PostedA, PostedB, RecvdA, RecvdB

\* A pair that a step does not concern keeps its channel and the trees in it.
LEMMA PairKept ==
  ASSUME NEW s \in Rank, NEW d \in Rank, ChanInv(s, d), input' = input, mode' = mode,
         chan'[s][d] = chan[s][d],
         PostedA(s, d)' = PostedA(s, d), PostedB(s, d)' = PostedB(s, d),
         RecvdA(s, d)' = RecvdA(s, d), RecvdB(s, d)' = RecvdB(s, d),
         (PostedA(s, d) = 1 /\ mode # "send") \/ PostedB(s, d) = 1 => sending'[s] = sending[s],
         RecvdA(s, d) = 1 \/ RecvdB(s, d) = 1 => HeldSize(d)' = HeldSize(d)
  PROVE  ChanInv(s, d)'
<1>1. PICK xa \in Trees, xb \in Trees : Carries(s, d, xa, xb)
  BY DEF ChanInv
<1>2. PostedA(s, d) = 1 => FirstTree(s)' = FirstTree(s)
  BY DEF FirstTree
<1>3. (GoodFirst(s, d, xa)' <=> GoodFirst(s, d, xa)) /\ (GoodSecond(s, d, xb)' <=> GoodSecond(s, d, xb))
  BY DEF GoodFirst, GoodSecond
<1>4. Carries(s, d, xa, xb)'
  BY <1>1, <1>2, <1>3 DEF Carries
<1>5. QED
  BY <1>4 DEF ChanInv

\* Quiet steps keep every channel.
LEMMA QuietChan ==
  ASSUME IInv, NEW r \in Rank, Quiet(r), NEW s \in Rank, NEW d \in Rank
  PROVE  ChanInv(s, d)'
<1>1. /\ Typed /\ TypeOK /\ ModeInv(r) /\ ChanInv(s, d) /\ Step(r)
  BY DEF IInv, Typed, LocalInv, Quiet, Step
<1>2. input' = input /\ mode' = mode
  BY <1>1, StepFrame
<1>3. SamePosted(s) /\ SameRecvd(d) /\ chan' = chan
  BY <1>1, QuietSame, OthersSame
<1>4. /\ PostedA(s, d)' = PostedA(s, d) /\ PostedB(s, d)' = PostedB(s, d)
      /\ RecvdA(s, d)' = RecvdA(s, d) /\ RecvdB(s, d)' = RecvdB(s, d)
  BY <1>2, <1>3, SamePairs
<1>5. ASSUME (PostedA(s, d) = 1 /\ mode # "send") \/ PostedB(s, d) = 1
      PROVE  sending'[s] = sending[s]
  <2>1. pc[s] = "size"
    BY <1>5, CountOne
  <2>2. pc[r] # "size"
    BY DEF Quiet, Split, Allreduce, EndRound, EndPass, SendReturns, RecvSize, RecvData,
           BcastSize, BcastData
  <2>3. QED
    BY <1>1, <2>1, <2>2, StepFrame
<1>6. ASSUME RecvdA(s, d) = 1 \/ RecvdB(s, d) = 1
      PROVE  HeldSize(d)' = HeldSize(d)
  <2>1. CASE d # r
    <3>1. inbox'[d] = inbox[d] /\ size_recv'[d] = size_recv[d]
      BY <1>1, <2>1, StepFrame
    <3>2. QED
      BY <3>1 DEF HeldSize
  <2>2. CASE d = r
    <3>1. pc[r] \in {"size", "data", "recv", "recv_data"}
      BY <1>6, <2>2, CountOne
    <3>2. pc'[r] \in {"size", "data", "recv", "recv_data"}
      <4>1. RecvdA(s, d)' = 1 \/ RecvdB(s, d)' = 1
        BY <1>4, <1>6
      <4>2. \A dr, k : RecvdIn(r, dr, k)' = 1 => pc'[r] \in {"size", "data"}
        BY DEF RecvdIn, Busy, InRound
      <4>3. RecvdFirst(r)' = 1 => pc'[r] \in {"recv", "recv_data"}
        BY DEF RecvdFirst
      <4>4. QED
        BY <2>2, <4>1, <4>2, <4>3 DEF RecvdA, RecvdB
    <3>3. RecvSize(r)
      BY <1>1, <3>1, <3>2 DEF Quiet, Split, Allreduce, EndRound, EndPass, SendReturns,
         RecvData, BcastSize, BcastData, TypeOK
    <3>4. inbox[r] # NoMsg /\ inbox'[r] = NoMsg /\ size_recv'[r] = inbox[r].size
      BY <1>1, <3>3 DEF RecvSize, Typed, TypeOK
    <3>5. QED
      BY <2>2, <3>4 DEF HeldSize
  <2>3. QED
    BY <2>1, <2>2
<1>7. QED
  BY <1>1, <1>2, <1>3, <1>4, <1>5, <1>6, PairKept

\* What the two posting steps of kvtree_sendrecv do: message n of tree x goes to Dst(r).
Posts(r, x, n) ==
  /\ x \in Trees /\ sending'[r] = x
  /\ chan' = [chan EXCEPT ![r][Dst(r)] = Append(@, Message(x, n))]
  /\ \/ n = 1 /\ pc[r] = "round" /\ pc'[r] = "size" /\ inbox' = inbox /\ size_recv' = size_recv
     \/ /\ n = 2 /\ pc[r] = "size" /\ pc'[r] = "data" /\ sending' = sending
        /\ inbox[r] # NoMsg /\ inbox'[r] = NoMsg /\ size_recv'[r] = inbox[r].size
        /\ AllHere(input, mode, x, Dst(r), dir[r], hop_count[r] + 1)
  /\ MoreRounds(r)
  /\ UNCHANGED <<input, mode, dir, hop_count, hops>>

\* They are such steps.
LEMMA PostsIs ==
  ASSUME IInv, NEW r \in Rank, StartRound(r) \/ PostData(r)
  PROVE  \E x \in Trees, n \in 1 .. 2 : Posts(r, x, n)
<1>1. Typed /\ TypeOK /\ RoundInv(r) /\ ItemInv(r)
  BY DEF IInv, Typed, LocalInv
<1>2. Outgoing(r) \in Trees /\ sending[r] \in Trees
  BY <1>1, OutgoingType
<1>3. CASE StartRound(r)
  <2>1. Posts(r, Outgoing(r), 1)
    BY <1>1, <1>2, <1>3 DEF StartRound, Posts, Send, Message, TypeOK
  <2>2. QED
    BY <1>2, <2>1
<1>4. CASE PostData(r)
  <2>1. pc[r] = "size" /\ InRound(r)
    BY <1>4 DEF PostData, InRound
  <2>2. MoreRounds(r) /\ AllHere(input, mode, sending[r], Dst(r), dir[r], hop_count[r] + 1)
    BY <1>1, <2>1 DEF RoundInv, ItemInv
  <2>3. /\ inbox[r] # NoMsg /\ inbox'[r] = NoMsg /\ size_recv'[r] = inbox[r].size
        /\ pc'[r] = "data" /\ sending' = sending
        /\ UNCHANGED <<input, mode, dir, hop_count, hops>>
    BY <1>1, <1>4 DEF PostData, Complete, Typed, TypeOK
  <2>4. chan' = [chan EXCEPT ![r][Dst(r)] = Append(@, Message(sending[r], 2))]
    BY <1>4 DEF PostData, Send, Message
  <2>5. Posts(r, sending[r], 2)
    BY <1>2, <2>1, <2>2, <2>3, <2>4 DEF Posts
  <2>6. QED
    BY <1>2, <2>5
<1>5. QED
  BY <1>3, <1>4

\* Posting counts for the round that r is in, and receiving does not advance.
LEMMA PostsCounts ==
  ASSUME IInv, NEW r \in Rank, NEW x, NEW n \in 1 .. 2, Posts(r, x, n)
  PROVE  /\ SameRecvd(r)
         /\ mode = "send" => PostedFirst(r)' = PostedFirst(r)
         /\ \A dr \in Dirs, k \in 0 .. N :
              PostedIn(r, dr, k)' = IF dr = dir[r] /\ k = hop_count[r] THEN n
                                    ELSE PostedIn(r, dr, k)
         /\ PostedIn(r, dir[r], hop_count[r]) = n - 1
<1>1. /\ Typed /\ TypeOK /\ ModeInv(r) /\ hop_count[r] \in 0 .. N /\ dir[r] \in Dirs
  BY DEF IInv, Typed, TypeOK, LocalInv, Dirs
<1>2. mode' = mode /\ dir' = dir /\ hop_count' = hop_count /\ hops' = hops
  BY DEF Posts
<1>3. \A dr, k : Past(r, dr, k)' <=> Past(r, dr, k)
  BY <1>2 DEF Past, Within
<1>4. ~Past(r, dir[r], hop_count[r])
  BY <1>1 DEF Past
<1>5. CASE n = 1
  <2>1. pc[r] = "round" /\ pc'[r] = "size" /\ inbox'[r] = inbox[r] /\ inbox[r] = NoMsg
    BY <1>1, <1>5 DEF Posts, ModeInv
  <2>2. \A dr, k : ~Busy(r, dr, k) /\ (Busy(r, dr, k)' <=> dr = dir[r] /\ k = hop_count[r])
    BY <1>2, <2>1 DEF Busy, InRound
  <2>3. Full(r) = 0 /\ Full(r)' = 0
    BY <2>1 DEF Full
  <2>4. ASSUME NEW dr \in Dirs, NEW k \in 0 .. N
        PROVE  RecvdIn(r, dr, k)' = RecvdIn(r, dr, k)
    BY <1>3, <1>4, <2>1, <2>2, <2>3 DEF RecvdIn
  <2>5. ASSUME NEW dr \in Dirs, NEW k \in 0 .. N
        PROVE  PostedIn(r, dr, k)' = IF dr = dir[r] /\ k = hop_count[r] THEN 1
                                     ELSE PostedIn(r, dr, k)
    BY <1>3, <1>4, <2>1, <2>2 DEF PostedIn
  <2>6. PostedIn(r, dir[r], hop_count[r]) = 0
    BY <1>4, <2>2 DEF PostedIn
  <2>7. PostedFirst(r)' = PostedFirst(r) /\ RecvdFirst(r)' = RecvdFirst(r)
    BY <2>1 DEF PostedFirst, RecvdFirst
  <2>8. QED
    BY <1>5, <2>4, <2>5, <2>6, <2>7 DEF SameRecvd
<1>6. CASE n = 2
  <2>1. pc[r] = "size" /\ pc'[r] = "data" /\ inbox'[r] = NoMsg /\ inbox[r] # NoMsg
    BY <1>6 DEF Posts
  <2>2. \A dr, k : /\ Busy(r, dr, k) <=> dr = dir[r] /\ k = hop_count[r]
                   /\ Busy(r, dr, k)' <=> Busy(r, dr, k)
    BY <1>2, <2>1 DEF Busy, InRound
  <2>3. Full(r) = 1 /\ Full(r)' = 0
    BY <2>1 DEF Full
  <2>4. ASSUME NEW dr \in Dirs, NEW k \in 0 .. N
        PROVE  RecvdIn(r, dr, k)' = RecvdIn(r, dr, k)
    BY <1>3, <1>4, <2>1, <2>2, <2>3 DEF RecvdIn
  <2>5. ASSUME NEW dr \in Dirs, NEW k \in 0 .. N
        PROVE  PostedIn(r, dr, k)' = IF dr = dir[r] /\ k = hop_count[r] THEN 2
                                     ELSE PostedIn(r, dr, k)
    BY <1>3, <1>4, <2>1, <2>2 DEF PostedIn
  <2>6. PostedIn(r, dir[r], hop_count[r]) = 1
    BY <1>4, <2>1, <2>2 DEF PostedIn
  <2>7. PostedFirst(r)' = PostedFirst(r) /\ RecvdFirst(r)' = RecvdFirst(r)
    BY <2>1 DEF PostedFirst, RecvdFirst
  <2>8. QED
    BY <1>6, <2>4, <2>5, <2>6, <2>7 DEF SameRecvd
<1>7. QED
  BY <1>5, <1>6

\* In the pass to the left nothing has been posted for the pass to the right.
LEMMA NoSecondYet ==
  ASSUME Typed, NEW s \in Rank, NEW d \in Rank, dir[s] = "left"
  PROVE  PostedB(s, d) = 0
BY DEF PostedB, PostedIn, Past, Busy

\* The channel to the partner takes the message.
LEMMA PostsPartner ==
  ASSUME IInv, NEW r \in Rank, NEW x \in Trees, NEW n \in 1 .. 2, Posts(r, x, n), Step(r),
         NEW d \in Rank, d = Dst(r)
  PROVE  ChanInv(r, d)'
<1>1. /\ Typed /\ TypeOK /\ ModeInv(r) /\ dir[r] \in Dirs /\ hop_count[r] \in 0 .. N
      /\ input' = input /\ mode' = mode /\ MoreRounds(r)
  BY DEF IInv, Typed, TypeOK, LocalInv, Posts, Dirs
<1>2. 2^hop_count[r] < N
  BY <1>1, MoreRoundsIs
<1>3. PICK k \in 0 .. N : k = hop_count[r]
  BY <1>1
<1>4. Paired(r, d, dir[r]) /\ Round(r, d, dir[r]) = k
  BY <1>1, <1>2, <1>3, PartnersAre
<1>5. d # r
  <2>1. Dist(r, d, dir[r]) = 2^hop_count[r] /\ 2^hop_count[r] \in Nat \ {0}
    BY <1>1, <1>3, <1>4, RoundIs, PowerIs, NIs
  <2>2. QED
    BY <1>1, <2>1, DistType
<1>6. SameRecvd(d) /\ HeldSize(d)' = HeldSize(d)
  <2>1. SameRecvd(d) /\ inbox'[d] = inbox[d] /\ size_recv'[d] = size_recv[d]
    BY <1>1, <1>5, OthersSame, StepFrame
  <2>2. QED
    BY <2>1 DEF HeldSize
<1>7. RecvdA(r, d)' = RecvdA(r, d) /\ RecvdB(r, d)' = RecvdB(r, d)
  BY <1>1, <1>6, SamePairs
<1>8. PICK xa \in Trees, xb \in Trees : Carries(r, d, xa, xb)
  BY DEF IInv, ChanInv
<1>9. PICK q : q = chan[r][d]
  OBVIOUS
<1>10. chan'[r][d] = Append(q, Message(x, n)) /\ sending'[r] = x
  BY <1>1, <1>3, <1>9 DEF Posts, Typed
<1>11. n = 2 => sending[r] = x /\ AllHere(input, mode, x, d, dir[r], hop_count[r] + 1)
  BY <1>3 DEF Posts
<1>12. \A dr \in Dirs, j \in 0 .. N :
         PostedIn(r, dr, j)' = IF dr = dir[r] /\ j = hop_count[r] THEN n ELSE PostedIn(r, dr, j)
  BY PostsCounts
<1>13. PostedIn(r, dir[r], k) = n - 1
  BY <1>1, <1>3, PostsCounts
<1>14. CASE dir[r] = "left"
  <2>1. mode # "send"
    BY <1>1, <1>14 DEF ModeInv
  <2>2. PostedA(r, d) = n - 1 /\ PostedA(r, d)' = n
    <3>1. PostedIn(r, "left", k)' = n /\ PostedIn(r, "left", k) = n - 1
      BY <1>3, <1>12, <1>13, <1>14 DEF Dirs
    <3>2. QED
      BY <1>1, <1>4, <1>14, <2>1, <3>1 DEF PostedA
  <2>3. PostedB(r, d) = 0 /\ PostedB(r, d)' = 0
    <3>1. PostedB(r, d) = 0
      BY <1>1, <1>14, NoSecondYet
    <3>2. Paired(r, d, "right") => Round(r, d, "right") \in 0 .. N
      BY RoundIs DEF Dirs
    <3>3. QED
      BY <1>12, <1>14, <3>1, <3>2 DEF PostedB, Dirs
  <2>4. Wire(q, n - 1, RecvdA(r, d), xa, 0, RecvdB(r, d), xb)
    BY <1>8, <1>9, <2>2, <2>3 DEF Carries
  <2>5. /\ RecvdB(r, d) = 0 /\ RecvdA(r, d) \in 0 .. 2 /\ RecvdA(r, d) <= n - 1
    BY <2>4 DEF Wire
  <2>6. n - 1 = 1 => x = xa
    BY <1>8, <1>11, <2>1, <2>2 DEF Carries, FirstTree
  <2>7. Wire(Append(q, Message(x, n)), n, RecvdA(r, d), x, 0, 0, xb)
    <3>1. PICK p : p = n - 1
      OBVIOUS
    <3>2. p + 1 = n /\ p < 2
      BY <3>1
    <3>3. Wire(q, p, RecvdA(r, d), xa, 0, 0, xb) /\ (p = 1 => x = xa)
      BY <2>4, <2>5, <2>6, <3>1
    <3>4. Wire(Append(q, Message(x, p + 1)), p + 1, RecvdA(r, d), x, 0, 0, xb)
      BY <3>2, <3>3, WireSendA
    <3>5. QED
      BY <3>2, <3>4
  <2>8. RecvdA(r, d) = 1 => HeldSize(d) = PackSize(x)
    BY <1>8, <2>5, <2>6 DEF Carries
  <2>9. n = 2 => GoodFirst(r, d, x)'
    BY <1>1, <1>3, <1>4, <1>11, <1>14, <2>1 DEF GoodFirst
  <2>10. FirstTree(r)' = x
    BY <1>1, <1>10, <2>1 DEF FirstTree
  <2>11. Carries(r, d, x, xb)'
    BY <1>6, <1>7, <1>10, <2>2, <2>3, <2>5, <2>7, <2>8, <2>9, <2>10 DEF Carries
  <2>12. QED
    BY <2>11 DEF ChanInv
<1>15. CASE dir[r] = "right"
  <2>1. PostedB(r, d) = n - 1 /\ PostedB(r, d)' = n
    <3>1. PostedIn(r, "right", k)' = n /\ PostedIn(r, "right", k) = n - 1
      BY <1>3, <1>12, <1>13, <1>15 DEF Dirs
    <3>2. QED
      BY <1>4, <1>15, <3>1 DEF PostedB
  <2>2. PostedA(r, d)' = PostedA(r, d)
    <3>1. Paired(r, d, "left") => Round(r, d, "left") \in 0 .. N
      BY RoundIs DEF Dirs
    <3>2. mode = "send" => PostedFirst(r)' = PostedFirst(r)
      BY PostsCounts
    <3>3. QED
      BY <1>1, <1>12, <1>15, <3>1, <3>2 DEF PostedA, Dirs
  <2>3. Wire(q, PostedA(r, d), RecvdA(r, d), xa, n - 1, RecvdB(r, d), xb)
    BY <1>8, <1>9, <2>1 DEF Carries
  <2>4. RecvdB(r, d) \in 0 .. 2 /\ RecvdB(r, d) <= n - 1
    BY <2>3 DEF Wire
  <2>5. n - 1 = 1 => x = xb
    BY <1>8, <1>11, <2>1 DEF Carries
  <2>6. Wire(Append(q, Message(x, n)), PostedA(r, d), RecvdA(r, d), xa, n, RecvdB(r, d), x)
    <3>1. PICK p : p = n - 1
      OBVIOUS
    <3>2. p + 1 = n /\ p < 2
      BY <3>1
    <3>3. Wire(q, PostedA(r, d), RecvdA(r, d), xa, p, RecvdB(r, d), xb) /\ (p = 1 => x = xb)
      BY <2>3, <2>5, <3>1
    <3>4. Wire(Append(q, Message(x, p + 1)), PostedA(r, d), RecvdA(r, d), xa, p + 1,
               RecvdB(r, d), x)
      BY <3>2, <3>3, WireSendB
    <3>5. QED
      BY <3>2, <3>4
  <2>7. RecvdB(r, d) = 1 => HeldSize(d) = PackSize(x)
    BY <1>8, <2>4, <2>5 DEF Carries
  <2>8. n = 2 => GoodSecond(r, d, x)'
    BY <1>1, <1>3, <1>4, <1>11, <1>15 DEF GoodSecond
  <2>9. PostedA(r, d) = 1 => xa = FirstTree(r)'
    <3>1. CASE mode = "send"
      BY <1>1, <1>8, <3>1 DEF Carries, FirstTree
    <3>2. CASE mode # "send"
      <4>1. ASSUME PostedA(r, d) = 1
            PROVE  xa = FirstTree(r)'
        <5>1. pc[r] = "size" /\ xa = sending[r]
          BY <1>8, <3>2, <4>1, CountOne DEF Carries, FirstTree
        <5>2. n = 2 /\ sending[r] = x
          BY <1>11, <5>1 DEF Posts
        <5>3. QED
          BY <1>1, <1>10, <3>2, <5>1, <5>2 DEF FirstTree
      <4>2. QED
        BY <4>1
    <3>3. QED
      BY <3>1, <3>2
  <2>10. GoodFirst(r, d, xa)' <=> GoodFirst(r, d, xa)
    BY <1>1 DEF GoodFirst
  <2>11. Carries(r, d, xa, x)'
    BY <1>6, <1>7, <1>8, <1>10, <2>1, <2>2, <2>4, <2>6, <2>7, <2>8, <2>9, <2>10 DEF Carries
  <2>12. QED
    BY <2>11 DEF ChanInv
<1>16. QED
  BY <1>1, <1>14, <1>15 DEF Dirs

\* All channels after a posting step.
LEMMA PostsChan ==
  ASSUME IInv, NEW r \in Rank, NEW x \in Trees, NEW n \in 1 .. 2, Posts(r, x, n), Step(r),
         NEW s \in Rank, NEW d \in Rank
  PROVE  ChanInv(s, d)'
<1>1. /\ Typed /\ TypeOK /\ ModeInv(r) /\ dir[r] \in Dirs /\ hop_count[r] \in 0 .. N
      /\ input' = input /\ mode' = mode /\ MoreRounds(r) /\ ChanInv(s, d)
  BY DEF IInv, Typed, TypeOK, LocalInv, Posts, Dirs
<1>2. 2^hop_count[r] < N
  BY <1>1, MoreRoundsIs
<1>3. CASE s = r /\ d = Dst(r)
  <2>1. ChanInv(r, d)'
    BY <1>3, PostsPartner
  <2>2. QED
    BY <1>3, <2>1
<1>4. CASE ~(s = r /\ d = Dst(r))
  <2>1. chan'[s][d] = chan[s][d]
    <3>1. chan \in [Rank -> [Rank -> Seq(Msg)]] /\ Dst(r) \in Rank
      BY <1>1, <1>2, PartnersAre DEF Typed
    <3>2. chan' = [chan EXCEPT ![r][Dst(r)] = Append(@, Message(x, n))]
      BY DEF Posts
    <3>3. QED
      BY <1>4, <3>1, <3>2
  <2>2. PostedA(s, d)' = PostedA(s, d) /\ PostedB(s, d)' = PostedB(s, d)
    <3>1. CASE s # r
      BY <1>1, <3>1, OthersSame, SamePairs
    <3>2. CASE s = r
      <4>1. d # Dst(r)
        BY <1>4, <3>2
      <4>2. \A dr \in Dirs, k \in 0 .. N :
              PostedIn(r, dr, k)' = IF dr = dir[r] /\ k = hop_count[r] THEN n
                                    ELSE PostedIn(r, dr, k)
        BY PostsCounts
      <4>3. Paired(r, d, dir[r]) => Round(r, d, dir[r]) # hop_count[r]
        BY <1>1, <1>2, <4>1, PartnersAre
      <4>4. ASSUME NEW dr \in Dirs, Paired(r, d, dr)
            PROVE  PostedIn(r, dr, Round(r, d, dr))' = PostedIn(r, dr, Round(r, d, dr))
        <5>1. PICK k \in 0 .. N : k = Round(r, d, dr)
          BY <4>4, RoundIs
        <5>2. ~(dr = dir[r] /\ k = hop_count[r])
          BY <4>3, <4>4, <5>1
        <5>3. PostedIn(r, dr, k)' = PostedIn(r, dr, k)
          BY <4>2, <5>2
        <5>4. QED
          BY <5>1, <5>3
      <4>5. mode = "send" => PostedFirst(r)' = PostedFirst(r)
        BY PostsCounts
      <4>6. PostedB(r, d)' = PostedB(r, d)
        BY <4>4 DEF PostedB, Dirs
      <4>7. PostedA(r, d)' = PostedA(r, d)
        BY <1>1, <4>4, <4>5 DEF PostedA, Dirs
      <4>8. QED
        BY <3>2, <4>6, <4>7
    <3>3. QED
      BY <3>1, <3>2
  <2>3. RecvdA(s, d)' = RecvdA(s, d) /\ RecvdB(s, d)' = RecvdB(s, d)
    <3>1. SameRecvd(d)
      BY <1>1, PostsCounts, OthersSame
    <3>2. QED
      BY <1>1, <3>1, SamePairs
  <2>4. ASSUME (PostedA(s, d) = 1 /\ mode # "send") \/ PostedB(s, d) = 1
        PROVE  sending'[s] = sending[s]
    <3>1. pc[s] = "size"
      BY <2>4, CountOne
    <3>2. CASE s = r
      BY <3>1, <3>2 DEF Posts
    <3>3. CASE s # r
      BY <1>1, <3>3, StepFrame
    <3>4. QED
      BY <3>2, <3>3
  <2>5. ASSUME RecvdA(s, d) = 1 \/ RecvdB(s, d) = 1
        PROVE  HeldSize(d)' = HeldSize(d)
    <3>1. pc[d] \in {"size", "data", "recv", "recv_data"}
      BY <2>5, CountOne
    <3>2. CASE d = r
      BY <3>1, <3>2 DEF Posts, HeldSize
    <3>3. CASE d # r
      <4>1. inbox'[d] = inbox[d] /\ size_recv'[d] = size_recv[d]
        BY <1>1, <3>3, StepFrame
      <4>2. QED
        BY <4>1 DEF HeldSize
    <3>4. QED
      BY <3>2, <3>3
  <2>6. QED
    BY <1>1, <2>1, <2>2, <2>3, <2>4, <2>5, PairKept
<1>5. QED
  BY <1>3, <1>4

\* What the two MPI_Send of kvtree_send do: message n of the tree goes to the last rank.
FirstPosts(r, n) ==
  /\ mode = "send" /\ r = 0 /\ N - 1 # 0
  /\ PostedFirst(r) = n - 1 /\ PostedFirst(r)' = n
  /\ chan' = [chan EXCEPT ![r][N - 1] = Append(@, Message(Sent, n))]
  /\ pc[r] \in {"send", "sent_size"} /\ pc'[r] \in {"sent_size", "sent_data"}
  /\ UNCHANGED <<input, mode, dir, hop_count, hops, inbox, size_recv, sending>>

\* They are such steps.
LEMMA FirstPostsIs ==
  ASSUME IInv, NEW r \in Rank, SendSize(r) \/ SendData(r)
  PROVE  \E n \in 1 .. 2 : FirstPosts(r, n)
<1>1. Typed /\ TypeOK /\ ModeInv(r) /\ N \in Nat \ {0}
  BY NIs DEF IInv, Typed, LocalInv
<1>2. mode = "send" /\ r = 0 /\ N - 1 # 0
  <2>1. mode = "send" /\ r = 0
    BY <1>1 DEF SendSize, SendData, ModeInv
  <2>2. QED
    BY <1>1, <2>1 DEF Typed
<1>3. CASE SendSize(r)
  <2>1. /\ pc[r] = "send" /\ pc'[r] = "sent_size"
        /\ chan' = [chan EXCEPT ![r][N - 1] = Append(@, Message(Sent, 1))]
        /\ UNCHANGED <<input, mode, dir, hop_count, hops, inbox, size_recv, sending>>
    BY <1>1, <1>3 DEF SendSize, TypeOK, Message
  <2>2. PostedFirst(r) = 1 - 1 /\ PostedFirst(r)' = 1
    BY <2>1 DEF PostedFirst
  <2>3. FirstPosts(r, 1)
    BY <1>2, <2>1, <2>2 DEF FirstPosts
  <2>4. QED
    BY <2>3
<1>4. CASE SendData(r)
  <2>1. /\ pc[r] = "sent_size" /\ pc'[r] = "sent_data"
        /\ chan' = [chan EXCEPT ![r][N - 1] = Append(@, Message(Sent, 2))]
        /\ UNCHANGED <<input, mode, dir, hop_count, hops, inbox, size_recv, sending>>
    BY <1>1, <1>4 DEF SendData, TypeOK, Message
  <2>2. PostedFirst(r) = 2 - 1 /\ PostedFirst(r)' = 2
    BY <2>1 DEF PostedFirst
  <2>3. FirstPosts(r, 2)
    BY <1>2, <2>1, <2>2 DEF FirstPosts
  <2>4. QED
    BY <2>3
<1>5. QED
  BY <1>3, <1>4

\* Before its exchange a rank has neither posted nor received messages of the passes.
LEMMA NoRoundYet ==
  ASSUME Typed, NEW r \in Rank, ModeInv(r), ~Under(r), NEW dr \in Dirs, NEW k \in 0 .. N
  PROVE  PostedIn(r, dr, k) = 0 /\ RecvdIn(r, dr, k) = 0
<1>1. hop_count[r] = 0 /\ ~InRound(r)
  BY DEF ModeInv, Under, InRound
<1>2. mode = "exchange" => dir[r] = "left"
  BY DEF ModeInv, Under, Typed, TypeOK
<1>3. ~Past(r, dr, k) /\ ~Busy(r, dr, k)
  BY <1>1, <1>2 DEF Past, Busy
<1>4. QED
  BY <1>3 DEF PostedIn, RecvdIn

\* All channels after a step of kvtree_send.
LEMMA FirstPostsChan ==
  ASSUME IInv, NEW r \in Rank, NEW n \in 1 .. 2, FirstPosts(r, n), Step(r),
         NEW s \in Rank, NEW d \in Rank
  PROVE  ChanInv(s, d)'
<1>1. /\ Typed /\ TypeOK /\ ModeInv(r) /\ ModeInv(r)' /\ ChanInv(s, d) /\ Typed'
      /\ input' = input /\ mode' = mode /\ mode = "send" /\ r = 0 /\ N - 1 # 0
      /\ inbox' = inbox /\ size_recv' = size_recv /\ sending' = sending
  BY StepTyped, StepMode DEF IInv, Typed, LocalInv, FirstPosts
<1>2. ~Under(r) /\ ~(Under(r)')
  BY DEF FirstPosts, Under
<1>3. ASSUME NEW dr \in Dirs, NEW k \in 0 .. N
      PROVE  /\ PostedIn(r, dr, k)' = PostedIn(r, dr, k) /\ PostedIn(r, dr, k) = 0
             /\ RecvdIn(r, dr, k)' = RecvdIn(r, dr, k)
  <2>1. hop_count[r] = 0 /\ ~InRound(r) /\ ~(InRound(r)')
    BY <1>1, <1>2 DEF ModeInv, Under, InRound
  <2>2. ~Past(r, dr, k) /\ ~(Past(r, dr, k)') /\ ~Busy(r, dr, k) /\ ~(Busy(r, dr, k)')
    BY <1>1, <2>1 DEF FirstPosts, Past, Busy
  <2>3. QED
    BY <2>2 DEF PostedIn, RecvdIn
<1>4. SameRecvd(d) /\ HeldSize(d)' = HeldSize(d)
  <2>1. SameRecvd(d)
    BY <1>1, <1>3, OthersSame DEF SameRecvd
  <2>2. QED
    BY <1>1, <2>1 DEF HeldSize
<1>5. RecvdA(s, d)' = RecvdA(s, d) /\ RecvdB(s, d)' = RecvdB(s, d)
  BY <1>1, <1>4, SamePairs
<1>6. PostedB(s, d)' = PostedB(s, d) /\ (s = r => PostedB(s, d) = 0)
  <2>1. CASE s # r
    BY <1>1, <2>1, OthersSame, SamePairs
  <2>2. CASE s = r
    <3>1. Paired(s, d, "right") => Round(s, d, "right") \in 0 .. N
      BY RoundIs DEF Dirs
    <3>2. QED
      BY <1>3, <2>2, <3>1 DEF PostedB, Dirs
  <2>3. QED
    BY <2>1, <2>2
<1>7. chan \in [Rank -> [Rank -> Seq(Msg)]] /\ N - 1 \in Rank
  <2>1. N - 1 \in Rank
    BY NIs DEF Rank
  <2>2. QED
    BY <1>1, <2>1 DEF Typed
<1>8. chan' = [chan EXCEPT ![r][N - 1] = Append(@, Message(Sent, n))]
  BY DEF FirstPosts
<1>9. CASE ~(s = r /\ d = N - 1)
  <2>1. chan'[s][d] = chan[s][d]
    BY <1>7, <1>8, <1>9
  <2>2. PostedA(s, d)' = PostedA(s, d)
    BY <1>1, <1>9 DEF PostedA
  <2>3. QED
    BY <1>1, <1>4, <1>5, <1>6, <2>1, <2>2, PairKept
<1>10. CASE s = r /\ d = N - 1
  <2>1. PICK q : q = chan[s][d]
    OBVIOUS
  <2>2. chan'[s][d] = Append(q, Message(Sent, n))
    BY <1>7, <1>8, <1>10, <2>1
  <2>3. PostedA(s, d) = n - 1 /\ PostedA(s, d)' = n
    BY <1>1, <1>10 DEF PostedA, FirstPosts
  <2>4. PostedB(s, d) = 0 /\ PostedB(s, d)' = 0
    BY <1>6, <1>10
  <2>5. PICK xa \in Trees, xb \in Trees : Carries(s, d, xa, xb)
    BY <1>1 DEF ChanInv
  <2>6. Wire(q, n - 1, RecvdA(s, d), xa, 0, RecvdB(s, d), xb)
    BY <2>1, <2>3, <2>4, <2>5 DEF Carries
  <2>7. RecvdB(s, d) = 0 /\ RecvdA(s, d) \in 0 .. 2 /\ RecvdA(s, d) <= n - 1
    BY <2>6 DEF Wire
  <2>8. n - 1 = 1 => xa = Sent
    BY <1>1, <2>3, <2>5 DEF Carries, FirstTree
  <2>9. Sent \in Trees
    BY DEF Trees
  <2>10. Wire(Append(q, Message(Sent, n)), n, RecvdA(s, d), Sent, 0, 0, xb)
    <3>1. PICK p : p = n - 1
      OBVIOUS
    <3>2. p + 1 = n /\ p < 2
      BY <3>1
    <3>3. Wire(q, p, RecvdA(s, d), xa, 0, 0, xb) /\ (p = 1 => Sent = xa)
      BY <2>6, <2>7, <2>8, <3>1
    <3>4. Wire(Append(q, Message(Sent, p + 1)), p + 1, RecvdA(s, d), Sent, 0, 0, xb)
      BY <2>9, <3>2, <3>3, WireSendA
    <3>5. QED
      BY <3>2, <3>4
  <2>11. RecvdA(s, d) = 1 => HeldSize(d) = PackSize(Sent)
    BY <2>5, <2>7, <2>8 DEF Carries
  <2>12. GoodFirst(s, d, Sent)' /\ FirstTree(s)' = Sent
    BY <1>1 DEF GoodFirst, FirstTree
  <2>13. Carries(s, d, Sent, xb)'
    BY <1>4, <1>5, <2>2, <2>3, <2>4, <2>7, <2>10, <2>11, <2>12 DEF Carries
  <2>14. QED
    BY <2>9, <2>13 DEF ChanInv
<1>11. QED
  BY <1>9, <1>10

\* What a receive does: rank r takes the next message from s, message n of a transfer.
Takes(r, s, n) ==
  /\ s \in Rank /\ s = Source(r)
  /\ n = IF pc[r] \in {"size", "recv"} THEN 1 ELSE 2
  /\ pc[r] \in {"size", "data", "recv", "recv_data"}
  /\ chan[s][r] # <<>>
  /\ inbox[r] = NoMsg /\ inbox'[r] = Head(chan[s][r]) /\ inbox'[r] # NoMsg
  /\ chan' = [chan EXCEPT ![s][r] = Tail(@)]
  /\ UNCHANGED <<input, mode, pc, dir, hop_count, hops, size_recv, sending>>

\* A receive is such a step.
LEMMA TakesIs ==
  ASSUME IInv, NEW r \in Rank, Receive(r)
  PROVE  \E s \in Rank, n \in 1 .. 2 : Takes(r, s, n)
<1>1. Typed /\ TypeOK /\ ModeInv(r) /\ RoundInv(r) /\ N \in Nat \ {0}
  BY NIs DEF IInv, Typed, LocalInv
<1>2. PICK s \in Rank : s = Source(r)
  <2>1. CASE pc[r] \in {"recv", "recv_data"}
    <3>1. 0 \in Rank
      BY <1>1 DEF Rank
    <3>2. QED
      BY <2>1, <3>1 DEF Source
  <2>2. CASE pc[r] \in {"size", "data"}
    <3>1. 2^hop_count[r] < N
      BY <1>1, <2>2, MoreRoundsIs DEF RoundInv, InRound
    <3>2. Src(r) \in Rank
      BY <1>1, <3>1, PartnersAre
    <3>3. QED
      BY <2>2, <3>2 DEF Source
  <2>3. QED
    BY <2>1, <2>2 DEF Receive
<1>3. PICK q : q = chan[s][r]
  OBVIOUS
<1>4. /\ pc[r] \in {"size", "data", "recv", "recv_data"} /\ q # <<>>
      /\ inbox[r] = NoMsg /\ inbox' = [inbox EXCEPT ![r] = Head(q)]
      /\ chan' = [chan EXCEPT ![s][r] = Tail(@)]
      /\ UNCHANGED <<input, mode, pc, dir, hop_count, hops, size_recv, sending>>
  BY <1>2, <1>3 DEF Receive
<1>5. q \in Seq(Msg) /\ inbox \in [Rank -> Msg \cup {NoMsg}]
  BY <1>1, <1>3 DEF Typed
<1>6. Head(q) \in Msg
  BY <1>4, <1>5
<1>7. Head(q) # NoMsg
  <2>1. PICK x \in Trees : Head(q) = SizeMsg(x) \/ Head(q) = DataMsg(x)
    BY <1>6 DEF Msg
  <2>2. QED
    BY <2>1 DEF SizeMsg, DataMsg, NoMsg
<1>8. inbox'[r] = Head(q)
  BY <1>4, <1>5
<1>9. PICK n \in 1 .. 2 : n = IF pc[r] \in {"size", "recv"} THEN 1 ELSE 2
  OBVIOUS
<1>10. Takes(r, s, n)
  BY <1>2, <1>3, <1>4, <1>7, <1>8, <1>9 DEF Takes
<1>11. QED
  BY <1>10

\* Receiving in a round counts for that round only.
LEMMA TakesCounts ==
  ASSUME IInv, NEW r \in Rank, NEW s, NEW n \in 1 .. 2, Takes(r, s, n), InRound(r)
  PROVE  /\ RecvdFirst(r) = 2 /\ RecvdFirst(r)' = 2
         /\ \A dr \in Dirs, k \in 0 .. N :
              RecvdIn(r, dr, k)' = IF dr = dir[r] /\ k = hop_count[r] THEN n
                                   ELSE RecvdIn(r, dr, k)
         /\ RecvdIn(r, dir[r], hop_count[r]) = n - 1
         /\ \A dr \in Dirs, k \in 0 .. N :
              ~(dr = dir[r] /\ k = hop_count[r]) => RecvdIn(r, dr, k) # 1
<1>1. /\ Typed /\ hop_count[r] \in 0 .. N /\ dir[r] \in Dirs
  BY DEF IInv, Typed, TypeOK, Dirs
<1>2. /\ mode' = mode /\ dir' = dir /\ hop_count' = hop_count /\ hops' = hops /\ pc' = pc
      /\ pc[r] \in {"size", "data"} /\ n = IF pc[r] = "size" THEN 1 ELSE 2
  BY DEF Takes, InRound
<1>3. \A dr, k : Past(r, dr, k)' <=> Past(r, dr, k)
  BY <1>2 DEF Past, Within
<1>4. ~Past(r, dir[r], hop_count[r])
  BY <1>1 DEF Past
<1>5. \A dr, k : /\ Busy(r, dr, k) <=> dr = dir[r] /\ k = hop_count[r]
                 /\ Busy(r, dr, k)' <=> Busy(r, dr, k)
  BY <1>2 DEF Busy, InRound
<1>6. Full(r) = 0 /\ Full(r)' = 1
  BY DEF Full, Takes
<1>7. RecvdFirst(r) = 2 /\ RecvdFirst(r)' = 2
  BY <1>2 DEF RecvdFirst
<1>8. ASSUME NEW dr \in Dirs, NEW k \in 0 .. N
      PROVE  RecvdIn(r, dr, k)' = IF dr = dir[r] /\ k = hop_count[r] THEN n
                                  ELSE RecvdIn(r, dr, k)
  BY <1>2, <1>3, <1>4, <1>5, <1>6 DEF RecvdIn
<1>9. RecvdIn(r, dir[r], hop_count[r]) = n - 1
  BY <1>2, <1>4, <1>5, <1>6 DEF RecvdIn
<1>10. ASSUME NEW dr \in Dirs, NEW k \in 0 .. N, ~(dr = dir[r] /\ k = hop_count[r])
       PROVE  RecvdIn(r, dr, k) # 1
  BY <1>5, <1>10 DEF RecvdIn
<1>11. QED
  BY <1>7, <1>8, <1>9, <1>10

\* Receiving before the exchange counts for kvtree_recv.
LEMMA TakesFirstCounts ==
  ASSUME IInv, NEW r \in Rank, NEW s, NEW n \in 1 .. 2, Takes(r, s, n), ~InRound(r)
  PROVE  /\ mode = "send" /\ r = N - 1 /\ s = 0
         /\ RecvdFirst(r) = n - 1 /\ RecvdFirst(r)' = n
         /\ \A dr \in Dirs, k \in 0 .. N : RecvdIn(r, dr, k) = 0 /\ RecvdIn(r, dr, k)' = 0
<1>1. /\ Typed /\ ModeInv(r) /\ hop_count[r] \in 0 .. N /\ dir[r] \in Dirs
  BY DEF IInv, Typed, TypeOK, Dirs, LocalInv
<1>2. /\ mode' = mode /\ dir' = dir /\ hop_count' = hop_count /\ hops' = hops /\ pc' = pc
      /\ pc[r] \in {"recv", "recv_data"} /\ n = IF pc[r] = "recv" THEN 1 ELSE 2
  BY DEF Takes, InRound
<1>3. mode = "send" /\ r = N - 1 /\ s = 0
  BY <1>1, <1>2 DEF ModeInv, Takes, Source
<1>4. Full(r) = 0 /\ Full(r)' = 1
  BY DEF Full, Takes
<1>5. RecvdFirst(r) = n - 1 /\ RecvdFirst(r)' = n
  BY <1>2, <1>4 DEF RecvdFirst
<1>6. ASSUME NEW dr \in Dirs, NEW k \in 0 .. N
      PROVE  RecvdIn(r, dr, k) = 0 /\ RecvdIn(r, dr, k)' = 0
  <2>1. hop_count[r] = 0 /\ ~(InRound(r)')
    BY <1>1, <1>2 DEF ModeInv, Under, InRound
  <2>2. ~Past(r, dr, k) /\ ~(Past(r, dr, k)') /\ ~Busy(r, dr, k) /\ ~(Busy(r, dr, k)')
    BY <1>2, <1>3, <2>1 DEF Past, Busy
  <2>3. QED
    BY <2>2 DEF RecvdIn
<1>7. QED
  BY <1>3, <1>5, <1>6

\* Posted and received messages are of rounds that the limits of the rank allow.
LEMMA CountsWithin ==
  ASSUME Typed, NEW r \in Rank, ModeInv(r), RoundInv(r), NEW dr \in Dirs, NEW k \in 0 .. N,
         PostedIn(r, dr, k) # 0 \/ RecvdIn(r, dr, k) # 0
  PROVE  Under(r) /\ Within(r, dr, k)
<1>1. Under(r)
  BY NoRoundYet
<1>2. hop_count[r] \in 0 .. N /\ dir[r] \in Dirs /\ N \in Nat
  BY NIs DEF Typed, TypeOK, Dirs
<1>3. Past(r, dr, k) \/ Busy(r, dr, k)
  BY DEF PostedIn, RecvdIn
<1>4. CASE dir[r] = dr /\ k < hop_count[r]
  <2>1. hop_count[r] > 0 /\ hop_count[r] - 1 \in 0 .. N /\ k <= hop_count[r] - 1
    BY <1>2, <1>4
  <2>2. Within(r, dr, hop_count[r] - 1)
    BY <1>4, <2>1 DEF RoundInv
  <2>3. QED
    BY <1>1, <2>1, <2>2, WithinBelow
<1>5. CASE Busy(r, dr, k)
  <2>1. MoreRounds(r) /\ dir[r] = dr /\ hop_count[r] = k
    BY <1>5 DEF Busy, RoundInv
  <2>2. QED
    BY <1>1, <2>1, MoreRoundsIs
<1>6. QED
  BY <1>1, <1>3, <1>4, <1>5 DEF Past

\* In kvtree_exchange the ranks have the same limits when they are past MPI_Allreduce.
LEMMA SameLimits ==
  ASSUME Typed, NEW r \in Rank, NEW q \in Rank, HopsInv(r), HopsInv(q), Under(r), Under(q),
         NEW dr \in Dirs
  PROVE  /\ hops[r][dr] = hops[q][dr]
         /\ \A k : Within(r, dr, k) <=> Within(q, dr, k)
<1>1. /\ hops[r].left \in Int /\ hops[q].left \in Int
      /\ hops[r].right \in Int /\ hops[q].right \in Int
  BY DEF Typed, TypeOK
<1>2. hops[r].left = hops[q].left /\ hops[r].right = hops[q].right
  <2>1. CASE mode = "exchange"
    <3>1. hops[r].left <= hops[q].left /\ hops[r].right <= hops[q].right
      BY <2>1 DEF HopsInv
    <3>2. hops[q].left <= hops[r].left /\ hops[q].right <= hops[r].right
      BY <2>1 DEF HopsInv
    <3>3. QED
      BY <1>1, <3>1, <3>2
  <2>2. CASE mode # "exchange"
    BY <2>2 DEF HopsInv
  <2>3. QED
    BY <2>1, <2>2
<1>3. hops[r][dr] = hops[q][dr]
  BY <1>2 DEF Dirs
<1>4. QED
  BY <1>3 DEF Within

\* The counts of a pair are in order.
LEMMA PairCounts ==
  ASSUME IInv, NEW s \in Rank, NEW d \in Rank
  PROVE  /\ PostedA(s, d) \in 0 .. 2 /\ RecvdA(s, d) \in 0 .. 2 /\ RecvdA(s, d) <= PostedA(s, d)
         /\ PostedB(s, d) \in 0 .. 2 /\ RecvdB(s, d) \in 0 .. 2 /\ RecvdB(s, d) <= PostedB(s, d)
<1>1. PICK xa \in Trees, xb \in Trees : Carries(s, d, xa, xb)
  BY DEF IInv, ChanInv
<1>2. Wire(chan[s][d], PostedA(s, d), RecvdA(s, d), xa, PostedB(s, d), RecvdB(s, d), xb)
  BY <1>1 DEF Carries
<1>3. QED
  BY <1>2 DEF Wire

\* When a rank is in its pass to the right, nothing from before that pass is pending for it.
LEMMA FirstAllTaken ==
  ASSUME IInv, NEW s \in Rank, NEW d \in Rank, Under(d), dir[d] = "right"
  PROVE  PostedA(s, d) = RecvdA(s, d) /\ RecvdA(s, d) # 1
<1>1. /\ Typed /\ ModeInv(s) /\ ModeInv(d) /\ RoundInv(s) /\ RoundInv(d) /\ HopsInv(s) /\ HopsInv(d)
      /\ mode \in {"exchange", "left", "right", "send", "bcast"}
  BY DEF IInv, LocalInv, Typed, TypeOK
<1>2. PostedA(s, d) \in 0 .. 2 /\ RecvdA(s, d) \in 0 .. 2 /\ RecvdA(s, d) <= PostedA(s, d)
  BY PairCounts
<1>3. CASE mode = "send"
  <2>1. RecvdFirst(d) = 2
    BY DEF RecvdFirst, Under
  <2>2. CASE s = 0 /\ d = N - 1
    <3>1. RecvdA(s, d) = 2
      BY <1>3, <2>1, <2>2 DEF RecvdA
    <3>2. QED
      BY <1>2, <3>1
  <2>3. CASE ~(s = 0 /\ d = N - 1)
    BY <1>3, <2>3 DEF RecvdA, PostedA
  <2>4. QED
    BY <2>2, <2>3
<1>4. CASE mode # "send" /\ ~Paired(s, d, "left")
  BY <1>4 DEF RecvdA, PostedA
<1>5. CASE mode # "send" /\ Paired(s, d, "left")
  <2>1. PICK k \in 0 .. N : k = Round(s, d, "left")
    BY <1>5, RoundIs DEF Dirs
  <2>2. PostedA(s, d) = PostedIn(s, "left", k) /\ RecvdA(s, d) = RecvdIn(d, "left", k)
    BY <1>5, <2>1 DEF PostedA, RecvdA
  <2>3. ~Busy(d, "left", k)
    BY DEF Busy
  <2>4. CASE Past(d, "left", k)
    <3>1. RecvdA(s, d) = 2
      BY <2>2, <2>4 DEF RecvdIn
    <3>2. QED
      BY <1>2, <3>1
  <2>5. CASE ~Past(d, "left", k)
    <3>1. RecvdA(s, d) = 0
      BY <2>2, <2>3, <2>5 DEF RecvdIn
    <3>2. ASSUME PostedIn(s, "left", k) # 0 PROVE FALSE
      <4>1. Under(s) /\ Within(s, "left", k)
        BY <1>1, <3>2, CountsWithin DEF Dirs
      <4>2. Within(d, "left", k)
        BY <1>1, <4>1, SameLimits DEF Dirs
      <4>3. mode # "exchange"
        BY <2>5, <4>2 DEF Past
      <4>4. mode \in {"right", "bcast"} /\ dir[s] = "right"
        BY <1>1, <1>5, <4>3 DEF ModeInv
      <4>5. QED
        BY <3>2, <4>4 DEF PostedIn, Past, Busy
    <3>3. QED
      BY <2>2, <3>1, <3>2
  <2>6. QED
    BY <2>4, <2>5
<1>6. QED
  BY <1>3, <1>4, <1>5

\* A rank that is not yet in its pass to the right takes a message from before that pass:
\* whoever posted for that pass has posted everything before it.
LEMMA FirstPending ==
  ASSUME IInv, NEW r \in Rank, NEW s \in Rank, NEW n \in 1 .. 2, Takes(r, s, n),
         dir[r] = "left" \/ ~InRound(r)
  PROVE  /\ RecvdA(s, r) = n - 1 /\ RecvdA(s, r)' = n /\ n - 1 < PostedA(s, r)
         /\ RecvdB(s, r) = 0 /\ RecvdB(s, r)' = 0
<1>1. /\ Typed /\ ModeInv(s) /\ ModeInv(r) /\ RoundInv(s) /\ RoundInv(r) /\ HopsInv(s) /\ HopsInv(r)
      /\ mode \in {"exchange", "left", "right", "send", "bcast"} /\ mode' = mode
      /\ dir[r] \in Dirs /\ dir[s] \in Dirs /\ hop_count[r] \in 0 .. N /\ chan[s][r] # <<>>
  BY DEF IInv, LocalInv, Typed, TypeOK, Takes, Dirs
<1>2. /\ PostedA(s, r) \in 0 .. 2 /\ RecvdA(s, r) \in 0 .. 2 /\ RecvdA(s, r) <= PostedA(s, r)
      /\ PostedB(s, r) \in 0 .. 2
  BY PairCounts
<1>3. RecvdA(s, r) < PostedA(s, r) \/ RecvdB(s, r) < PostedB(s, r)
  <2>1. PICK xa \in Trees, xb \in Trees : Carries(s, r, xa, xb)
    BY DEF IInv, ChanInv
  <2>2. QED
    BY <1>1, <2>1, WireSome DEF Carries
<1>4. Paired(s, r, "right") => Round(s, r, "right") \in 0 .. N
  BY RoundIs DEF Dirs
<1>5. CASE ~InRound(r)
  <2>1. /\ mode = "send" /\ r = N - 1 /\ s = 0 /\ RecvdFirst(r) = n - 1 /\ RecvdFirst(r)' = n
        /\ \A dr \in Dirs, k \in 0 .. N : RecvdIn(r, dr, k) = 0 /\ RecvdIn(r, dr, k)' = 0
    BY <1>5, TakesFirstCounts
  <2>2. RecvdA(s, r) = n - 1 /\ RecvdA(s, r)' = n
    BY <1>1, <2>1 DEF RecvdA
  <2>3. RecvdB(s, r) = 0 /\ RecvdB(s, r)' = 0
    BY <1>4, <2>1 DEF RecvdB, Dirs
  <2>4. ASSUME PostedB(s, r) # 0 PROVE n - 1 < PostedA(s, r)
    <3>1. Under(s)
      BY <1>1, <1>4, <2>4, CountsWithin DEF PostedB, Dirs
    <3>2. PostedA(s, r) = 2
      BY <2>1, <3>1 DEF PostedA, PostedFirst, Under
    <3>3. QED
      BY <3>2
  <2>5. QED
    BY <1>2, <1>3, <2>2, <2>3, <2>4
<1>6. CASE InRound(r)
  <2>1. dir[r] = "left" /\ mode \in {"exchange", "left"} /\ Under(r) /\ MoreRounds(r)
    BY <1>1, <1>6 DEF ModeInv, Under, InRound, RoundInv
  <2>2. PICK k \in 0 .. N : k = hop_count[r]
    BY <1>1
  <2>3. Within(r, "left", k) /\ 2^k < N
    BY <1>1, <2>1, <2>2, MoreRoundsIs
  <2>4. Paired(s, r, "left") /\ Round(s, r, "left") = k
    <3>1. s = Src(r)
      BY <1>6 DEF Takes, Source, InRound
    <3>2. QED
      BY <1>1, <2>1, <2>2, <2>3, <3>1, PartnersAre
  <2>5. \A dr \in Dirs, j \in 0 .. N :
          RecvdIn(r, dr, j)' = IF dr = "left" /\ j = k THEN n ELSE RecvdIn(r, dr, j)
    BY <1>6, <2>1, <2>2, TakesCounts
  <2>6. RecvdIn(r, "left", k) = n - 1
    BY <1>6, <2>1, <2>2, TakesCounts
  <2>7. RecvdA(s, r) = n - 1 /\ RecvdA(s, r)' = n
    <3>1. RecvdIn(r, "left", k)' = n
      BY <2>5 DEF Dirs
    <3>2. QED
      BY <1>1, <2>1, <2>4, <2>6, <3>1 DEF RecvdA
  <2>8. RecvdB(s, r) = 0 /\ RecvdB(s, r)' = 0
    <3>1. \A j \in 0 .. N : RecvdIn(r, "right", j) = 0
      BY <2>1 DEF RecvdIn, Past, Busy
    <3>2. \A j \in 0 .. N : RecvdIn(r, "right", j)' = 0
      BY <2>5, <3>1 DEF Dirs
    <3>3. QED
      BY <1>4, <3>1, <3>2 DEF RecvdB
  <2>9. ASSUME PostedB(s, r) # 0 PROVE n - 1 < PostedA(s, r)
    <3>1. Under(s)
      BY <1>1, <1>4, <2>9, CountsWithin DEF PostedB, Dirs
    <3>2. dir[s] = "right" /\ mode = "exchange"
      BY <1>1, <2>1, <2>9, NoSecondYet DEF ModeInv, Dirs
    <3>3. Within(s, "left", k)
      BY <1>1, <2>1, <2>3, <3>1, SameLimits DEF Dirs
    <3>4. PostedIn(s, "left", k) = 2
      BY <3>2, <3>3 DEF PostedIn, Past
    <3>5. PostedA(s, r) = 2
      BY <2>1, <2>4, <3>4 DEF PostedA
    <3>6. QED
      BY <3>5
  <2>10. QED
    BY <1>2, <1>3, <2>7, <2>8, <2>9
<1>7. QED
  BY <1>5, <1>6

\* A rank in a round of its pass to the right takes a message of that pass.
LEMMA SecondPending ==
  ASSUME IInv, NEW r \in Rank, NEW s \in Rank, NEW n \in 1 .. 2, Takes(r, s, n),
         dir[r] = "right", InRound(r)
  PROVE  /\ RecvdB(s, r) = n - 1 /\ RecvdB(s, r)' = n /\ n - 1 < PostedB(s, r)
         /\ RecvdA(s, r)' = RecvdA(s, r) /\ PostedA(s, r) = RecvdA(s, r) /\ RecvdA(s, r) # 1
         /\ Paired(s, r, "right") /\ Round(s, r, "right") = hop_count[r]
<1>1. /\ Typed /\ RoundInv(r) /\ mode' = mode /\ hop_count[r] \in 0 .. N /\ chan[s][r] # <<>>
  BY DEF IInv, LocalInv, Typed, Takes
<1>2. PICK k \in 0 .. N : k = hop_count[r]
  BY <1>1
<1>3. Under(r) /\ MoreRounds(r)
  BY <1>1 DEF Under, InRound, RoundInv
<1>4. PostedA(s, r) = RecvdA(s, r) /\ RecvdA(s, r) # 1
  BY <1>3, FirstAllTaken
<1>5. Paired(s, r, "right") /\ Round(s, r, "right") = k
  <2>1. s = Src(r)
    BY DEF Takes, Source, InRound
  <2>2. 2^hop_count[r] < N
    BY <1>1, <1>3, MoreRoundsIs
  <2>3. QED
    BY <1>1, <1>2, <2>1, <2>2, PartnersAre
<1>6. \A dr \in Dirs, j \in 0 .. N :
        RecvdIn(r, dr, j)' = IF dr = "right" /\ j = k THEN n ELSE RecvdIn(r, dr, j)
  BY <1>2, TakesCounts
<1>7. RecvdIn(r, "right", k) = n - 1 /\ RecvdFirst(r)' = RecvdFirst(r)
  BY <1>2, TakesCounts
<1>8. RecvdB(s, r) = n - 1 /\ RecvdB(s, r)' = n
  <2>1. RecvdIn(r, "right", k)' = n
    BY <1>6 DEF Dirs
  <2>2. QED
    BY <1>5, <1>7, <2>1 DEF RecvdB
<1>9. RecvdA(s, r)' = RecvdA(s, r)
  <2>1. Paired(s, r, "left") => Round(s, r, "left") \in 0 .. N
    BY RoundIs DEF Dirs
  <2>2. \A j \in 0 .. N : RecvdIn(r, "left", j)' = RecvdIn(r, "left", j)
    BY <1>6 DEF Dirs
  <2>3. QED
    BY <1>1, <1>7, <2>1, <2>2 DEF RecvdA
<1>10. n - 1 < PostedB(s, r)
  <2>1. PICK xa \in Trees, xb \in Trees : Carries(s, r, xa, xb)
    BY DEF IInv, ChanInv
  <2>2. RecvdA(s, r) < PostedA(s, r) \/ RecvdB(s, r) < PostedB(s, r)
    BY <1>1, <2>1, WireSome DEF Carries
  <2>3. RecvdA(s, r) \in 0 .. 2
    BY PairCounts
  <2>4. QED
    BY <1>4, <1>8, <2>2, <2>3
<1>11. QED
  BY <1>2, <1>4, <1>5, <1>8, <1>9, <1>10

\* A receive changes no count of posted messages.
LEMMA TakesPosted ==
  ASSUME NEW r \in Rank, NEW s, NEW n, Takes(r, s, n), NEW q \in Rank
  PROVE  SamePosted(q)
<1>1. mode' = mode /\ dir' = dir /\ hop_count' = hop_count /\ hops' = hops /\ pc' = pc
  BY DEF Takes
<1>2. ASSUME NEW dr, NEW k PROVE PostedIn(q, dr, k)' = PostedIn(q, dr, k)
  <2>1. Past(q, dr, k)' <=> Past(q, dr, k)
    BY <1>1 DEF Past, Within
  <2>2. Busy(q, dr, k)' <=> Busy(q, dr, k)
    BY <1>1 DEF Busy, InRound
  <2>3. QED
    BY <1>1, <2>1, <2>2 DEF PostedIn
<1>3. PostedFirst(q)' = PostedFirst(q)
  BY <1>1 DEF PostedFirst
<1>4. QED
  BY <1>2, <1>3 DEF SamePosted

\* What the receiver gets, and what is left in the channel: the size of a tree, or the tree
\* whose size it has got before.
LEMMA TakesPartner ==
  ASSUME IInv, NEW r \in Rank, NEW s \in Rank, NEW n \in 1 .. 2, Takes(r, s, n)
  PROVE  /\ ChanInv(s, r)'
         /\ \E x \in Trees :
              /\ inbox'[r] = Message(x, n)
              /\ n = 2 => size_recv[r] = PackSize(x)
              /\ pc[r] = "data" => AllHere(input, mode, x, r, dir[r], hop_count[r] + 1)
              /\ pc[r] = "recv_data" => x = Sent
<1>1. /\ Typed /\ ModeInv(r) /\ RoundInv(r) /\ hop_count[r] \in 0 .. N /\ dir[r] \in Dirs
      /\ chan \in [Rank -> [Rank -> Seq(Msg)]]
  BY DEF IInv, Typed, TypeOK, LocalInv, Dirs
<1>2. /\ input' = input /\ mode' = mode /\ pc' = pc /\ dir' = dir /\ hop_count' = hop_count
      /\ sending' = sending /\ inbox[r] = NoMsg /\ inbox'[r] # NoMsg
      /\ n = IF pc[r] \in {"size", "recv"} THEN 1 ELSE 2
      /\ pc[r] \in {"size", "data", "recv", "recv_data"}
  BY DEF Takes
<1>3. PICK q : q = chan[s][r]
  OBVIOUS
<1>4. chan'[s][r] = Tail(q) /\ inbox'[r] = Head(q)
  BY <1>1, <1>3 DEF Takes
<1>5. PostedA(s, r)' = PostedA(s, r) /\ PostedB(s, r)' = PostedB(s, r)
  BY <1>2, TakesPosted, SamePairs
<1>6. PICK xa \in Trees, xb \in Trees : Carries(s, r, xa, xb)
  BY DEF IInv, ChanInv
<1>7. Wire(q, PostedA(s, r), RecvdA(s, r), xa, PostedB(s, r), RecvdB(s, r), xb)
  BY <1>3, <1>6 DEF Carries
<1>8. PostedA(s, r) \in 0 .. 2 /\ PostedB(s, r) \in 0 .. 2
  BY PairCounts
<1>9. FirstTree(s)' = FirstTree(s) /\ (GoodFirst(s, r, xa)' <=> GoodFirst(s, r, xa))
      /\ (GoodSecond(s, r, xb)' <=> GoodSecond(s, r, xb))
  BY <1>2 DEF FirstTree, GoodFirst, GoodSecond
<1>10. HeldSize(r) = size_recv[r] /\ HeldSize(r)' = inbox'[r].size
  BY <1>2 DEF HeldSize
<1>11. CASE dir[r] = "left" \/ ~InRound(r)
  <2>1. /\ RecvdA(s, r) = n - 1 /\ RecvdA(s, r)' = n /\ n - 1 < PostedA(s, r)
        /\ RecvdB(s, r) = 0 /\ RecvdB(s, r)' = 0
    BY <1>11, FirstPending
  <2>2. PICK p : p = n - 1
    OBVIOUS
  <2>3. p + 1 = n /\ p < PostedA(s, r) /\ p < 2
    BY <2>1, <2>2
  <2>4. Wire(q, PostedA(s, r), p, xa, PostedB(s, r), 0, xb)
    BY <1>7, <2>1, <2>2
  <2>5. Head(q) = Message(xa, n) /\ Wire(Tail(q), PostedA(s, r), n, xa, PostedB(s, r), 0, xb)
    <3>1. Head(q) = Message(xa, p + 1) /\ Wire(Tail(q), PostedA(s, r), p + 1, xa, PostedB(s, r), 0, xb)
      BY <2>3, <2>4, WireRecvA
    <3>2. QED
      BY <2>3, <3>1
  <2>6. HeldSize(r)' = PackSize(xa)
    BY <1>4, <1>10, <2>5, MessageIs
  <2>7. RecvdA(s, r) < 2 /\ (RecvdA(s, r)' < 2 => RecvdA(s, r) < 2)
    BY <2>1
  <2>8. Carries(s, r, xa, xb)'
    BY <1>2, <1>4, <1>5, <1>6, <1>9, <2>1, <2>5, <2>6, <2>7 DEF Carries
  <2>9. ChanInv(s, r)'
    BY <2>8 DEF ChanInv
  <2>10. ASSUME n = 2
         PROVE  size_recv[r] = PackSize(xa) /\ GoodFirst(s, r, xa)
    <3>1. RecvdA(s, r) = 1 /\ PostedA(s, r) = 2
      BY <1>8, <2>1, <2>10
    <3>2. QED
      BY <1>6, <1>10, <2>7, <3>1 DEF Carries
  <2>11. ASSUME pc[r] = "recv_data"
         PROVE  xa = Sent
    BY <1>1, <1>2, <2>10, <2>11 DEF ModeInv, GoodFirst
  <2>12. ASSUME pc[r] = "data"
         PROVE  AllHere(input, mode, xa, r, dir[r], hop_count[r] + 1)
    <3>1. InRound(r)
      BY <2>12 DEF InRound
    <3>2. dir[r] = "left" /\ mode # "send" /\ n = 2
      BY <1>1, <1>2, <1>11, <2>12, <3>1 DEF ModeInv
    <3>3. s = Src(r) /\ 2^hop_count[r] < N
      BY <1>1, <2>12, <3>1, MoreRoundsIs DEF Takes, Source, RoundInv
    <3>4. Round(s, r, "left") = hop_count[r]
      BY <1>1, <3>2, <3>3, PartnersAre
    <3>5. QED
      BY <2>10, <3>2, <3>4 DEF GoodFirst
  <2>13. QED
    BY <1>4, <2>5, <2>9, <2>10, <2>11, <2>12
<1>12. CASE dir[r] = "right" /\ InRound(r)
  <2>1. /\ RecvdB(s, r) = n - 1 /\ RecvdB(s, r)' = n /\ n - 1 < PostedB(s, r)
        /\ RecvdA(s, r)' = RecvdA(s, r) /\ PostedA(s, r) = RecvdA(s, r) /\ RecvdA(s, r) # 1
        /\ Paired(s, r, "right") /\ Round(s, r, "right") = hop_count[r]
    BY <1>12, SecondPending
  <2>2. PICK p : p = n - 1
    OBVIOUS
  <2>3. p + 1 = n /\ p < PostedB(s, r) /\ p < 2
    BY <2>1, <2>2
  <2>4. Wire(q, PostedA(s, r), PostedA(s, r), xa, PostedB(s, r), p, xb)
    BY <1>7, <2>1, <2>2
  <2>5. Head(q) = Message(xb, n)
        /\ Wire(Tail(q), PostedA(s, r), RecvdA(s, r), xa, PostedB(s, r), n, xb)
    <3>1. Head(q) = Message(xb, p + 1)
          /\ Wire(Tail(q), PostedA(s, r), PostedA(s, r), xa, PostedB(s, r), p + 1, xb)
      BY <2>3, <2>4, WireRecvB
    <3>2. QED
      BY <2>1, <2>3, <3>1
  <2>6. HeldSize(r)' = PackSize(xb)
    BY <1>4, <1>10, <2>5, MessageIs
  <2>7. RecvdB(s, r) < 2 /\ (RecvdB(s, r)' < 2 => RecvdB(s, r) < 2)
    BY <2>1
  <2>8. Carries(s, r, xa, xb)'
    BY <1>2, <1>4, <1>5, <1>6, <1>9, <2>1, <2>5, <2>6, <2>7 DEF Carries
  <2>9. ChanInv(s, r)'
    BY <2>8 DEF ChanInv
  <2>10. ASSUME n = 2
         PROVE  size_recv[r] = PackSize(xb) /\ GoodSecond(s, r, xb)
    <3>1. RecvdB(s, r) = 1 /\ PostedB(s, r) = 2
      BY <1>8, <2>1, <2>10
    <3>2. QED
      BY <1>6, <1>10, <2>7, <3>1 DEF Carries
  <2>11. ASSUME pc[r] = "data"
         PROVE  AllHere(input, mode, xb, r, dir[r], hop_count[r] + 1)
    BY <1>2, <1>12, <2>1, <2>10, <2>11 DEF GoodSecond
  <2>12. pc[r] # "recv_data"
    BY <1>12 DEF InRound
  <2>13. QED
    BY <1>4, <2>5, <2>9, <2>10, <2>11, <2>12
<1>13. QED
  BY <1>1, <1>11, <1>12 DEF Dirs

\* All channels after a receive.
LEMMA TakesChan ==
  ASSUME IInv, NEW r \in Rank, NEW s \in Rank, NEW n \in 1 .. 2, Takes(r, s, n), Step(r),
         NEW p \in Rank, NEW d \in Rank
  PROVE  ChanInv(p, d)'
<1>1. /\ Typed /\ RoundInv(r) /\ hop_count[r] \in 0 .. N /\ dir[r] \in Dirs /\ ChanInv(p, d)
      /\ chan \in [Rank -> [Rank -> Seq(Msg)]]
      /\ input' = input /\ mode' = mode /\ sending' = sending
  BY DEF IInv, Typed, TypeOK, LocalInv, Dirs, Takes
<1>2. CASE p = s /\ d = r
  BY <1>2, TakesPartner
<1>3. CASE ~(p = s /\ d = r)
  <2>1. chan'[p][d] = chan[p][d]
    BY <1>1, <1>3 DEF Takes
  <2>2. PostedA(p, d)' = PostedA(p, d) /\ PostedB(p, d)' = PostedB(p, d)
    BY <1>1, TakesPosted, SamePairs
  <2>3. CASE d # r
    <3>1. SameRecvd(d) /\ inbox'[d] = inbox[d] /\ size_recv'[d] = size_recv[d]
      BY <1>1, <2>3, OthersSame, StepFrame
    <3>2. RecvdA(p, d)' = RecvdA(p, d) /\ RecvdB(p, d)' = RecvdB(p, d)
      BY <1>1, <3>1, SamePairs
    <3>3. HeldSize(d)' = HeldSize(d)
      BY <3>1 DEF HeldSize
    <3>4. QED
      BY <1>1, <2>1, <2>2, <3>2, <3>3, PairKept
  <2>4. CASE d = r /\ p # s
    <3>1. /\ Paired(p, d, "left") => Round(p, d, "left") \in 0 .. N
          /\ Paired(p, d, "right") => Round(p, d, "right") \in 0 .. N
      BY RoundIs DEF Dirs
    <3>2. CASE ~InRound(r)
      <4>1. /\ mode = "send" /\ s = 0
            /\ \A dr \in Dirs, k \in 0 .. N : RecvdIn(r, dr, k) = 0 /\ RecvdIn(r, dr, k)' = 0
        BY <3>2, TakesFirstCounts
      <4>2. RecvdA(p, d) = 0 /\ RecvdA(p, d)' = 0
        BY <1>1, <2>4, <4>1 DEF RecvdA
      <4>3. RecvdB(p, d) = 0 /\ RecvdB(p, d)' = 0
        BY <2>4, <3>1, <4>1 DEF RecvdB, Dirs
      <4>4. /\ RecvdA(p, d)' = RecvdA(p, d) /\ RecvdA(p, d) # 1
            /\ RecvdB(p, d)' = RecvdB(p, d) /\ RecvdB(p, d) # 1
        BY <4>2, <4>3
      <4>5. QED
        BY <1>1, <2>1, <2>2, <4>4, PairKept
    <3>3. CASE InRound(r)
      <4>1. /\ RecvdFirst(r) = 2 /\ RecvdFirst(r)' = 2
            /\ \A dr \in Dirs, k \in 0 .. N :
                 ~(dr = dir[r] /\ k = hop_count[r]) =>
                   RecvdIn(r, dr, k)' = RecvdIn(r, dr, k) /\ RecvdIn(r, dr, k) # 1
        BY <3>3, TakesCounts
      <4>2. s = Src(r) /\ 2^hop_count[r] < N
        BY <1>1, <3>3, MoreRoundsIs DEF Takes, Source, RoundInv, InRound
      <4>3. Paired(p, d, dir[r]) => Round(p, d, dir[r]) # hop_count[r]
        BY <1>1, <2>4, <4>2, PartnersAre
      <4>4. ASSUME NEW dr \in Dirs, Paired(p, d, dr)
            PROVE  /\ RecvdIn(r, dr, Round(p, d, dr))' = RecvdIn(r, dr, Round(p, d, dr))
                   /\ RecvdIn(r, dr, Round(p, d, dr)) # 1
        <5>1. PICK k \in 0 .. N : k = Round(p, d, dr)
          BY <4>4, RoundIs
        <5>2. ~(dr = dir[r] /\ k = hop_count[r])
          BY <4>3, <4>4, <5>1
        <5>3. RecvdIn(r, dr, k)' = RecvdIn(r, dr, k) /\ RecvdIn(r, dr, k) # 1
          BY <4>1, <5>2
        <5>4. QED
          BY <5>1, <5>3
      <4>5. RecvdB(p, d)' = RecvdB(p, d) /\ RecvdB(p, d) # 1
        BY <2>4, <4>4 DEF RecvdB, Dirs
      <4>6. RecvdA(p, d)' = RecvdA(p, d) /\ RecvdA(p, d) # 1
        BY <1>1, <2>4, <4>1, <4>4 DEF RecvdA, Dirs
      <4>7. QED
        BY <1>1, <2>1, <2>2, <4>5, <4>6, PairKept
    <3>4. QED
      BY <3>2, <3>3
  <2>5. QED
    BY <1>3, <2>3, <2>4
<1>4. QED
  BY <1>2, <1>3

\* Every step keeps every channel.
LEMMA StepChan ==
  ASSUME IInv, NEW r \in Rank, Step(r), NEW s \in Rank, NEW d \in Rank
  PROVE  ChanInv(s, d)'
<1>1. CASE Quiet(r)
  BY <1>1, QuietChan
<1>2. CASE StartRound(r) \/ PostData(r)
  BY <1>2, PostsIs, PostsChan
<1>3. CASE SendSize(r) \/ SendData(r)
  BY <1>3, FirstPostsIs, FirstPostsChan
<1>4. CASE Receive(r)
  BY <1>4, TakesIs, TakesChan
<1>5. QED
  BY <1>1, <1>2, <1>3, <1>4 DEF Step, Quiet

-----------------------------------------------------------------------------
(* Steps: the received message, and the invariant as a whole. *)

\* Every step keeps what is known of a received message.
LEMMA StepInbox ==
  ASSUME IInv, NEW r \in Rank, Step(r), NEW q \in Rank
  PROVE  InboxInv(q)'
<1>1. Typed /\ TypeOK /\ InboxInv(q) /\ InboxInv(r) /\ ModeInv(r) /\ inbox \in [Rank -> Msg \cup {NoMsg}]
  BY DEF IInv, Typed, LocalInv
<1>2. input' = input /\ mode' = mode
  BY <1>1, StepFrame
<1>3. CASE q # r
  <2>1. /\ inbox'[q] = inbox[q] /\ pc'[q] = pc[q] /\ size_recv'[q] = size_recv[q]
        /\ dir'[q] = dir[q] /\ hop_count'[q] = hop_count[q]
    BY <1>1, <1>3, StepFrame
  <2>2. QED
    BY <1>1, <1>2, <2>1 DEF InboxInv
<1>4. CASE q = r /\ Receive(r)
  <2>1. PICK s \in Rank, n \in 1 .. 2 : Takes(r, s, n)
    BY <1>4, TakesIs
  <2>2. PICK x \in Trees :
          /\ inbox'[r] = Message(x, n)
          /\ n = 2 => size_recv[r] = PackSize(x)
          /\ pc[r] = "data" => AllHere(input, mode, x, r, dir[r], hop_count[r] + 1)
          /\ pc[r] = "recv_data" => x = Sent
    BY <2>1, TakesPartner
  <2>3. /\ pc' = pc /\ dir' = dir /\ hop_count' = hop_count /\ size_recv' = size_recv
        /\ n = IF pc[r] \in {"size", "recv"} THEN 1 ELSE 2
    BY <2>1 DEF Takes
  <2>4. /\ inbox'[r].size = PackSize(x)
        /\ n = 1 => inbox'[r].type = "size" /\ inbox'[r].items = {}
        /\ n = 2 => inbox'[r].type = "data" /\ inbox'[r].items = x
    BY <2>2, MessageIs
  <2>5. QED
    BY <1>2, <1>4, <2>2, <2>3, <2>4 DEF InboxInv
<1>5. CASE q = r /\ ~Receive(r)
  <2>1. inbox'[r] = NoMsg
    <3>1. CASE \/ Split(r) \/ Allreduce(r) \/ StartRound(r) \/ EndPass(r) \/ SendSize(r)
               \/ SendData(r) \/ SendReturns(r) \/ BcastSize(r) \/ BcastData(r)
      <4>1. inbox' = inbox /\ pc[r] \notin {"size", "data", "recv", "recv_data"}
        BY <3>1 DEF Split, Allreduce, StartRound, EndPass, SendSize, SendData, SendReturns,
                    BcastSize, BcastData
      <4>2. QED
        BY <1>1, <4>1 DEF ModeInv
    <3>2. CASE PostData(r) \/ EndRound(r) \/ RecvSize(r) \/ RecvData(r)
      BY <1>1, <3>2 DEF PostData, EndRound, RecvSize, RecvData
    <3>3. QED
      BY <1>5, <3>1, <3>2 DEF Step
  <2>2. QED
    BY <1>5, <2>1 DEF InboxInv
<1>6. QED
  BY <1>3, <1>4, <1>5

\* The invariant holds at first.
LEMMA InitInv == Init => IInv
BY InitLocal, InitChan DEF IInv

\* Every step keeps the invariant, of whichever rank it is.
LEMMA NextInv == IInv /\ [Next]_vars => IInv'
<1>1. ASSUME IInv, NEW r \in Rank, Step(r) PROVE IInv'
  <2>1. Typed'
    BY <1>1, StepTyped
  <2>2. LocalInv'
    BY <1>1, StepMode, StepHops, StepRound, StepItem, StepInbox, StepGot DEF LocalInv
  <2>3. \A s, d \in Rank : ChanInv(s, d)'
    BY <1>1, StepChan
  <2>4. QED
    BY <2>1, <2>2, <2>3 DEF IInv
<1>2. ASSUME IInv, UNCHANGED vars PROVE IInv'
  <2>1. Typed'
    BY <1>2 DEF IInv, Typed, TypeOK, vars
  <2>2. LocalInv'
    BY <1>2 DEF vars, IInv, LocalInv, ModeInv, HopsInv, RoundInv, ItemInv, InboxInv, GotInv,
       Under, InRound, MoreRounds, Within, Dst, Partner
  <2>3. ASSUME NEW s \in Rank, NEW d \in Rank PROVE ChanInv(s, d)'
    BY <1>2 DEF vars, IInv, ChanInv, Carries, PostedA, RecvdA, PostedB, RecvdB, PostedIn, RecvdIn,
       PostedFirst, RecvdFirst, Full, Past, Busy, Within, InRound, FirstTree, GoodFirst, GoodSecond,
       HeldSize
  <2>4. QED
    BY <2>1, <2>2, <2>3 DEF IInv
<1>3. QED
  BY <1>1, <1>2 DEF Next

\* The inductive invariant is an invariant of the exchange.
THEOREM ExchangeInvHolds == Spec => []IInv
BY InitInv, NextInv, PTL DEF Spec

-----------------------------------------------------------------------------
(* What the invariant shows. *)

\* Every behaviour of the exchange keeps the types: the sizes that kvtree_sendrecv allocates
\* are never negative and only items of the send kvtrees travel.
THEOREM TypeCorrect == Spec => []TypeOK
<1>1. IInv => TypeOK
  BY DEF IInv, Typed
<1>2. QED
  BY <1>1, ExchangeInvHolds, PTL

\* One tag serves sizes and trees of kvtree_sendrecv and of kvtree_send; still a receive for
\* a size gets a size, and one for a tree gets the tree that the size announced.
THEOREM SizesAndTreesMatchHolds == Spec => []SizesAndTreesMatch
<1>1. ASSUME IInv, NEW r \in Rank, inbox[r] # NoMsg
      PROVE  IF pc[r] \in {"size", "recv"} THEN inbox[r].type = "size"
             ELSE inbox[r].type = "data" /\ inbox[r].size = size_recv[r]
  <2>1. InboxInv(r) /\ pc[r] \in {"size", "data", "recv", "recv_data"}
    BY <1>1 DEF IInv, LocalInv, ModeInv
  <2>2. QED
    BY <1>1, <2>1 DEF InboxInv
<1>2. IInv => SizesAndTreesMatch
  BY <1>1 DEF SizesAndTreesMatch
<1>3. QED
  BY <1>2, ExchangeInvHolds, PTL

\* Bruck's invariant: before round k of kvtree_exchange_direction_hops, every item a rank
\* holds is a multiple of the stride away from where it goes.
THEOREM BruckDistanceHolds == Spec => []BruckDistance
<1>1. ASSUME IInv, NEW r \in Rank, pc[r] = "round", NEW i \in current[r]
      PROVE  Dist(r, i[2], dir[r]) % 2^hop_count[r] = 0
  <2>1. ItemInv(r) /\ hop_count[r] \in 0 .. N /\ dir[r] \in Dirs
    BY <1>1 DEF IInv, LocalInv, Typed, TypeOK, Dirs
  <2>2. Here(input, mode, i, r, dir[r], hop_count[r])
    BY <1>1, <2>1 DEF ItemInv, AllHere, InRound
  <2>3. i[1] \in Rank /\ i[2] \in Rank
    BY <2>2, SendsIs DEF Here
  <2>4. PICK x \in Nat, w \in Nat \ {0} : x = Dist(i[1], i[2], dir[r]) /\ w = 2^hop_count[r]
    <3>1. hop_count[r] \in 0 .. N + 1
      BY <2>1, NIs
    <3>2. QED
      BY <2>1, <2>3, <3>1, DistType, PowerIs, NIs
  <2>5. Dist(r, i[2], dir[r]) = x - (x % w)
    BY <2>2, <2>4 DEF Here
  <2>6. (x - (x % w)) % w = 0
    BY <2>4, UpperPart
  <2>7. QED
    BY <2>4, <2>5, <2>6
<1>2. IInv => BruckDistance
  BY <1>1 DEF BruckDistance
<1>3. QED
  BY <1>2, ExchangeInvHolds, PTL

\* At the end of a pass every item that a rank holds is for that rank.
LEMMA AllArrived ==
  ASSUME IInv, NEW r \in Rank, pc[r] = "round", ~MoreRounds(r), NEW i \in current[r]
  PROVE  i[2] = r
<1>1. /\ Typed /\ ItemInv(r) /\ HopsInv(r) /\ hop_count[r] \in 0 .. N /\ dir[r] \in Dirs
      /\ N \in Nat \ {0}
  BY NIs DEF IInv, LocalInv, Typed, TypeOK, Dirs
<1>2. PICK k \in 0 .. N, dr \in Dirs : k = hop_count[r] /\ dr = dir[r]
  BY <1>1
<1>3. Here(input, mode, i, r, dr, k)
  BY <1>1, <1>2 DEF ItemInv, AllHere, InRound
<1>4. i \in Sends(input) /\ i[1] \in Rank /\ i[2] \in Rank /\ i = <<i[1], i[2]>>
      /\ i[2] \in input[i[1]] /\ Way(mode, i) = dr
  BY <1>3, SendsIs DEF Here
<1>5. PICK x \in 0 .. N - 1 : x = Dist(i[1], i[2], dr)
  BY <1>4, DistType
<1>6. k \in 0 .. N + 1 /\ 2^k \in Nat
  BY <1>1, PowerIs
<1>7. x < 2^k
  <2>1. CASE ~(2^k < N)
    BY <1>1, <1>6, <2>1
  <2>2. CASE 2^k < N
    <3>1. hops[r][dr] \in Int /\ hops[i[1]][dr] \in Int
      <4>1. hops \in [Rank -> [left : Nat \cup {-1}, right : Nat \cup {-1}]]
        BY <1>1 DEF Typed, TypeOK
      <4>2. \A q \in Rank : hops[q][dr] \in Int
        BY <4>1 DEF Dirs
      <4>3. QED
        BY <1>4, <4>2
    <3>2. 0 <= hops[r][dr] /\ hops[r][dr] <= k
      BY <1>2, <2>2, <3>1 DEF MoreRounds
    <3>3. mode = "exchange"
      BY <1>1, <3>2 DEF HopsInv, Dirs
    <3>4. pc[i[1]] # "split" /\ hops[i[1]][dr] <= hops[r][dr]
      BY <1>1, <1>4, <3>3 DEF HopsInv, Under, Dirs
    <3>5. StepsOf(x) <= hops[i[1]][dr]
      <4>1. HopsInv(i[1])
        BY <1>4 DEF IInv, LocalInv
      <4>2. \A d \in input[i[1]] : StepsOf(Dist(i[1], d, Way(mode, <<i[1], d>>)))
                                     <= hops[i[1]][Way(mode, <<i[1], d>>)]
        BY <3>3, <3>4, <4>1 DEF HopsInv
      <4>3. QED
        BY <1>4, <1>5, <4>2
    <3>6. StepsOf(x) \in 0 .. N + 1
      BY StepsOfIs
    <3>7. StepsOf(x) <= k
      BY <3>1, <3>2, <3>4, <3>5, <3>6
    <3>8. QED
      BY <3>7, StepsOfIs
  <2>3. QED
    BY <2>1, <2>2
<1>8. QED
  BY <1>3, <1>5, <1>6, <1>7, HereLast

\* When a pass ends, by the stride or by the hop limit that kvtree_exchange computes, no
\* rank is left with an item of another one, which the last check of the pass would refuse.
THEOREM NothingStrandedHolds == Spec => []NothingStranded
<1>1. IInv => NothingStranded
  BY AllArrived DEF NothingStranded
<1>2. QED
  BY <1>1, ExchangeInvHolds, PTL

-----------------------------------------------------------------------------
(* Where the items are. *)

\* An item in the messages of a channel.
Has(q, i) == \E j \in DOMAIN q : i \in q[j].items

\* The parts of Held: with the rank, in its send hash, on the way to it.
Rests(r, i)    == i \in current[r] \/ i \in right_in[r] \/ i \in out[r] \/ i \in inbox[r].items
Leaves(r, i)   == pc[r] = "size" /\ i \in sending[r]
OnWay(s, r, i) == Has(chan[s][r], i)

\* They are all of Held.
LEMMA HeldIs ==
  ASSUME NEW r \in Rank, NEW i
  PROVE  i \in Held(r) <=> Rests(r, i) \/ Leaves(r, i) \/ \E s \in Rank : OnWay(s, r, i)
<1> DEFINE W(s) == UNION {chan[s][r][j].items : j \in DOMAIN chan[s][r]}
<1>1. i \in UNION {UNION {chan[s][r][j].items : j \in DOMAIN chan[s][r]} : s \in Rank}
        <=> \E s \in Rank : OnWay(s, r, i)
  <2>1. ASSUME NEW s \in Rank PROVE i \in W(s) <=> OnWay(s, r, i)
    <3>1. PICK q : q = chan[s][r]
      OBVIOUS
    <3>2. i \in UNION {q[j].items : j \in DOMAIN q} <=> \E j \in DOMAIN q : i \in q[j].items
      OBVIOUS
    <3>3. QED
      BY <3>1, <3>2 DEF OnWay, Has
  <2>2. i \in UNION {W(s) : s \in Rank} <=> \E s \in Rank : i \in W(s)
    <3> HIDE DEF W
    <3>1. QED
      OBVIOUS
  <2>3. QED
    BY <2>1, <2>2
<1>2. QED
  BY <1>1 DEF Held, Rests, Leaves

\* And of Held after a step.
LEMMA HeldIsNext ==
  ASSUME NEW r \in Rank, NEW i
  PROVE  i \in Held(r)' <=> Rests(r, i)' \/ Leaves(r, i)' \/ \E s \in Rank : OnWay(s, r, i)'
<1>1. i \in Held(r) <=> Rests(r, i) \/ Leaves(r, i) \/ \E s \in Rank : OnWay(s, r, i)
  BY HeldIs
<1>2. (i \in Held(r) <=> Rests(r, i) \/ Leaves(r, i) \/ \E s \in Rank : OnWay(s, r, i))'
  BY <1>1, PTL
<1>3. QED
  BY <1>2

\* The tree of kvtree_send is not an item of the exchange.
LEMMA ItemNotSent ==
  ASSUME NEW i \in Items
  PROVE  i \notin Sent
<1>1. PICK a \in Rank, b \in Rank : i = <<a, b>>
  BY DEF Items
<1>2. b # N
  BY NIs DEF Rank
<1>3. QED
  BY <1>1, <1>2 DEF Sent

\* Items in a channel after posting.
LEMMA HasAppend ==
  ASSUME NEW q \in Seq(Msg), NEW m, NEW i
  PROVE  Has(Append(q, m), i) <=> Has(q, i) \/ i \in m.items
<1>1. Len(q) \in Nat /\ DOMAIN q = 1 .. Len(q)
  OBVIOUS
<1>2. /\ DOMAIN Append(q, m) = 1 .. Len(q) + 1
      /\ Append(q, m)[Len(q) + 1] = m
      /\ \A j \in 1 .. Len(q) : Append(q, m)[j] = q[j]
  <2>1. PICK l \in Nat : l = Len(q)
    BY <1>1
  <2>2. QED
    BY <1>1
<1>3. 1 .. Len(q) + 1 = (1 .. Len(q)) \cup {Len(q) + 1}
  BY <1>1
<1>4. QED
  BY <1>1, <1>2, <1>3 DEF Has

\* Items in a channel before receiving: in the message received or in the rest.
LEMMA HasTail ==
  ASSUME NEW q \in Seq(Msg), q # <<>>, NEW i
  PROVE  Has(q, i) <=> i \in Head(q).items \/ Has(Tail(q), i)
<1>1. Len(q) \in Nat \ {0} /\ DOMAIN q = 1 .. Len(q)
  OBVIOUS
<1>2. /\ DOMAIN Tail(q) = 1 .. Len(q) - 1 /\ Head(q) = q[1]
      /\ \A j \in 1 .. Len(q) - 1 : Tail(q)[j] = q[j + 1]
  BY <1>1
<1>3. ASSUME Has(q, i) PROVE i \in Head(q).items \/ Has(Tail(q), i)
  <2>1. PICK j \in 1 .. Len(q) : i \in q[j].items
    BY <1>1, <1>3 DEF Has
  <2>2. CASE j = 1
    BY <1>2, <2>1, <2>2
  <2>3. CASE j # 1
    <3>1. PICK l \in 1 .. Len(q) - 1 : l + 1 = j
      BY <1>1, <2>1, <2>3
    <3>2. i \in Tail(q)[l].items
      BY <1>2, <2>1, <3>1
    <3>3. QED
      BY <1>2, <3>2 DEF Has
  <2>4. QED
    BY <2>2, <2>3
<1>4. ASSUME i \in Head(q).items PROVE Has(q, i)
  BY <1>1, <1>2, <1>4 DEF Has
<1>5. ASSUME Has(Tail(q), i) PROVE Has(q, i)
  <2>1. PICK j \in 1 .. Len(q) - 1 : i \in Tail(q)[j].items
    BY <1>2, <1>5 DEF Has
  <2>2. j + 1 \in 1 .. Len(q) /\ i \in q[j + 1].items
    BY <1>1, <1>2, <2>1
  <2>3. QED
    BY <1>1, <2>2 DEF Has
<1>6. QED
  BY <1>3, <1>4, <1>5

\* Posting a message puts its items on the way, and no others.
LEMMA OnWayPost ==
  ASSUME Typed, NEW r \in Rank, NEW e \in Rank, NEW m,
         chan' = [chan EXCEPT ![r][e] = Append(@, m)],
         NEW s \in Rank, NEW d \in Rank, NEW i
  PROVE  OnWay(s, d, i)' <=> OnWay(s, d, i) \/ (s = r /\ d = e /\ i \in m.items)
<1>1. chan \in [Rank -> [Rank -> Seq(Msg)]]
  BY DEF Typed
<1>2. CASE s = r /\ d = e
  <2>1. PICK q \in Seq(Msg) : q = chan[s][d]
    BY <1>1
  <2>2. chan'[s][d] = Append(q, m)
    BY <1>1, <1>2, <2>1
  <2>3. QED
    BY <1>2, <2>1, <2>2, HasAppend DEF OnWay
<1>3. CASE ~(s = r /\ d = e)
  <2>1. chan'[s][d] = chan[s][d]
    BY <1>1, <1>3
  <2>2. QED
    BY <1>3, <2>1 DEF OnWay
<1>4. QED
  BY <1>2, <1>3

\* Only PostData and Receive change what items are on the way.
LEMMA WayKept ==
  ASSUME IInv, NEW r \in Rank, Step(r), ~PostData(r), ~Receive(r), NEW i \in Items,
         NEW s \in Rank, NEW d \in Rank
  PROVE  OnWay(s, d, i)' <=> OnWay(s, d, i)
<1>1. Typed /\ ModeInv(r) /\ N - 1 \in Rank /\ i \notin Sent
  BY NIs, ItemNotSent DEF IInv, LocalInv, Rank
<1>2. CASE Quiet(r)
  <2>1. chan' = chan
    BY <1>2, QuietSame
  <2>2. QED
    BY <2>1 DEF OnWay
<1>3. CASE StartRound(r)
  <2>1. Dst(r) \in Rank
    <3>1. 2^hop_count[r] < N
      BY <1>1, <1>3, MoreRoundsIs DEF StartRound
    <3>2. QED
      BY <1>1, <3>1, PartnersAre
  <2>2. PICK e \in Rank : e = Dst(r)
    BY <2>1
  <2>3. PICK m : m.items = {} /\ chan' = [chan EXCEPT ![r][e] = Append(@, m)]
    BY <1>3, <2>2 DEF StartRound, Send, SizeMsg
  <2>4. QED
    BY <1>1, <2>3, OnWayPost
<1>4. CASE SendSize(r) \/ SendData(r)
  <2>1. PICK m : /\ m.items = {} \/ m.items = Sent
                 /\ chan' = [chan EXCEPT ![r][N - 1] = Append(@, m)]
    BY <1>4 DEF SendSize, SendData, SizeMsg, DataMsg
  <2>2. PICK e \in Rank : e = N - 1
    BY <1>1
  <2>3. OnWay(s, d, i)' <=> OnWay(s, d, i) \/ (s = r /\ d = e /\ i \in m.items)
    BY <1>1, <2>1, <2>2, OnWayPost
  <2>4. QED
    BY <1>1, <2>1, <2>3
<1>5. QED
  BY <1>2, <1>3, <1>4 DEF Step, Quiet

\* Other ranks keep what they hold, apart from what is on the way to them.
LEMMA OthersHold ==
  ASSUME Typed, NEW r \in Rank, Step(r), NEW i, NEW q \in Rank, q # r
  PROVE  (Rests(q, i)' <=> Rests(q, i)) /\ (Leaves(q, i)' <=> Leaves(q, i))
<1>1. /\ pc'[q] = pc[q] /\ right_in'[q] = right_in[q] /\ current'[q] = current[q]
      /\ out'[q] = out[q] /\ inbox'[q] = inbox[q] /\ sending'[q] = sending[q]
  BY StepFrame
<1>2. QED
  BY <1>1 DEF Rests, Leaves

\* What is with a rank stays with it, in all steps but three.
LEMMA RestsKept ==
  ASSUME IInv, NEW r \in Rank, Step(r), ~PostData(r), ~Receive(r), ~Split(r), NEW i \in Items
  PROVE  Rests(r, i)' \/ Leaves(r, i)' <=> Rests(r, i) \/ Leaves(r, i)
<1>1. Typed /\ TypeOK /\ ModeInv(r) /\ InboxInv(r) /\ i \notin Sent
      /\ inbox \in [Rank -> Msg \cup {NoMsg}] /\ NoMsg.items = {}
  BY ItemNotSent DEF IInv, LocalInv, Typed, NoMsg
<1>2. CASE Allreduce(r) \/ SendSize(r) \/ SendData(r) \/ SendReturns(r) \/ BcastSize(r) \/ BcastData(r)
  <2>1. /\ right_in' = right_in /\ current' = current /\ out' = out /\ inbox' = inbox
        /\ pc[r] # "size" /\ pc'[r] # "size"
    BY <1>1, <1>2 DEF Allreduce, SendSize, SendData, SendReturns, BcastSize, BcastData, TypeOK
  <2>2. QED
    BY <2>1 DEF Rests, Leaves
<1>3. CASE RecvSize(r) \/ RecvData(r)
  <2>1. /\ right_in' = right_in /\ current' = current /\ out' = out /\ inbox'[r] = NoMsg
        /\ pc[r] \in {"recv", "recv_data"} /\ pc'[r] # "size" /\ inbox[r] # NoMsg
    BY <1>1, <1>3 DEF RecvSize, RecvData, TypeOK
  <2>2. i \notin inbox[r].items /\ i \notin inbox'[r].items
    BY <1>1, <2>1 DEF InboxInv
  <2>3. QED
    BY <2>1, <2>2 DEF Rests, Leaves
<1>4. CASE StartRound(r)
  <2>1. /\ pc[r] = "round" /\ pc'[r] = "size" /\ inbox' = inbox /\ right_in' = right_in
        /\ out'[r] = out[r] \cup Mine(r, current[r]) /\ sending'[r] = Outgoing(r)
        /\ current'[r] = (current[r] \ Mine(r, current[r])) \ Outgoing(r)
    BY <1>1, <1>4 DEF StartRound, TypeOK
  <2>2. Mine(r, current[r]) \subseteq current[r] /\ Outgoing(r) \subseteq current[r]
    BY DEF Mine, Outgoing
  <2>3. QED
    BY <2>1, <2>2 DEF Rests, Leaves
<1>5. CASE EndRound(r)
  <2>1. /\ pc[r] = "data" /\ pc'[r] = "round" /\ inbox'[r] = NoMsg /\ right_in' = right_in
        /\ out' = out /\ current'[r] = current[r] \cup inbox[r].items
    BY <1>1, <1>5 DEF EndRound, TypeOK
  <2>2. QED
    BY <1>1, <2>1 DEF Rests, Leaves
<1>6. CASE EndPass(r)
  <2>1. /\ pc[r] = "round" /\ ~MoreRounds(r) /\ inbox' = inbox
        /\ out'[r] = out[r] \cup Mine(r, current[r])
    BY <1>1, <1>6 DEF EndPass, TypeOK
  <2>2. Mine(r, current[r]) = current[r]
    BY <2>1, AllArrived DEF Mine
  <2>3. /\ pc'[r] # "size"
        /\ \/ current'[r] = right_in[r] /\ right_in'[r] = {}
           \/ current'[r] = {} /\ right_in'[r] = right_in[r]
    BY <1>1, <1>6, <2>1 DEF EndPass, TypeOK
  <2>4. QED
    BY <2>1, <2>2, <2>3 DEF Rests, Leaves
<1>7. QED
  BY <1>2, <1>3, <1>4, <1>5, <1>6 DEF Step

\* All steps but Split and PostData leave every item where it is.
LEMMA HeldKept ==
  ASSUME IInv, NEW r \in Rank, Step(r), ~PostData(r), ~Split(r), NEW i \in Items, NEW q \in Rank
  PROVE  i \in Held(q)' <=> i \in Held(q)
<1>1. Typed /\ chan \in [Rank -> [Rank -> Seq(Msg)]] /\ NoMsg.items = {}
  BY DEF IInv, Typed, NoMsg
<1>2. /\ i \in Held(q) <=> Rests(q, i) \/ Leaves(q, i) \/ \E s \in Rank : OnWay(s, q, i)
      /\ i \in Held(q)' <=> Rests(q, i)' \/ Leaves(q, i)' \/ \E s \in Rank : OnWay(s, q, i)'
  BY HeldIs, HeldIsNext
<1>3. CASE ~Receive(r)
  <2>1. \A s \in Rank : OnWay(s, q, i)' <=> OnWay(s, q, i)
    BY <1>3, WayKept
  <2>2. Rests(q, i)' \/ Leaves(q, i)' <=> Rests(q, i) \/ Leaves(q, i)
    BY <1>1, <1>3, OthersHold, RestsKept
  <2>3. QED
    BY <1>2, <2>1, <2>2
<1>4. CASE Receive(r)
  <2>1. PICK s \in Rank, n \in 1 .. 2 : Takes(r, s, n)
    BY <1>4, TakesIs
  <2>2. PICK w \in Seq(Msg) : w = chan[s][r]
    BY <1>1
  <2>3. /\ w # <<>> /\ inbox'[r] = Head(w) /\ inbox[r] = NoMsg /\ pc' = pc /\ sending' = sending
        /\ chan' = [chan EXCEPT ![s][r] = Tail(@)]
    BY <2>1, <2>2 DEF Takes
  <2>4. \A p \in Rank : ~(p = s /\ q = r) => (OnWay(p, q, i)' <=> OnWay(p, q, i))
    BY <1>1, <2>3 DEF OnWay
  <2>5. CASE q # r
    BY <1>1, <1>2, <2>4, <2>5, OthersHold
  <2>6. CASE q = r
    <3>1. chan'[s][r] = Tail(w)
      BY <1>1, <2>2, <2>3
    <3>2. OnWay(s, r, i) <=> i \in inbox'[r].items \/ OnWay(s, r, i)'
      BY <2>2, <2>3, <3>1, HasTail DEF OnWay
    <3>3. current' = current /\ right_in' = right_in /\ out' = out
      BY <1>4 DEF Receive
    <3>4. Rests(r, i)' <=> Rests(r, i) \/ i \in inbox'[r].items
      BY <1>1, <2>3, <3>3 DEF Rests
    <3>5. Leaves(r, i)' <=> Leaves(r, i)
      BY <2>3 DEF Leaves
    <3>6. QED
      BY <1>2, <2>4, <2>6, <3>2, <3>4, <3>5
  <2>7. QED
    BY <2>5, <2>6
<1>5. QED
  BY <1>3, <1>4

\* Split gives a rank the items of its send kvtree.
LEMMA HeldSplit ==
  ASSUME IInv, NEW r \in Rank, Split(r), NEW i \in Items, NEW q \in Rank
  PROVE  i \in Held(q)' <=> i \in Held(q) \/ (q = r /\ i[1] = r /\ i[2] \in input[r])
<1>1. Typed /\ TypeOK /\ ItemInv(r) /\ ModeInv(r) /\ Step(r)
  BY DEF IInv, LocalInv, Typed, Step
<1>2. /\ i \in Held(q) <=> Rests(q, i) \/ Leaves(q, i) \/ \E s \in Rank : OnWay(s, q, i)
      /\ i \in Held(q)' <=> Rests(q, i)' \/ Leaves(q, i)' \/ \E s \in Rank : OnWay(s, q, i)'
  BY HeldIs, HeldIsNext
<1>3. chan' = chan /\ out' = out /\ inbox' = inbox /\ pc[r] = "split" /\ pc'[r] = "reduce"
  BY <1>1 DEF Split, TypeOK
<1>4. \A s \in Rank : OnWay(s, q, i)' <=> OnWay(s, q, i)
  BY <1>3 DEF OnWay
<1>5. CASE q # r
  BY <1>1, <1>2, <1>4, <1>5, OthersHold
<1>6. CASE q = r
  <2>1. current[r] = {} /\ right_in[r] = {}
    BY <1>1, <1>3 DEF ItemInv
  <2>2. PICK a \in Rank, b \in Rank : i = <<a, b>>
    BY DEF Items
  <2>3. i \in current'[r] \/ i \in right_in'[r] <=> i[1] = r /\ i[2] \in input[r]
    BY <1>1, <2>2 DEF Split, TypeOK
  <2>4. QED
    BY <1>2, <1>3, <1>4, <1>6, <2>1, <2>3 DEF Rests, Leaves
<1>7. QED
  BY <1>5, <1>6

\* What a rank holds apart from its send hash.
Keeps(r, i) == Rests(r, i) \/ \E s \in Rank : OnWay(s, r, i)

\* PostData moves the send hash to the partner, and nothing else.
LEMMA HeldPost ==
  ASSUME IInv, NEW r \in Rank, PostData(r), NEW i \in Items, NEW q \in Rank
  PROVE  /\ i \in Held(q) <=> Keeps(q, i) \/ Leaves(q, i)
         /\ i \in Held(q)' <=> \/ IF q = r THEN Keeps(q, i) ELSE i \in Held(q)
                               \/ q = Dst(r) /\ i \in sending[r]
<1>1. /\ Typed /\ TypeOK /\ ItemInv(r) /\ ModeInv(r) /\ InboxInv(r) /\ Step(r) /\ RoundInv(r)
      /\ NoMsg.items = {}
  BY DEF IInv, LocalInv, Typed, Step, NoMsg
<1>2. /\ i \in Held(q) <=> Rests(q, i) \/ Leaves(q, i) \/ \E s \in Rank : OnWay(s, q, i)
      /\ i \in Held(q)' <=> Rests(q, i)' \/ Leaves(q, i)' \/ \E s \in Rank : OnWay(s, q, i)'
  BY HeldIs, HeldIsNext
<1>3. PICK e \in Rank : e = Dst(r)
  <2>1. 2^hop_count[r] < N
    BY <1>1, MoreRoundsIs DEF PostData, RoundInv, InRound
  <2>2. QED
    BY <1>1, <2>1, PartnersAre
<1>4. PICK m : m.items = sending[r] /\ chan' = [chan EXCEPT ![r][e] = Append(@, m)]
  BY <1>3 DEF PostData, Send, DataMsg
<1>5. ASSUME NEW s \in Rank
      PROVE  OnWay(s, q, i)' <=> OnWay(s, q, i) \/ (s = r /\ q = e /\ i \in sending[r])
  <2>1. Typed /\ chan' = [chan EXCEPT ![r][e] = Append(@, m)]
    BY <1>1, <1>4
  <2>2. OnWay(s, q, i)' <=> OnWay(s, q, i) \/ (s = r /\ q = e /\ i \in m.items)
    BY <2>1, OnWayPost
  <2>3. QED
    BY <1>4, <2>2
<1>6. (\E s \in Rank : OnWay(s, q, i)')
        <=> (\E s \in Rank : OnWay(s, q, i)) \/ (q = e /\ i \in sending[r])
  BY <1>5
<1>7. CASE q # r
  BY <1>1, <1>2, <1>3, <1>6, <1>7, OthersHold DEF Keeps
<1>8. CASE q = r
  <2>1. /\ current' = current /\ right_in' = right_in /\ out' = out /\ inbox'[r] = NoMsg
        /\ pc[r] = "size" /\ pc'[r] = "data" /\ inbox[r] # NoMsg
    BY <1>1 DEF PostData, Complete, TypeOK, Typed
  <2>2. inbox[r].items = {}
    BY <1>1, <2>1 DEF InboxInv
  <2>3. (Rests(r, i)' <=> Rests(r, i)) /\ ~(Leaves(r, i)')
    BY <1>1, <2>1, <2>2 DEF Rests, Leaves
  <2>4. QED
    BY <1>2, <1>3, <1>6, <1>8, <2>3 DEF Keeps
<1>9. QED
  BY <1>7, <1>8

\* An item on the way has been posted in a round that its receiver has not finished, and is
\* where it is after that round.
LEMMA OnWayIs ==
  ASSUME IInv, NEW s \in Rank, NEW d \in Rank, NEW i \in Items, OnWay(s, d, i)
  PROVE  \E dr \in Dirs, k \in 0 .. N :
           /\ Here(input, mode, i, d, dr, k + 1) /\ 2^k < N
           /\ PostedIn(s, dr, k) = 2 /\ RecvdIn(d, dr, k) # 2
<1>1. PICK xa \in Trees, xb \in Trees : Carries(s, d, xa, xb)
  BY DEF IInv, ChanInv
<1>2. PICK q : q = chan[s][d]
  OBVIOUS
<1>3. PICK pa, ra, pb, rb :
        /\ pa = PostedA(s, d) /\ ra = RecvdA(s, d) /\ pb = PostedB(s, d) /\ rb = RecvdB(s, d)
  OBVIOUS
<1>4. Wire(q, pa, ra, xa, pb, rb, xb)
  BY <1>1, <1>2, <1>3 DEF Carries
<1>5. /\ q \in Seq(Msg) /\ pa \in 0 .. 2 /\ ra \in 0 .. 2 /\ ra <= pa
      /\ pb \in 0 .. 2 /\ rb \in 0 .. 2 /\ rb <= pb
      /\ Len(q) = (pa - ra) + (pb - rb)
      /\ \A j \in 1 .. pa - ra : q[j] = Message(xa, ra + j)
      /\ \A j \in 1 .. pb - rb : q[(pa - ra) + j] = Message(xb, rb + j)
  BY <1>4 DEF Wire
<1>6. PICK j \in 1 .. Len(q) : i \in q[j].items
  BY <1>2, <1>5 DEF OnWay, Has
<1>7. CASE j <= pa - ra
  <2>1. PICK n \in 1 .. 2 : n = ra + j
    BY <1>5, <1>6, <1>7
  <2>2. q[j] = Message(xa, n)
    BY <1>5, <1>6, <1>7, <2>1
  <2>3. n = 2 /\ i \in xa
    BY <1>6, <2>2, MessageIs
  <2>4. PostedA(s, d) = 2 /\ RecvdA(s, d) < 2
    BY <1>3, <1>5, <1>6, <1>7, <2>1, <2>3
  <2>5. GoodFirst(s, d, xa)
    BY <1>1, <2>4 DEF Carries
  <2>6. mode # "send"
    BY <2>3, <2>5, ItemNotSent DEF GoodFirst
  <2>7. Paired(s, d, "left")
    BY <2>4, <2>6 DEF PostedA
  <2>8. PICK k \in 0 .. N : k = Round(s, d, "left") /\ 2^k < N
    BY <2>7, RoundIs DEF Dirs
  <2>9. Here(input, mode, i, d, "left", k + 1)
    BY <2>3, <2>5, <2>6, <2>8 DEF GoodFirst, AllHere
  <2>10. PostedIn(s, "left", k) = 2 /\ RecvdIn(d, "left", k) # 2
    BY <2>4, <2>6, <2>7, <2>8 DEF PostedA, RecvdA
  <2>11. QED
    BY <2>8, <2>9, <2>10 DEF Dirs
<1>8. CASE ~(j <= pa - ra)
  <2>1. PICK l \in 1 .. pb - rb : (pa - ra) + l = j
    <3>1. j - (pa - ra) \in 1 .. pb - rb /\ (pa - ra) + (j - (pa - ra)) = j
      BY <1>5, <1>6, <1>8
    <3>2. QED
      BY <3>1
  <2>2. PICK n \in 1 .. 2 : n = rb + l
    BY <1>5, <2>1
  <2>3. q[j] = Message(xb, n)
    BY <1>5, <2>1, <2>2
  <2>4. n = 2 /\ i \in xb
    BY <1>6, <2>3, MessageIs
  <2>5. PostedB(s, d) = 2 /\ RecvdB(s, d) < 2
    BY <1>3, <1>5, <2>1, <2>2, <2>4
  <2>6. GoodSecond(s, d, xb)
    BY <1>1, <2>5 DEF Carries
  <2>7. Paired(s, d, "right")
    BY <2>5 DEF PostedB
  <2>8. PICK k \in 0 .. N : k = Round(s, d, "right") /\ 2^k < N
    BY <2>7, RoundIs DEF Dirs
  <2>9. Here(input, mode, i, d, "right", k + 1)
    BY <2>4, <2>6, <2>8 DEF GoodSecond, AllHere
  <2>10. PostedIn(s, "right", k) = 2 /\ RecvdIn(d, "right", k) # 2
    BY <2>5, <2>7, <2>8 DEF PostedB, RecvdB
  <2>11. QED
    BY <2>8, <2>9, <2>10 DEF Dirs
<1>9. QED
  BY <1>7, <1>8

\* The low bits that are gone grow with the rounds.
LEMMA LowPartGrows ==
  ASSUME NEW a \in 0 .. N + 1, NEW b \in 0 .. N + 1, a <= b, NEW x \in Nat
  PROVE  x % 2^a <= x % 2^b
<1>1. DEFINE S == {m \in 0 .. N + 1 : a <= m /\ ~(x % 2^a <= x % 2^m)}
<1>2. SUFFICES ASSUME S # {} PROVE FALSE
  OBVIOUS
<1>3. PICK m \in S : \A j \in S : m <= j
  <2>1. S \in SUBSET Nat
    BY NIs
  <2>2. QED
    BY <1>2, <2>1, LeastExists
<1>4. m \in 0 .. N + 1 /\ a <= m /\ ~(x % 2^a <= x % 2^m)
  BY <1>3
<1>5. PICK e \in Nat : e = x % 2^a
  <2>1. 2^a \in Nat \ {0}
    BY PowerIs
  <2>2. QED
    BY <2>1
<1>6. m # a
  BY <1>4, <1>5
<1>7. PICK p \in 0 .. N : p + 1 = m /\ p < m
  <2>1. m - 1 \in 0 .. N /\ (m - 1) + 1 = m /\ m - 1 < m
    BY <1>4, <1>6, NIs
  <2>2. QED
    BY <2>1
<1>8. PICK w \in Nat \ {0} : w = 2^p
  <2>1. p \in 0 .. N + 1
    BY NIs
  <2>2. QED
    BY <2>1, PowerIs
<1>9. e <= x % w
  <2>1. p \in 0 .. N + 1 /\ a <= p /\ ~(m <= p)
    BY <1>4, <1>6, <1>7, NIs
  <2>2. p \notin S
    BY <1>3, <2>1
  <2>3. QED
    BY <1>5, <1>8, <2>1, <2>2
<1>10. 2^m = 2 * w
  BY <1>7, <1>8, PowerAssumption
<1>11. x % w <= x % (2 * w)
  <2>1. PICK u : u = x - (x % w)
    OBVIOUS
  <2>2. x - (x % (2 * w)) = u \/ (u >= w /\ x - (x % (2 * w)) = u - w)
    BY <2>1, UpperPart
  <2>3. x % w \in Nat /\ x % (2 * w) \in Nat
    OBVIOUS
  <2>4. QED
    BY <2>1, <2>2, <2>3
<1>12. x % w \in Nat /\ x % (2 * w) \in Nat
  OBVIOUS
<1>13. e <= x % (2 * w)
  BY <1>9, <1>11, <1>12
<1>14. QED
  BY <1>4, <1>5, <1>10, <1>13

\* Once an item has moved it does not come back in the pass: it is not at the same rank
\* before round k and after a later round, if it moves in round k.
LEMMA NoReturn ==
  ASSUME NEW inp, NEW m, NEW i, NEW r \in Rank, NEW e \in Rank, r # e, NEW dr \in Dirs,
         NEW k \in 0 .. N, NEW j \in 0 .. N, k <= j,
         Here(inp, m, i, r, dr, k), Here(inp, m, i, e, dr, k + 1), Here(inp, m, i, r, dr, j + 1)
  PROVE  FALSE
<1>1. i[1] \in Rank /\ i[2] \in Rank /\ N \in Nat \ {0}
  BY SendsIs, NIs DEF Here
<1>2. PICK x \in Nat : x = Dist(i[1], i[2], dr)
  BY <1>1, DistType
<1>3. k \in 0 .. N + 1 /\ k + 1 \in 0 .. N + 1 /\ j + 1 \in 0 .. N + 1 /\ k <= k + 1 /\ k + 1 <= j + 1
  BY <1>1
<1>4. x % 2^k <= x % 2^(k + 1) /\ x % 2^(k + 1) <= x % 2^(j + 1)
  BY <1>3, LowPartGrows
<1>5. PICK a \in Nat, b \in Nat, c \in Nat :
        a = x % 2^k /\ b = x % 2^(k + 1) /\ c = x % 2^(j + 1)
  <2>1. 2^k \in Nat \ {0} /\ 2^(k + 1) \in Nat \ {0} /\ 2^(j + 1) \in Nat \ {0}
    BY <1>3, PowerIs
  <2>2. QED
    BY <2>1
<1>6. Dist(r, i[2], dr) = x - a /\ Dist(e, i[2], dr) = x - b /\ Dist(r, i[2], dr) = x - c
  BY <1>2, <1>5 DEF Here
<1>7. a <= b /\ b <= c
  BY <1>4, <1>5
<1>8. Dist(r, i[2], dr) = Dist(e, i[2], dr)
  BY <1>6, <1>7
<1>9. QED
  BY <1>1, <1>8, DistInjective

-----------------------------------------------------------------------------
(* Every item is in one place. *)

\* What a rank sends in a round was with it before that round.
FromInv(r) == InRound(r) => AllHere(input, mode, sending[r], r, dir[r], hop_count[r])

\* From the split on an item is held by some rank, and never by two.
Covered  == \A i \in Sends(input) : pc[i[1]] # "split" => \E r \in Rank : i \in Held(r)
OneHolder == \A i \in Sends(input), r, q \in Rank : i \in Held(r) /\ i \in Held(q) => r = q

PlaceInv == (\A r \in Rank : FromInv(r)) /\ Covered /\ OneHolder

\* Every step keeps the origin of what is sent.
LEMMA StepFrom ==
  ASSUME IInv, NEW r \in Rank, Step(r), NEW q \in Rank, FromInv(q)
  PROVE  FromInv(q)'
<1>1. Typed /\ TypeOK /\ ItemInv(r) /\ input' = input /\ mode' = mode
  BY StepFrame DEF IInv, LocalInv, Typed
<1>2. CASE q # r
  <2>1. /\ pc'[q] = pc[q] /\ sending'[q] = sending[q] /\ dir'[q] = dir[q]
        /\ hop_count'[q] = hop_count[q]
    BY <1>1, <1>2, StepFrame
  <2>2. QED
    BY <1>1, <2>1 DEF FromInv, InRound
<1>3. CASE q = r /\ StartRound(r)
  <2>1. pc[r] = "round" /\ sending'[r] = Outgoing(r) /\ dir' = dir /\ hop_count' = hop_count
    BY <1>1, <1>3 DEF StartRound, TypeOK
  <2>2. AllHere(input, mode, current[r], r, dir[r], hop_count[r])
    BY <1>1, <2>1 DEF ItemInv, InRound
  <2>3. Outgoing(r) \subseteq current[r]
    BY DEF Outgoing
  <2>4. AllHere(input, mode, Outgoing(r), r, dir[r], hop_count[r])
    BY <2>2, <2>3 DEF AllHere
  <2>5. QED
    BY <1>1, <1>3, <2>1, <2>4 DEF FromInv
<1>4. CASE q = r /\ (Receive(r) \/ PostData(r))
  <2>1. sending' = sending /\ dir' = dir /\ hop_count' = hop_count /\ (InRound(r)' => InRound(r))
    BY <1>1, <1>4 DEF Receive, PostData, InRound, TypeOK
  <2>2. QED
    BY <1>1, <1>4, <2>1 DEF FromInv
<1>5. CASE q = r /\ (Quiet(r) \/ SendSize(r) \/ SendData(r))
  <2>1. pc'[r] \notin {"size", "data"}
    BY <1>1, <1>5 DEF Quiet, Split, Allreduce, EndRound, EndPass, SendReturns, RecvSize,
       RecvData, BcastSize, BcastData, SendSize, SendData, TypeOK
  <2>2. QED
    BY <1>5, <2>1 DEF FromInv, InRound
<1>6. QED
  BY <1>2, <1>3, <1>4, <1>5 DEF Step, Quiet

\* The send hash holds nothing that its rank has in another place, or will get.
LEMMA LeavesApart ==
  ASSUME IInv, NEW r \in Rank, FromInv(r), pc[r] = "size", NEW i \in sending[r], i \in Items
  PROVE  ~Keeps(r, i)
<1>1. /\ Typed /\ ItemInv(r) /\ InboxInv(r) /\ RoundInv(r) /\ ModeInv(r) /\ InRound(r)
      /\ NoMsg.items = {}
  BY DEF IInv, LocalInv, InRound, NoMsg
<1>2. PICK k \in 0 .. N, dr \in Dirs : k = hop_count[r] /\ dr = dir[r]
  BY <1>1 DEF Typed, TypeOK, Dirs
<1>3. 2^k < N
  BY <1>1, <1>2, MoreRoundsIs DEF RoundInv
<1>4. PICK e \in Rank : e = Dst(r)
  BY <1>1, <1>2, <1>3, PartnersAre
<1>5. e # r
  <2>1. Paired(r, e, dr) /\ Round(r, e, dr) = k
    BY <1>1, <1>2, <1>3, <1>4, PartnersAre
  <2>2. Dist(r, e, dr) = 2^k
    BY <2>1, RoundIs
  <2>3. 2^k # 0
    <3>1. k \in 0 .. N + 1
      BY NIs
    <3>2. QED
      BY <3>1, PowerIs
  <2>4. QED
    BY <2>2, <2>3, DistType
<1>6. Here(input, mode, i, r, dr, k) /\ Here(input, mode, i, e, dr, k + 1)
  BY <1>1, <1>2, <1>4 DEF ItemInv, FromInv, AllHere
<1>7. i[1] \in Rank /\ i[2] \in Rank /\ Way(mode, i) = dr
  BY <1>6, SendsIs DEF Here
<1>8. ~Here(input, mode, i, r, dr, k + 1)
  <2>1. ASSUME Here(input, mode, i, r, dr, k + 1) PROVE FALSE
    BY <1>5, <1>6, <2>1, NoReturn
  <2>2. QED
    BY <2>1
<1>9. i \notin current[r]
  BY <1>1, <1>2, <1>8 DEF ItemInv, AllHere
<1>10. i[2] # r
  <2>1. ASSUME i[2] = r PROVE FALSE
    <3>1. Dist(r, i[2], dr) = 0
      BY <1>7, <2>1, DistType
    <3>2. ~BitSet(Dist(r, i[2], dr), k)
      <4>1. PICK w \in Nat \ {0} : w = 2^k
        <5>1. k \in 0 .. N + 1
          BY NIs
        <5>2. QED
          BY <5>1, PowerIs
      <4>2. (0 \div w) % 2 # 1
        BY <4>1
      <4>3. QED
        BY <3>1, <4>1, <4>2 DEF BitSet
    <3>3. QED
      BY <1>3, <1>6, <1>8, <3>2, HereNext
  <2>2. QED
    BY <2>1
<1>11. i \notin out[r]
  BY <1>1, <1>10 DEF ItemInv
<1>12. i \notin right_in[r]
  <2>1. ASSUME i \in right_in[r] PROVE FALSE
    <3>1. Way(mode, i) = "right"
      BY <1>1, <2>1 DEF ItemInv
    <3>2. dir[r] = "right"
      BY <1>2, <1>7, <3>1
    <3>3. QED
      BY <1>1, <2>1, <3>2 DEF ItemInv
  <2>2. QED
    BY <2>1
<1>13. i \notin inbox[r].items
  BY <1>1 DEF InboxInv
<1>14. ASSUME NEW s \in Rank, OnWay(s, r, i) PROVE FALSE
  <2>1. PICK du \in Dirs, j \in 0 .. N :
          Here(input, mode, i, r, du, j + 1) /\ RecvdIn(r, du, j) # 2
    BY <1>14, OnWayIs
  <2>2. du = dr
    BY <1>7, <2>1 DEF Here
  <2>3. k <= j
    <3>1. ~Past(r, du, j)
      BY <2>1 DEF RecvdIn
    <3>2. QED
      BY <1>2, <2>2, <3>1 DEF Past
  <2>4. QED
    BY <1>5, <1>6, <2>1, <2>2, <2>3, NoReturn
<1>15. QED
  BY <1>9, <1>11, <1>12, <1>13, <1>14 DEF Keeps, Rests

\* Before a rank has split its send kvtree nobody has an item of it.
LEMMA NoneBefore ==
  ASSUME IInv, NEW i \in Sends(input), pc[i[1]] = "split", NEW q \in Rank
  PROVE  i \notin Held(q)
<1>1. i \in Items /\ i[1] \in Rank
  BY SendsIs
<1>2. Typed /\ ModeInv(i[1]) /\ NoMsg.items = {}
  BY <1>1 DEF IInv, LocalInv, NoMsg
<1>3. mode = "exchange"
  BY <1>2 DEF ModeInv
<1>4. ASSUME NEW p \in Rank PROVE ~Under(p) /\ ModeInv(p) /\ ItemInv(p)
  <2>1. HopsInv(p) /\ ModeInv(p) /\ ItemInv(p)
    BY <1>4 DEF IInv, LocalInv
  <2>2. QED
    BY <1>1, <1>3, <2>1 DEF HopsInv
<1>5. dir[q] = "left" /\ hop_count[q] = 0 /\ out[q] = {} /\ inbox[q] = NoMsg /\ ~InRound(q)
  <2>1. pc[q] \in {"split", "reduce"}
    BY <1>2, <1>3, <1>4 DEF ModeInv, Under, Typed, TypeOK
  <2>2. QED
    BY <1>4, <2>1 DEF ModeInv, InRound
<1>6. i \notin current[q]
  <2>1. ASSUME i \in current[q] PROVE FALSE
    <3>1. Here(input, mode, i, q, "left", 0)
      BY <1>4, <1>5, <2>1 DEF ItemInv, AllHere
    <3>2. i[1] = q
      BY <3>1, HereFirstOwn DEF Dirs
    <3>3. QED
      BY <1>4, <2>1, <3>2 DEF ItemInv
  <2>2. QED
    BY <2>1
<1>7. i \notin right_in[q]
  BY <1>4 DEF ItemInv
<1>8. ASSUME NEW s \in Rank, OnWay(s, q, i) PROVE FALSE
  <2>1. PICK dr \in Dirs, k \in 0 .. N : PostedIn(s, dr, k) = 2
    BY <1>1, <1>8, OnWayIs
  <2>2. PostedIn(s, dr, k) = 0
    BY <1>2, <1>4, NoRoundYet
  <2>3. QED
    BY <2>1, <2>2
<1>9. ~Leaves(q, i)
  BY <1>5 DEF Leaves, InRound
<1>10. QED
  BY <1>2, <1>5, <1>6, <1>7, <1>8, <1>9, HeldIs DEF Rests

\* At first a rank holds the items of its own send kvtree, or none.
LEMMA InitPlace == Init => PlaceInv
<1>1. SUFFICES ASSUME Init PROVE PlaceInv
  OBVIOUS
<1>2. Typed /\ LocalInv /\ mode \in {"exchange", "left", "right", "send", "bcast"}
  BY <1>1, InitLocal DEF Typed, TypeOK
<1>3. ASSUME NEW r \in Rank
      PROVE  /\ pc[r] \in {"split", "bcast", "send", "recv", "round"}
             /\ pc[r] = "split" <=> mode = "exchange"
  <2>1. mode = "send" => N > 1
    BY <1>2 DEF Typed
  <2>2. pc[r] = FirstCall(mode, r)
    BY <1>1 DEF Init
  <2>3. QED
    BY <1>2, <2>1, <2>2, FirstCallIs
<1>4. ASSUME NEW r \in Rank, NEW i
      PROVE  i \in Held(r) <=> i \in current[r]
  <2>1. right_in[r] = {} /\ out[r] = {} /\ inbox[r] = NoMsg
    BY <1>1 DEF Init
  <2>2. ~Leaves(r, i)
    BY <1>3 DEF Leaves
  <2>3. ASSUME NEW s \in Rank PROVE ~OnWay(s, r, i)
    <3>1. chan[s][r] = <<>>
      BY <1>1 DEF Init
    <3>2. QED
      BY <3>1 DEF OnWay, Has
  <2>4. QED
    BY <2>1, <2>2, <2>3, HeldIs DEF Rests, NoMsg
<1>5. \A r \in Rank : current[r] = IF mode = "exchange" THEN {} ELSE {r} \X input[r]
  BY <1>1 DEF Init
<1>6. \A r \in Rank : FromInv(r)
  BY <1>3 DEF FromInv, InRound
<1>7. Covered
  <2>1. ASSUME NEW i \in Sends(input), pc[i[1]] # "split" PROVE \E r \in Rank : i \in Held(r)
    <3>1. i[1] \in Rank /\ i[2] \in input[i[1]] /\ i = <<i[1], i[2]>>
      BY SendsIs
    <3>2. i \in current[i[1]]
      BY <1>3, <1>5, <2>1, <3>1
    <3>3. QED
      BY <1>4, <3>1, <3>2
  <2>2. QED
    BY <2>1 DEF Covered
<1>8. OneHolder
  <2>1. ASSUME NEW i, NEW r \in Rank, i \in current[r] PROVE i[1] = r
    <3>1. i \in {r} \X input[r]
      BY <1>5, <2>1
    <3>2. PICK b \in input[r] : i = <<r, b>>
      BY <3>1
    <3>3. QED
      BY <3>2
  <2>2. QED
    BY <1>4, <2>1 DEF OneHolder
<1>9. QED
  BY <1>6, <1>7, <1>8 DEF PlaceInv

\* Every step keeps it: only Split makes a holder, and only PostData changes it.
LEMMA StepPlace ==
  ASSUME IInv, PlaceInv, NEW r \in Rank, Step(r)
  PROVE  PlaceInv'
<1>1. Typed /\ TypeOK /\ input' = input
  BY StepFrame DEF IInv, Typed
<1>2. \A q \in Rank : FromInv(q)'
  BY StepFrom DEF PlaceInv
<1>3. ASSUME NEW i \in Sends(input)
      PROVE  /\ pc'[i[1]] # "split" => \E q \in Rank : i \in Held(q)'
             /\ \A q, p \in Rank : i \in Held(q)' /\ i \in Held(p)' => q = p
  <2>1. i \in Items /\ i[1] \in Rank /\ i[2] \in input[i[1]]
    BY SendsIs
  <2>2. /\ pc[i[1]] # "split" => \E q \in Rank : i \in Held(q)
        /\ \A q, p \in Rank : i \in Held(q) /\ i \in Held(p) => q = p
    BY DEF PlaceInv, Covered, OneHolder
  <2>3. CASE Split(r)
    <3>1. \A q \in Rank : i \in Held(q)' <=> i \in Held(q) \/ (q = r /\ i[1] = r /\ i[2] \in input[r])
      BY <2>1, <2>3, HeldSplit
    <3>2. CASE i[1] = r
      <4>1. \A q \in Rank : i \notin Held(q)
        BY <2>3, <3>2, NoneBefore DEF Split
      <4>2. \A q \in Rank : i \in Held(q)' <=> q = r
        BY <2>1, <3>1, <3>2, <4>1
      <4>3. QED
        BY <4>2
    <3>3. CASE i[1] # r
      <4>1. pc'[i[1]] = pc[i[1]]
        BY <1>1, <2>1, <3>3, StepFrame
      <4>2. \A q \in Rank : i \in Held(q)' <=> i \in Held(q)
        BY <3>1, <3>3
      <4>3. QED
        BY <2>2, <4>1, <4>2
    <3>4. QED
      BY <3>2, <3>3
  <2>4. ASSUME ~Split(r) PROVE pc'[i[1]] # "split" => pc[i[1]] # "split"
    <3>1. CASE i[1] # r
      BY <1>1, <2>1, <3>1, StepFrame
    <3>2. CASE i[1] = r
      <4>1. pc[r] # "split"
        BY <2>4 DEF Step, Allreduce, StartRound, Receive, PostData, EndRound, EndPass,
           SendSize, SendData, SendReturns, RecvSize, RecvData, BcastSize, BcastData
      <4>2. QED
        BY <3>2, <4>1
    <3>3. QED
      BY <3>1, <3>2
  <2>5. CASE PostData(r)
    <3>1. pc[r] = "size" /\ ~Split(r) /\ InRound(r)
      BY <2>5 DEF PostData, Split, InRound
    <3>2. PICK e \in Rank : e = Dst(r)
      <4>1. RoundInv(r)
        BY DEF IInv, LocalInv
      <4>2. 2^hop_count[r] < N
        BY <1>1, <3>1, <4>1, MoreRoundsIs DEF RoundInv
      <4>3. QED
        BY <1>1, <4>2, PartnersAre
    <3>3. ASSUME NEW q \in Rank
          PROVE  /\ i \in Held(q) <=> Keeps(q, i) \/ Leaves(q, i)
                 /\ i \in Held(q)' <=> \/ IF q = r THEN Keeps(q, i) ELSE i \in Held(q)
                                       \/ q = e /\ i \in sending[r]
      BY <2>1, <2>5, <3>2, HeldPost
    <3>4. CASE i \in sending[r]
      <4>1. ~Keeps(r, i)
        BY <2>1, <3>1, <3>4, LeavesApart DEF PlaceInv
      <4>2. i \in Held(r)
        BY <3>1, <3>3, <3>4 DEF Leaves
      <4>3. \A q \in Rank : i \in Held(q)' <=> q = e
        BY <2>2, <3>3, <3>4, <4>1, <4>2
      <4>4. QED
        BY <4>3
    <3>5. CASE i \notin sending[r]
      <4>1. ~Leaves(r, i)
        BY <3>5 DEF Leaves
      <4>2. \A q \in Rank : i \in Held(q)' <=> i \in Held(q)
        BY <3>3, <3>5, <4>1
      <4>3. QED
        BY <2>2, <2>4, <3>1, <4>2
    <3>6. QED
      BY <3>4, <3>5
  <2>6. CASE ~Split(r) /\ ~PostData(r)
    <3>1. \A q \in Rank : i \in Held(q)' <=> i \in Held(q)
      BY <2>1, <2>6, HeldKept
    <3>2. QED
      BY <2>2, <2>4, <2>6, <3>1
  <2>7. QED
    BY <2>3, <2>5, <2>6
<1>4. Covered' /\ OneHolder'
  BY <1>1, <1>3 DEF Covered, OneHolder
<1>5. QED
  BY <1>2, <1>4 DEF PlaceInv

\* It is an invariant of the exchange.
THEOREM PlaceInvHolds == Spec => []PlaceInv
<1>1. IInv /\ PlaceInv /\ [Next]_vars => PlaceInv'
  <2>1. ASSUME IInv, PlaceInv, NEW r \in Rank, Step(r) PROVE PlaceInv'
    BY <2>1, StepPlace
  <2>2. ASSUME PlaceInv, UNCHANGED vars PROVE PlaceInv'
    <3>1. \A r \in Rank : Held(r)' = Held(r) /\ (FromInv(r)' <=> FromInv(r))
      BY <2>2 DEF vars, Held, FromInv, InRound
    <3>2. input' = input /\ pc' = pc
      BY <2>2 DEF vars
    <3>3. QED
      BY <2>2, <3>1, <3>2 DEF PlaceInv, Covered, OneHolder
  <2>3. QED
    BY <2>1, <2>2 DEF Next
<1>2. QED
  BY <1>1, InitPlace, ExchangeInvHolds, PTL DEF Spec

\* No tree is lost or delivered twice on its way: from the split of the send kvtree to the end
\* each one is in exactly one place, in all merges, messages and deletes of the passes.
THEOREM ItemsConservedHolds == Spec => []ItemsConserved
<1>1. ASSUME PlaceInv, NEW s \in Rank, pc[s] # "split", NEW d \in input[s], d \in Rank
      PROVE  Cardinality({r \in Rank : <<s, d>> \in Held(r)}) = 1
  <2>1. PICK i : i = <<s, d>>
    OBVIOUS
  <2>2. i \in Sends(input) /\ i[1] = s
    BY <1>1, <2>1 DEF Sends, Items
  <2>3. PICK q \in Rank : i \in Held(q)
    BY <1>1, <2>2 DEF PlaceInv, Covered
  <2>4. \A r \in Rank : i \in Held(r) => r = q
    BY <1>1, <2>2, <2>3 DEF PlaceInv, OneHolder
  <2>5. {r \in Rank : <<s, d>> \in Held(r)} = {q}
    BY <2>1, <2>3, <2>4
  <2>6. QED
    BY <2>5, FS_Singleton
<1>2. ASSUME IInv, NEW s \in Rank PROVE input[s] \subseteq Rank
  BY <1>2 DEF IInv, Typed, TypeOK
<1>3. IInv /\ PlaceInv => ItemsConserved
  BY <1>1, <1>2 DEF ItemsConserved
<1>4. QED
  BY <1>3, ExchangeInvHolds, PlaceInvHolds, PTL

\* A rank that is done has received what was posted for it in its last pass.
LEMMA LastPassTaken ==
  ASSUME IInv, Done, NEW s \in Rank, NEW d \in Rank, NEW k \in 0 .. N,
         PostedIn(s, dir[d], k) # 0
  PROVE  RecvdIn(d, dir[d], k) = 2
<1>1. /\ Typed /\ ModeInv(s) /\ RoundInv(s) /\ RoundInv(d) /\ HopsInv(s) /\ HopsInv(d)
  BY DEF IInv, LocalInv
<1>2. Under(s) /\ Under(d) /\ pc[d] = "done"
  BY DEF Done, Under
<1>3. PICK dr \in Dirs : dr = dir[d]
  BY <1>1 DEF Typed, TypeOK, Dirs
<1>4. Within(s, dr, k)
  BY <1>1, <1>3, CountsWithin
<1>5. Within(d, dr, k)
  BY <1>1, <1>2, <1>4, SameLimits
<1>6. k < hop_count[d]
  BY <1>1, <1>2, <1>3, <1>5, PassDone DEF RoundInv
<1>7. QED
  BY <1>6 DEF RecvdIn, Past

\* When all ranks have returned, the channels are empty.
LEMMA ChannelsEmpty ==
  ASSUME IInv, Done, NEW s \in Rank, NEW d \in Rank
  PROVE  chan[s][d] = <<>>
<1>1. /\ Typed /\ ModeInv(s) /\ ModeInv(d) /\ RoundInv(d) /\ dir[d] \in Dirs
      /\ mode \in {"exchange", "left", "right", "send", "bcast"}
  BY DEF IInv, LocalInv, Typed, TypeOK, Dirs
<1>2. Under(d) /\ pc[d] = "done"
  BY DEF Done, Under
<1>3. /\ PostedA(s, d) \in 0 .. 2 /\ RecvdA(s, d) \in 0 .. 2 /\ RecvdA(s, d) <= PostedA(s, d)
      /\ PostedB(s, d) \in 0 .. 2 /\ RecvdB(s, d) \in 0 .. 2 /\ RecvdB(s, d) <= PostedB(s, d)
  BY PairCounts
<1>4. CASE dir[d] = "right"
  <2>1. PostedA(s, d) = RecvdA(s, d)
    BY <1>2, <1>4, FirstAllTaken
  <2>2. Paired(s, d, "right") => Round(s, d, "right") \in 0 .. N
    BY RoundIs DEF Dirs
  <2>3. PostedB(s, d) # 0 => RecvdB(s, d) = 2
    BY <1>4, <2>2, LastPassTaken DEF PostedB, RecvdB
  <2>4. PostedB(s, d) = RecvdB(s, d)
    BY <1>3, <2>3
  <2>5. QED
    BY <2>1, <2>4, WireNone DEF IInv, ChanInv, Carries
<1>5. CASE dir[d] = "left"
  <2>1. mode = "left" /\ dir[s] = "left"
    BY <1>1, <1>2, <1>5 DEF RoundInv, ModeInv
  <2>2. PostedB(s, d) = 0
    BY <1>1, <2>1, NoSecondYet
  <2>3. PostedB(s, d) = RecvdB(s, d)
    BY <1>3, <2>2
  <2>4. Paired(s, d, "left") => Round(s, d, "left") \in 0 .. N
    BY RoundIs DEF Dirs
  <2>5. PostedA(s, d) # 0 => RecvdA(s, d) = 2
    BY <1>5, <2>1, <2>4, LastPassTaken DEF PostedA, RecvdA
  <2>6. PostedA(s, d) = RecvdA(s, d)
    BY <1>3, <2>5
  <2>7. QED
    BY <2>3, <2>6, WireNone DEF IInv, ChanInv, Carries
<1>6. QED
  BY <1>1, <1>4, <1>5 DEF Dirs

\* No message of kvtree_exchange, or of the call before it, is left in the communicator when
\* all ranks have returned: the next call with this tag does not receive it.
THEOREM NoMessageLeftHolds == Spec => [](Done => \A s, d \in Rank : chan[s][d] = <<>>)
<1>1. IInv => (Done => \A s, d \in Rank : chan[s][d] = <<>>)
  BY ChannelsEmpty
<1>2. QED
  BY <1>1, ExchangeInvHolds, PTL

\* The result of the collective: when kvtree_exchange has returned on all ranks, each of
\* them has exactly the trees that the ranks have sent to it, and the receivers of
\* kvtree_send and kvtree_bcast have what was sent to them.
THEOREM DeliveredHolds == Spec => []Delivered
<1>1. ASSUME IInv, PlaceInv, Done, NEW d \in Rank
      PROVE  /\ out[d] = {i \in Items : i[2] = d /\ d \in input[i[1]]}
             /\ (mode = "send" /\ d = N - 1) \/ mode = "bcast" => got[d] = Sent
  <2>1. \A r \in Rank : ItemInv(r) /\ GotInv(r) /\ ModeInv(r) /\ RoundInv(r) /\ pc[r] = "done"
    BY <1>1 DEF IInv, LocalInv, Done
  <2>2. (mode = "send" /\ d = N - 1) \/ mode = "bcast" => got[d] = Sent
    BY <2>1 DEF GotInv
  <2>3. ASSUME NEW i \in out[d] PROVE i \in Items /\ i[2] = d /\ d \in input[i[1]]
    <3>1. i \in Sends(input) /\ i[2] = d
      BY <2>1 DEF ItemInv
    <3>2. QED
      BY <3>1, SendsIs
  <2>4. ASSUME NEW i \in Items, i[2] = d, d \in input[i[1]] PROVE i \in out[d]
    <3>1. i \in Sends(input) /\ i[1] \in Rank
      BY <2>4 DEF Sends, Items
    <3>2. PICK r \in Rank : i \in Held(r)
      BY <1>1, <2>1, <3>1 DEF PlaceInv, Covered
    <3>3. \A s \in Rank : ~OnWay(s, r, i)
      BY <1>1, ChannelsEmpty DEF OnWay, Has
    <3>4. Rests(r, i)
      <4>1. ~Leaves(r, i)
        BY <2>1 DEF Leaves
      <4>2. QED
        BY <3>2, <3>3, <4>1, HeldIs
    <3>5. current[r] = {} /\ inbox[r] = NoMsg
      BY <2>1 DEF ItemInv, ModeInv
    <3>6. right_in[r] = {}
      BY <2>1 DEF ItemInv, RoundInv
    <3>7. i \in out[r]
      BY <3>4, <3>5, <3>6 DEF Rests, NoMsg
    <3>8. i[2] = r
      BY <2>1, <3>7 DEF ItemInv
    <3>9. QED
      BY <2>4, <3>7, <3>8
  <2>5. QED
    BY <2>2, <2>3, <2>4
<1>2. IInv /\ PlaceInv => Delivered
  BY <1>1 DEF Delivered
<1>3. QED
  BY <1>2, ExchangeInvHolds, PlaceInvHolds, PTL

=============================================================================
