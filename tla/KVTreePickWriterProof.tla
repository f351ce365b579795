----------------------- MODULE KVTreePickWriterProof -----------------------
(***************************************************************************)
(* Proofs about KVTreePickWriter for every number of ranks, all byte       *)
(* counts, every segment size, and MPI with or without buffering.          *)
(***************************************************************************)
EXTENDS KVTreePickWriter, KVTreeSegmentsProof

-----------------------------------------------------------------------------
(* The strides. *)

\* The strides of pick_writer: the least set with 1 and the double of each member.
Pow == {w \in Nat : \A P \in SUBSET Nat :
                      (1 \in P /\ \A x \in P : 2 * x \in P) => w \in P}

\* Strides start at 1 and double.
LEMMA PowClosed ==
  /\ 1 \in Pow
  /\ \A w \in Pow : 2 * w \in Pow
BY DEF Pow

\* Whatever holds of 1 and of the double of each member holds of all strides.
LEMMA PowInduction ==
  ASSUME NEW P \in SUBSET Nat, 1 \in P, \A x \in P : 2 * x \in P
  PROVE  Pow \subseteq P
BY DEF Pow

\* Strides are positive.
LEMMA PowPositive == Pow \subseteq Nat \ {0}
<1>1. 1 \in Nat \ {0} /\ \A x \in Nat \ {0} : 2 * x \in Nat \ {0}
  OBVIOUS
<1>2. QED
  BY <1>1, PowInduction

\* A stride is 1 or the double of a stride.
LEMMA PowCases ==
  ASSUME NEW w \in Pow
  PROVE  w = 1 \/ \E v \in Pow : w = 2 * v
<1>1. DEFINE P == {1} \cup {2 * v : v \in Pow}
<1>2. P \in SUBSET Nat
  BY PowPositive
<1>3. \A x \in P : x \in Pow
  BY PowClosed
<1>4. \A x \in P : 2 * x \in P
  BY <1>3
<1>5. Pow \subseteq P
  BY <1>2, <1>4, PowInduction
<1>6. QED
  BY <1>5

\* Two different strides are at least a factor of two apart.
LEMMA PowGap ==
  ASSUME NEW a \in Pow, NEW b \in Pow, a < b
  PROVE  2 * a <= b
<1>1. DEFINE Apart(x) == \A y \in Pow : (y < x => 2 * y <= x) /\ (x < y => 2 * x <= y)
<1>2. DEFINE P == {x \in Pow : Apart(x)}
<1>3. P \in SUBSET Nat
  BY PowPositive
<1>4. 1 \in P
  BY PowClosed, PowPositive
<1>5. ASSUME NEW x \in P PROVE 2 * x \in P
  <2>1. x \in Pow /\ x \in Nat \ {0} /\ Apart(x)
    BY <1>5, PowPositive
  <2>2. 2 * x \in Pow
    BY <2>1, PowClosed
  <2>3. ASSUME NEW y \in Pow, y < 2 * x PROVE 2 * y <= 2 * x
    BY <2>1, <2>3, PowPositive
  <2>4. ASSUME NEW y \in Pow, 2 * x < y PROVE 2 * (2 * x) <= y
    <3>1. y \in Nat \ {0}
      BY PowPositive
    <3>2. y # 1
      BY <2>1, <2>4, <3>1
    <3>3. PICK z \in Pow : y = 2 * z
      BY <3>2, PowCases
    <3>4. z \in Nat \ {0}
      BY PowPositive
    <3>5. x < z
      BY <2>1, <2>4, <3>3, <3>4
    <3>6. 2 * x <= z
      BY <2>1, <3>5
    <3>7. QED
      BY <2>1, <3>3, <3>4, <3>6
  <2>5. Apart(2 * x)
    BY <2>3, <2>4
  <2>6. QED
    BY <2>2, <2>5
<1>6. Pow \subseteq P
  BY <1>3, <1>4, <1>5, PowInduction
<1>7. QED
  BY <1>6

-----------------------------------------------------------------------------
(* The scan. *)

\* A window is an interval.
LEMMA WindowIs ==
  ASSUME NEW r \in Rank, NEW w \in Nat \ {0}
  PROVE  /\ Window(r, w) = IF w <= r THEN r - w + 1 .. r ELSE 0 .. r
         /\ IsFiniteSet(Window(r, w))
         /\ Cardinality(Window(r, w)) = IF w <= r THEN w ELSE r + 1
<1>1. N \in Nat \ {0} /\ r \in Nat /\ r < N
  BY PickWriterAssumption DEF Rank
<1>2. Window(r, w) = IF w <= r THEN r - w + 1 .. r ELSE 0 .. r
  BY <1>1 DEF Window, Rank
<1>3. CASE w <= r
  <2>1. r - w + 1 \in Int /\ r \in Int /\ ~(r - w + 1 > r) /\ r - (r - w + 1) + 1 = w
    BY <1>1, <1>3
  <2>2. Window(r, w) = r - w + 1 .. r
    BY <1>2, <1>3
  <2>3. IsFiniteSet(r - w + 1 .. r) /\ Cardinality(r - w + 1 .. r) = w
    BY <2>1, FS_Interval
  <2>4. QED
    BY <1>2, <1>3, <2>2, <2>3
<1>4. CASE ~(w <= r)
  <2>1. 0 \in Int /\ r \in Int /\ ~(0 > r) /\ r - 0 + 1 = r + 1
    BY <1>1
  <2>2. Window(r, w) = 0 .. r
    BY <1>2, <1>4
  <2>3. IsFiniteSet(0 .. r) /\ Cardinality(0 .. r) = r + 1
    BY <2>1, FS_Interval
  <2>4. QED
    BY <1>2, <1>4, <2>2, <2>3
<1>5. QED
  BY <1>3, <1>4

\* The starters of a window are finitely many natural numbers.
LEMMA StartersFinite ==
  ASSUME NEW c, NEW r \in Rank, NEW w \in Nat \ {0}
  PROVE  /\ IsFiniteSet(Starters(c, r, w)) /\ Cardinality(Starters(c, r, w)) \in Nat
         /\ Starters(c, r, w) \in SUBSET Nat
         /\ \A q \in Starters(c, r, w) : r - w < q /\ q <= r
         /\ Starters(c, r, w) # {} =>
              /\ Max(Starters(c, r, w)) \in Starters(c, r, w)
              /\ \A q \in Starters(c, r, w) : q <= Max(Starters(c, r, w))
<1>1. N \in Nat \ {0} /\ r \in Nat
  BY PickWriterAssumption DEF Rank
<1>2. Starters(c, r, w) \in SUBSET Window(r, w)
  BY DEF Starters
<1>3. IsFiniteSet(Starters(c, r, w))
  BY <1>2, WindowIs, FS_Subset
<1>4. Cardinality(Starters(c, r, w)) \in Nat
  BY <1>3, FS_CardinalityType
<1>5. Starters(c, r, w) \in SUBSET Nat /\ \A q \in Starters(c, r, w) : r - w < q /\ q <= r
  BY <1>1 DEF Starters, Window, Rank
<1>6. ASSUME Starters(c, r, w) # {}
      PROVE  /\ Max(Starters(c, r, w)) \in Starters(c, r, w)
             /\ \A q \in Starters(c, r, w) : q <= Max(Starters(c, r, w))
  BY <1>1, <1>5, <1>6, MaxIsGreatest
<1>7. QED
  BY <1>3, <1>4, <1>5, <1>6

\* What a scan yields is a message.
LEMMA ScanType ==
  ASSUME NEW c, NEW r \in Rank, NEW w \in Nat \ {0}
  PROVE  Scan(c, r, w) \in Msg
<1>1. N \in Nat \ {0} /\ r \in Nat /\ r < N
  BY PickWriterAssumption DEF Rank
<1>2. Cardinality(Window(r, w)) \in Nat
  BY <1>1, WindowIs
<1>3. CASE Starters(c, r, w) = {}
  BY <1>2, <1>3, StartersFinite DEF Scan, Msg
<1>4. CASE Starters(c, r, w) # {}
  <2>1. Max(Starters(c, r, w)) \in 0 .. r
    BY <1>1, <1>4, StartersFinite
  <2>2. r - Max(Starters(c, r, w)) + 1 \in Nat /\ Max(Starters(c, r, w)) \in Rank
    BY <1>1, <2>1 DEF Rank
  <2>3. QED
    BY <1>4, <2>2, StartersFinite DEF Scan, Msg
<1>5. QED
  BY <1>3, <1>4

\* Before its first round a rank knows about itself.
LEMMA ScanOne ==
  ASSUME NEW c, NEW r \in Rank
  PROVE  Scan(c, r, 1) = [count |-> IF StartsNew(c, r) THEN 1 ELSE 0,
                       ranks |-> 1,
                       rank  |-> IF StartsNew(c, r) THEN r ELSE MPI_PROC_NULL]
<1>1. N \in Nat \ {0} /\ r \in Nat /\ r < N
  BY PickWriterAssumption DEF Rank
<1>2. Window(r, 1) = {r} /\ Cardinality(Window(r, 1)) = 1
  <2>1. Window(r, 1) = {r}
    BY <1>1 DEF Window, Rank
  <2>2. QED
    BY <2>1, FS_Singleton
<1>3. CASE StartsNew(c, r)
  <2>1. Starters(c, r, 1) = {r}
    BY <1>2, <1>3 DEF Starters
  <2>2. Cardinality({r}) = 1
    BY FS_Singleton
  <2>3. Max({r}) = r
    BY <1>1, MaxIs
  <2>4. {r} # {} /\ r - r + 1 = 1
    BY <1>1
  <2>5. QED
    BY <1>3, <2>1, <2>2, <2>3, <2>4 DEF Scan
<1>4. CASE ~StartsNew(c, r)
  <2>1. Starters(c, r, 1) = {}
    BY <1>2, <1>4 DEF Starters
  <2>2. QED
    BY <1>2, <1>4, <2>1, FS_EmptySet DEF Scan
<1>5. QED
  BY <1>3, <1>4

\* A rank without a left partner has heard of all ranks before it.
LEMMA ScanNoLeft ==
  ASSUME NEW c, NEW r \in Rank, NEW w \in Nat \ {0}, NEW v \in Nat \ {0}, r < w, r < v
  PROVE  Scan(c, r, w) = Scan(c, r, v)
<1>1. N \in Nat \ {0} /\ r \in Nat
  BY PickWriterAssumption DEF Rank
<1>2. Window(r, w) = 0 .. r /\ Window(r, v) = 0 .. r
  BY <1>1, WindowIs
<1>3. QED
  BY <1>2 DEF Scan, Starters

\* The reduction of pick_writer doubles the window.
LEMMA CombineScan ==
  ASSUME NEW c, NEW r \in Rank, NEW w \in Nat \ {0}, w <= r
  PROVE  Combine(Scan(c, r, w), Scan(c, r - w, w)) = Scan(c, r, 2 * w)
<1>1. N \in Nat \ {0} /\ r \in Nat /\ r < N
  BY PickWriterAssumption DEF Rank
<1>2. r - w \in Rank /\ r - w \in Nat /\ 2 * w \in Nat \ {0}
  BY <1>1 DEF Rank
<1>3. DEFINE A == Starters(c, r, w)
             B == Starters(c, r - w, w)
             U == Starters(c, r, 2 * w)
<1>4. U = A \cup B /\ A \cap B = {}
  <2>1. Window(r, 2 * w) = Window(r, w) \cup Window(r - w, w)
    BY <1>1, <1>2 DEF Window, Rank
  <2>2. Window(r, w) \cap Window(r - w, w) = {}
    BY <1>1, <1>2 DEF Window, Rank
  <2>3. QED
    BY <2>1, <2>2 DEF Starters
<1>5. /\ IsFiniteSet(A) /\ Cardinality(A) \in Nat /\ A \in SUBSET Nat
      /\ \A q \in A : r - w < q /\ q <= r
      /\ A # {} => Max(A) \in A /\ \A q \in A : q <= Max(A)
  BY StartersFinite
<1>6. /\ IsFiniteSet(B) /\ Cardinality(B) \in Nat /\ B \in SUBSET Nat
      /\ \A q \in B : q <= r - w
      /\ B # {} => Max(B) \in B /\ \A q \in B : q <= Max(B)
  BY <1>2, StartersFinite
<1>7. Cardinality(U) = Cardinality(A) + Cardinality(B)
  <2>1. Cardinality(A \cup B) = Cardinality(A) + Cardinality(B) - Cardinality({})
    BY <1>4, <1>5, <1>6, FS_Union
  <2>2. Cardinality({}) = 0 /\ Cardinality(A) + Cardinality(B) - 0 = Cardinality(A) + Cardinality(B)
    BY <1>5, <1>6, FS_EmptySet
  <2>3. QED
    BY <1>4, <2>1, <2>2
<1>8. /\ Cardinality(Window(r, w)) = w
      /\ Cardinality(Window(r - w, w)) = IF 2 * w <= r THEN w ELSE r - w + 1
      /\ Cardinality(Window(r, 2 * w)) = IF 2 * w <= r THEN 2 * w ELSE r + 1
  <2>1. Cardinality(Window(r, w)) = w
    BY WindowIs
  <2>2. Cardinality(Window(r - w, w)) = IF w <= r - w THEN w ELSE r - w + 1
    BY <1>2, WindowIs
  <2>3. Cardinality(Window(r, 2 * w)) = IF 2 * w <= r THEN 2 * w ELSE r + 1
    BY <1>2, WindowIs
  <2>4. (w <= r - w) = (2 * w <= r)
    BY <1>1
  <2>5. QED
    BY <2>1, <2>2, <2>3, <2>4
<1> HIDE DEF A, B, U
<1>9. Scan(c, r, w) = [count |-> Cardinality(A),
                    ranks |-> IF A = {} THEN w ELSE r - Max(A) + 1,
                    rank  |-> IF A = {} THEN MPI_PROC_NULL ELSE Max(A)]
  BY <1>8 DEF Scan, A
<1>10. Scan(c, r - w, w) = [count |-> Cardinality(B),
                         ranks |-> IF B = {} THEN Cardinality(Window(r - w, w))
                                             ELSE (r - w) - Max(B) + 1,
                         rank  |-> IF B = {} THEN MPI_PROC_NULL ELSE Max(B)]
  BY DEF Scan, B
<1>11. Scan(c, r, 2 * w) = [count |-> Cardinality(U),
                         ranks |-> IF U = {} THEN Cardinality(Window(r, 2 * w))
                                             ELSE r - Max(U) + 1,
                         rank  |-> IF U = {} THEN MPI_PROC_NULL ELSE Max(U)]
  BY DEF Scan, U
<1>12. CASE A = {} /\ B = {}
  <2>1. U = {}
    BY <1>4, <1>12
  <2>2. w + Cardinality(Window(r - w, w)) = Cardinality(Window(r, 2 * w))
    BY <1>1, <1>8
  <2>3. QED
    BY <1>7, <1>9, <1>10, <1>11, <1>12, <2>1, <2>2 DEF Combine
<1>13. CASE A = {} /\ B # {}
  <2>1. U = B
    BY <1>4, <1>13
  <2>2. w + ((r - w) - Max(B) + 1) = r - Max(B) + 1
    <3>1. Max(B) \in Nat
      BY <1>6, <1>13
    <3>2. QED
      BY <1>1, <3>1
  <2>3. QED
    BY <1>7, <1>9, <1>10, <1>11, <1>13, <2>1, <2>2 DEF Combine
<1>14. CASE A # {}
  <2>1. U # {} /\ U \in SUBSET Nat /\ Max(A) \in U
    BY <1>4, <1>5, <1>6, <1>14
  <2>2. \A q \in U : q <= Max(A)
    <3>1. Max(A) \in Nat /\ r - w < Max(A) /\ \A q \in A : q <= Max(A)
      BY <1>5, <1>14
    <3>2. ASSUME NEW q \in B PROVE q <= Max(A)
      <4>1. q \in Nat /\ q <= r - w
        BY <1>6, <3>2
      <4>2. QED
        BY <1>1, <3>1, <4>1
    <3>3. QED
      BY <1>4, <3>1, <3>2
  <2>3. Max(U) = Max(A)
    BY <2>1, <2>2, MaxIs
  <2>4. Max(A) # MPI_PROC_NULL
    BY <1>5, <1>14 DEF MPI_PROC_NULL
  <2>5. QED
    BY <1>7, <1>9, <1>10, <1>11, <1>14, <2>1, <2>3, <2>4 DEF Combine
<1>15. QED
  BY <1>12, <1>13, <1>14

-----------------------------------------------------------------------------
(* Type correctness. *)

\* The partners of a rank are ranks.
LEMMA Partners ==
  ASSUME NEW r \in Rank, NEW w \in Nat \ {0}
  PROVE  /\ r \in Nat /\ r < N /\ N \in Nat \ {0}
         /\ r - w >= 0 => r - w \in Rank
         /\ r + w < N => r + w \in Rank
BY PickWriterAssumption DEF Rank

\* The reduction yields a message.
LEMMA CombineType ==
  ASSUME NEW a \in Msg, NEW b \in Msg
  PROVE  Combine(a, b) \in Msg
<1>1. /\ a.count \in Nat /\ a.ranks \in Nat /\ a.rank \in Rank \cup {MPI_PROC_NULL}
      /\ b.count \in Nat /\ b.ranks \in Nat /\ b.rank \in Rank \cup {MPI_PROC_NULL}
  BY DEF Msg
<1>2. CASE a.rank = MPI_PROC_NULL
  BY <1>1, <1>2 DEF Combine, Msg
<1>3. CASE a.rank # MPI_PROC_NULL
  <2>1. Combine(a, b) = [a EXCEPT !.count = a.count + b.count]
    BY <1>3 DEF Combine
  <2>2. a.count + b.count \in Nat
    BY <1>1
  <2>3. QED
    BY <1>1, <2>1, <2>2 DEF Msg
<1>4. QED
  BY <1>2, <1>3

\* Every variable of pick_writer keeps its type.
THEOREM TypeCorrect == Spec => []TypeOK
<1> USE PickWriterAssumption
<1>0. MPI_PROC_NULL \in Rank \cup {MPI_PROC_NULL} /\ NoMsg \in Msg
  BY DEF NoMsg, Msg
<1>1. Init => TypeOK
  BY <1>0 DEF Init, TypeOK
<1>2. TypeOK /\ [Next]_vars => TypeOK'
  <2> SUFFICES ASSUME TypeOK, [Next]_vars PROVE TypeOK'
    OBVIOUS
  <2> USE DEF TypeOK
  <2>1. ASSUME NEW r \in Rank, Start(r) PROVE TypeOK'
    <3>1. ASSUME NEW b \in BOOLEAN
          PROVE  [count |-> IF b THEN 1 ELSE 0, ranks |-> 1,
                  rank |-> IF b THEN r ELSE MPI_PROC_NULL] \in Msg
      BY <1>0 DEF Msg
    <3>2. \E m \in Msg : send' = [send EXCEPT ![r] = m]
      BY <2>1, <3>1 DEF Start, StartsNew
    <3>3. send' \in [Rank -> Msg]
      BY <3>2
    <3>4. QED
      BY <2>1, <3>3 DEF Start
  <2>2. ASSUME NEW r \in Rank, Post(r) PROVE TypeOK'
    <3>1. CASE HasRight(r)
      <4>1. r + step[r] \in Rank
        BY <3>1, Partners DEF HasRight
      <4>2. Append(chan[r][r + step[r]], send[r]) \in Seq(Msg)
        BY <4>1
      <4>3. chan' = [chan EXCEPT ![r] =
                       [chan[r] EXCEPT ![r + step[r]] = Append(chan[r][r + step[r]], send[r])]]
        BY <2>2, <3>1, <4>1 DEF Post
      <4>4. [chan[r] EXCEPT ![r + step[r]] = Append(chan[r][r + step[r]], send[r])]
              \in [Rank -> Seq(Msg)]
        BY <4>2
      <4>5. chan' \in [Rank -> [Rank -> Seq(Msg)]]
        BY <4>3, <4>4
      <4>6. QED
        BY <2>2, <4>5 DEF Post
    <3>2. CASE ~HasRight(r)
      BY <2>2, <3>2 DEF Post
    <3>3. QED
      BY <3>1, <3>2
  <2>3. ASSUME NEW r \in Rank, Receive(r) PROVE TypeOK'
    <3>1. r - step[r] \in Rank
      BY <2>3, Partners DEF Receive, HasLeft
    <3>2. DEFINE c == chan[r - step[r]][r]
    <3>3. c \in Seq(Msg) /\ c # <<>>
      BY <2>3, <3>1 DEF Receive
    <3>4. Head(c) \in Msg /\ Tail(c) \in Seq(Msg)
      BY <3>3
    <3>5. /\ recv' = [recv EXCEPT ![r] = Head(c)]
          /\ chan' = [chan EXCEPT ![r - step[r]] = [chan[r - step[r]] EXCEPT ![r] = Tail(c)]]
      BY <2>3, <3>1 DEF Receive
    <3> HIDE DEF c
    <3>6. recv' \in [Rank -> Msg] /\ chan' \in [Rank -> [Rank -> Seq(Msg)]]
      <4>1. [chan[r - step[r]] EXCEPT ![r] = Tail(c)] \in [Rank -> Seq(Msg)]
        BY <3>1, <3>4
      <4>2. QED
        BY <3>4, <3>5, <4>1
    <3>7. QED
      BY <2>3, <3>6 DEF Receive
  <2>4. ASSUME NEW r \in Rank, Merge(r) PROVE TypeOK'
    <3>2. (IF HasLeft(r) THEN Combine(send[r], recv[r]) ELSE send[r]) \in Msg
      BY CombineType
    <3>3. 2 * step[r] \in Nat \ {0}
      OBVIOUS
    <3>4. send' \in [Rank -> Msg] /\ recv' \in [Rank -> Msg] /\ step' \in [Rank -> Nat \ {0}]
      BY <1>0, <2>4, <3>2, <3>3 DEF Merge
    <3>5. QED
      BY <2>4, <3>4 DEF Merge
  <2>5. ASSUME NEW r \in Rank, Output(r) PROVE TypeOK'
    <3>1. send[r].rank \in Rank \cup {MPI_PROC_NULL}
      BY DEF Msg
    <3>2. QED
      BY <2>5, <3>1 DEF Output
  <2>6. ASSUME NEW r \in Rank, Bcast(r) PROVE TypeOK'
    <3>1. N - 1 \in Rank
      BY DEF Rank
    <3>2. QED
      BY <2>6, <3>1 DEF Bcast
  <2>7. CASE UNCHANGED vars
    BY <2>7 DEF vars
  <2>8. QED
    BY <2>1, <2>2, <2>3, <2>4, <2>5, <2>6, <2>7 DEF Next, Step
<1>3. QED
  BY <1>1, <1>2, PTL DEF Spec

-----------------------------------------------------------------------------
(* The rounds. *)

\* Rank s has sent its message with stride w; rank d has not yet received it.
Posted(s, w) == step[s] > w \/ (step[s] = w /\ pc[s] = "wait")
Awaits(d, w) == step[d] < w \/ (step[d] = w /\ recv[d] = NoMsg)

\* What a rank knows, and what it has received, belongs to the round it is in.
RoundInv(r) ==
  /\ step[r] \in Pow
  /\ IF pc[r] = "offset" THEN step[r] = 1 ELSE send[r] = Scan(count, r, step[r])
  /\ recv[r] # NoMsg => /\ pc[r] = "wait" /\ HasLeft(r)
                        /\ recv[r] = Scan(count, r - step[r], step[r])
  /\ pc[r] \in {"bcast", "done"} => step[r] >= N

\* Of two ranks a stride apart, the right one does not get past the round of that
\* stride before the left one has sent.  A message is on its way only from the
\* moment it is sent until it is received in the round it is meant for, and it is
\* the only one in its channel.
PairInv(s, d) ==
  /\ d - s \in Pow /\ ~Posted(s, d - s) => Awaits(d, d - s)
  /\ chan[s][d] # <<>> => /\ d - s \in Pow
                          /\ chan[s][d] = <<Scan(count, s, d - s)>>
                          /\ Posted(s, d - s) /\ Awaits(d, d - s)

RoundsInv == /\ \A r \in Rank : RoundInv(r)
             /\ \A s, d \in Rank : PairInv(s, d)

\* Nothing of x's own state that the invariant speaks of changes.
Frame(x) == /\ step'[x] = step[x] /\ pc'[x] = pc[x]
            /\ send'[x] = send[x] /\ recv'[x] = recv[x]

\* A rank whose state does not change keeps its part of the invariant.
LEMMA FrameRound ==
  ASSUME NEW r \in Rank, RoundInv(r), Frame(r), count' = count
  PROVE  RoundInv(r)'
BY DEF RoundInv, Frame, HasLeft

\* A pair keeps its part when its channel does not change, the left rank has not
\* forgotten what it sent, and the right one still waits for what is to come.
LEMMA FramePair ==
  ASSUME NEW s \in Rank, NEW d \in Rank, PairInv(s, d), count' = count,
         chan'[s][d] = chan[s][d],
         Posted(s, d - s) => Posted(s, d - s)',
         d - s \in Pow /\ Awaits(d, d - s) => Awaits(d, d - s)'
  PROVE  PairInv(s, d)'
BY DEF PairInv

\* The invariant holds before the first step.
LEMMA RoundsInvInit == Init => RoundsInv
<1> SUFFICES ASSUME Init PROVE RoundsInv
  OBVIOUS
<1>1. ASSUME NEW r \in Rank PROVE RoundInv(r)
  BY <1>1, PowClosed DEF Init, RoundInv
<1>2. ASSUME NEW s \in Rank, NEW d \in Rank PROVE PairInv(s, d)
  <2>1. chan[s][d] = <<>> /\ step[d] = 1 /\ recv[d] = NoMsg
    BY DEF Init
  <2>2. ASSUME d - s \in Pow PROVE Awaits(d, d - s)
    <3>1. d - s \in Nat \ {0}
      BY <2>2, PowPositive
    <3>2. 1 < d - s \/ 1 = d - s
      BY <3>1
    <3>3. QED
      BY <2>1, <3>2 DEF Awaits
  <2>3. QED
    BY <2>1, <2>2 DEF PairInv
<1>3. QED
  BY <1>1, <1>2 DEF RoundsInv

\* The invariant is inductive.
LEMMA RoundsInvInductive ==
  ASSUME TypeOK, RoundsInv, [Next]_vars
  PROVE  RoundsInv'
<1>T. /\ pc \in [Rank -> {"offset", "round", "wait", "bcast", "done"}]
      /\ step \in [Rank -> Nat \ {0}] /\ send \in [Rank -> Msg] /\ recv \in [Rank -> Msg]
      /\ chan \in [Rank -> [Rank -> Seq(Msg)]]
  BY DEF TypeOK
<1>N. /\ N \in Nat \ {0} /\ Rank \subseteq Nat /\ \A r \in Rank : r < N
  BY PickWriterAssumption DEF Rank
<1>I. /\ \A r \in Rank : RoundInv(r)
      /\ \A s, d \in Rank : PairInv(s, d)
  BY DEF RoundsInv
<1>P. Pow \subseteq Nat \ {0}
  BY PowPositive
<1>1. ASSUME NEW r \in Rank, Start(r) PROVE RoundsInv'
  <2>1. /\ pc[r] = "offset" /\ pc' = [pc EXCEPT ![r] = "round"] /\ count' = count
        /\ step' = step /\ recv' = recv /\ chan' = chan
    BY <1>1 DEF Start
  <2>2. step[r] = 1 /\ recv[r] = NoMsg /\ step[r] \in Pow
    BY <1>I, <2>1 DEF RoundInv
  <2>3. send' = [send EXCEPT ![r] = Scan(count, r, 1)]
    BY <1>1, ScanOne DEF Start
  <2>4. RoundInv(r)'
    BY <1>T, <2>1, <2>2, <2>3 DEF RoundInv
  <2>5. \A x \in Rank \ {r} : Frame(x)
    BY <1>T, <2>1, <2>3 DEF Frame
  <2>6. ASSUME NEW s \in Rank, NEW d \in Rank PROVE PairInv(s, d)'
    <3>1. Posted(s, d - s) => Posted(s, d - s)'
      BY <1>T, <2>1 DEF Posted
    <3>2. Awaits(d, d - s) => Awaits(d, d - s)'
      BY <1>T, <2>1 DEF Awaits
    <3>3. QED
      BY <1>I, <2>1, <3>1, <3>2, FramePair
  <2>7. QED
    BY <1>I, <2>1, <2>4, <2>5, <2>6, FrameRound DEF RoundsInv
<1>2. ASSUME NEW r \in Rank, Post(r) PROVE RoundsInv'
  <2>1. /\ pc[r] = "round" /\ pc' = [pc EXCEPT ![r] = "wait"] /\ count' = count
        /\ step' = step /\ recv' = recv /\ send' = send /\ step[r] < N
    BY <1>2 DEF Post
  <2>2. recv[r] = NoMsg /\ step[r] \in Pow /\ send[r] = Scan(count, r, step[r])
    BY <1>I, <2>1 DEF RoundInv
  <2>3. RoundInv(r)'
    BY <1>T, <2>1, <2>2 DEF RoundInv
  <2>4. \A x \in Rank \ {r} : Frame(x)
    BY <1>T, <2>1 DEF Frame
  <2>5. ASSUME NEW s \in Rank, NEW d \in Rank
        PROVE  /\ Posted(s, d - s) => Posted(s, d - s)'
               /\ Awaits(d, d - s) => Awaits(d, d - s)'
    BY <1>T, <2>1 DEF Posted, Awaits
  <2>6. ASSUME NEW s \in Rank, NEW d \in Rank, s = r, d = r + step[r]
        PROVE  PairInv(s, d)'
    <3>1. d - s = step[r]
      BY <1>N, <1>T, <2>6
    <3>2. ~Posted(s, step[r])
      BY <1>T, <2>1, <2>6 DEF Posted
    <3>3. chan[s][d] = <<>> /\ Awaits(d, step[r])
      BY <1>I, <2>2, <3>1, <3>2 DEF PairInv
    <3>4. Posted(s, step[r])' /\ Awaits(d, step[r])'
      <4>1. pc'[s] = "wait" /\ step'[s] = step[r] /\ step'[r] = step[r]
        BY <1>T, <2>1, <2>6
      <4>2. step'[d] = step[d] /\ recv'[d] = recv[d]
        BY <2>1
      <4>3. QED
        BY <3>3, <4>1, <4>2 DEF Posted, Awaits
    <3>5. HasRight(r)
      BY <1>N, <2>6 DEF HasRight
    <3>6. chan' = [chan EXCEPT ![r][r + step[r]] = Append(chan[r][r + step[r]], send[r])]
      BY <1>2, <3>5 DEF Post
    <3>7. chan'[s][d] = Append(<<>>, send[r])
      BY <1>T, <2>6, <3>3, <3>6
    <3>8. chan'[s][d] = <<Scan(count, s, step[r])>>
      BY <2>2, <2>6, <3>7
    <3>9. (d - s)' = step'[r] /\ step'[r] = step[r]
      BY <2>1, <3>1
    <3>10. QED
      BY <2>1, <2>2, <3>1, <3>4, <3>8, <3>9 DEF PairInv
  <2>7. ASSUME NEW s \in Rank, NEW d \in Rank, ~(s = r /\ d = r + step[r])
        PROVE  PairInv(s, d)'
    <3>1. chan'[s][d] = chan[s][d]
      <4>1. CASE HasRight(r)
        <5>1. r + step[r] \in Rank
          BY <1>T, <4>1, Partners DEF HasRight
        <5>2. QED
          BY <1>T, <1>2, <2>7, <4>1, <5>1 DEF Post
      <4>2. CASE ~HasRight(r)
        BY <1>2, <4>2 DEF Post
      <4>3. QED
        BY <4>1, <4>2
    <3>2. QED
      BY <1>I, <2>1, <2>5, <3>1, FramePair
  <2>8. QED
    BY <1>I, <2>1, <2>3, <2>4, <2>6, <2>7, FrameRound DEF RoundsInv
<1>3. ASSUME NEW r \in Rank, Receive(r) PROVE RoundsInv'
  <2>1. /\ pc[r] = "wait" /\ HasLeft(r) /\ recv[r] = NoMsg /\ pc' = pc
        /\ count' = count /\ step' = step /\ send' = send
        /\ recv' = [recv EXCEPT ![r] = Head(chan[r - step[r]][r])]
        /\ chan' = [chan EXCEPT ![r - step[r]][r] = Tail(chan[r - step[r]][r])]
        /\ chan[r - step[r]][r] # <<>>
    BY <1>3 DEF Receive
  <2>2. PICK l \in Rank : l = r - step[r]
    BY <1>T, <2>1, Partners DEF HasLeft
  <2>3. r - l = step[r]
    BY <1>T, <1>N, <2>2
  <2>4. /\ chan[l][r] = <<Scan(count, l, step[r])>> /\ Posted(l, step[r])
    BY <1>I, <2>1, <2>2, <2>3 DEF PairInv
  <2>5. recv' = [recv EXCEPT ![r] = Scan(count, l, step[r])] /\ chan'[l][r] = <<>>
    BY <1>T, <2>1, <2>2, <2>4
  <2>6. RoundInv(r)'
    BY <1>I, <1>T, <2>1, <2>2, <2>5 DEF RoundInv, HasLeft
  <2>7. \A x \in Rank \ {r} : Frame(x)
    BY <1>T, <2>1 DEF Frame
  <2>8. ASSUME NEW s \in Rank, NEW d \in Rank
        PROVE  Posted(s, d - s) => Posted(s, d - s)'
    BY <2>1 DEF Posted
  <2>9. PairInv(l, r)'
    <3>1. Posted(l, r - l)'
      <4>1. Posted(l, r - l)
        BY <2>3, <2>4
      <4>2. QED
        BY <2>1, <2>3, <4>1 DEF Posted
    <3>2. QED
      BY <2>5, <3>1 DEF PairInv
  <2>10. ASSUME NEW s \in Rank, NEW d \in Rank, ~(s = l /\ d = r)
         PROVE  PairInv(s, d)'
    <3>1. chan'[s][d] = chan[s][d]
      BY <1>T, <2>1, <2>2, <2>10
    <3>2. Awaits(d, d - s) => Awaits(d, d - s)'
      <4>1. CASE d # r
        BY <1>T, <2>1, <4>1 DEF Awaits
      <4>2. CASE d = r
        <5>1. s # l /\ d - s # step[d]
          BY <1>N, <1>T, <2>2, <2>10, <4>2
        <5>2. QED
          BY <2>1, <5>1 DEF Awaits
      <4>3. QED
        BY <4>1, <4>2
    <3>3. QED
      BY <1>I, <2>1, <2>8, <3>1, <3>2, FramePair
  <2>11. QED
    BY <1>I, <2>1, <2>6, <2>7, <2>9, <2>10, FrameRound DEF RoundsInv
<1>4. ASSUME NEW r \in Rank, Merge(r) PROVE RoundsInv'
  <2>1. /\ pc[r] = "wait" /\ Waitall(r) /\ pc' = [pc EXCEPT ![r] = "round"]
        /\ count' = count /\ chan' = chan
        /\ step' = [step EXCEPT ![r] = 2 * step[r]] /\ recv' = [recv EXCEPT ![r] = NoMsg]
        /\ send' = [send EXCEPT ![r] = IF HasLeft(r) THEN Combine(send[r], recv[r])
                                                     ELSE send[r]]
    BY <1>4 DEF Merge
  <2>2. /\ step[r] \in Pow /\ 2 * step[r] \in Pow /\ step[r] \in Nat \ {0}
        /\ send[r] = Scan(count, r, step[r])
    BY <1>I, <1>T, <2>1, PowClosed DEF RoundInv
  <2>3. send'[r] = Scan(count, r, 2 * step[r])
    <3>1. CASE HasLeft(r)
      <4>1. recv[r] = Scan(count, r - step[r], step[r])
        BY <1>I, <2>1, <3>1 DEF Waitall, RoundInv
      <4>2. step[r] <= r
        BY <1>N, <2>2, <3>1 DEF HasLeft
      <4>3. QED
        BY <1>T, <2>1, <2>2, <3>1, <4>1, <4>2, CombineScan
    <3>2. CASE ~HasLeft(r)
      <4>1. r < step[r] /\ r < 2 * step[r] /\ 2 * step[r] \in Nat \ {0}
        BY <1>N, <2>2, <3>2 DEF HasLeft
      <4>2. Scan(count, r, step[r]) = Scan(count, r, 2 * step[r])
        BY <2>2, <4>1, ScanNoLeft
      <4>3. QED
        BY <1>T, <2>1, <2>2, <3>2, <4>2
    <3>3. QED
      BY <3>1, <3>2
  <2>4. RoundInv(r)'
    BY <1>T, <2>1, <2>2, <2>3 DEF RoundInv
  <2>5. \A x \in Rank \ {r} : Frame(x)
    BY <1>T, <2>1 DEF Frame
  <2>6. ASSUME NEW s \in Rank, NEW d \in Rank PROVE PairInv(s, d)'
    <3>1. Posted(s, d - s) => Posted(s, d - s)'
      <4>1. CASE s # r
        BY <1>T, <2>1, <4>1 DEF Posted
      <4>2. CASE s = r
        <5>1. step'[s] = 2 * step[s] /\ step[s] \in Nat \ {0} /\ d - s \in Int
          BY <1>N, <1>T, <2>1, <4>2
        <5>2. QED
          BY <5>1 DEF Posted
      <4>3. QED
        BY <4>1, <4>2
    <3>2. d - s \in Pow /\ Awaits(d, d - s) => Awaits(d, d - s)'
      <4>1. CASE d # r
        BY <1>T, <2>1, <4>1 DEF Awaits
      <4>2. ASSUME d = r, d - s \in Pow, Awaits(d, d - s)
            PROVE  Awaits(d, d - s)'
        <5>0. d - s \in Nat \ {0} /\ step[d] \in Nat \ {0}
          BY <1>P, <1>T, <4>2
        <5>1. step'[d] = 2 * step[d] /\ recv'[d] = NoMsg
          BY <1>T, <2>1, <4>2
        <5>2. step[d] # d - s
          <6> SUFFICES ASSUME step[d] = d - s PROVE FALSE
            OBVIOUS
          <6>1. HasLeft(r)
            BY <1>N, <4>2 DEF HasLeft
          <6>2. QED
            BY <2>1, <4>2, <5>0, <6>1 DEF Waitall, Awaits
        <5>3. step[d] < d - s
          BY <4>2, <5>2 DEF Awaits
        <5>4. 2 * step[d] <= d - s
          BY <2>2, <4>2, <5>3, PowGap
        <5>5. 2 * step[d] < d - s \/ 2 * step[d] = d - s
          BY <5>0, <5>4
        <5>6. QED
          BY <5>1, <5>5 DEF Awaits
      <4>3. QED
        BY <4>1, <4>2
    <3>3. QED
      BY <1>I, <2>1, <3>1, <3>2, FramePair
  <2>7. QED
    BY <1>I, <2>1, <2>4, <2>5, <2>6, FrameRound DEF RoundsInv
<1>5. ASSUME NEW r \in Rank, Output(r) \/ Bcast(r) PROVE RoundsInv'
  <2>1. /\ pc[r] \in {"round", "bcast"} /\ count' = count /\ chan' = chan
        /\ pc' = [pc EXCEPT ![r] = "bcast"] \/ pc' = [pc EXCEPT ![r] = "done"]
        /\ step' = step /\ recv' = recv /\ send' = send
    BY <1>5 DEF Output, Bcast
  <2>2. step[r] >= N
    BY <1>I, <1>5 DEF Output, Bcast, RoundInv
  <2>3. RoundInv(r)'
    BY <1>I, <1>T, <2>1, <2>2 DEF RoundInv
  <2>4. \A x \in Rank \ {r} : Frame(x)
    BY <1>T, <2>1 DEF Frame
  <2>5. ASSUME NEW s \in Rank, NEW d \in Rank PROVE PairInv(s, d)'
    <3>1. Posted(s, d - s) => Posted(s, d - s)'
      BY <1>T, <2>1 DEF Posted
    <3>2. Awaits(d, d - s) => Awaits(d, d - s)'
      BY <1>T, <2>1 DEF Awaits
    <3>3. QED
      BY <1>I, <2>1, <3>1, <3>2, FramePair
  <2>6. QED
    BY <1>I, <2>1, <2>3, <2>4, <2>5, FrameRound DEF RoundsInv
<1>6. CASE UNCHANGED vars
  <2>1. \A x \in Rank : Frame(x)
    BY <1>6 DEF vars, Frame
  <2>2. ASSUME NEW s \in Rank, NEW d \in Rank PROVE PairInv(s, d)'
    BY <1>I, <1>6, FramePair DEF vars, Posted, Awaits
  <2>3. QED
    BY <1>I, <1>6, <2>1, <2>2, FrameRound DEF RoundsInv, vars
<1>7. QED
  BY <1>1, <1>2, <1>3, <1>4, <1>5, <1>6 DEF Next, Step

\* The invariant of the rounds holds in every reachable state.
THEOREM RoundsInvHolds == Spec => []RoundsInv
<1>1. TypeOK /\ RoundsInv /\ [Next]_vars => RoundsInv'
  BY RoundsInvInductive
<1>2. QED
  BY <1>1, RoundsInvInit, TypeCorrect, PTL DEF Spec

\* pick_writer: however far the ranks are ahead of each other, before the round
\* with stride w a rank knows exactly the scan over the w ranks up to itself.
THEOREM ScanWindowHolds == Spec => []ScanWindow
<1>1. RoundsInv => ScanWindow
  BY DEF RoundsInv, RoundInv, ScanWindow
<1>2. QED
  BY <1>1, RoundsInvHolds, PTL

\* pick_writer: a rank that is done has received everything that was sent to it, so
\* no message is left for the exchange that follows.
THEOREM NoMessageLeftHolds == Spec => []NoMessageLeft
<1>1. TypeOK /\ RoundsInv => NoMessageLeft
  <2> SUFFICES ASSUME TypeOK, RoundsInv, NEW r \in Rank, pc[r] \in {"bcast", "done"},
                      NEW s \in Rank, chan[s][r] # <<>>
               PROVE  FALSE
    BY DEF NoMessageLeft
  <2>1. step[r] >= N
    BY DEF RoundsInv, RoundInv
  <2>2. Awaits(r, r - s)
    BY DEF RoundsInv, PairInv
  <2>3. r - s < N /\ r - s \in Int /\ N \in Int /\ step[r] \in Int
    BY PickWriterAssumption DEF Rank, TypeOK
  <2>4. QED
    BY <2>1, <2>2, <2>3 DEF Awaits
<1>2. QED
  BY <1>1, RoundsInvHolds, TypeCorrect, PTL

-----------------------------------------------------------------------------
(* The result. *)

\* Rank 0 has everything.
AllZero == \A q \in Rank : WriterOf(count, q) = 0

\* A stride of N or more reaches all ranks up to r.
LEMMA ScanAll ==
  ASSUME NEW c, NEW r \in Rank, NEW w \in Nat \ {0}, w >= N
  PROVE  /\ Scan(c, r, w).rank = WriterOf(c, r)
         /\ Scan(c, r, w).ranks = r - WriterOf(c, r) + 1
<1>1. N \in Nat \ {0} /\ r \in Nat /\ r < N
  BY PickWriterAssumption DEF Rank
<1>2. Window(r, w) = 0 .. r
  BY <1>1, WindowIs
<1>3. Starters(c, r, w) = {q \in 0 .. r : StartsNew(c, q)}
  BY <1>2 DEF Starters
<1>4. Starters(c, r, w) # {}
  BY <1>1, <1>3, SomeStarter
<1>5. QED
  BY <1>3, <1>4 DEF Scan, WriterOf

\* The last rank counts N ranks in its segment exactly if rank 0 is the writer of
\* all.
LEMMA LastRankKnows ==
  ASSUME NEW w \in Nat \ {0}, w >= N
  PROVE  (Scan(count, N - 1, w).ranks = N) = AllZero
<1>1. N \in Nat \ {0} /\ N - 1 \in Nat /\ N - 1 \in Rank
  BY PickWriterAssumption DEF Rank
<1>2. Scan(count, N - 1, w).ranks = (N - 1) - WriterOf(count, N - 1) + 1
  BY <1>1, ScanAll
<1>3. WriterOf(count, N - 1) \in Nat
  BY <1>1, WriterOfIs
<1>4. (Scan(count, N - 1, w).ranks = N) <=> WriterOf(count, N - 1) = 0
  BY <1>1, <1>2, <1>3
<1>5. WriterOf(count, N - 1) = 0 => AllZero
  <2> SUFFICES ASSUME WriterOf(count, N - 1) = 0, NEW q \in Rank
               PROVE  WriterOf(count, q) = 0
    BY DEF AllZero
  <2>1. q \in 0 .. N - 1
    BY DEF Rank
  <2>2. QED
    BY <1>1, <2>1, WriterZeroBelow
<1>6. AllZero => WriterOf(count, N - 1) = 0
  BY <1>1 DEF AllZero
<1>7. QED
  BY <1>4, <1>5, <1>6 DEF AllZero

\* Ranks that are through the rounds have their writer; the last one has the
\* answer that MPI_Bcast hands to the others.
ResultInv ==
  /\ \A r \in Rank : pc[r] \in {"bcast", "done"} => writer[r] = WriterOf(count, r)
  /\ pc[N - 1] \in {"bcast", "done"} => allranks[N - 1] = AllZero
  /\ \A r \in Rank : pc[r] = "done" => allranks[r] = AllZero

\* pick_writer: the ranks agree on the cut into segments, and on whether one writer
\* is left (*outallranks), which ends the recursion of kvtree_write_gather_map.
THEOREM WritersAgreeHolds == Spec => []WritersAgree
<1>1. Init => ResultInv
  <2> SUFFICES ASSUME Init PROVE ResultInv
    OBVIOUS
  <2>1. N - 1 \in Rank
    BY PickWriterAssumption DEF Rank
  <2>2. \A r \in Rank : pc[r] = "offset"
    BY DEF Init
  <2>3. QED
    BY <2>1, <2>2 DEF ResultInv
<1>2. TypeOK /\ RoundsInv /\ ResultInv /\ [Next]_vars => ResultInv'
  <2> SUFFICES ASSUME TypeOK, RoundsInv, ResultInv, [Next]_vars PROVE ResultInv'
    OBVIOUS
  <2>T. /\ pc \in [Rank -> {"offset", "round", "wait", "bcast", "done"}]
        /\ writer \in [Rank -> Rank \cup {MPI_PROC_NULL}] /\ step \in [Rank -> Nat \ {0}]
        /\ allranks \in [Rank -> BOOLEAN]
    BY DEF TypeOK
  <2>N. N - 1 \in Rank
    BY PickWriterAssumption DEF Rank
  <2>C. ASSUME count' = count PROVE AllZero' = AllZero
    BY <2>C DEF AllZero
  <2>1. ASSUME NEW r \in Rank, Start(r) \/ Post(r) \/ Merge(r) PROVE ResultInv'
    <3>1. /\ count' = count /\ writer' = writer /\ allranks' = allranks
          /\ \E l \in {"round", "wait"} : pc' = [pc EXCEPT ![r] = l]
      BY <2>1 DEF Start, Post, Merge
    <3>2. QED
      BY <2>T, <2>N, <2>C, <3>1 DEF ResultInv
  <2>2. ASSUME NEW r \in Rank, Receive(r) PROVE ResultInv'
    <3>1. count' = count /\ writer' = writer /\ allranks' = allranks /\ pc' = pc
      BY <2>2 DEF Receive
    <3>2. QED
      BY <2>C, <3>1 DEF ResultInv
  <2>3. ASSUME NEW r \in Rank, Output(r) PROVE ResultInv'
    <3>1. /\ count' = count /\ pc[r] = "round" /\ pc' = [pc EXCEPT ![r] = "bcast"]
          /\ step[r] >= N /\ writer' = [writer EXCEPT ![r] = send[r].rank]
          /\ allranks' = [allranks EXCEPT ![r] = (send[r].ranks = N)]
      BY <2>3 DEF Output
    <3>2. send[r] = Scan(count, r, step[r])
      BY <3>1 DEF RoundsInv, RoundInv
    <3>3. send[r].rank = WriterOf(count, r)
      BY <2>T, <3>1, <3>2, ScanAll
    <3>4. r = N - 1 => (send[r].ranks = N) = AllZero
      BY <2>T, <3>1, <3>2, LastRankKnows
    <3>5. AllZero' = AllZero
      BY <2>C, <3>1
    <3>6. pc'[N - 1] \in {"bcast", "done"} => allranks'[N - 1] = AllZero
      <4>1. CASE r = N - 1
        BY <2>T, <3>1, <3>4, <4>1
      <4>2. CASE r # N - 1
        BY <2>T, <2>N, <3>1, <4>2 DEF ResultInv
      <4>3. QED
        BY <4>1, <4>2
    <3>7. \A q \in Rank : pc'[q] \in {"bcast", "done"} => writer'[q] = WriterOf(count, q)
      BY <2>T, <3>1, <3>3 DEF ResultInv
    <3>8. \A q \in Rank : pc'[q] = "done" => allranks'[q] = AllZero
      BY <2>T, <3>1 DEF ResultInv
    <3>9. QED
      BY <3>1, <3>5, <3>6, <3>7, <3>8 DEF ResultInv
  <2>4. ASSUME NEW r \in Rank, Bcast(r) PROVE ResultInv'
    <3>1. /\ count' = count /\ pc[r] = "bcast" /\ pc' = [pc EXCEPT ![r] = "done"]
          /\ pc[N - 1] \in {"bcast", "done"} /\ writer' = writer
          /\ allranks' = [allranks EXCEPT ![r] = allranks[N - 1]]
      BY <2>4 DEF Bcast
    <3>2. AllZero' = AllZero /\ allranks[N - 1] = AllZero
      BY <2>C, <3>1 DEF ResultInv
    <3>3. allranks'[N - 1] = AllZero
      BY <2>T, <2>N, <3>1, <3>2
    <3>4. \A q \in Rank : pc'[q] \in {"bcast", "done"} => writer'[q] = WriterOf(count, q)
      BY <2>T, <3>1 DEF ResultInv
    <3>5. \A q \in Rank : pc'[q] = "done" => allranks'[q] = AllZero
      BY <2>T, <3>1, <3>2 DEF ResultInv
    <3>6. QED
      BY <3>1, <3>2, <3>3, <3>4, <3>5 DEF ResultInv
  <2>5. CASE UNCHANGED vars
    <3>1. count' = count /\ writer' = writer /\ allranks' = allranks /\ pc' = pc
      BY <2>5 DEF vars
    <3>2. QED
      BY <2>C, <3>1 DEF ResultInv
  <2>6. QED
    BY <2>1, <2>2, <2>3, <2>4, <2>5 DEF Next, Step
<1>3. ResultInv => WritersAgree
  BY DEF ResultInv, WritersAgree, AllZero
<1>4. QED
  BY <1>1, <1>2, <1>3, RoundsInvHolds, TypeCorrect, PTL DEF Spec

=============================================================================
