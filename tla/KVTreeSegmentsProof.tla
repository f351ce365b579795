------------------------ MODULE KVTreeSegmentsProof ------------------------
(***************************************************************************)
(* Facts about the segments of KVTreeSegments, for every segment size and  *)
(* all byte counts.                                                        *)
(***************************************************************************)
EXTENDS KVTreeSegments, KVTreeNumbersProof

-----------------------------------------------------------------------------
(* Writers. *)

\* The starters up to a rank: rank 0 is one of them.
LEMMA SomeStarter ==
  ASSUME NEW count, NEW r \in Nat
  PROVE  /\ 0 \in {q \in 0 .. r : StartsNew(count, q)}
         /\ {q \in 0 .. r : StartsNew(count, q)} \in SUBSET Nat
BY DEF StartsNew

\* pick_writer: the writer of a rank is at or before it, starts a segment, and no
\* rank in between does.
LEMMA WriterOfIs ==
  ASSUME NEW count, NEW r \in Nat
  PROVE  /\ WriterOf(count, r) \in 0 .. r
         /\ StartsNew(count, WriterOf(count, r))
         /\ \A q \in 0 .. r : StartsNew(count, q) => q <= WriterOf(count, r)
<1>1. DEFINE S == {q \in 0 .. r : StartsNew(count, q)}
<1>2. S \in SUBSET Nat /\ S # {} /\ \A q \in S : q <= r
  BY SomeStarter
<1>3. Max(S) \in S /\ \A q \in S : q <= Max(S)
  BY <1>2, MaxIsGreatest
<1>4. QED
  BY <1>3 DEF WriterOf

\* A rank that starts a segment is its own writer.
LEMMA StarterIsWriter ==
  ASSUME NEW count, NEW r \in Nat, StartsNew(count, r)
  PROVE  WriterOf(count, r) = r
<1>1. /\ WriterOf(count, r) \in 0 .. r
      /\ \A q \in 0 .. r : StartsNew(count, q) => q <= WriterOf(count, r)
  BY WriterOfIs
<1>2. r <= WriterOf(count, r)
  BY <1>1
<1>3. QED
  BY <1>1, <1>2

\* kvtree_write_gather: the writer of a rank is a writer.
LEMMA WriterOfWriter ==
  ASSUME NEW count, NEW r \in Nat
  PROVE  WriterOf(count, WriterOf(count, r)) = WriterOf(count, r)
<1>1. WriterOf(count, r) \in Nat /\ StartsNew(count, WriterOf(count, r))
  BY WriterOfIs
<1>2. QED
  BY <1>1, StarterIsWriter

\* Rank 0 is its own writer.
LEMMA WriterOfZero ==
  ASSUME NEW count
  PROVE  WriterOf(count, 0) = 0
<1>1. StartsNew(count, 0)
  BY DEF StartsNew
<1>2. QED
  BY <1>1, StarterIsWriter

\* If rank 0 is the writer of a rank, it is the writer of all ranks before it.
LEMMA WriterZeroBelow ==
  ASSUME NEW count, NEW r \in Nat, WriterOf(count, r) = 0, NEW q \in 0 .. r
  PROVE  WriterOf(count, q) = 0
<1>1. \A x \in 0 .. r : StartsNew(count, x) => x <= 0
  BY WriterOfIs
<1>2. WriterOf(count, q) \in 0 .. q /\ StartsNew(count, WriterOf(count, q))
  BY WriterOfIs
<1>3. QED
  BY <1>1, <1>2

=============================================================================
