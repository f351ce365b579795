------------------------- MODULE MCKVTreePickWriter -------------------------
(***************************************************************************)
(* Instances of KVTreePickWriter for TLC.                                  *)
(***************************************************************************)
EXTENDS KVTreePickWriter

\* Every rank's count by position.
Vector(s) == [r \in Rank |-> s[r + 1]]

\* With segments of 3: one segment because nobody crosses a boundary, starters
\* at the ends, in the middle, everywhere, and two counts that meet a boundary.
MixedCounts ==
  {Vector(<<0, 0, 0, 0, 0>>), Vector(<<0, 0, 0, 0, 5>>), Vector(<<0, 5, 0, 0, 0>>),
   Vector(<<5, 5, 5, 5, 5>>), Vector(<<1, 2, 0, 3, 2>>), Vector(<<2, 2, 0, 2, 2>>)}

\* Counts that divide the segment size.
AlignedCounts == {[r \in Rank |-> 1], [r \in Rank |-> 2]}

=============================================================================
