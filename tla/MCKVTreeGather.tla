--------------------------- MODULE MCKVTreeGather ---------------------------
(***************************************************************************)
(* Instances of KVTreeGather for TLC.                                      *)
(***************************************************************************)
EXTENDS KVTreeGather

Vector(s) == [r \in 0 .. Len(s) - 1 |-> s[r + 1]]

\* With segments of 5 and map entries of 2: one file; one segment per rank; for
\* three ranks two cuts into two segments, and three segments, whose map takes
\* two more levels.
MCInputs == {Vector(<<1, 1>>), Vector(<<1, 6>>), Vector(<<1, 6, 1>>),
             Vector(<<1, 1, 6>>), Vector(<<6, 6, 6>>)}

=============================================================================
