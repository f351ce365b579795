--------------------------- MODULE KVTreeSegments ---------------------------
(***************************************************************************)
(* How pick_writer (kvtree_mpi_io.c) cuts the ranks into segments.  The    *)
(* bytes of all ranks are laid out one rank after the other; a rank starts *)
(* a segment if its bytes cross a multiple of the segment size, and the    *)
(* first rank of a segment is its writer.                                  *)
(***************************************************************************)
EXTENDS Integers, FiniteSetsExt, Functions

CONSTANT SegSize   \* segsize: 1 MB in the code

ASSUME SegmentAssumption == SegSize \in Nat \ {0}

\* The bytes of the ranks before r: MPI_Scan minus the rank's own count.
Offset(count, r) == SumFunctionOnSet(count, 0 .. r - 1)

\* Rank 0 starts a segment, and every rank whose bytes overflow a boundary.
StartsNew(count, r) ==
  LET seglast == (Offset(count, r) \div SegSize + 1) * SegSize - 1 IN
  r = 0 \/ (count[r] > 0 /\ Offset(count, r) + count[r] - 1 > seglast)

\* The writer of r: the closest rank at or before r that starts a segment.
WriterOf(count, r) == Max({q \in 0 .. r : StartsNew(count, q)})

=============================================================================
