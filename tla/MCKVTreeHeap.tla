---------------------------- MODULE MCKVTreeHeap ----------------------------
(***************************************************************************)
(* Instances of KVTreeHeap for TLC.                                        *)
(***************************************************************************)
EXTENDS KVTreeHeap

\* malloc may return any free address, so addresses are interchangeable; the
\* CHOOSE in Fresh picks one of them.
AddrSymmetry == Permutations(Addr)

\* What a call does next does not depend on the call before it.
HeapView == <<heap, roots>>

\* "10" is before "9" for strcmp.
SmallKeys == {9, 10}
SmallStrRank == (9 :> 2) @@ (10 :> 1)

=============================================================================
