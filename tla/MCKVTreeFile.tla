---------------------------- MODULE MCKVTreeFile ----------------------------
(***************************************************************************)
(* Instances of KVTreeFile for TLC.                                        *)
(***************************************************************************)
EXTENDS KVTreeFileRefines, FiniteSets, TLC

\* Header, CRC and one cell per key: three sizes, two trees of the same size.
MCPersistSize == [t \in SUBSET Key |-> HeaderSize + 1 + Cardinality(t)]

MCSymmetry == Permutations(Proc) \cup Permutations(Key)

=============================================================================
