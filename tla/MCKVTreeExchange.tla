-------------------------- MODULE MCKVTreeExchange --------------------------
(***************************************************************************)
(* Instances of KVTreeExchange for TLC.                                    *)
(***************************************************************************)
EXTENDS KVTreeExchange

\* Every send pattern.
AllInputs == [Rank -> SUBSET Rank]

\* Everybody sends to everybody, or rank 0 alone sends to any set of ranks.
DenseOrSingle ==
  {[r \in Rank |-> Rank]} \cup
  {[r \in Rank |-> IF r = 0 THEN ds ELSE {}] : ds \in SUBSET Rank}

=============================================================================
