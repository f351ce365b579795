------------------------- MODULE KVTreeFileRefines -------------------------
(***************************************************************************)
(* The file layer, used through its locking calls, implements KVTreeStore: *)
(* the store is what the file reads as, the writer is the process with the *)
(* exclusive lock.                                                         *)
(***************************************************************************)
EXTENDS KVTreeFile

Store == INSTANCE KVTreeStore WITH
           store  <- Content(file),
           writer <- {p \in Proc : lock[p] = "ex"},
           out    <- got,
           Errors <- IOErrors

\* Locked reads are atomic and writers take turns (api.rst:338-357), for
\* every interleaving of the system calls and with writers that die.
StoreSpec == Store!Spec

=============================================================================
