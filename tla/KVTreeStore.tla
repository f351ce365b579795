---------------------------- MODULE KVTreeStore ----------------------------
(***************************************************************************)
(* What the locking calls of the file layer promise: one shared kvtree,    *)
(* read in one instant and never while somebody else is changing it.  The  *)
(* locks of readers, the cells of the file, offsets, buffers and retries   *)
(* of KVTreeFile do not appear here.                                       *)
(***************************************************************************)
CONSTANTS
  Proc,   \* the processes
  Trees,  \* the values a kvtree can have
  Torn,   \* the store after a writer died half way; also "nothing read"
  Errors  \* may a system call of a writer fail?

VARIABLES
  store,   \* the stored tree, or Torn
  writer,  \* the process inside a write or read-modify-write, if any
  out      \* out[p]: what p has read in its current or last call

vars == <<store, writer, out>>

Init == /\ store = {}
        /\ writer = {}
        /\ out = [p \in Proc |-> Torn]

\* A writer enters; it waits for the one before it.
Acquire(p) == /\ writer = {}
              /\ writer' = {p}
              /\ UNCHANGED <<store, out>>

\* The writer changes the store; half way through it may be torn.
Update(p) == /\ writer = {p}
             /\ store' \in {Torn} \cup Trees
             /\ UNCHANGED <<writer, out>>

\* The writer leaves a whole tree behind, unless its system calls failed.
Release(p) == /\ writer = {p}
              /\ store # Torn \/ Errors
              /\ writer' = {}
              /\ UNCHANGED <<store, out>>

\* A process reads the store when no other process is writing it.
Get(p) == /\ writer \subseteq {p}
          /\ out' = [out EXCEPT ![p] = store]
          /\ UNCHANGED <<store, writer>>

\* A new call starts, or the process dies; a writer that dies is gone.
Forget(p) == /\ writer' = writer \ {p}
             /\ out' = [out EXCEPT ![p] = Torn]
             /\ UNCHANGED store

Next == \E p \in Proc :
          Acquire(p) \/ Update(p) \/ Release(p) \/ Get(p) \/ Forget(p)

Spec == Init /\ [][Next]_vars

=============================================================================
