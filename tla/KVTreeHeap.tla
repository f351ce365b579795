----------------------------- MODULE KVTreeHeap -----------------------------
(***************************************************************************)
(* The in-memory kvtree (kvtree.c): hashes are lists of elements, an       *)
(* element is a key and a pointer to a hash or NULL, new elements go to    *)
(* the head of the list.  One caller makes a sequence of API calls on any  *)
(* hash it can reach; it passes as value only a kvtree that it owns and    *)
(* that does not contain the hash it is put into, and gives it away.       *)
(*                                                                         *)
(* The recursions of kvtree.c are RECURSIVE operators: this module is for  *)
(* TLC.                                                                    *)
(***************************************************************************)
EXTENDS Integers, Sequences, SequencesExt, FiniteSetsExt, TLC

CONSTANTS
  Addr,      \* bound: addresses of hashes, as many as are allocated at once
  NULL,      \* the null pointer
  NoMem,     \* kvtree_malloc found no memory: it aborts, no call returns this
  MaxRoots,  \* bound: kvtrees the caller owns at the same time
  Key,       \* keys, integers; every key of the API is a string, see StrRank
  StrRank,   \* StrRank[k]: place of the decimal form of k in strcmp order
  IntWidth   \* width in bits of the C int of kvtree_cmp_fn_int_*

ASSUME HeapAssumption ==
  /\ NULL \notin Addr \cup {NoMem}
  /\ NoMem \notin Addr
  /\ MaxRoots \in Nat
  /\ IntWidth \in Nat \ {0}
  /\ Key \subseteq -(2^(IntWidth - 1)) .. 2^(IntWidth - 1) - 1
  /\ StrRank \in [Key -> Nat]

VARIABLES
  heap,  \* heap[a]: list of the hash at address a; its domain is what is allocated
  roots, \* the hashes the caller owns
  call   \* history: the call just made

vars == <<heap, roots, call>>

-----------------------------------------------------------------------------
(* Lists and lookup.  The operators take and return heaps.                  *)

Elem(k, a) == [key |-> k, hash |-> a]

\* kvtree_elem_get: index of the first element with key k, 0 if there is none.
ElemGet(hp, h, k) == IF h = NULL THEN 0
                     ELSE SelectInSeq(hp[h], LAMBDA e : e.key = k)

\* kvtree_get
Get(hp, h, k) == LET i == ElemGet(hp, h, k) IN
                 IF i = 0 THEN NULL ELSE hp[h][i].hash

\* kvtree_getf: follow the keys ks, NULL as soon as one is missing.
Getf(hp, h, ks) == FoldLeft(LAMBDA a, k : Get(hp, a, k), h, ks)

\* Mutant: every list is taken to have one element.
GetValFirst(hp, h, k) == LET c == Get(hp, h, k) IN
                         IF c = NULL THEN NULL ELSE IF hp[c] = <<>> THEN NULL ELSE hp[c][1].key

\* kvtree_get_val, which the typed getters convert: the only subkey of k.
GetVal(hp, h, k) == LET c == Get(hp, h, k) IN
                    IF c = NULL THEN NULL ELSE IF Len(hp[c]) # 1 THEN NULL ELSE hp[c][1].key

\* kvtree_util_get_int takes the first subkey (kvtree_elem_get_first_val).
GetInt(hp, h, k) == LET c == Get(hp, h, k) IN
                    IF c = NULL THEN NULL ELSE IF hp[c] = <<>> THEN NULL ELSE hp[c][1].key

\* The hash a and all hashes below it, as kvtree_delete visits them.
RECURSIVE Desc(_, _)
Desc(hp, a) == IF a = NULL THEN {}
               ELSE {a} \cup UNION {Desc(hp, hp[a][i].hash) : i \in DOMAIN hp[a]}

\* kvtree_delete; kvtree_elem_delete calls it for every element.
Free(hp, a) == [x \in DOMAIN hp \ Desc(hp, a) |-> hp[x]]

\* kvtree_new: the hash at Fresh(hp), with an empty list.
Fresh(hp) == IF Addr \subseteq DOMAIN hp THEN NoMem
             ELSE CHOOSE a \in Addr : a \notin DOMAIN hp
Alloc(hp) == hp @@ (Fresh(hp) :> <<>>)

\* kvtree_elem_extract
ElemExtract(hp, h, k) ==
  LET i == ElemGet(hp, h, k) IN
  IF i = 0 THEN hp ELSE [hp EXCEPT ![h] = RemoveAt(@, i)]

\* Mutants: the existing element stays in the list; its hash is not deleted.
SetNoExtract(hp, h, k, v) == [hp EXCEPT ![h] = <<Elem(k, v)>> \o @]
SetNoFree(hp, h, k, v) ==
  [ElemExtract(hp, h, k) EXCEPT ![h] = <<Elem(k, v)>> \o @]

\* kvtree_set: an existing element keeps its record but moves to the head.
Set(hp, h, k, v) ==
  LET rest == Free(ElemExtract(hp, h, k), Get(hp, h, k)) IN
  [rest EXCEPT ![h] = <<Elem(k, v)>> \o @]

\* kvtree_get, and kvtree_set with a new hash when it gives NULL.
GetOrNew(hp, h, k) == IF Get(hp, h, k) # NULL THEN hp
                      ELSE Set(Alloc(hp), h, k, Fresh(hp))

\* kvtree_merge of the list of a hash into hash h.
RECURSIVE MergeList(_, _, _)
MergeList(hp, h, list) ==
  IF list = <<>> THEN hp
  ELSE LET e   == Head(list)
           hp1 == GetOrNew(hp, h, e.key)
           hp2 == IF e.hash = NULL THEN hp1
                  ELSE MergeList(hp1, Get(hp1, h, e.key), hp[e.hash])
       IN  MergeList(hp2, h, Tail(list))

\* Pack each element of a list and unpack it into hash h.  A NULL value is
\* packed like an empty hash and comes back as one; order is reversed.
RECURSIVE UnpackList(_, _, _)
UnpackList(hp, h, list) ==
  IF list = <<>> THEN hp
  ELSE LET e   == Head(list)
           c   == Fresh(hp)
           hp1 == UnpackList(Alloc(hp), c, IF e.hash = NULL THEN <<>> ELSE hp[e.hash])
       IN  UnpackList([hp1 EXCEPT ![h] = <<Elem(e.key, c)>> \o @], h, Tail(list))

\* The call was not aborted; bound: the kvtrees the caller keeps.
Bounded == /\ DOMAIN heap' \subseteq Addr
           /\ Cardinality(roots') <= MaxRoots

-----------------------------------------------------------------------------
(* The calls. *)

Init == heap = <<>> /\ roots = {} /\ call = "new"

New == /\ heap' = Alloc(heap)
       /\ roots' = roots \cup {Fresh(heap)}
       /\ call' = "new"

Delete(h) == /\ h \in roots
             /\ heap' = Free(heap, h)
             /\ roots' = roots \ {h}
             /\ call' = "delete"

\* kvtree_set with NULL, with kvtree_new(), and with a kvtree of the caller.
SetNull(h, k) == /\ heap' = Set(heap, h, k, NULL)
                 /\ UNCHANGED roots
                 /\ call' = "set"

SetNew(h, k) == /\ heap' = Set(Alloc(heap), h, k, Fresh(heap))
                /\ UNCHANGED roots
                /\ call' = "set"

SetRoot(h, k, v) == /\ v \in roots
                    /\ h \notin Desc(heap, v)
                    /\ heap' = Set(heap, h, k, v)
                    /\ roots' = roots \ {v}
                    /\ call' = "set"

\* kvtree_setf with two keys.
Setf(h, k, l, v) ==
  /\ v \in roots
  /\ h \notin Desc(heap, v)
  /\ LET hp == GetOrNew(heap, h, k) IN heap' = Set(hp, Get(hp, h, k), l, v)
  /\ roots' = roots \ {v}
  /\ call' = "setf"

\* Mutants: NULL is handed to the caller as a kvtree; the element stays.
ExtractGivesNull(h, k) ==
  /\ heap' = ElemExtract(heap, h, k)
  /\ roots' = roots \cup {Get(heap, h, k)}
  /\ call' = "extract"
ExtractLeavesElem(h, k) ==
  /\ UNCHANGED heap
  /\ roots' = roots \cup ({Get(heap, h, k)} \ {NULL})
  /\ call' = "extract"

\* kvtree_extract: unlink the element, free it, give its hash to the caller.
Extract(h, k) ==
  /\ heap' = ElemExtract(heap, h, k)
  /\ roots' = roots \cup ({Get(heap, h, k)} \ {NULL})
  /\ call' = "extract"

\* kvtree_unset: extract the element, delete it.
UnsetIn(hp, h, k) == Free(ElemExtract(hp, h, k), Get(hp, h, k))

Unset(h, k) == /\ heap' = UnsetIn(heap, h, k)
               /\ UNCHANGED roots
               /\ call' = "unset"

\* Elements are removed and deleted one after the other from the head.
UnsetAll(h) ==
  /\ heap' = LET hp == FoldLeft(LAMBDA g, e : Free(g, e.hash), heap, heap[h])
             IN  [hp EXCEPT ![h] = <<>>]
  /\ UNCHANGED roots
  /\ call' = "unset_all"

\* kvtree_merge(h1, h2) of two hashes, neither inside the other.
Merge(h1, h2) ==
  /\ h1 \notin Desc(heap, h2)
  /\ h2 \notin Desc(heap, h1)
  /\ heap' = MergeList(heap, h1, heap[h2])
  /\ UNCHANGED roots
  /\ call' = "merge"

\* kvtree_exchange_sendq: merge msg into key k, or set k to a copy of msg.
SendQ(h, k, msg) ==
  LET c == Getf(heap, h, <<k>>) IN
  /\ h \notin Desc(heap, msg)
  /\ msg \notin Desc(heap, h)
  /\ heap' = IF c # NULL THEN MergeList(heap, c, heap[msg])
             ELSE Set(MergeList(Alloc(heap), Fresh(heap), heap[msg]), h, k, Fresh(heap))
  /\ UNCHANGED roots
  /\ call' = "sendq"

SetKv(h, k, v) ==
  /\ LET hp == GetOrNew(heap, h, k) IN heap' = GetOrNew(hp, Get(hp, h, k), v)
  /\ UNCHANGED roots
  /\ call' = "set_kv"

\* Mutant: a key that has lost its last subkey stays.
UnsetKvLeavesKey(h, k, v) ==
  LET c == Get(heap, h, k) IN
  /\ heap' = IF c = NULL THEN heap ELSE UnsetIn(heap, c, v)
  /\ UNCHANGED roots
  /\ call' = "unset_kv"

\* kvtree_unset_kv: unset subkey v, and key k if no subkey is left.
UnsetKv(h, k, v) ==
  LET c  == Get(heap, h, k)
      hp == IF c = NULL THEN heap ELSE UnsetIn(heap, c, v)
      size == IF c = NULL THEN 0 ELSE Len(hp[c])
  IN  /\ heap' = IF size = 0 THEN UnsetIn(hp, h, k) ELSE hp
      /\ UNCHANGED roots
      /\ call' = "unset_kv"

\* kvtree_util_set_*: unset k, then set its only subkey v, with a new hash
\* (kvtree_set_kv, for int and str) or NULL (kvtree_setf, for the others).
UtilSet(h, k, v) ==
  LET unset == UnsetIn(heap, h, k)
      hp    == GetOrNew(unset, h, k)
      c     == Get(hp, h, k)
  IN  /\ heap' \in {GetOrNew(hp, c, v), Set(hp, c, v, NULL)}
      /\ UNCHANGED roots
      /\ call' = "util_set"

\* kvtree_pack of h, kvtree_unpack into a new kvtree: kvtree_send and
\* kvtree_recv, kvtree_bcast, writing and reading a file.
Copy(h) ==
  /\ heap' = UnpackList(Alloc(heap), Fresh(heap), heap[h])
  /\ roots' = roots \cup {Fresh(heap)}
  /\ call' = "copy"

-----------------------------------------------------------------------------
(* Sorting. *)

\* A difference of C ints, wrapped to IntWidth bits.
WrapInt(x) == LET m == 2^IntWidth
                  y == x % m
              IN  IF y >= m \div 2 THEN y - m ELSE y

\* The comparison functions, for direction 1 (ascending) and -1.
CmpStr(e, f, d) == d * (StrRank[e.key] - StrRank[f.key])
CmpInt(e, f, d) == IF d = 1 THEN WrapInt(e.key - f.key) ELSE WrapInt(f.key - e.key)

Pairs(list) == ToSet(list) \X ToSet(list)

\* What qsort may leave: neighbours are in order as the comparison sees it.
QSort(list, leq) ==
  {s \in SetToSeqs(ToSet(list)) : \A i \in 1 .. Len(s) - 1 : <<s[i], s[i + 1]>> \in leq}

\* The sorted elements are moved to the head of the list, last one first.
Sort(h, d) ==
  /\ \E s \in QSort(heap[h], {x \in Pairs(heap[h]) : CmpStr(x[1], x[2], d) <= 0}) :
       heap' = [heap EXCEPT ![h] = s]
  /\ UNCHANGED roots
  /\ call' = "sort"

SortInt(h, d) ==
  /\ \E s \in QSort(heap[h], {x \in Pairs(heap[h]) : CmpInt(x[1], x[2], d) <= 0}) :
       heap' = [heap EXCEPT ![h] = s]
  /\ UNCHANGED roots
  /\ call' = "sort"

-----------------------------------------------------------------------------
Call ==
  \/ New
  \/ \E h \in DOMAIN heap :
       \/ Delete(h) \/ UnsetAll(h) \/ Copy(h)
       \/ \E d \in {1, -1} : Sort(h, d) \/ SortInt(h, d)
       \/ \E h2 \in DOMAIN heap : Merge(h, h2)
       \/ \E k \in Key :
            \/ SetNull(h, k) \/ SetNew(h, k) \/ Extract(h, k) \/ Unset(h, k)
            \/ \E v \in roots : SetRoot(h, k, v)
            \/ \E msg \in DOMAIN heap : SendQ(h, k, msg)
            \/ \E v \in Key : SetKv(h, k, v) \/ UnsetKv(h, k, v) \/ UtilSet(h, k, v)
            \/ \E l \in Key : \E v \in roots : Setf(h, k, l, v)

Next == Call /\ Bounded

Spec == Init /\ [][Next]_vars

-----------------------------------------------------------------------------
(* Properties. *)

\* What the caller owns are allocated hashes, and lists hold elements.
TypeOK ==
  /\ DOMAIN heap \subseteq Addr
  /\ roots \subseteq DOMAIN heap
  /\ \A h \in DOMAIN heap : heap[h] \in Seq([key : Key, hash : Addr \cup {NULL}])

\* overview.rst:6, "Each element in a kvtree has a unique key".
UniqueKeys ==
  \A h \in DOMAIN heap :
    \A i, j \in DOMAIN heap[h] : heap[h][i].key = heap[h][j].key => i = j

\* The pointers that hashes hold to hash a.
Owners(a) == {<<h, i>> \in UNION {{h} \X DOMAIN heap[h] : h \in DOMAIN heap} :
                heap[h][i].hash = a}

\* kvtree_delete frees each hash once: no element points to freed memory, and
\* no hash has two owners (the caller, or an element of kvtree_set).
SingleOwner ==
  /\ \A h \in DOMAIN heap : \A i \in DOMAIN heap[h] :
       heap[h][i].hash \in DOMAIN heap \cup {NULL}
  /\ \A h \in DOMAIN heap :
       Cardinality(Owners(h)) <= IF h \in roots THEN 0 ELSE 1

\* Nothing is leaked: kvtree_set, kvtree_unset and kvtree_extract free every
\* hash that the caller can no longer reach.
NoLeak == DOMAIN heap = UNION {Desc(heap, r) : r \in roots}

\* The paths of the kvtree at a.
RECURSIVE Paths(_, _)
Paths(hp, a) == IF a = NULL THEN {}
                ELSE UNION {{<<hp[a][i].key>> \o q : q \in Paths(hp, hp[a][i].hash) \cup {<<>>}} :
                              i \in DOMAIN hp[a]}

Forest == INSTANCE KVTreeForest WITH
            Handle <- Addr,
            trees  <- [r \in roots |-> Paths(heap, r)]

\* Every call of kvtree.c does to the set of paths what KVTreeForest says:
\* merge is union, set replaces, a copy through pack and unpack is the same tree.
ForestSpec == Forest!Spec

\* The values of key k in the kvtree at h, from its paths.
Values(h, k) == {p[2] : p \in {q \in Paths(heap, h) : Len(q) = 2 /\ q[1] = k}}

\* The typed getters give the value of the kvtree as a set of paths, not of the
\* history of the list: whatever merges, copies and sorts there were, a key with
\* one value gives it, and a key with none or several gives none, except that
\* kvtree_util_get_int gives one of several.
TypedGets ==
  \A h \in DOMAIN heap, k \in Key :
    /\ {GetVal(heap, h, k)} = IF Cardinality(Values(h, k)) = 1 THEN Values(h, k) ELSE {NULL}
    /\ GetInt(heap, h, k) \in IF Values(h, k) = {} THEN {NULL} ELSE Values(h, k)

=============================================================================
