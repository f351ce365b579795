---------------------------- MODULE KVTreeForest ----------------------------
(***************************************************************************)
(* What the in-memory kvtree API promises.  A kvtree is the set of its     *)
(* paths, sequences of keys from the root downwards; the caller owns some  *)
(* kvtrees by handle.  Lists, their order, element records, pointers and   *)
(* the NULL value of a key do not appear here.                             *)
(***************************************************************************)
EXTENDS Sequences, SequencesExt, TLC

CONSTANTS
  Handle,  \* names for the kvtrees a caller owns
  Key      \* keys

VARIABLES
  trees,  \* trees[r]: the paths of the caller's kvtree r
  call    \* the call just made

vars == <<trees, call>>

\* A kvtree inside a kvtree: the root, or the value of a path.
Locations(r) == {<<>>} \cup trees[r]

\* The part of S below path p, and S without p and what is below it.
Below(S, p)   == {SubSeq(s, Len(p) + 1, Len(s)) : s \in {x \in S : IsStrictPrefix(p, x)}}
Without(S, p) == {s \in S : ~IsPrefix(p, s)}
Graft(p, T)   == {p \o q : q \in T}

Init == trees = <<>> /\ call = "new"

New(r) == r \notin DOMAIN trees /\ trees' = trees @@ (r :> {})

Delete(r) == trees' = [x \in DOMAIN trees \ {r} |-> trees[x]]

\* Set (or reset) key k at p to a new or no value, or to the kvtree v, which
\* the caller gives away.
SetEmpty(r, p, k) ==
  trees' = [trees EXCEPT ![r] = Without(@, Append(p, k)) \cup {Append(p, k)}]

SetTree(r, p, k, v) ==
  /\ v \in DOMAIN trees \ {r}
  /\ trees' = [x \in DOMAIN trees \ {v} |->
                 IF x # r THEN trees[x]
                 ELSE Without(trees[r], Append(p, k))
                      \cup Graft(Append(p, k), trees[v]) \cup {Append(p, k)}]

\* Remove key k at p, if it is there; its value goes to the caller under handle
\* x, unless it has none.
Extract(r, p, k, x) ==
  LET pk   == Append(p, k)
      rest == [trees EXCEPT ![r] = Without(@, pk)]
  IN  \/ Below(trees[r], pk) = {} /\ trees' = rest
      \/ /\ pk \in trees[r]
         /\ x \notin DOMAIN trees
         /\ trees' = rest @@ (x :> Below(trees[r], pk))

Unset(r, p, k) == trees' = [trees EXCEPT ![r] = Without(@, Append(p, k))]

UnsetAll(r, p) == trees' = [trees EXCEPT ![r] = @ \ Graft(p, Below(@, p))]

\* Merging is union of the paths.
Merge(r, p, r2, p2) ==
  trees' = [trees EXCEPT ![r] = @ \cup Graft(p, Below(trees[r2], p2))]

\* Merge into key k at p, which is created if it is missing.
SendQ(r, p, k, r2, p2) ==
  trees' = [trees EXCEPT ![r] =
              @ \cup {Append(p, k)} \cup Graft(Append(p, k), Below(trees[r2], p2))]

\* Make sure that key k at p has subkey v.
SetKv(r, p, k, v) ==
  trees' = [trees EXCEPT ![r] = @ \cup {Append(p, k), p \o <<k, v>>}]

\* Set key l of key k at p to the kvtree v; k is created if it is missing.
Setf(r, p, k, l, v) ==
  /\ v \in DOMAIN trees \ {r}
  /\ trees' = [x \in DOMAIN trees \ {v} |->
                 IF x # r THEN trees[x]
                 ELSE Without(trees[r], p \o <<k, l>>) \cup {Append(p, k)}
                      \cup Graft(p \o <<k, l>>, trees[v]) \cup {p \o <<k, l>>}]

\* Remove subkey v of key k at p, and k too if no subkey is left.
UnsetKv(r, p, k, v) ==
  LET rest == Without(trees[r], p \o <<k, v>>) IN
  trees' = [trees EXCEPT ![r] =
              IF Below(rest, Append(p, k)) = {} THEN Without(rest, Append(p, k))
                                                ELSE rest]

\* Give key k at p the one value v.
Put(r, p, k, v) ==
  trees' = [trees EXCEPT ![r] = Without(@, Append(p, k)) \cup {Append(p, k), p \o <<k, v>>}]

\* Pack the kvtree at p and unpack it into a new one.
Copy(r, p, x) ==
  /\ x \notin DOMAIN trees
  /\ trees' = trees @@ (x :> Below(trees[r], p))

\* The call of this step has this name.
Is(name) == call' = name

Next ==
  \/ Is("new") /\ \E r \in Handle : New(r)
  \/ Is("sort") /\ UNCHANGED trees
  \/ \E r \in DOMAIN trees :
       \/ Is("delete") /\ Delete(r)
       \/ \E p \in Locations(r) :
            \/ Is("unset_all") /\ UnsetAll(r, p)
            \/ Is("copy") /\ \E x \in Handle : Copy(r, p, x)
            \/ /\ Is("merge")
               /\ \E r2 \in DOMAIN trees : \E p2 \in Locations(r2) : Merge(r, p, r2, p2)
            \/ \E k \in Key :
                 \/ Is("set") /\ (SetEmpty(r, p, k) \/ \E x \in Handle : SetTree(r, p, k, x))
                 \/ Is("extract") /\ \E x \in Handle : Extract(r, p, k, x)
                 \/ /\ Is("sendq")
                    /\ \E r2 \in DOMAIN trees : \E p2 \in Locations(r2) : SendQ(r, p, k, r2, p2)
                 \/ Is("unset") /\ Unset(r, p, k)
                 \/ \E v \in Key :
                      \/ Is("set_kv") /\ SetKv(r, p, k, v)
                      \/ Is("unset_kv") /\ UnsetKv(r, p, k, v)
                      \/ Is("util_set") /\ Put(r, p, k, v)
                      \/ Is("setf") /\ \E x \in Handle : Setf(r, p, k, v, x)

Spec == Init /\ [][Next]_vars

=============================================================================
