------------------------- MODULE KVTreeGatherProof -------------------------
(***************************************************************************)
(* Proofs about the gather/scatter files of KVTreeGather, for all numbers  *)
(* of ranks, all pack sizes and segment sizes, and any number of calls,    *)
(* crashes and failing system calls.                                       *)
(***************************************************************************)
EXTENDS KVTreeGather, KVTreeSegmentsProof

-----------------------------------------------------------------------------
(* What a file can hold. *)

\* The names that a writer gives to files.
Names == {Root} \cup {Name(k, w) : k \in Nat, w \in Nat}

\* A map of level k with entries for the ranks in S; the data of the ranks in S.
MapOf(k, n, g, S) == Content(k, n, g, [q \in S |-> Name(k - 1, q)])
DataOf(n, g, S)   == Content(0, n, g, [q \in S |-> {Tree(g, n, q)}])

IsData(G, f, c) ==
  \E w \in Nat, n \in Nat \ {0}, g \in 1 .. G, S \in SUBSET Nat :
    f = Name(0, w) /\ c = DataOf(n, g, S)

IsMap(G, f, c) ==
  \E k \in Nat \ {0}, n \in Nat \ {0}, g \in 1 .. G, S \in SUBSET Nat :
    /\ c = MapOf(k, n, g, S)
    /\ \/ f = Root /\ 0 \in S
       \/ \E w \in Nat : f = Name(k, w) /\ (w = 0 => 0 \in S)

\* The content c fits the name f, after G writes: an empty file, the trees of a
\* write in a file of level 0, or a map, which sends rank 0 on if rank 0 reads it.
Fits(G, f, c) == c = EmptyHash \/ IsData(G, f, c) \/ IsMap(G, f, c)

\* Files to write that fit.
Contents == {EmptyHash}
            \cup {DataOf(n, g, S) : n \in Nat, g \in Nat, S \in SUBSET Nat}
            \cup {MapOf(k, n, g, S) : k \in Nat, n \in Nat, g \in Nat, S \in SUBSET Nat}
Items(G) == {i \in [file : Names, content : Contents] : Fits(G, i.file, i.content)}

\* The names of different kinds differ, and a name gives back its numbers.
LEMMA NameFacts ==
  /\ NoFile # Root /\ Len(Root) = 0
  /\ \A k, w : Name(k, w) # Root /\ Name(k, w) # NoFile
  /\ \A k, w : Len(Name(k, w)) = 2 /\ Name(k, w)[1] = k /\ Name(k, w)[2] = w
  /\ NoFile \notin Names /\ Root \in Names
<1>1. NoFile # Root /\ Len(Root) = 0
  BY DEF NoFile, Root
<1>2. ASSUME NEW k, NEW w PROVE Name(k, w) # Root /\ Name(k, w) # NoFile
  <2>1. Len(<<k, w>>) = 2 /\ Len(<<-1>>) = 1 /\ Len(<<>>) = 0
    OBVIOUS
  <2>2. QED
    BY <2>1 DEF NoFile, Root, Name
<1>3. ASSUME NEW k, NEW w
      PROVE  Len(Name(k, w)) = 2 /\ Name(k, w)[1] = k /\ Name(k, w)[2] = w
  BY DEF Name
<1>4. QED
  BY <1>1, <1>2, <1>3 DEF Names

\* What the fields of the contents are.
LEMMA ContentFacts ==
  /\ EmptyHash.level = -1 /\ EmptyHash.ranks = 0 /\ EmptyHash.gen = 0
  /\ DOMAIN EmptyHash.entries = {}
  /\ \A k, n, g, S : /\ MapOf(k, n, g, S).level = k /\ MapOf(k, n, g, S).ranks = n
                     /\ MapOf(k, n, g, S).gen = g
                     /\ DOMAIN MapOf(k, n, g, S).entries = S
                     /\ \A q \in S : MapOf(k, n, g, S).entries[q] = Name(k - 1, q)
  /\ \A n, g, S : /\ DataOf(n, g, S).level = 0 /\ DataOf(n, g, S).ranks = n
                  /\ DataOf(n, g, S).gen = g
                  /\ DOMAIN DataOf(n, g, S).entries = S
                  /\ \A q \in S : DataOf(n, g, S).entries[q] = {Tree(g, n, q)}
<1>1. /\ EmptyHash.level = -1 /\ EmptyHash.ranks = 0 /\ EmptyHash.gen = 0
      /\ DOMAIN EmptyHash.entries = {}
  BY DEF EmptyHash, Content, NoLevel
<1>2. ASSUME NEW k, NEW n, NEW g, NEW S
      PROVE  /\ MapOf(k, n, g, S).level = k /\ MapOf(k, n, g, S).ranks = n
             /\ MapOf(k, n, g, S).gen = g
             /\ DOMAIN MapOf(k, n, g, S).entries = S
             /\ \A q \in S : MapOf(k, n, g, S).entries[q] = Name(k - 1, q)
  BY DEF MapOf, Content
<1>3. ASSUME NEW n, NEW g, NEW S
      PROVE  /\ DataOf(n, g, S).level = 0 /\ DataOf(n, g, S).ranks = n
             /\ DataOf(n, g, S).gen = g
             /\ DOMAIN DataOf(n, g, S).entries = S
             /\ \A q \in S : DataOf(n, g, S).entries[q] = {Tree(g, n, q)}
  BY DEF DataOf, Content
<1>4. QED
  BY <1>1, <1>2, <1>3

\* A map is a content.
LEMMA MapIsContent ==
  ASSUME NEW k \in Nat, NEW n \in Nat, NEW g \in Nat, NEW S \in SUBSET Nat
  PROVE  MapOf(k, n, g, S) \in Contents
BY DEF Contents

\* What fits after G writes fits after more.
LEMMA FitsLater ==
  ASSUME NEW G \in Nat, NEW H \in Nat, G <= H, NEW f, NEW c, Fits(G, f, c)
  PROVE  Fits(H, f, c)
<1>1. 1 .. G \subseteq 1 .. H
  OBVIOUS
<1>2. QED
  BY <1>1 DEF Fits, IsData, IsMap

\* A content that is no map and fits is empty or the data of some ranks.
LEMMA FitsLevelZero ==
  ASSUME NEW G \in Nat, NEW w, NEW c, Fits(G, Name(0, w), c)
  PROVE  c = EmptyHash \/ IsData(G, Name(0, w), c)
BY NameFacts DEF Fits, IsMap

\* A content that fits is a content.
LEMMA FitsContents ==
  ASSUME NEW G \in Nat, NEW f, NEW c, Fits(G, f, c)
  PROVE  c \in Contents
<1>1. 1 .. G \subseteq Nat
  OBVIOUS
<1>2. QED
  BY <1>1 DEF Fits, IsData, IsMap, Contents

\* A map of level k names files of level k - 1.
LEMMA FitsMap ==
  ASSUME NEW G \in Nat, NEW f, NEW c, Fits(G, f, c), c.level > 0
  PROVE  /\ c.level \in Nat \ {0}
         /\ f = Root \/ \E w \in Nat : f = Name(c.level, w)
         /\ \A q \in DOMAIN c.entries : c.entries[q] = Name(c.level - 1, q)
         /\ f = Root \/ f = Name(c.level, 0) => 0 \in DOMAIN c.entries
<1>1. IsMap(G, f, c)
  BY ContentFacts DEF Fits, IsData
<1>2. PICK k \in Nat \ {0}, n \in Nat \ {0}, g \in 1 .. G, S \in SUBSET Nat :
        /\ c = MapOf(k, n, g, S)
        /\ \/ f = Root /\ 0 \in S
           \/ \E w \in Nat : f = Name(k, w) /\ (w = 0 => 0 \in S)
  BY <1>1 DEF IsMap
<1>3. c.level = k /\ DOMAIN c.entries = S /\ \A q \in S : c.entries[q] = Name(k - 1, q)
  BY <1>2, ContentFacts
<1>4. f = Root \/ \E w \in Nat : f = Name(c.level, w)
  BY <1>2, <1>3
<1>5. ASSUME f = Root \/ f = Name(k, 0)
      PROVE  0 \in S
  <2>1. CASE f = Root /\ 0 \in S
    BY <2>1
  <2>2. CASE \E w \in Nat : f = Name(k, w) /\ (w = 0 => 0 \in S)
    <3>1. PICK w \in Nat : f = Name(k, w) /\ (w = 0 => 0 \in S)
      BY <2>2
    <3>2. w = 0
      BY <1>5, <3>1, NameFacts
    <3>3. QED
      BY <3>1, <3>2
  <2>3. QED
    BY <1>2, <2>1, <2>2
<1>6. QED
  BY <1>3, <1>4, <1>5

-----------------------------------------------------------------------------
(* The invariant. *)

Places == {"gather", "write", "opened", "map", "mapcheck", "data", "datacheck", "done"}

\* The local state has a value for each process; the processes of a kvtree_read_scatter
\* or kvtree_write_gather are the ranks of its job.
LocalInv ==
  /\ ranks \in Nat /\ gen \in Nat /\ whole \in Nat
  /\ \E m \in Nat \ {0} : Rank = 0 .. m - 1
  /\ op \in {"write_gather", "read_scatter"} => ranks \in Nat \ {0} /\ Rank = 0 .. ranks - 1
  /\ pc \in [Rank -> Places]
  /\ rc \in [Rank -> BOOLEAN]
  /\ file \in [Rank -> Names \cup {NoFile}]
  /\ hash \in [Rank -> Contents]
  /\ todo \in [Rank -> Seq(Items(gen))]
  /\ valid \subseteq Rank /\ level \in Nat \ {0}
  /\ \A r \in DOMAIN data : \A t \in data[r] : t.gen \in 1 .. gen

\* The processes are in the same part of the call, which is one of the call's own.
AllIn(S) == \A r \in Rank : pc[r] \in S

Writing == op \in {"write_gather", "write_to_gather"} /\ AllIn({"write", "opened"})

PhaseInv ==
  \/ op = "write_gather" /\ AllIn({"gather"})
  \/ Writing
  \/ op = "read_scatter" /\ AllIn({"map", "mapcheck"})
  \/ op = "read_scatter" /\ AllIn({"data", "datacheck"})
  \/ AllIn({"done"})

FilesInv ==
  /\ DOMAIN files \subseteq Names
  /\ \A f \in DOMAIN files : Fits(gen, f, files[f])

\* What is left to write: the files of kvtree_write_gather, of which only rank 0
\* writes those of writer 0; the parts and the root of kvtree_write_to_gather.
RootItem(i, n, g) ==
  /\ i.file = Root
  /\ \E S \in SUBSET Nat : 0 \in S /\ i.content = MapOf(1, n, g, S)

WriteInv ==
  /\ AllIn({"gather"}) => 0 \in valid /\ gen # 0
  /\ \A r \in Rank : pc[r] = "opened" => todo[r] # <<>>
  /\ op = "write_gather" =>
       \A r \in Rank : \A i \in 1 .. Len(todo[r]) :
         /\ todo[r][i].file = Root \/ \E k \in Nat : todo[r][i].file = Name(k, r)
         /\ todo[r][i].content.ranks = ranks
  /\ op = "write_to_gather" =>
       /\ Rank = {0} /\ ranks \in Nat \ {0}
       /\ \A i \in 1 .. Len(todo[0]) - 1 :
            \E w \in Nat : todo[0][i].file = Name(0, w) /\ todo[0][i].content.ranks = ranks
       /\ todo[0] # <<>> => RootItem(todo[0][Len(todo[0])], ranks, gen)

\* Rank 0 reads a file in each step, every other rank at most its own file of the
\* same level.
MapInv ==
  AllIn({"map", "mapcheck"}) /\ op = "read_scatter" =>
    /\ file[0] # NoFile
    /\ \/ \A r \in Rank : file[r] = IF r = 0 THEN Root ELSE NoFile
       \/ \E k \in Nat \ {0} : \A r \in Rank : file[r] \in {NoFile, Name(k, r)}
    /\ \A r \in Rank : pc[r] = "mapcheck" =>
         IF file[r] = NoFile THEN hash[r] = EmptyHash ELSE Fits(gen, file[r], hash[r])

DataInv ==
  AllIn({"data", "datacheck"}) /\ op = "read_scatter" =>
    /\ pc[0] = "data" => file[0] # NoFile
    /\ \A r \in Rank : rc[r] /\ pc[r] = "data" => file[r] \in {NoFile, Name(0, r)}
    /\ \A r \in Rank : rc[r] /\ pc[r] = "datacheck" =>
         \/ hash[r] = EmptyHash
         \/ \E g \in 1 .. gen, S \in SUBSET Nat : hash[r] = DataOf(ranks, g, S)

\* The file of rank 0 decides which sizes a complete write can be read with.
RefuseInv ==
  /\ Writing \/ AllIn({"gather"}) => whole = 0
  /\ (Writing \/ AllIn({"gather"})) /\ rc[0] =>
       \/ \E i \in 1 .. Len(todo[0]) : todo[0][i].file = Name(0, 0)
       \/ Name(0, 0) \in DOMAIN files /\ files[Name(0, 0)].ranks = ranks
  /\ whole # 0 => Name(0, 0) \in DOMAIN files /\ files[Name(0, 0)].ranks = whole
  /\ op = "read_scatter" /\ pc[0] = "datacheck" /\ whole \notin {0, ranks} => ~rc[0]

ResultInv == OwnTreesOnly /\ OtherSizeRefused

GatherInv == /\ LocalInv /\ PhaseInv /\ FilesInv /\ WriteInv /\ MapInv /\ DataInv
             /\ RefuseInv /\ ResultInv

\* The invariant says what the runs check.
LEMMA GatherInvImplies ==
  GatherInv => TypeOK /\ OneFilePerReader /\ RankZeroReads /\ OwnTreesOnly /\ OtherSizeRefused
<1> SUFFICES ASSUME GatherInv
             PROVE  TypeOK /\ OneFilePerReader /\ RankZeroReads /\ OwnTreesOnly /\ OtherSizeRefused
  OBVIOUS
<1> USE DEF GatherInv
<1>1. ASSUME NEW f \in DOMAIN files
      PROVE  Len(f) \in {0, 2} /\ files[f].level \in Nat \cup {NoLevel}
  <2>1. f \in Names /\ Fits(gen, f, files[f])
    BY DEF FilesInv
  <2>2. Len(f) \in {0, 2}
    BY <2>1, NameFacts DEF Names
  <2>3. files[f].level \in Nat \cup {NoLevel}
    BY <2>1, ContentFacts DEF Fits, IsData, IsMap, NoLevel
  <2>4. QED
    BY <2>2, <2>3
<1>2. TypeOK
  BY <1>1 DEF LocalInv, TypeOK, Places
<1>3. OneFilePerReader
  <2>1. SUFFICES ASSUME NEW f \in DOMAIN files, files[f].level > 0
                 PROVE  /\ f = Root \/ f[1] = files[f].level
                        /\ \A w \in DOMAIN files[f].entries :
                             files[f].entries[w] = Name(files[f].level - 1, w)
    BY DEF OneFilePerReader
  <2>2. QED
    BY <2>1, FitsMap, NameFacts DEF FilesInv, LocalInv
<1>4. RankZeroReads
  <2>1. 0 \in Rank
    BY DEF LocalInv
  <2>2. QED
    BY <2>1 DEF RankZeroReads, MapInv, DataInv, PhaseInv, AllIn, Writing
<1>5. QED
  BY <1>2, <1>3, <1>4 DEF ResultInv

-----------------------------------------------------------------------------
(* The steps of kvtree_read_scatter. *)

\* The invariant holds before the first call.
LEMMA GatherInvInit == Init => GatherInv
<1> SUFFICES ASSUME Init PROVE GatherInv
  OBVIOUS
<1> USE DEF Init
<1>1. Rank = {0} /\ {0} = 0 .. 1 - 1
  BY DEF Rank
<1>2. LocalInv
  <2>1. EmptyHash \in Contents
    BY DEF Contents
  <2>2. todo \in [Rank -> Seq(Items(gen))]
    BY <1>1
  <2>3. QED
    BY <1>1, <2>1, <2>2 DEF LocalInv, Places, NoData
<1>3. PhaseInv
  BY <1>1 DEF PhaseInv, AllIn
<1>4. FilesInv
  BY DEF FilesInv
<1>5. WriteInv /\ MapInv /\ DataInv /\ RefuseInv
  BY <1>1 DEF WriteInv, MapInv, DataInv, RefuseInv, AllIn, Writing
<1>6. ResultInv
  BY DEF ResultInv, OwnTreesOnly, OtherSizeRefused
<1>7. QED
  BY <1>2, <1>3, <1>4, <1>5, <1>6 DEF GatherInv

\* Rank 0 is a process of every call.
LEMMA RankZero ==
  ASSUME LocalInv
  PROVE  0 \in Rank /\ Rank \subseteq Nat
BY DEF LocalInv

\* What a rank reads fits the name of the file.
LEMMA LoadedFits ==
  ASSUME LocalInv, FilesInv, NEW r \in Rank
  PROVE  /\ Loaded(r) \in Contents
         /\ Fits(gen, file[r], Loaded(r))
         /\ file[r] = NoFile => Loaded(r) = EmptyHash /\ ~Readable(r)
<1>1. ASSUME Readable(r)
      PROVE  Loaded(r) = files[file[r]] /\ Fits(gen, file[r], files[file[r]]) /\ file[r] \in Names
  BY <1>1 DEF Readable, Loaded, FilesInv
<1>2. ASSUME ~Readable(r)
      PROVE  Loaded(r) = EmptyHash
  BY <1>2 DEF Loaded
<1>3. Fits(gen, file[r], Loaded(r))
  BY <1>1, <1>2 DEF Fits
<1>4. file[r] = NoFile => ~Readable(r)
  BY <1>1, NameFacts
<1>5. QED
  BY <1>2, <1>3, <1>4, FitsContents DEF LocalInv

\* kvtree_read_scatter_map reads a file.
LEMMA ReadMapStep ==
  ASSUME GatherInv, NEW r \in Rank, ReadMap(r)
  PROVE  GatherInv'
<1> USE DEF GatherInv
<1>1. /\ op = "read_scatter" /\ AllIn({"map", "mapcheck"}) /\ pc[r] = "map"
      /\ pc \in [Rank -> Places] /\ rc \in [Rank -> BOOLEAN] /\ hash \in [Rank -> Contents]
  BY DEF ReadMap, PhaseInv, AllIn, Writing, LocalInv
<1>2. /\ pc' = [pc EXCEPT ![r] = "mapcheck"] /\ hash' = [hash EXCEPT ![r] = Loaded(r)]
      /\ rc' = [rc EXCEPT ![r] = file[r] = NoFile \/ Readable(r)]
      /\ UNCHANGED <<files, op, ranks, level, valid, todo, file, data, gen, whole>>
      /\ Rank' = Rank
  BY <1>1 DEF ReadMap, Rank
<1>3. LocalInv'
  <2>1. Loaded(r) \in Contents
    BY LoadedFits
  <2>2. /\ pc' \in [Rank -> Places] /\ hash' \in [Rank -> Contents]
        /\ rc' \in [Rank -> BOOLEAN]
    BY <1>1, <1>2, <2>1 DEF Places
  <2>3. QED
    BY <1>2, <2>2 DEF LocalInv
<1>4. AllIn({"map", "mapcheck"})'
  BY <1>1, <1>2 DEF AllIn
<1>5. PhaseInv' /\ FilesInv'
  BY <1>1, <1>2, <1>4 DEF PhaseInv, FilesInv
<1>6. 0 \in Rank
  BY RankZero
<1>7. WriteInv' /\ DataInv' /\ RefuseInv'
  BY <1>1, <1>2, <1>4, <1>6 DEF WriteInv, DataInv, RefuseInv, AllIn, Writing
<1>8. MapInv'
  <2>1. \A q \in Rank : pc'[q] = "mapcheck" =>
          IF file[q] = NoFile THEN hash'[q] = EmptyHash ELSE Fits(gen, file[q], hash'[q])
    BY <1>1, <1>2, LoadedFits DEF MapInv
  <2>2. QED
    BY <1>1, <1>2, <2>1 DEF MapInv
<1>9. ResultInv'
  BY <1>4, <1>6, <1>2 DEF ResultInv, OwnTreesOnly, OtherSizeRefused, Idle, AllIn
<1>10. QED
  BY <1>3, <1>5, <1>7, <1>8, <1>9

\* kvtree_read_scatter reads a data file.
LEMMA ReadDataStep ==
  ASSUME GatherInv, NEW r \in Rank, ReadData(r)
  PROVE  GatherInv'
<1> USE DEF GatherInv
<1>1. /\ op = "read_scatter" /\ AllIn({"data", "datacheck"}) /\ pc[r] = "data"
      /\ pc \in [Rank -> Places] /\ rc \in [Rank -> BOOLEAN] /\ hash \in [Rank -> Contents]
      /\ file \in [Rank -> Names \cup {NoFile}]
  BY DEF ReadData, PhaseInv, AllIn, Writing, LocalInv
<1>2. /\ pc' = [pc EXCEPT ![r] = "datacheck"] /\ hash' = [hash EXCEPT ![r] = Loaded(r)]
      /\ rc' = [rc EXCEPT ![r] = rc[r] /\ (file[r] = NoFile \/ RanksMatch(r))]
      /\ file' = [file EXCEPT ![r] = NoFile]
      /\ UNCHANGED <<files, op, ranks, level, valid, todo, data, gen, whole>>
      /\ Rank' = Rank
  BY <1>1 DEF ReadData, Rank
<1>3. LocalInv'
  <2>1. Loaded(r) \in Contents
    BY LoadedFits
  <2>2. /\ pc' \in [Rank -> Places] /\ hash' \in [Rank -> Contents]
        /\ rc' \in [Rank -> BOOLEAN] /\ file' \in [Rank -> Names \cup {NoFile}]
    BY <1>1, <1>2, <2>1 DEF Places
  <2>3. QED
    BY <1>2, <2>2 DEF LocalInv
<1>4. AllIn({"data", "datacheck"})'
  BY <1>1, <1>2 DEF AllIn
<1>5. PhaseInv' /\ FilesInv'
  BY <1>1, <1>2, <1>4 DEF PhaseInv, FilesInv
<1>6. 0 \in Rank
  BY RankZero
<1>7. WriteInv' /\ MapInv'
  BY <1>1, <1>2, <1>4, <1>6 DEF WriteInv, MapInv, AllIn
<1>8. ASSUME rc'[r]
      PROVE  /\ file[r] \in {NoFile, Name(0, r)} /\ rc[r] /\ r \in Nat
             /\ file[r] # NoFile => Loaded(r).ranks = ranks
  BY <1>1, <1>2, <1>8, RankZero DEF DataInv, RanksMatch
<1>9. DataInv'
  <2>1. ASSUME rc'[r]
        PROVE  \/ Loaded(r) = EmptyHash
               \/ \E g \in 1 .. gen, S \in SUBSET Nat : Loaded(r) = DataOf(ranks, g, S)
    <3>1. CASE file[r] = NoFile
      BY <3>1, LoadedFits
    <3>2. CASE file[r] = Name(0, r)
      <4>1. Loaded(r) = EmptyHash \/ IsData(gen, Name(0, r), Loaded(r))
        BY <3>2, LoadedFits, FitsLevelZero DEF LocalInv
      <4>2. Loaded(r).ranks = ranks
        BY <2>1, <1>8, <3>2, NameFacts
      <4>3. QED
        BY <4>1, <4>2, ContentFacts DEF IsData
    <3>3. QED
      BY <2>1, <1>8, <3>1, <3>2
  <2>2. QED
    BY <1>1, <1>2, <1>6, <2>1 DEF DataInv
<1>10. RefuseInv'
  <2>1. ASSUME r = 0, rc'[r], whole \notin {0, ranks}
        PROVE  FALSE
    <3>1. file[0] = Name(0, 0)
      BY <1>1, <1>8, <2>1 DEF DataInv
    <3>2. Loaded(0).ranks = ranks
      BY <3>1, <2>1, <1>8, NameFacts
    <3>3. Loaded(0) = files[Name(0, 0)] /\ files[Name(0, 0)].ranks = whole
      BY <2>1, <3>1 DEF RefuseInv, Loaded, Readable
    <3>4. QED
      BY <2>1, <3>2, <3>3
  <2>2. whole \notin {0, ranks} /\ pc'[0] = "datacheck" => ~rc'[0]
    BY <1>1, <1>2, <1>6, <2>1 DEF RefuseInv
  <2>3. QED
    BY <1>1, <1>2, <1>4, <1>6, <2>2 DEF RefuseInv, AllIn, Writing
<1>11. ResultInv'
  BY <1>4, <1>6, <1>2 DEF ResultInv, OwnTreesOnly, OtherSizeRefused, Idle, AllIn
<1>12. QED
  BY <1>3, <1>5, <1>7, <1>9, <1>10, <1>11

\* A system call of a reader fails.
LEMMA ReadErrorStep ==
  ASSUME GatherInv, NEW r \in Rank, ReadError(r)
  PROVE  GatherInv'
<1> USE DEF GatherInv
<1>1. /\ op = "read_scatter" /\ pc[r] \in {"map", "data"} /\ file[r] # NoFile
      /\ pc[r] = "map" => AllIn({"map", "mapcheck"})
      /\ pc[r] = "data" => AllIn({"data", "datacheck"})
      /\ pc \in [Rank -> Places] /\ rc \in [Rank -> BOOLEAN] /\ hash \in [Rank -> Contents]
      /\ file \in [Rank -> Names \cup {NoFile}]
  BY DEF ReadError, PhaseInv, AllIn, Writing, LocalInv
<1>2. /\ hash' = [hash EXCEPT ![r] = EmptyHash]
      /\ rc' = [rc EXCEPT ![r] = FALSE]
      /\ UNCHANGED <<files, op, ranks, level, valid, todo, data, gen, whole>>
      /\ Rank' = Rank
  BY <1>1 DEF ReadError, Rank
<1>3. /\ pc[r] = "map" => pc' = [pc EXCEPT ![r] = "mapcheck"] /\ UNCHANGED file
      /\ pc[r] = "data" => /\ pc' = [pc EXCEPT ![r] = "datacheck"]
                           /\ file' = [file EXCEPT ![r] = NoFile]
  BY <1>1 DEF ReadError
<1>4. LocalInv'
  <2>1. EmptyHash \in Contents
    BY DEF Contents
  <2>2. /\ pc' \in [Rank -> Places] /\ hash' \in [Rank -> Contents]
        /\ rc' \in [Rank -> BOOLEAN] /\ file' \in [Rank -> Names \cup {NoFile}]
    BY <1>1, <1>2, <1>3, <2>1 DEF Places
  <2>3. QED
    BY <1>2, <2>2 DEF LocalInv
<1>5. 0 \in Rank
  BY RankZero
<1>6. CASE pc[r] = "map"
  <2>1. AllIn({"map", "mapcheck"})'
    BY <1>1, <1>2, <1>3, <1>6 DEF AllIn
  <2>2. PhaseInv' /\ FilesInv'
    BY <1>1, <1>2, <2>1 DEF PhaseInv, FilesInv
  <2>3. WriteInv' /\ DataInv' /\ RefuseInv'
    BY <1>1, <1>2, <1>3, <1>5, <1>6, <2>1 DEF WriteInv, DataInv, RefuseInv, AllIn, Writing
  <2>4. MapInv'
    <3>1. \A q \in Rank : pc'[q] = "mapcheck" =>
            IF file[q] = NoFile THEN hash'[q] = EmptyHash ELSE Fits(gen, file[q], hash'[q])
      BY <1>1, <1>2, <1>3, <1>6 DEF MapInv, Fits
    <3>2. QED
      BY <1>1, <1>2, <1>3, <1>6, <3>1 DEF MapInv
  <2>5. ResultInv'
    BY <2>1, <1>5, <1>2 DEF ResultInv, OwnTreesOnly, OtherSizeRefused, Idle, AllIn
  <2>6. QED
    BY <1>4, <2>2, <2>3, <2>4, <2>5
<1>7. CASE pc[r] = "data"
  <2>1. AllIn({"data", "datacheck"})'
    BY <1>1, <1>2, <1>3, <1>7 DEF AllIn
  <2>2. PhaseInv' /\ FilesInv'
    BY <1>1, <1>2, <2>1 DEF PhaseInv, FilesInv
  <2>3. WriteInv' /\ MapInv'
    BY <1>1, <1>2, <1>3, <1>5, <1>7, <2>1 DEF WriteInv, MapInv, AllIn
  <2>4. DataInv'
    BY <1>1, <1>2, <1>3, <1>5, <1>7 DEF DataInv
  <2>5. RefuseInv'
    BY <1>1, <1>2, <1>3, <1>5, <1>7, <2>1 DEF RefuseInv, AllIn, Writing
  <2>6. ResultInv'
    BY <2>1, <1>5, <1>2 DEF ResultInv, OwnTreesOnly, OtherSizeRefused, Idle, AllIn
  <2>7. QED
    BY <1>4, <2>2, <2>3, <2>4, <2>5, <2>6
<1>8. QED
  BY <1>1, <1>6, <1>7

\* If every rank has read its map, the maps have the level that rank 0 broadcasts
\* and send rank 0 on: every rank that gets an entry goes to its own file one
\* level below.
LEMMA MapsAgree ==
  ASSUME GatherInv, op = "read_scatter", \A r \in Rank : pc[r] = "mapcheck", MapRead
  PROVE  /\ LevelId \in Nat \ {0}
         /\ \A r \in Rank : NextFile(r) \in {NoFile, Name(LevelId - 1, r)}
         /\ NextFile(0) = Name(LevelId - 1, 0)
         /\ \A r \in Rank : NextFile(r) = NoFile <=> Senders(r) = {}
<1> USE DEF GatherInv
<1>1. 0 \in Rank /\ gen \in Nat /\ AllIn({"map", "mapcheck"})
  BY RankZero DEF LocalInv, AllIn
<1>2. /\ file[0] # NoFile
      /\ \/ \A r \in Rank : file[r] = IF r = 0 THEN Root ELSE NoFile
         \/ \E k \in Nat \ {0} : \A r \in Rank : file[r] \in {NoFile, Name(k, r)}
      /\ \A r \in Rank :
           IF file[r] = NoFile THEN hash[r] = EmptyHash ELSE Fits(gen, file[r], hash[r])
  BY <1>1 DEF MapInv
<1>3. \A r \in Rank : file[r] # NoFile => Fits(gen, file[r], hash[r]) /\ hash[r].level > 0
  BY <1>2 DEF MapRead
<1>4. LevelId = hash[0].level /\ LevelId \in Nat \ {0}
  BY <1>1, <1>2, <1>3, FitsMap DEF LevelId
<1>5. ASSUME NEW s \in Rank, file[s] # NoFile
      PROVE  /\ hash[s].level = LevelId
             /\ \A q \in DOMAIN hash[s].entries : hash[s].entries[q] = Name(LevelId - 1, q)
  <2>1. \A q \in DOMAIN hash[s].entries : hash[s].entries[q] = Name(hash[s].level - 1, q)
    BY <1>1, <1>3, <1>5, FitsMap
  <2>2. CASE \A r \in Rank : file[r] = IF r = 0 THEN Root ELSE NoFile
    BY <1>4, <1>5, <2>1, <2>2
  <2>3. CASE \E k \in Nat \ {0} : \A r \in Rank : file[r] \in {NoFile, Name(k, r)}
    <3>1. PICK k \in Nat \ {0} : \A r \in Rank : file[r] \in {NoFile, Name(k, r)}
      BY <2>3
    <3>2. ASSUME NEW r \in Rank, file[r] # NoFile
          PROVE  hash[r].level = k
      <4>1. \/ file[r] = Root
            \/ \E w \in Nat : file[r] = Name(hash[r].level, w)
        BY <1>1, <1>3, <3>2, FitsMap
      <4>2. file[r] = Name(k, r)
        BY <3>1, <3>2
      <4>3. QED
        BY <4>1, <4>2, NameFacts
    <3>3. QED
      BY <1>1, <1>2, <1>4, <1>5, <2>1, <3>2
  <2>4. QED
    BY <1>2, <2>2, <2>3
<1>6. \A s \in Rank : file[s] = NoFile => DOMAIN hash[s].entries = {}
  BY <1>2, ContentFacts
<1>7. ASSUME NEW r \in Rank
      PROVE  /\ NextFile(r) \in {NoFile, Name(LevelId - 1, r)}
             /\ NextFile(r) = NoFile <=> Senders(r) = {}
  <2>1. ASSUME NEW s \in Senders(r)
        PROVE  hash[s].entries[r] = Name(LevelId - 1, r)
    BY <1>5, <1>6 DEF Senders
  <2>2. QED
    BY <2>1, NameFacts DEF NextFile
<1>8. NextFile(0) = Name(LevelId - 1, 0)
  <2>1. file[0] = Root \/ file[0] = Name(LevelId, 0)
    <3>1. \/ file[0] = Root
          \/ \E w \in Nat : file[0] = Name(hash[0].level, w)
      BY <1>1, <1>2, <1>3, FitsMap
    <3>2. file[0] # Root => \E k \in Nat : file[0] = Name(k, 0)
      BY <1>1, <1>2
    <3>3. QED
      BY <1>4, <3>1, <3>2, NameFacts
  <2>2. 0 \in DOMAIN hash[0].entries
    BY <1>1, <1>2, <1>3, <1>4, <2>1, FitsMap
  <2>3. 0 \in Senders(0)
    BY <1>1, <2>2 DEF Senders
  <2>4. \A s \in Senders(0) : hash[s].entries[0] = Name(LevelId - 1, 0)
    BY <1>5, <1>6 DEF Senders
  <2>5. QED
    BY <2>3, <2>4 DEF NextFile
<1>9. QED
  BY <1>4, <1>7, <1>8

\* The ranks go on to the files one level below.
LEMMA ScatterMapStep ==
  ASSUME GatherInv, ScatterMap
  PROVE  GatherInv'
<1> USE DEF GatherInv
<1>1. 0 \in Rank
  BY RankZero
<1>2. op = "read_scatter" /\ MapRead /\ \A r \in Rank : pc[r] = "mapcheck"
  BY <1>1 DEF ScatterMap, PhaseInv, AllIn, Writing
<1>3. PICK k \in Nat : k = LevelId - 1
  BY <1>2, MapsAgree
<1>4. /\ pc' = [r \in Rank |-> IF k > 0 THEN "map" ELSE "data"]
      /\ hash' = [r \in Rank |-> EmptyHash]
      /\ UNCHANGED <<files, op, ranks, rc, level, valid, todo, data, gen, whole>>
      /\ Rank' = Rank
  <2>1. LevelId > 1 <=> k > 0
    BY <1>2, <1>3, MapsAgree
  <2>2. QED
    BY <2>1 DEF ScatterMap, Rank
<1>5. /\ \A r \in Rank : file'[r] \in {NoFile, Name(k, r)}
      /\ file'[0] # NoFile
      /\ file' = [r \in Rank |-> file'[r]]
  BY <1>1, <1>2, <1>3, MapsAgree, NameFacts DEF ScatterMap
<1>6. LocalInv'
  <2>1. EmptyHash \in Contents
    BY DEF Contents
  <2>2. \A r \in Rank : file'[r] \in Names \cup {NoFile}
    BY <1>5, RankZero DEF Names
  <2>3. file' \in [Rank -> Names \cup {NoFile}]
    BY <1>5, <2>2
  <2>4. pc' \in [Rank -> Places] /\ hash' \in [Rank -> Contents]
    BY <1>4, <2>1 DEF Places
  <2>5. QED
    BY <1>4, <2>3, <2>4 DEF LocalInv
<1>7. CASE k > 0
  <2>1. \A r \in Rank : pc'[r] = "map"
    BY <1>4, <1>7
  <2>2. PhaseInv' /\ FilesInv'
    BY <1>2, <1>4, <2>1 DEF PhaseInv, FilesInv, AllIn
  <2>3. MapInv'
    BY <1>4, <1>5, <1>7, <2>1 DEF MapInv
  <2>4. WriteInv' /\ DataInv' /\ RefuseInv'
    BY <1>1, <1>2, <1>4, <2>1 DEF WriteInv, DataInv, RefuseInv, AllIn, Writing
  <2>5. ResultInv'
    BY <1>1, <1>4, <2>1 DEF ResultInv, OwnTreesOnly, OtherSizeRefused, Idle
  <2>6. QED
    BY <1>6, <2>2, <2>3, <2>4, <2>5
<1>8. CASE k = 0
  <2>1. \A r \in Rank : pc'[r] = "data"
    BY <1>4, <1>8
  <2>2. PhaseInv' /\ FilesInv'
    BY <1>2, <1>4, <2>1 DEF PhaseInv, FilesInv, AllIn
  <2>3. DataInv'
    BY <1>4, <1>5, <1>8, <2>1 DEF DataInv
  <2>4. WriteInv' /\ MapInv' /\ RefuseInv'
    BY <1>1, <1>2, <1>4, <2>1 DEF WriteInv, MapInv, RefuseInv, AllIn, Writing
  <2>5. ResultInv'
    BY <1>1, <1>4, <2>1 DEF ResultInv, OwnTreesOnly, OtherSizeRefused, Idle
  <2>6. QED
    BY <1>6, <2>2, <2>3, <2>4, <2>5
<1>9. QED
  BY <1>7, <1>8

\* Somebody could not read its map.
LEMMA ScatterMapFailsStep ==
  ASSUME GatherInv, ScatterMapFails
  PROVE  GatherInv'
<1> USE DEF GatherInv
<1>1. 0 \in Rank
  BY RankZero
<1>2. op = "read_scatter" /\ \A r \in Rank : pc[r] = "mapcheck"
  BY <1>1 DEF ScatterMapFails, PhaseInv, AllIn, Writing
<1>3. /\ pc' = [r \in Rank |-> "data"]
      /\ hash' = [r \in Rank |-> EmptyHash]
      /\ rc' = [r \in Rank |-> FALSE]
      /\ UNCHANGED <<files, op, ranks, level, valid, todo, file, data, gen, whole>>
      /\ Rank' = Rank
  BY DEF ScatterMapFails, Rank
<1>4. LocalInv'
  <2>1. EmptyHash \in Contents
    BY DEF Contents
  <2>2. /\ pc' \in [Rank -> Places] /\ hash' \in [Rank -> Contents]
        /\ rc' \in [Rank -> BOOLEAN]
    BY <1>3, <2>1 DEF Places
  <2>3. QED
    BY <1>3, <2>2 DEF LocalInv
<1>5. \A r \in Rank : pc'[r] = "data"
  BY <1>3
<1>6. PhaseInv' /\ FilesInv'
  BY <1>2, <1>3, <1>5 DEF PhaseInv, FilesInv, AllIn
<1>7. DataInv'
  BY <1>1, <1>2, <1>3, <1>5 DEF DataInv, MapInv, AllIn
<1>8. WriteInv' /\ MapInv' /\ RefuseInv'
  BY <1>1, <1>2, <1>3, <1>5 DEF WriteInv, MapInv, RefuseInv, AllIn, Writing
<1>9. ResultInv'
  BY <1>1, <1>3, <1>5 DEF ResultInv, OwnTreesOnly, OtherSizeRefused, Idle
<1>10. QED
  BY <1>4, <1>6, <1>7, <1>8, <1>9

\* The trees that have been read reach their ranks.
LEMMA ScatterStep ==
  ASSUME GatherInv, Scatter
  PROVE  GatherInv'
<1> USE DEF GatherInv
<1>1. 0 \in Rank
  BY RankZero
<1>2. op = "read_scatter" /\ \A r \in Rank : pc[r] = "datacheck"
  BY <1>1 DEF Scatter, PhaseInv, AllIn, Writing
<1>3. /\ pc' = [r \in Rank |-> "done"]
      /\ hash' = [r \in Rank |-> EmptyHash]
      /\ rc' = [r \in Rank |-> AllTrue] /\ level' = 1
      /\ data' = IF AllTrue
                 THEN [r \in Rank |-> UNION {hash[s].entries[r] : s \in Senders(r)}]
                 ELSE data
      /\ UNCHANGED <<files, op, ranks, valid, todo, file, gen, whole>>
      /\ Rank' = Rank
  BY DEF Scatter, Locals, Rank
<1>4. ASSUME AllTrue, NEW r \in Rank, NEW t \in data'[r]
      PROVE  t.rank = r /\ t.ranks = ranks /\ t.gen \in 1 .. gen
  <2>1. PICK s \in Senders(r) : t \in hash[s].entries[r]
    BY <1>3, <1>4
  <2>2. s \in Rank /\ r \in DOMAIN hash[s].entries /\ rc[s]
    BY <1>4, <2>1 DEF Senders, AllTrue
  <2>3. hash[s] # EmptyHash
    BY <2>2, ContentFacts
  <2>4. PICK g \in 1 .. gen, S \in SUBSET Nat : hash[s] = DataOf(ranks, g, S)
    BY <1>2, <2>2, <2>3 DEF DataInv, AllIn
  <2>5. t = Tree(g, ranks, r)
    BY <2>1, <2>2, <2>4, ContentFacts
  <2>6. QED
    BY <2>5 DEF Tree
<1>5. AllTrue \in BOOLEAN
  BY DEF AllTrue
<1>6. LocalInv'
  <2>1. EmptyHash \in Contents
    BY DEF Contents
  <2>2. /\ pc' \in [Rank -> Places] /\ hash' \in [Rank -> Contents]
        /\ rc' \in [Rank -> BOOLEAN] /\ level' \in Nat \ {0}
    BY <1>3, <1>5, <2>1 DEF Places
  <2>3. \A r \in DOMAIN data' : \A t \in data'[r] : t.gen \in 1 .. gen
    <3>1. CASE AllTrue
      BY <1>3, <1>4, <3>1
    <3>2. CASE ~AllTrue
      BY <1>3, <3>2 DEF LocalInv
    <3>3. QED
      BY <3>1, <3>2
  <2>4. QED
    BY <1>3, <2>2, <2>3 DEF LocalInv
<1>7. \A r \in Rank : pc'[r] = "done"
  BY <1>3
<1>8. PhaseInv' /\ FilesInv'
  BY <1>2, <1>3, <1>7 DEF PhaseInv, FilesInv, AllIn
<1>9. WriteInv' /\ MapInv' /\ DataInv' /\ RefuseInv'
  BY <1>1, <1>2, <1>3, <1>7 DEF WriteInv, MapInv, DataInv, RefuseInv, AllIn, Writing
<1>10. ResultInv'
  <2>1. OwnTreesOnly'
    BY <1>1, <1>3, <1>4, <1>5 DEF OwnTreesOnly
  <2>2. whole \notin {0, ranks} => ~AllTrue
    BY <1>1, <1>2 DEF RefuseInv, AllTrue
  <2>3. OtherSizeRefused'
    BY <1>3, <2>2, <1>5 DEF OtherSizeRefused
  <2>4. QED
    BY <2>1, <2>3 DEF ResultInv
<1>11. QED
  BY <1>6, <1>8, <1>9, <1>10

-----------------------------------------------------------------------------
(* The steps of the writers. *)

\* An item to write fits, and rank 0 alone writes prefix.0.0, with the RANKS of
\* the call.
LEMMA ItemFits ==
  ASSUME GatherInv, Writing, NEW r \in Rank, NEW i \in 1 .. Len(todo[r])
  PROVE  /\ todo[r][i] \in Items(gen)
         /\ todo[r][i].file \in Names
         /\ Fits(gen, todo[r][i].file, todo[r][i].content)
         /\ todo[r][i].file = Name(0, 0) => r = 0 /\ todo[r][i].content.ranks = ranks
<1> USE DEF GatherInv
<1>1. todo[r] \in Seq(Items(gen)) /\ todo[r][i] \in Items(gen)
  BY DEF LocalInv
<1>2. todo[r][i].file \in Names /\ Fits(gen, todo[r][i].file, todo[r][i].content)
  BY <1>1 DEF Items
<1>3. ASSUME todo[r][i].file = Name(0, 0)
      PROVE  r = 0 /\ todo[r][i].content.ranks = ranks
  <2>1. CASE op = "write_gather"
    BY <1>3, <2>1, NameFacts DEF WriteInv
  <2>2. CASE op = "write_to_gather"
    <3>1. r = 0
      BY <2>2 DEF WriteInv
    <3>2. i # Len(todo[0])
      BY <1>1, <1>3, <2>2, <3>1, NameFacts DEF WriteInv, RootItem
    <3>3. Len(todo[0]) \in Nat /\ i \in 1 .. Len(todo[0]) - 1
      BY <1>1, <3>1, <3>2
    <3>4. QED
      BY <2>2, <3>1, <3>3 DEF WriteInv
  <2>3. QED
    BY <2>1, <2>2 DEF Writing
<1>4. QED
  BY <1>1, <1>2, <1>3

\* The first item is the next to be written.
LEMMA NextWriteIs ==
  ASSUME GatherInv, NEW r \in Rank, todo[r] # <<>>
  PROVE  /\ todo[r] \in Seq(Items(gen)) /\ Len(todo[r]) \in Nat \ {0}
         /\ NextWrite(r) = todo[r][1]
         /\ Tail(todo[r]) \in Seq(Items(gen))
         /\ Len(Tail(todo[r])) = Len(todo[r]) - 1
         /\ \A i \in 1 .. Len(todo[r]) - 1 : Tail(todo[r])[i] = todo[r][i + 1]
<1>1. todo[r] \in Seq(Items(gen))
  BY DEF GatherInv, LocalInv
<1>2. QED
  BY <1>1 DEF NextWrite

\* Storing a content that fits leaves files that fit.
LEMMA StoreFits ==
  ASSUME FilesInv, NEW f \in Names, NEW c, Fits(gen, f, c), gen' = gen, files' = Store(f, c)
  PROVE  /\ FilesInv'
         /\ f \in DOMAIN files' /\ files'[f] = c
         /\ \A g : g # f => (g \in DOMAIN files' <=> g \in DOMAIN files)
         /\ \A g \in DOMAIN files : g # f => files'[g] = files[g]
BY DEF FilesInv, Store

\* Losing files leaves files that fit.
LEMMA LoseFits ==
  ASSUME FilesInv, NEW fs, gen' = gen, files' = Lose(fs)
  PROVE  /\ FilesInv'
         /\ DOMAIN files' = DOMAIN files \ fs
         /\ \A g \in DOMAIN files' : files'[g] = files[g]
BY DEF FilesInv, Lose, Restrict

\* A file is opened and truncated.
LEMMA OpenFileStep ==
  ASSUME GatherInv, NEW r \in Rank, OpenFile(r)
  PROVE  GatherInv'
<1> USE DEF GatherInv
<1>1. 0 \in Rank
  BY RankZero
<1>2. /\ Writing /\ pc[r] = "write" /\ todo[r] # <<>>
      /\ pc \in [Rank -> Places]
  BY DEF OpenFile, PhaseInv, AllIn, Writing, LocalInv
<1>3. /\ pc' = [pc EXCEPT ![r] = "opened"]
      /\ files' = Store(NextWrite(r).file, EmptyHash)
      /\ UNCHANGED <<op, ranks, rc, level, valid, todo, file, hash, data, gen, whole>>
      /\ Rank' = Rank
  BY <1>2 DEF OpenFile, Rank
<1>4. PICK f \in Names : f = NextWrite(r).file
  BY <1>2, NextWriteIs, ItemFits
<1>5. f = Name(0, 0) => \E i \in 1 .. Len(todo[0]) : todo[0][i].file = Name(0, 0)
  <2>1. 1 \in 1 .. Len(todo[r]) /\ f = todo[r][1].file
    BY <1>2, <1>4, NextWriteIs
  <2>2. QED
    BY <1>2, <2>1, ItemFits
<1>6. /\ FilesInv'
      /\ \A g : g # f => (g \in DOMAIN files' <=> g \in DOMAIN files)
      /\ \A g \in DOMAIN files : g # f => files'[g] = files[g]
  <2>1. Fits(gen, f, EmptyHash)
    BY DEF Fits
  <2>2. QED
    BY <1>3, <1>4, <2>1, StoreFits
<1>7. LocalInv'
  <2>1. pc' \in [Rank -> Places]
    BY <1>2, <1>3 DEF Places
  <2>2. QED
    BY <1>3, <2>1 DEF LocalInv
<1>8. Writing' /\ PhaseInv'
  BY <1>2, <1>3 DEF Writing, PhaseInv, AllIn
<1>9. WriteInv' /\ MapInv' /\ DataInv'
  BY <1>1, <1>2, <1>3, <1>8 DEF WriteInv, MapInv, DataInv, Writing, AllIn
<1>10. RefuseInv'
  BY <1>1, <1>2, <1>3, <1>5, <1>6 DEF RefuseInv, Writing, AllIn
<1>11. ResultInv'
  BY <1>1, <1>3, <1>8 DEF ResultInv, OwnTreesOnly, OtherSizeRefused, Idle, Writing
<1>12. QED
  BY <1>6, <1>7, <1>8, <1>9, <1>10, <1>11

\* The invariant on the files to write is kept when the first of them is done.
LEMMA TailKeepsWrite ==
  ASSUME GatherInv, Writing, NEW r \in Rank, todo[r] # <<>>,
         Rank' = Rank, UNCHANGED <<op, ranks, gen>>, Writing',
         pc' = [pc EXCEPT ![r] = "write"],
         todo' = [todo EXCEPT ![r] = Tail(todo[r])]
  PROVE  WriteInv' /\ todo' \in [Rank -> Seq(Items(gen))]
<1> USE DEF GatherInv
<1>1. 0 \in Rank /\ todo \in [Rank -> Seq(Items(gen))] /\ pc \in [Rank -> Places]
  BY RankZero DEF LocalInv
<1>2. PICK n \in Nat \ {0} : n = Len(todo[r])
  BY NextWriteIs
<1>3. /\ todo'[r] = Tail(todo[r]) /\ Len(todo'[r]) = n - 1
      /\ \A i \in 1 .. n - 1 : todo'[r][i] = todo[r][i + 1] /\ i + 1 \in 1 .. n
  BY <1>1, <1>2, NextWriteIs
<1>4. \A q \in Rank : q # r => todo'[q] = todo[q]
  BY <1>1
<1>5. todo' \in [Rank -> Seq(Items(gen))]
  BY <1>1, NextWriteIs
<1>6. ~AllIn({"gather"})'
  BY <1>1 DEF Writing, AllIn
<1>7. \A q \in Rank : pc'[q] = "opened" => todo'[q] # <<>>
  BY <1>1, <1>4 DEF WriteInv
<1>8. ASSUME op = "write_gather"
      PROVE  \A q \in Rank : \A i \in 1 .. Len(todo'[q]) :
               /\ todo'[q][i].file = Root \/ \E k \in Nat : todo'[q][i].file = Name(k, q)
               /\ todo'[q][i].content.ranks = ranks
  <2>1. ASSUME NEW q \in Rank, NEW i \in 1 .. Len(todo'[q])
        PROVE  \E j \in 1 .. Len(todo[q]) : todo'[q][i] = todo[q][j]
    BY <1>2, <1>3, <1>4
  <2>2. \A q \in Rank : \A j \in 1 .. Len(todo[q]) :
          /\ todo[q][j].file = Root \/ \E k \in Nat : todo[q][j].file = Name(k, q)
          /\ todo[q][j].content.ranks = ranks
    BY <1>8 DEF WriteInv
  <2>3. QED
    BY <2>1, <2>2
<1>9. ASSUME op = "write_to_gather"
      PROVE  /\ Rank = {0} /\ ranks \in Nat \ {0}
             /\ \A i \in 1 .. Len(todo'[0]) - 1 :
                  \E w \in Nat : todo'[0][i].file = Name(0, w) /\ todo'[0][i].content.ranks = ranks
             /\ todo'[0] # <<>> => RootItem(todo'[0][Len(todo'[0])], ranks, gen)
  <2>1. Rank = {0} /\ r = 0 /\ ranks \in Nat \ {0}
    BY <1>9 DEF WriteInv
  <2>2. ASSUME NEW i \in 1 .. n - 2
        PROVE  \E w \in Nat : todo'[0][i].file = Name(0, w) /\ todo'[0][i].content.ranks = ranks
    <3>1. i \in 1 .. n - 1 /\ i + 1 \in 1 .. n - 1
      OBVIOUS
    <3>2. QED
      BY <1>2, <1>3, <1>9, <2>1, <3>1 DEF WriteInv
  <2>3. ASSUME todo'[0] # <<>>
        PROVE  RootItem(todo'[0][n - 1], ranks, gen)
    <3>1. n - 1 \in 1 .. n - 1
      BY <1>1, <1>3, <1>5, <2>1, <2>3
    <3>2. todo'[0][n - 1] = todo[0][n]
      BY <1>3, <2>1, <3>1
    <3>3. QED
      BY <1>2, <1>9, <2>1, <3>2 DEF WriteInv
  <2>4. Len(todo'[0]) = n - 1 /\ Len(todo'[0]) - 1 = n - 2
    BY <1>3, <2>1
  <2>5. QED
    BY <2>1, <2>2, <2>3, <2>4
<1>10. op' = op /\ ranks' = ranks /\ gen' = gen
  OBVIOUS
<1>11. WriteInv'
  BY <1>6, <1>7, <1>8, <1>9, <1>10 DEF WriteInv
<1>12. QED
  BY <1>5, <1>11

\* A file is written and closed.
LEMMA WriteFileStep ==
  ASSUME GatherInv, NEW r \in Rank, WriteFile(r)
  PROVE  GatherInv'
<1> USE DEF GatherInv
<1>1. 0 \in Rank
  BY RankZero
<1>2. /\ Writing /\ pc[r] = "opened" /\ todo[r] # <<>>
      /\ pc \in [Rank -> Places] /\ todo \in [Rank -> Seq(Items(gen))]
  BY DEF WriteFile, PhaseInv, AllIn, Writing, LocalInv, WriteInv
<1>3. /\ pc' = [pc EXCEPT ![r] = "write"]
      /\ files' = Store(NextWrite(r).file, NextWrite(r).content)
      /\ todo' = [todo EXCEPT ![r] = Tail(todo[r])]
      /\ UNCHANGED <<op, ranks, rc, level, valid, file, hash, data, gen, whole>>
      /\ Rank' = Rank
  BY <1>2 DEF WriteFile, Rank
<1>4. PICK f \in Names, c \in Contents : f = NextWrite(r).file /\ c = NextWrite(r).content
  <2>1. NextWrite(r) \in Items(gen)
    BY <1>2, NextWriteIs
  <2>2. QED
    BY <2>1 DEF Items
<1>5. /\ Fits(gen, f, c) /\ NextWrite(r) = todo[r][1]
      /\ f = Name(0, 0) => r = 0 /\ c.ranks = ranks
  <2>1. 1 \in 1 .. Len(todo[r]) /\ NextWrite(r) = todo[r][1]
    BY <1>2, NextWriteIs
  <2>2. QED
    BY <1>2, <1>4, <2>1, ItemFits
<1>6. /\ FilesInv' /\ f \in DOMAIN files' /\ files'[f] = c
      /\ \A g : g # f => (g \in DOMAIN files' <=> g \in DOMAIN files)
      /\ \A g \in DOMAIN files : g # f => files'[g] = files[g]
  BY <1>3, <1>4, <1>5, StoreFits
<1>7. Writing' /\ PhaseInv'
  BY <1>2, <1>3 DEF Writing, PhaseInv, AllIn
<1>8. WriteInv' /\ todo' \in [Rank -> Seq(Items(gen))]
  BY <1>2, <1>3, <1>7, TailKeepsWrite
<1>9. LocalInv'
  <2>1. pc' \in [Rank -> Places]
    BY <1>2, <1>3 DEF Places
  <2>2. QED
    BY <1>3, <1>8, <2>1 DEF LocalInv
<1>10. MapInv' /\ DataInv'
  BY <1>1, <1>7 DEF MapInv, DataInv, Writing, AllIn
<1>11. RefuseInv'
  <2>1. ASSUME rc[0]
        PROVE  \/ \E i \in 1 .. Len(todo'[0]) : todo'[0][i].file = Name(0, 0)
               \/ Name(0, 0) \in DOMAIN files' /\ files'[Name(0, 0)].ranks = ranks
    <3>1. CASE f = Name(0, 0)
      BY <1>5, <1>6, <3>1
    <3>2. CASE f # Name(0, 0) /\ \E i \in 1 .. Len(todo[0]) : todo[0][i].file = Name(0, 0)
      <4>1. PICK i \in 1 .. Len(todo[0]) : todo[0][i].file = Name(0, 0)
        BY <3>2
      <4>2. CASE r = 0
        <5>1. i # 1
          BY <1>4, <1>5, <3>2, <4>1, <4>2
        <5>2. Len(todo[0]) \in Nat /\ i - 1 \in 1 .. Len(todo[0]) - 1 /\ i - 1 + 1 = i
          BY <1>1, <1>2, <5>1
        <5>3. todo'[0] = Tail(todo[0])
          BY <1>1, <1>2, <1>3, <4>2
        <5>4. /\ Len(todo'[0]) = Len(todo[0]) - 1
              /\ todo'[0][i - 1] = todo[0][i]
          BY <1>2, <4>2, <5>2, <5>3, NextWriteIs
        <5>5. QED
          BY <4>1, <5>2, <5>4
      <4>3. CASE r # 0
        BY <1>1, <1>2, <1>3, <4>1, <4>3
      <4>4. QED
        BY <4>2, <4>3
    <3>3. CASE f # Name(0, 0) /\ Name(0, 0) \in DOMAIN files /\ files[Name(0, 0)].ranks = ranks
      BY <1>6, <3>3
    <3>4. QED
      BY <1>2, <2>1, <3>1, <3>2, <3>3 DEF RefuseInv
  <2>2. whole = 0
    BY <1>2 DEF RefuseInv
  <2>3. QED
    BY <1>1, <1>3, <1>7, <2>1, <2>2 DEF RefuseInv, Writing, AllIn
<1>12. ResultInv'
  BY <1>1, <1>3, <1>7 DEF ResultInv, OwnTreesOnly, OtherSizeRefused, Idle, Writing
<1>13. QED
  BY <1>6, <1>7, <1>8, <1>9, <1>10, <1>11, <1>12

\* The root that kvtree_write_to_gather writes after a failure: it names the parts
\* up to the failed one.
LEMMA RestrictedRoot ==
  ASSUME NEW G, NEW i \in Items(G), NEW n, NEW S \in SUBSET Nat, i.file = Root,
         i.content = MapOf(1, n, G, S), NEW x \in Nat
  PROVE  [i EXCEPT !.content.entries = Restrict(@, {w \in DOMAIN @ : w <= x})]
           = [file |-> Root, content |-> MapOf(1, n, G, {w \in S : w <= x})]
<1>1. i = [file |-> Root, content |-> MapOf(1, n, G, S)]
  BY DEF Items
<1>2. Restrict(MapOf(1, n, G, S).entries, {w \in DOMAIN MapOf(1, n, G, S).entries : w <= x})
        = MapOf(1, n, G, {w \in S : w <= x}).entries
  BY DEF Restrict, MapOf, Content
<1>3. [MapOf(1, n, G, S) EXCEPT !.entries = MapOf(1, n, G, {w \in S : w <= x}).entries]
        = MapOf(1, n, G, {w \in S : w <= x})
  BY DEF MapOf, Content
<1>4. QED
  BY <1>1, <1>2, <1>3

\* It fits as the complete one does.
LEMMA RestrictedRootFits ==
  ASSUME NEW G \in Nat, NEW i \in Items(G), NEW n \in Nat \ {0}, RootItem(i, n, G), NEW x \in Nat,
         NEW less, less = [i EXCEPT !.content.entries = Restrict(@, {w \in DOMAIN @ : w <= x})]
  PROVE  less \in Items(G) /\ RootItem(less, n, G)
<1>1. PICK S \in SUBSET Nat : 0 \in S /\ i.content = MapOf(1, n, G, S)
  BY DEF RootItem
<1>2. i.file = Root
  BY DEF RootItem
<1> DEFINE T   == {w \in S : w <= x}
           new == [file |-> Root, content |-> MapOf(1, n, G, T)]
<1>3. T \in SUBSET Nat /\ 0 \in T
  <2>1. 0 <= x /\ 0 \in S
    BY <1>1
  <2>2. QED
    BY <2>1
<1>4. less = new
  BY <1>1, <1>2, RestrictedRoot
<1> HIDE DEF T
<1>5. RootItem(new, n, G)
  BY <1>3 DEF RootItem
<1>6. G \in 1 .. G
  <2>1. Fits(G, Root, i.content)
    BY <1>2 DEF Items
  <2>2. i.content.gen = G /\ i.content.level = 1
    BY <1>1, ContentFacts
  <2>3. IsMap(G, Root, i.content)
    BY <2>1, <2>2, ContentFacts, NameFacts DEF Fits, IsData
  <2>4. QED
    BY <2>2, <2>3, ContentFacts DEF IsMap
<1>7. IsMap(G, Root, MapOf(1, n, G, T))
  BY <1>3, <1>6 DEF IsMap
<1>8. Fits(G, Root, MapOf(1, n, G, T)) /\ MapOf(1, n, G, T) \in Contents
  BY <1>7, FitsContents DEF Fits
<1>9. new \in Items(G)
  BY <1>8, NameFacts DEF Items
<1>10. QED
  BY <1>4, <1>5, <1>9

\* A file cannot be written, or not be closed.
LEMMA WriteErrorStep ==
  ASSUME GatherInv, NEW r \in Rank, WriteError(r) \/ CloseError(r)
  PROVE  GatherInv'
<1> USE DEF GatherInv
<1>1. 0 \in Rank
  BY RankZero
<1>2. /\ Writing /\ pc[r] \in {"write", "opened"} /\ todo[r] # <<>>
      /\ pc \in [Rank -> Places] /\ todo \in [Rank -> Seq(Items(gen))]
      /\ rc \in [Rank -> BOOLEAN]
  BY DEF WriteError, CloseError, PhaseInv, AllIn, Writing, LocalInv, WriteInv
<1>3. /\ pc' = [pc EXCEPT ![r] = "write"]
      /\ todo' = [todo EXCEPT ![r] = AfterFailure(r)]
      /\ rc' = [rc EXCEPT ![r] = FALSE]
      /\ UNCHANGED <<op, ranks, level, valid, file, hash, data, gen, whole>>
      /\ Rank' = Rank
  BY <1>2 DEF WriteError, CloseError, Rank
<1>4. PICK f \in Names : /\ f = NextWrite(r).file
                         /\ f = Name(0, 0) => r = 0
                         /\ Fits(gen, f, NextWrite(r).content)
  <2>1. 1 \in 1 .. Len(todo[r]) /\ NextWrite(r) = todo[r][1]
    BY <1>2, NextWriteIs
  <2>2. QED
    BY <1>2, <2>1, ItemFits
<1>5. /\ FilesInv'
      /\ Name(0, 0) # f =>
           /\ Name(0, 0) \in DOMAIN files' <=> Name(0, 0) \in DOMAIN files
           /\ Name(0, 0) \in DOMAIN files => files'[Name(0, 0)] = files[Name(0, 0)]
  <2>1. CASE files' = files
    BY <1>3, <2>1 DEF FilesInv
  <2>2. CASE files' = Lose({f})
    BY <1>3, <2>2, LoseFits
  <2>3. CASE files' = Store(f, NextWrite(r).content)
    BY <1>3, <1>4, <2>3, StoreFits
  <2>4. QED
    BY <1>4, <2>1, <2>2, <2>3 DEF WriteError, CloseError
<1>6. Writing' /\ PhaseInv'
  BY <1>2, <1>3 DEF Writing, PhaseInv, AllIn
<1>7. WriteInv' /\ todo' \in [Rank -> Seq(Items(gen))]
  <2>1. CASE op = "write_gather" \/ f = Root
    <3>1. todo' = [todo EXCEPT ![r] = Tail(todo[r])]
      BY <1>3, <1>4, <2>1 DEF AfterFailure
    <3>2. QED
      BY <1>2, <1>3, <1>6, <3>1, TailKeepsWrite
  <2>2. CASE op = "write_to_gather" /\ f # Root
    <3>1. Rank = {0} /\ r = 0 /\ ranks \in Nat \ {0}
      BY <2>2 DEF WriteInv
    <3>2. PICK n \in Nat \ {0} : n = Len(todo[0])
      BY <1>2, <3>1, NextWriteIs
    <3>3. todo[0][n] \in Items(gen) /\ RootItem(todo[0][n], ranks, gen)
      BY <1>1, <1>2, <2>2, <3>1, <3>2 DEF WriteInv
    <3>4. NextWrite(0) = todo[0][1] /\ n # 1
      BY <1>2, <1>4, <2>2, <3>1, <3>3, NextWriteIs DEF RootItem
    <3>5. 1 \in 1 .. Len(todo[0]) - 1
      <4>1. \A m \in Nat \ {0} : m # 1 => 1 \in 1 .. m - 1
        OBVIOUS
      <4>2. QED
        BY <3>2, <3>4, <4>1
    <3>6. PICK x \in Nat : f = Name(0, x)
      BY <1>4, <2>2, <3>1, <3>4, <3>5 DEF WriteInv
    <3>7. PICK new : new = [todo[0][n] EXCEPT !.content.entries =
                              Restrict(@, {w \in DOMAIN @ : w <= x})]
      OBVIOUS
    <3>8. AfterFailure(0) = <<new>>
      <4>1. NextWrite(0).file[2] = x /\ NextWrite(0).file # Root
        BY <1>4, <2>2, <3>1, <3>6, NameFacts
      <4>2. QED
        BY <2>2, <3>2, <3>7, <4>1 DEF AfterFailure
    <3>9. new \in Items(gen) /\ RootItem(new, ranks, gen)
      <4>1. gen \in Nat
        BY DEF LocalInv
      <4>2. QED
        BY <3>1, <3>3, <3>6, <3>7, <4>1, RestrictedRootFits
    <3>10. todo'[0] = <<new>> /\ todo' \in [Rank -> Seq(Items(gen))]
      <4>1. <<new>> \in Seq(Items(gen))
        BY <3>9
      <4>2. todo' = [todo EXCEPT ![0] = <<new>>]
        BY <1>3, <3>1, <3>8
      <4>3. QED
        BY <1>1, <1>2, <4>1, <4>2
    <3>11. Len(todo'[0]) = 1 /\ todo'[0][1] = new /\ todo'[0] # <<>>
      BY <3>10
    <3>12. op' = "write_to_gather" /\ ranks' = ranks /\ gen' = gen /\ Rank' = {0}
      BY <1>3, <2>2, <3>1
    <3>13. ~AllIn({"gather"})'
      BY <1>1, <1>6, <3>1, <3>12 DEF Writing, AllIn
    <3>14. WriteInv'
      BY <3>1, <3>9, <3>11, <3>12, <3>13 DEF WriteInv
    <3>15. QED
      BY <3>10, <3>14
  <2>3. QED
    BY <1>2, <2>1, <2>2 DEF Writing
<1>8. LocalInv'
  <2>1. pc' \in [Rank -> Places] /\ rc' \in [Rank -> BOOLEAN]
    BY <1>2, <1>3 DEF Places
  <2>2. QED
    BY <1>3, <1>7, <2>1 DEF LocalInv
<1>9. MapInv' /\ DataInv'
  BY <1>1, <1>6 DEF MapInv, DataInv, Writing, AllIn
<1>10. RefuseInv'
  <2>1. whole = 0
    BY <1>2 DEF RefuseInv
  <2>2. r = 0 => ~rc'[0]
    BY <1>1, <1>2, <1>3
  <2>3. r # 0 => rc'[0] = rc[0] /\ todo'[0] = todo[0] /\ f # Name(0, 0)
    BY <1>1, <1>2, <1>3, <1>4
  <2>4. pc'[0] # "datacheck"
    BY <1>1, <1>3, <1>6 DEF Writing, AllIn
  <2>5. QED
    BY <1>2, <1>3, <1>5, <2>1, <2>2, <2>3, <2>4 DEF RefuseInv
<1>11. ResultInv'
  BY <1>1, <1>3, <1>6 DEF ResultInv, OwnTreesOnly, OtherSizeRefused, Idle, Writing
<1>12. QED
  BY <1>5, <1>6, <1>7, <1>8, <1>9, <1>10, <1>11

\* The write returns.
LEMMA EndWriteStep ==
  ASSUME GatherInv, EndWrite
  PROVE  GatherInv'
<1> USE DEF GatherInv
<1>1. 0 \in Rank
  BY RankZero
<1>2. Writing /\ \A r \in Rank : pc[r] = "write" /\ todo[r] = <<>>
  BY <1>1 DEF EndWrite, PhaseInv, AllIn, Writing
<1>3. /\ pc' = [r \in Rank |-> "done"]
      /\ hash' = [r \in Rank |-> EmptyHash]
      /\ rc' = [r \in Rank |-> AllTrue] /\ level' = 1 /\ valid' = {}
      /\ whole' = IF AllTrue THEN ranks ELSE 0
      /\ UNCHANGED <<files, op, ranks, todo, file, gen, data>>
      /\ Rank' = Rank
  BY DEF EndWrite, Locals, Rank
<1>4. AllTrue \in BOOLEAN
  BY DEF AllTrue
<1>5. LocalInv'
  <2>1. EmptyHash \in Contents
    BY DEF Contents
  <2>2. /\ pc' \in [Rank -> Places] /\ hash' \in [Rank -> Contents]
        /\ rc' \in [Rank -> BOOLEAN] /\ level' \in Nat \ {0}
    BY <1>3, <1>4, <2>1 DEF Places
  <2>3. whole' \in Nat
    BY <1>3 DEF LocalInv
  <2>4. QED
    BY <1>3, <2>2, <2>3 DEF LocalInv
<1>6. \A r \in Rank : pc'[r] = "done"
  BY <1>3
<1>7. PhaseInv' /\ FilesInv'
  BY <1>3, <1>6 DEF PhaseInv, FilesInv, AllIn
<1>8. WriteInv' /\ MapInv' /\ DataInv'
  BY <1>1, <1>3, <1>6 DEF WriteInv, MapInv, DataInv, AllIn
<1>9. RefuseInv'
  <2>1. Len(todo[0]) = 0
    BY <1>1, <1>2
  <2>2. AllTrue => Name(0, 0) \in DOMAIN files /\ files[Name(0, 0)].ranks = ranks
    BY <1>1, <1>2, <2>1 DEF RefuseInv, AllTrue
  <2>3. QED
    BY <1>1, <1>3, <1>6, <2>2 DEF RefuseInv, Writing, AllIn
<1>10. ResultInv'
  BY <1>2, <1>3 DEF ResultInv, OwnTreesOnly, OtherSizeRefused, Writing
<1>11. QED
  BY <1>5, <1>7, <1>8, <1>9, <1>10

-----------------------------------------------------------------------------
(* kvtree_write_gather up to its first file. *)

\* The ranks choose their writers W: each is its own writer or has a rank that is,
\* and rank 0 is one.
Chosen(R, W) ==
  /\ W \in [R -> R]
  /\ W[0] = 0
  /\ \A r \in R : W[W[r]] = W[r]

\* pick_writer chooses writers.
LEMMA WritersChosen ==
  ASSUME NEW m \in Nat \ {0}, NEW R, R = 0 .. m - 1, NEW count
  PROVE  Chosen(R, [r \in R |-> WriterOf(count, r)])
<1> DEFINE W == [r \in R |-> WriterOf(count, r)]
<1>1. ASSUME NEW r \in R
      PROVE  r \in Nat /\ W[r] = WriterOf(count, r) /\ W[r] \in R
  <2>1. r \in Nat /\ WriterOf(count, r) \in 0 .. r
    BY WriterOfIs
  <2>2. QED
    BY <2>1
<1>2. 0 \in R /\ W[0] = 0
  BY <1>1, WriterOfZero
<1>3. \A r \in R : W[W[r]] = W[r]
  BY <1>1, WriterOfWriter
<1>4. QED
  BY <1>1, <1>2, <1>3 DEF Chosen

\* One level of kvtree_write_gather_map, in terms of the writers chosen: item[r] is
\* the file that r writes if it is a writer.
GatherMapWith(W, item) ==
  /\ Chosen(Rank, W)
  /\ item \in [Rank -> [file : Names, content : Contents]]
  /\ \A r \in Rank :
       /\ item[r].file = IF \A q \in Rank : W[q] = 0 THEN Root ELSE Name(level, r)
       /\ item[r].content = MapOf(level, ranks, gen, {q \in valid : W[q] = r})
  /\ todo' = [r \in Rank |-> IF W[r] = r THEN <<item[r]>> \o todo[r] ELSE todo[r]]
  /\ valid' = {r \in Rank : W[r] = r}
  /\ level' = level + 1
  /\ pc' = IF \A q \in Rank : W[q] = 0 THEN [r \in Rank |-> "write"] ELSE pc

\* kvtree_write_gather_map chooses writers for each level.
LEMMA GatherMapIs ==
  ASSUME GatherInv, WriteGatherMap
  PROVE  \E W, item : GatherMapWith(W, item)
<1> USE DEF GatherInv
<1>1. /\ ranks \in Nat /\ gen \in Nat /\ level \in Nat \ {0} /\ valid \subseteq Rank
      /\ \E m \in Nat \ {0} : Rank = 0 .. m - 1
  BY DEF LocalInv
<1>2. PICK count : count = [r \in Rank |-> IF r \in valid THEN EntrySize ELSE 0]
  OBVIOUS
<1>3. PICK W : W = [r \in Rank |-> WriterOf(count, r)]
  OBVIOUS
<1>4. Chosen(Rank, W) /\ \A r \in Rank : WriterOf(count, r) = W[r]
  BY <1>1, <1>3, WritersChosen
<1>5. PICK item : item = [r \in Rank |->
        [file    |-> IF \A q \in Rank : W[q] = 0 THEN Root ELSE Name(level, r),
         content |-> MapOf(level, ranks, gen, {q \in valid : W[q] = r})]]
  OBVIOUS
<1>6. item \in [Rank -> [file : Names, content : Contents]]
  <2>1. ASSUME NEW r \in Rank
        PROVE  /\ (IF \A q \in Rank : W[q] = 0 THEN Root ELSE Name(level, r)) \in Names
               /\ MapOf(level, ranks, gen, {q \in valid : W[q] = r}) \in Contents
    <3>1. r \in Nat /\ {q \in valid : W[q] = r} \in SUBSET Nat
      BY <1>1, RankZero
    <3>2. Root \in Names /\ Name(level, r) \in Names
      BY <1>1, <3>1 DEF Names
    <3>3. MapOf(level, ranks, gen, {q \in valid : W[q] = r}) \in Contents
      BY <1>1, <3>1, MapIsContent
    <3>4. QED
      BY <3>2, <3>3
  <2>2. QED
    BY <1>5, <2>1
<1>7. ASSUME NEW r \in Rank
      PROVE  item[r] = [file    |-> IF \A q \in Rank : WriterOf(count, q) = 0
                                    THEN Root ELSE Name(level, r),
                        content |-> Content(level, ranks, gen,
                                      MapEntries(r, {q \in valid : WriterOf(count, q) = r}))]
  <2>1. {q \in valid : WriterOf(count, q) = r} = {q \in valid : W[q] = r}
    BY <1>1, <1>4
  <2>2. (\A q \in Rank : WriterOf(count, q) = 0) <=> (\A q \in Rank : W[q] = 0)
    BY <1>4
  <2>3. QED
    BY <1>5, <2>1, <2>2 DEF MapOf, MapEntries
<1>8. /\ todo' = [r \in Rank |-> IF WriterOf(count, r) = r THEN <<item[r]>> \o todo[r] ELSE todo[r]]
      /\ valid' = {r \in Rank : WriterOf(count, r) = r}
      /\ level' = level + 1
      /\ pc' = IF \A q \in Rank : WriterOf(count, q) = 0 THEN [r \in Rank |-> "write"] ELSE pc
  BY <1>2, <1>7 DEF WriteGatherMap
<1>9. /\ todo' = [r \in Rank |-> IF W[r] = r THEN <<item[r]>> \o todo[r] ELSE todo[r]]
      /\ valid' = {r \in Rank : W[r] = r}
      /\ pc' = IF \A q \in Rank : W[q] = 0 THEN [r \in Rank |-> "write"] ELSE pc
  BY <1>4, <1>8
<1>10. \A r \in Rank :
         /\ item[r].file = IF \A q \in Rank : W[q] = 0 THEN Root ELSE Name(level, r)
         /\ item[r].content = MapOf(level, ranks, gen, {q \in valid : W[q] = r})
  BY <1>5
<1>11. GatherMapWith(W, item)
  BY <1>4, <1>6, <1>8, <1>9, <1>10 DEF GatherMapWith
<1>12. QED
  BY <1>11

\* An element is put before a sequence.
LEMMA PutFirst ==
  ASSUME NEW T, NEW x \in T, NEW s \in Seq(T)
  PROVE  /\ <<x>> \o s \in Seq(T) /\ Len(<<x>> \o s) = Len(s) + 1
         /\ (<<x>> \o s)[1] = x
         /\ \A j \in 1 .. Len(s) : (<<x>> \o s)[j + 1] = s[j]
<1>1. <<x>> \in Seq(T) /\ Len(<<x>>) = 1 /\ <<x>>[1] = x /\ Len(s) \in Nat
  OBVIOUS
<1>2. QED
  BY <1>1

\* The names of the files below go to the writers of the next level.
LEMMA WriteGatherMapStep ==
  ASSUME GatherInv, WriteGatherMap
  PROVE  GatherInv'
<1> USE DEF GatherInv
<1>1. 0 \in Rank /\ Rank \subseteq Nat
  BY RankZero
<1>2. /\ op = "write_gather" /\ AllIn({"gather"})
      /\ \A r \in Rank : pc[r] = "gather"
      /\ 0 \in valid /\ gen # 0 /\ whole = 0
  BY <1>1 DEF WriteGatherMap, PhaseInv, AllIn, Writing, WriteInv, RefuseInv
<1>3. /\ ranks \in Nat \ {0} /\ gen \in Nat /\ level \in Nat \ {0} /\ valid \subseteq Rank
      /\ pc \in [Rank -> Places] /\ todo \in [Rank -> Seq(Items(gen))]
  BY <1>2 DEF LocalInv
<1>4. UNCHANGED <<files, op, ranks, rc, file, hash, data, gen, whole>>
  BY DEF WriteGatherMap
<1>a. PICK W, item : GatherMapWith(W, item)
  BY GatherMapIs
<1>5. /\ item \in [Rank -> [file : Names, content : Contents]]
      /\ Chosen(Rank, W)
      /\ \A r \in Rank :
           /\ item[r].file = IF \A q \in Rank : W[q] = 0 THEN Root ELSE Name(level, r)
           /\ item[r].content = MapOf(level, ranks, gen, {q \in valid : W[q] = r})
      /\ todo' = [r \in Rank |-> IF W[r] = r THEN <<item[r]>> \o todo[r] ELSE todo[r]]
      /\ valid' = {r \in Rank : W[r] = r}
      /\ level' = level + 1
      /\ pc' = IF \A q \in Rank : W[q] = 0 THEN [r \in Rank |-> "write"] ELSE pc
  BY <1>a DEF GatherMapWith
<1>6. /\ Rank' = Rank /\ 0 \in valid' /\ valid' \subseteq Rank
      /\ level' \in Nat \ {0} /\ pc' \in [Rank -> Places]
      /\ \/ \A r \in Rank : pc'[r] = "gather"
         \/ \A r \in Rank : pc'[r] = "write"
  <2>1. pc' \in [Rank -> Places] /\ \/ \A r \in Rank : pc'[r] = "gather"
                                    \/ \A r \in Rank : pc'[r] = "write"
    BY <1>2, <1>3, <1>5 DEF Places
  <2>2. Rank' = Rank
    BY <2>1 DEF Rank
  <2>3. QED
    BY <1>1, <1>3, <1>5, <2>1, <2>2 DEF Chosen
<1>7. ASSUME NEW r \in Rank, W[r] = r
      PROVE  item[r] \in Items(gen)
  <2>a. {q \in valid : W[q] = r} \in SUBSET Nat
    BY <1>1, <1>3
  <2>b. r = 0 => 0 \in {q \in valid : W[q] = r}
    BY <1>2, <1>7
  <2>1. PICK S \in SUBSET Nat : S = {q \in valid : W[q] = r} /\ (r = 0 => 0 \in S)
    BY <2>a, <2>b
  <2>2. item[r].content = MapOf(level, ranks, gen, S) /\ gen \in 1 .. gen
    BY <1>2, <1>3, <1>5, <2>1
  <2>3. \/ item[r].file = Root /\ 0 \in S
        \/ item[r].file = Name(level, r)
    <3>1. CASE \A q \in Rank : W[q] = 0
      BY <1>5, <1>7, <2>1, <3>1
    <3>2. CASE ~\A q \in Rank : W[q] = 0
      BY <1>5, <3>2
    <3>3. QED
      BY <3>1, <3>2
  <2>4. r \in Nat
    BY <1>1
  <2>5. IsMap(gen, item[r].file, item[r].content)
    BY <1>3, <2>1, <2>2, <2>3, <2>4 DEF IsMap
  <2>6. item[r] \in [file : Names, content : Contents]
    BY <1>5
  <2>7. QED
    BY <2>5, <2>6 DEF Items, Fits
<1>8. ASSUME NEW r \in Rank
      PROVE  /\ todo'[r] \in Seq(Items(gen))
             /\ \A i \in 1 .. Len(todo'[r]) :
                  \/ todo'[r][i] = item[r]
                  \/ \E j \in 1 .. Len(todo[r]) : todo'[r][i] = todo[r][j]
             /\ \A j \in 1 .. Len(todo[r]) : \E i \in 1 .. Len(todo'[r]) : todo'[r][i] = todo[r][j]
  <2>1. todo[r] \in Seq(Items(gen)) /\ Len(todo[r]) \in Nat
    BY <1>3
  <2>2. CASE W[r] # r
    BY <1>5, <2>1, <2>2
  <2>3. CASE W[r] = r
    <3>1. PICK s : s = <<item[r]>> \o todo[r]
      OBVIOUS
    <3>3. /\ s \in Seq(Items(gen)) /\ Len(s) = Len(todo[r]) + 1 /\ s[1] = item[r]
          /\ \A j \in 1 .. Len(todo[r]) : s[j + 1] = todo[r][j]
      BY <1>7, <2>1, <2>3, <3>1, PutFirst
    <3>5. todo'[r] = s
      BY <1>5, <2>3, <3>1
    <3>6. \A i \in 1 .. Len(s) : i = 1 \/ (i - 1 \in 1 .. Len(todo[r]) /\ s[i] = todo[r][i - 1])
      BY <2>1, <3>3
    <3>7. \A j \in 1 .. Len(todo[r]) : j + 1 \in 1 .. Len(s) /\ s[j + 1] = todo[r][j]
      BY <2>1, <3>3
    <3>8. QED
      BY <3>3, <3>5, <3>6, <3>7
  <2>4. QED
    BY <2>2, <2>3
<1>9. todo' \in [Rank -> Seq(Items(gen))]
  <2>1. todo' = [r \in Rank |-> todo'[r]]
    BY <1>5
  <2>2. QED
    BY <1>8, <2>1
<1>10. LocalInv'
  BY <1>4, <1>6, <1>9 DEF LocalInv
<1>11. PhaseInv' /\ FilesInv'
  BY <1>2, <1>4, <1>6 DEF PhaseInv, FilesInv, AllIn, Writing
<1>12. WriteInv'
  <2>1. ASSUME NEW r \in Rank, NEW i \in 1 .. Len(todo'[r])
        PROVE  /\ todo'[r][i].file = Root \/ \E k \in Nat : todo'[r][i].file = Name(k, r)
               /\ todo'[r][i].content.ranks = ranks
    <3>1. CASE todo'[r][i] = item[r]
      <4>1. item[r].file = Root \/ item[r].file = Name(level, r)
        BY <1>5
      <4>a. item[r].content = MapOf(level, ranks, gen, {q \in valid : W[q] = r})
        BY <1>5
      <4>2. item[r].content.ranks = ranks
        BY <4>a, ContentFacts
      <4>3. QED
        BY <1>3, <3>1, <4>1, <4>2
    <3>2. CASE \E j \in 1 .. Len(todo[r]) : todo'[r][i] = todo[r][j]
      BY <1>2, <3>2 DEF WriteInv
    <3>3. QED
      BY <1>8, <3>1, <3>2
  <2>2. \A r \in Rank : pc'[r] # "opened"
    BY <1>6
  <2>3. Rank' = Rank /\ op' = "write_gather" /\ ranks' = ranks /\ gen' # 0 /\ 0 \in valid'
    BY <1>2, <1>4, <1>6
  <2>4. QED
    BY <2>1, <2>2, <2>3 DEF WriteInv
<1>13. MapInv' /\ DataInv'
  BY <1>2, <1>4 DEF MapInv, DataInv
<1>14. RefuseInv'
  <2>1. ASSUME \E j \in 1 .. Len(todo[0]) : todo[0][j].file = Name(0, 0)
        PROVE  \E i \in 1 .. Len(todo'[0]) : todo'[0][i].file = Name(0, 0)
    <3>1. PICK j \in 1 .. Len(todo[0]) : todo[0][j].file = Name(0, 0)
      BY <2>1
    <3>2. PICK i \in 1 .. Len(todo'[0]) : todo'[0][i] = todo[0][j]
      BY <1>1, <1>8
    <3>3. QED
      BY <3>1, <3>2
  <2>2. op' = "write_gather" /\ whole' = 0 /\ rc' = rc /\ files' = files /\ ranks' = ranks
    BY <1>2, <1>4
  <2>3. QED
    BY <1>2, <2>1, <2>2 DEF RefuseInv
<1>15. ResultInv'
  BY <1>2, <1>4 DEF ResultInv, OwnTreesOnly, OtherSizeRefused
<1>16. QED
  BY <1>10, <1>11, <1>12, <1>13, <1>14, <1>15

\* kvtree_write_gather up to the map, in terms of the writers chosen.
WriteGatherWith(n, W, item) ==
  LET R == 0 .. n - 1 IN
  /\ n \in Nat \ {0}
  /\ Chosen(R, W)
  /\ item \in [R -> [file : Names, content : Contents]]
  /\ \A r \in R : /\ item[r].file = Name(0, r)
                  /\ item[r].content = DataOf(n, gen + 1, {q \in R : W[q] = r})
  /\ ranks' = n
  /\ pc' = [r \in R |-> "gather"]
  /\ rc' = [r \in R |-> TRUE]
  /\ level' = 1
  /\ hash' = [r \in R |-> EmptyHash]
  /\ data' = [r \in R |-> {}]
  /\ valid' = {r \in R : W[r] = r}
  /\ todo' = [r \in R |-> IF W[r] = r THEN <<item[r]>> ELSE <<>>]
  /\ file' = [r \in R |-> NoFile]

\* The data of some ranks are a content.
LEMMA DataIsContent ==
  ASSUME NEW n \in Nat, NEW g \in Nat, NEW S \in SUBSET Nat
  PROVE  DataOf(n, g, S) \in Contents
BY DEF Contents

\* kvtree_write_gather chooses writers for the data.
LEMMA WriteGatherIs ==
  ASSUME GatherInv, NEW size \in Inputs, WriteGather(size)
  PROVE  \E n, W, item : WriteGatherWith(n, W, item)
<1>1. PICK n \in Nat \ {0} : size \in [0 .. n - 1 -> Nat \ {0}]
  BY GatherAssumption
<1>2. PICK R : R = 0 .. n - 1 /\ R = DOMAIN size
  BY <1>1
<1>3. Cardinality(R) = n
  BY <1>1, <1>2, FS_Interval
<1>4. PICK W : W = [r \in R |-> WriterOf(size, r)]
  OBVIOUS
<1>5. Chosen(R, W) /\ \A r \in R : WriterOf(size, r) = W[r]
  BY <1>1, <1>2, <1>4, WritersChosen
<1>6. gen \in Nat
  BY DEF GatherInv, LocalInv
<1>7. PICK item : item = [r \in R |->
        [file |-> Name(0, r), content |-> DataOf(n, gen + 1, {q \in R : W[q] = r})]]
  OBVIOUS
<1>8. item \in [R -> [file : Names, content : Contents]]
  <2>1. ASSUME NEW r \in R
        PROVE  /\ Name(0, r) \in Names
               /\ DataOf(n, gen + 1, {q \in R : W[q] = r}) \in Contents
    <3>1. r \in Nat /\ {q \in R : W[q] = r} \in SUBSET Nat /\ gen + 1 \in Nat
      BY <1>1, <1>2, <1>6
    <3>2. QED
      BY <1>1, <3>1, DataIsContent DEF Names
  <2>2. QED
    BY <1>7, <2>1
<1>9. ASSUME NEW r \in R
      PROVE  item[r] = [file |-> Name(0, r), content |-> Content(0, n, gen + 1,
                 [q \in {q \in R : WriterOf(size, q) = r} |-> {Tree(gen + 1, n, q)}])]
  <2>1. {q \in R : WriterOf(size, q) = r} = {q \in R : W[q] = r}
    BY <1>5
  <2>2. QED
    BY <1>7, <2>1 DEF DataOf
<1>10. /\ ranks' = n
       /\ valid' = {r \in R : WriterOf(size, r) = r}
       /\ todo' = [r \in R |-> IF WriterOf(size, r) = r THEN <<item[r]>> ELSE <<>>]
       /\ Locals(R, "gather", TRUE, NoData(R))
       /\ file' = [r \in R |-> NoFile]
  BY <1>2, <1>3, <1>9 DEF WriteGather
<1>11. /\ valid' = {r \in R : W[r] = r}
       /\ todo' = [r \in R |-> IF W[r] = r THEN <<item[r]>> ELSE <<>>]
  BY <1>5, <1>10
<1>12. \A r \in R : /\ item[r].file = Name(0, r)
                    /\ item[r].content = DataOf(n, gen + 1, {q \in R : W[q] = r})
  BY <1>7
<1>13. WriteGatherWith(n, W, item)
  BY <1>1, <1>2, <1>5, <1>8, <1>10, <1>11, <1>12 DEF WriteGatherWith, Locals, NoData
<1>14. QED
  BY <1>13

\* A kvtree_write_gather begins.
LEMMA WriteGatherStep ==
  ASSUME GatherInv, NEW size \in Inputs, WriteGather(size)
  PROVE  GatherInv'
<1> USE DEF GatherInv
<1>1. PICK n, W, item : WriteGatherWith(n, W, item)
  BY WriteGatherIs
<1>2. PICK R : R = 0 .. n - 1
  OBVIOUS
<1>3. /\ n \in Nat \ {0} /\ Chosen(R, W)
      /\ item \in [R -> [file : Names, content : Contents]]
      /\ \A r \in R : /\ item[r].file = Name(0, r)
                      /\ item[r].content = DataOf(n, gen + 1, {q \in R : W[q] = r})
      /\ ranks' = n /\ pc' = [r \in R |-> "gather"] /\ rc' = [r \in R |-> TRUE] /\ level' = 1
      /\ hash' = [r \in R |-> EmptyHash] /\ data' = [r \in R |-> {}]
      /\ valid' = {r \in R : W[r] = r}
      /\ todo' = [r \in R |-> IF W[r] = r THEN <<item[r]>> ELSE <<>>]
      /\ file' = [r \in R |-> NoFile]
  BY <1>1, <1>2 DEF WriteGatherWith
<1>4. /\ op' = "write_gather" /\ gen' = gen + 1 /\ whole' = 0 /\ files' = files
      /\ Rank' = R /\ gen \in Nat
  BY <1>3 DEF WriteGather, Call, Rank, LocalInv
<1>5. 0 \in R /\ 0 \in valid' /\ valid' \subseteq R /\ R \subseteq Nat /\ gen + 1 \in Nat \ {0}
  BY <1>2, <1>3, <1>4 DEF Chosen
<1>6. ASSUME NEW r \in R
      PROVE  item[r] \in Items(gen + 1)
  <2>a. {q \in R : W[q] = r} \in SUBSET Nat /\ r \in Nat
    BY <1>5
  <2>b. gen + 1 \in 1 .. gen + 1
    BY <1>4
  <2>1. {q \in R : W[q] = r} \in SUBSET Nat /\ r \in Nat /\ gen + 1 \in 1 .. gen + 1
    BY <2>a, <2>b
  <2>2. item[r].file = Name(0, r) /\ item[r].content = DataOf(n, gen + 1, {q \in R : W[q] = r})
    BY <1>3
  <2>3. IsData(gen + 1, item[r].file, item[r].content)
    BY <1>3, <2>1, <2>2 DEF IsData
  <2>4. QED
    BY <1>3, <2>3 DEF Items, Fits
<1>7. LocalInv'
  <2>1. EmptyHash \in Contents
    BY DEF Contents
  <2>2. ASSUME NEW r \in R
        PROVE  (IF W[r] = r THEN <<item[r]>> ELSE <<>>) \in Seq(Items(gen + 1))
    <3>1. <<item[r]>> \in Seq(Items(gen + 1)) /\ <<>> \in Seq(Items(gen + 1))
      BY <1>6
    <3>2. QED
      BY <3>1
  <2>3. todo' \in [R -> Seq(Items(gen + 1))]
    BY <1>3, <2>2
  <2>4. /\ pc' \in [R -> Places] /\ rc' \in [R -> BOOLEAN] /\ hash' \in [R -> Contents]
        /\ file' \in [R -> Names \cup {NoFile}] /\ level' \in Nat \ {0}
        /\ \A r \in DOMAIN data' : data'[r] = {}
    BY <1>3, <2>1 DEF Places
  <2>5. ranks' \in Nat \ {0} /\ R = 0 .. ranks' - 1 /\ \E m \in Nat \ {0} : R = 0 .. m - 1
    BY <1>2, <1>3
  <2>6. QED
    BY <1>4, <1>5, <2>3, <2>4, <2>5 DEF LocalInv
<1>8. \A r \in R : pc'[r] = "gather"
  BY <1>3
<1>9. PhaseInv'
  BY <1>4, <1>8 DEF PhaseInv, AllIn
<1>10. FilesInv'
  <2>1. \A f \in DOMAIN files : Fits(gen + 1, f, files[f])
    BY <1>4, <1>5, FitsLater DEF FilesInv
  <2>2. QED
    BY <1>4, <2>1 DEF FilesInv
<1>11. ASSUME NEW r \in R
       PROVE  \A i \in 1 .. Len(todo'[r]) : todo'[r][i] = item[r]
  BY <1>3
<1>12. WriteInv'
  <2>1. ASSUME NEW r \in R, NEW i \in 1 .. Len(todo'[r])
        PROVE  todo'[r][i].file = Name(0, r) /\ todo'[r][i].content.ranks = n
    <3>1. item[r].file = Name(0, r) /\ item[r].content = DataOf(n, gen + 1, {q \in R : W[q] = r})
      BY <1>3
    <3>2. QED
      BY <1>11, <3>1, ContentFacts
  <2>2. ranks' = n
    BY <1>3
  <2>3. QED
    BY <1>4, <1>5, <1>8, <2>1, <2>2 DEF WriteInv
<1>13. MapInv' /\ DataInv'
  BY <1>4 DEF MapInv, DataInv
<1>14. RefuseInv'
  <2>1. todo'[0] = <<item[0]>> /\ item[0].file = Name(0, 0)
    BY <1>3, <1>5 DEF Chosen
  <2>2. Len(todo'[0]) = 1 /\ todo'[0][1].file = Name(0, 0)
    BY <2>1
  <2>3. 1 \in 1 .. Len(todo'[0])
    BY <2>2
  <2>4. QED
    BY <1>4, <2>2, <2>3 DEF RefuseInv
<1>15. ResultInv'
  BY <1>4 DEF ResultInv, OwnTreesOnly, OtherSizeRefused
<1>16. QED
  BY <1>7, <1>9, <1>10, <1>12, <1>13, <1>14, <1>15

-----------------------------------------------------------------------------
(* kvtree_write_to_gather up to its first file. *)

\* Division by the number of entries per file.
LEMMA DivisionFacts ==
  ASSUME NEW e \in Nat \ {0}
  PROVE  /\ \A a \in Nat : /\ a = ((a \div e) * e) + (a % e) /\ a % e \in 0 .. e - 1
                           /\ a \div e \in Nat
                           /\ a * e \in Nat /\ (a * e) \div e = a /\ (a * e) % e = 0
         /\ \A a, b \in Nat : a * e <= b <=> a <= b \div e
<1>1. ASSUME NEW a \in Nat
      PROVE  /\ a = ((a \div e) * e) + (a % e) /\ a % e \in 0 .. e - 1
             /\ a \div e \in Nat
  OBVIOUS
<1>2. ASSUME NEW a \in Nat
      PROVE  a * e \in Nat /\ (a * e) \div e = a /\ (a * e) % e = 0
  OBVIOUS
<1>3. ASSUME NEW a \in Nat, NEW b \in Nat, a * e <= b
      PROVE  a <= b \div e
  BY <1>3
<1>4. ASSUME NEW a \in Nat, NEW b \in Nat, a <= b \div e
      PROVE  a * e <= b
  BY <1>4
<1>5. QED
  BY <1>1, <1>2, <1>3, <1>4

\* The first ranks of the parts of kvtree_write_to_gather.
PartWriters(n, e) == {w \in 0 .. n - 1 : w % e = 0}

\* There are as many parts as the loop of kvtree_write_to_gather makes, and the
\* i-th one begins with rank (i - 1) * e.
LEMMA PartsCounted ==
  ASSUME NEW n \in Nat \ {0}, NEW e \in Nat \ {0}
  PROVE  /\ Cardinality(PartWriters(n, e)) \in Nat \ {0}
         /\ 0 \in PartWriters(n, e) /\ PartWriters(n, e) \in SUBSET Nat
         /\ \A i \in 1 .. Cardinality(PartWriters(n, e)) : (i - 1) * e \in PartWriters(n, e)
         /\ \A w \in PartWriters(n, e) :
              /\ w = (w \div e) * e
              /\ (w \div e) + 1 \in 1 .. Cardinality(PartWriters(n, e))
<1> DEFINE P == PartWriters(n, e)
           m == ((n - 1) \div e) + 1
           f == [i \in 1 .. m |-> (i - 1) * e]
<1>1. n - 1 \in Nat /\ m \in Nat \ {0} /\ P \in SUBSET Nat
  <2>1. n - 1 \in Nat /\ P \in SUBSET Nat
    BY DEF PartWriters
  <2>2. (n - 1) \div e \in Nat
    BY <2>1, DivisionFacts
  <2>3. QED
    BY <2>1, <2>2
<1>2. ASSUME NEW i \in 1 .. m
      PROVE  (i - 1) * e \in P /\ ((i - 1) * e) \div e = i - 1
  <2>1. i - 1 \in Nat /\ i - 1 <= (n - 1) \div e
    BY <1>1
  <2>2. (i - 1) * e \in Nat /\ (i - 1) * e <= n - 1 /\ ((i - 1) * e) % e = 0
    BY <1>1, <2>1, DivisionFacts
  <2>3. ((i - 1) * e) \div e = i - 1
    BY <2>1, DivisionFacts
  <2>4. QED
    BY <2>2, <2>3 DEF PartWriters
<1>3. ASSUME NEW w \in P
      PROVE  w = (w \div e) * e /\ (w \div e) + 1 \in 1 .. m
  <2>1. w \in Nat /\ w <= n - 1 /\ w % e = 0
    BY DEF PartWriters
  <2>a. w \div e \in Nat /\ w = ((w \div e) * e) + (w % e)
    BY <2>1, DivisionFacts
  <2>b. (w \div e) * e \in Nat
    BY <2>a, DivisionFacts
  <2>2. w \div e \in Nat /\ w = (w \div e) * e
    BY <2>1, <2>a, <2>b
  <2>3. w \div e <= (n - 1) \div e
    BY <1>1, <2>1, <2>2, DivisionFacts
  <2>4. QED
    BY <1>1, <2>2, <2>3
<1>4. Cardinality(P) = m
  <2>1. f \in [1 .. m -> P]
    BY <1>2
  <2>2. IsInjective(f)
    <3>1. ASSUME NEW a \in 1 .. m, NEW b \in 1 .. m, f[a] = f[b]
          PROVE  a = b
      <4>1. a - 1 = b - 1
        BY <1>2, <3>1
      <4>2. QED
        BY <4>1
    <3>2. QED
      BY <3>1 DEF IsInjective
  <2>3. \A w \in P : \E i \in 1 .. m : f[i] = w
    <3>1. TAKE w \in P
    <3>2. (w \div e) + 1 \in 1 .. m /\ ((w \div e) + 1) - 1 = w \div e
      <4>1. w \in Nat
        BY <1>1
      <4>2. w \div e \in Nat
        BY <4>1, DivisionFacts
      <4>3. QED
        BY <1>3, <4>2
    <3>3. f[(w \div e) + 1] = w
      BY <1>3, <3>2
    <3>4. QED
      BY <3>2, <3>3
  <2>4. f \in Bijection(1 .. m, P)
    BY <2>1, <2>2, <2>3 DEF Bijection, Injection, Surjection
  <2>5. ExistsBijection(1 .. m, P)
    BY <2>4 DEF ExistsBijection
  <2>6. IsFiniteSet(1 .. m) /\ Cardinality(1 .. m) = m
    BY <1>1, FS_Interval
  <2>7. QED
    BY <2>5, <2>6, FS_Bijection
<1>5. 0 \in P
  BY <1>1, <1>2
<1>6. QED
  BY <1>1, <1>2, <1>3, <1>4, <1>5

\* kvtree_write_to_gather: what it is going to write.
PartItem(n, e, g, i) ==
  [file    |-> Name(0, (i - 1) * e),
   content |-> DataOf(n, g, {q \in 0 .. n - 1 : q \div e = i - 1})]

PartRoot(n, e, g) == [file |-> Root, content |-> MapOf(1, n, g, PartWriters(n, e))]

PartsAndRoot(n, e, g, s) ==
  LET m == Cardinality(PartWriters(n, e)) IN
  /\ s \in Seq(Items(g))
  /\ Len(s) = m + 1
  /\ \A i \in 1 .. m : s[i] = PartItem(n, e, g, i)
  /\ s[m + 1] = PartRoot(n, e, g)

\* An element is put after the values of a function on 1 .. m.
LEMMA PutLast ==
  ASSUME NEW T, NEW m \in Nat, NEW f \in [1 .. m -> T], NEW x \in T
  PROVE  /\ Append(f, x) \in Seq(T) /\ Len(Append(f, x)) = m + 1
         /\ \A i \in 1 .. m : Append(f, x)[i] = f[i]
         /\ Append(f, x)[m + 1] = x
<1>1. f \in Seq(T) /\ Len(f) = m
  OBVIOUS
<1>2. QED
  BY <1>1

\* The files that kvtree_write_to_gather writes fit their names.
LEMMA WriteToGatherIs ==
  ASSUME GatherInv, NEW n \in Jobs, NEW e \in PerFile, WriteToGather(n, e)
  PROVE  /\ n \in Nat \ {0} /\ e \in Nat \ {0}
         /\ todo' = [r \in {0} |-> todo'[0]]
         /\ PartsAndRoot(n, e, gen + 1, todo'[0])
<1>1. n \in Nat \ {0} /\ e \in Nat \ {0}
  BY GatherAssumption
<1>2. PICK g \in Nat \ {0} : g = gen + 1
  BY DEF GatherInv, LocalInv
<1>3. PICK m \in Nat \ {0} : m = Cardinality(PartWriters(n, e))
  BY <1>1, PartsCounted
<1>4. ASSUME NEW i \in 1 .. m
      PROVE  /\ PartItem(n, e, g, i) \in Items(g)
             /\ [file    |-> Name(0, (i - 1) * e),
                 content |-> Content(0, n, g,
                   [q \in {q \in 0 .. n - 1 : q \div e = ((i - 1) * e) \div e} |-> {Tree(g, n, q)}])]
                = PartItem(n, e, g, i)
  <2>1. i - 1 \in Nat
    OBVIOUS
  <2>2. (i - 1) * e \in Nat /\ ((i - 1) * e) \div e = i - 1
    BY <1>1, <2>1, DivisionFacts
  <2>3. PICK S \in SUBSET Nat : S = {q \in 0 .. n - 1 : q \div e = i - 1}
    <3>1. {q \in 0 .. n - 1 : q \div e = i - 1} \subseteq Nat
      OBVIOUS
    <3>2. QED
      BY <3>1
  <2>4. IsData(g, Name(0, (i - 1) * e), DataOf(n, g, S))
    <3>1. g \in 1 .. g
      OBVIOUS
    <3>2. QED
      BY <1>1, <2>2, <3>1 DEF IsData
  <2>5. DataOf(n, g, S) \in Contents /\ Name(0, (i - 1) * e) \in Names
    <3>1. DataOf(n, g, S) \in Contents
      BY <1>1, <1>2, DataIsContent
    <3>2. QED
      BY <2>2, <3>1 DEF Names
  <2>6. PartItem(n, e, g, i) = [file |-> Name(0, (i - 1) * e), content |-> DataOf(n, g, S)]
    BY <2>3 DEF PartItem
  <2>7. PartItem(n, e, g, i) \in Items(g)
    BY <2>4, <2>5, <2>6 DEF Items, Fits
  <2>8. QED
    BY <2>2, <2>7 DEF PartItem, DataOf
<1>5. PartRoot(n, e, g) \in Items(g)
  <2>1. PICK S \in SUBSET Nat : S = PartWriters(n, e) /\ 0 \in S
    BY <1>1, PartsCounted
  <2>2. g \in 1 .. g /\ 1 \in Nat \ {0}
    OBVIOUS
  <2>3. IsMap(g, Root, MapOf(1, n, g, S))
    BY <1>1, <2>1, <2>2 DEF IsMap
  <2>4. MapOf(1, n, g, S) \in Contents
    BY <1>1, <1>2, MapIsContent
  <2>5. QED
    BY <2>1, <2>3, <2>4, NameFacts DEF PartRoot, Items, Fits
<1>6. PICK f \in [1 .. m -> Items(g)] : f = [i \in 1 .. m |-> PartItem(n, e, g, i)]
  BY <1>4
<1>7. todo' = [r \in {0} |-> Append(f, PartRoot(n, e, g))]
  <2>1. f = [i \in 1 .. m |->
         [file    |-> Name(0, (i - 1) * e),
          content |-> Content(0, n, g,
            [q \in {q \in 0 .. n - 1 : q \div e = ((i - 1) * e) \div e} |-> {Tree(g, n, q)}])]]
    BY <1>4, <1>6
  <2>2. PartRoot(n, e, g) =
          [file |-> Root, content |-> Content(1, n, g, [w \in PartWriters(n, e) |-> Name(0, w)])]
    BY DEF PartRoot, MapOf
  <2>3. QED
    BY <1>2, <1>3, <2>1, <2>2 DEF WriteToGather, PartWriters
<1>8. PICK s : s = Append(f, PartRoot(n, e, g))
  OBVIOUS
<1>9. /\ s \in Seq(Items(g)) /\ Len(s) = m + 1
      /\ \A i \in 1 .. m : s[i] = f[i]
      /\ s[m + 1] = PartRoot(n, e, g)
  BY <1>5, <1>8, PutLast
<1>10. PartsAndRoot(n, e, g, s)
  BY <1>3, <1>6, <1>9 DEF PartsAndRoot
<1>11. QED
  BY <1>1, <1>2, <1>7, <1>8, <1>10

\* A kvtree_write_to_gather begins.
LEMMA WriteToGatherStep ==
  ASSUME GatherInv, NEW n \in Jobs, NEW e \in PerFile, WriteToGather(n, e)
  PROVE  GatherInv'
<1> USE DEF GatherInv
<1>1. /\ n \in Nat \ {0} /\ e \in Nat \ {0}
      /\ todo' = [r \in {0} |-> todo'[0]]
      /\ PartsAndRoot(n, e, gen + 1, todo'[0])
  BY WriteToGatherIs
<1>2. /\ op' = "write_to_gather" /\ ranks' = n /\ gen' = gen + 1 /\ whole' = 0 /\ files' = files
      /\ pc' = [r \in {0} |-> "write"] /\ rc' = [r \in {0} |-> TRUE] /\ level' = 1
      /\ hash' = [r \in {0} |-> EmptyHash] /\ data' = [r \in {0} |-> {}]
      /\ valid' = {} /\ file' = [r \in {0} |-> NoFile]
  BY DEF WriteToGather, Call, Locals, NoData
<1>3. Rank' = {0} /\ gen \in Nat /\ gen + 1 \in Nat /\ {0} = 0 .. 1 - 1
  BY <1>2 DEF Rank, LocalInv
<1>4. PICK m \in Nat \ {0} : m = Cardinality(PartWriters(n, e))
  BY <1>1, PartsCounted
<1>5. PICK s \in Seq(Items(gen + 1)) :
        /\ s = todo'[0] /\ Len(s) = m + 1
        /\ \A i \in 1 .. m : s[i] = PartItem(n, e, gen + 1, i)
        /\ s[m + 1] = PartRoot(n, e, gen + 1)
  BY <1>1, <1>4 DEF PartsAndRoot
<1>6. LocalInv'
  <2>1. EmptyHash \in Contents
    BY DEF Contents
  <2>2. /\ pc' \in [{0} -> Places] /\ rc' \in [{0} -> BOOLEAN] /\ hash' \in [{0} -> Contents]
        /\ file' \in [{0} -> Names \cup {NoFile}] /\ level' \in Nat \ {0}
        /\ \A r \in DOMAIN data' : data'[r] = {}
    BY <1>2, <2>1 DEF Places
  <2>3. todo' \in [{0} -> Seq(Items(gen + 1))]
    BY <1>1, <1>5
  <2>4. QED
    BY <1>1, <1>2, <1>3, <2>2, <2>3 DEF LocalInv
<1>7. pc'[0] = "write"
  BY <1>2
<1>8. PhaseInv' /\ Writing'
  BY <1>2, <1>3, <1>7 DEF PhaseInv, AllIn, Writing
<1>9. FilesInv'
  <2>1. \A f \in DOMAIN files : Fits(gen + 1, f, files[f])
    BY <1>3, FitsLater DEF FilesInv
  <2>2. QED
    BY <1>2, <2>1 DEF FilesInv
<1>10. ASSUME NEW i \in 1 .. m
       PROVE  \E w \in Nat : s[i].file = Name(0, w) /\ s[i].content.ranks = n
  <2>1. (i - 1) * e \in Nat
    <3>1. i - 1 \in Nat
      OBVIOUS
    <3>2. QED
      BY <1>1, <3>1, DivisionFacts
  <2>2. s[i].file = Name(0, (i - 1) * e) /\ s[i].content.ranks = n
    <3>1. s[i] = PartItem(n, e, gen + 1, i)
      BY <1>5
    <3>2. QED
      BY <3>1, ContentFacts DEF PartItem
  <2>3. QED
    BY <2>1, <2>2
<1>11. RootItem(s[m + 1], n, gen + 1)
  <2>1. 0 \in PartWriters(n, e) /\ PartWriters(n, e) \in SUBSET Nat
    BY <1>1, PartsCounted
  <2>2. QED
    BY <1>5, <2>1 DEF RootItem, PartRoot
<1>12. WriteInv'
  <2>1. Len(todo'[0]) - 1 = m /\ Len(todo'[0]) = m + 1
    BY <1>5
  <2>2. /\ \A i \in 1 .. Len(todo'[0]) - 1 :
             \E w \in Nat : todo'[0][i].file = Name(0, w) /\ todo'[0][i].content.ranks = n
        /\ RootItem(todo'[0][Len(todo'[0])], n, gen + 1)
    BY <1>5, <1>10, <1>11, <2>1
  <2>3. \A r \in Rank' : pc'[r] # "opened" /\ pc'[r] # "gather"
    BY <1>3, <1>7
  <2>4. 0 \in Rank'
    BY <1>3
  <2>5. QED
    BY <1>1, <1>2, <1>3, <2>2, <2>3, <2>4 DEF WriteInv, AllIn
<1>13. MapInv' /\ DataInv'
  BY <1>2 DEF MapInv, DataInv
<1>14. RefuseInv'
  <2>1. 1 \in 1 .. m /\ 1 \in 1 .. Len(todo'[0])
    BY <1>5
  <2>2. (1 - 1) * e = 0
    BY <1>1
  <2>3. todo'[0][1].file = Name(0, 0)
    <3>1. todo'[0][1] = PartItem(n, e, gen + 1, 1)
      BY <1>5, <2>1
    <3>2. QED
      BY <2>2, <3>1 DEF PartItem
  <2>4. QED
    BY <1>2, <2>1, <2>3 DEF RefuseInv
<1>15. ResultInv'
  BY <1>2 DEF ResultInv, OwnTreesOnly, OtherSizeRefused
<1>16. QED
  BY <1>6, <1>8, <1>9, <1>12, <1>13, <1>14, <1>15

-----------------------------------------------------------------------------
(* Reading begins; the rest. *)

\* A kvtree_read_scatter begins.
LEMMA ReadScatterStep ==
  ASSUME GatherInv, NEW n \in Jobs, ReadScatter(n)
  PROVE  GatherInv'
<1> USE DEF GatherInv
<1>1. n \in Nat \ {0}
  BY GatherAssumption
<1>2. PICK R : R = 0 .. n - 1 /\ 0 \in R
  BY <1>1
<1>3. /\ op' = "read_scatter" /\ ranks' = n /\ gen' = gen /\ whole' = whole /\ files' = files
      /\ pc' = [r \in R |-> "map"] /\ rc' = [r \in R |-> TRUE] /\ level' = 1
      /\ hash' = [r \in R |-> EmptyHash] /\ data' = [r \in R |-> {}]
      /\ todo' = [r \in R |-> <<>>]
      /\ valid' = {} /\ file' = [r \in R |-> IF r = 0 THEN Root ELSE NoFile]
  BY <1>2 DEF ReadScatter, Call, Locals, NoData, FirstFiles
<1>4. Rank' = R
  BY <1>3 DEF Rank
<1>5. LocalInv'
  <2>1. EmptyHash \in Contents
    BY DEF Contents
  <2>2. /\ pc' \in [R -> Places] /\ rc' \in [R -> BOOLEAN] /\ hash' \in [R -> Contents]
        /\ file' \in [R -> Names \cup {NoFile}] /\ level' \in Nat \ {0}
        /\ \A r \in DOMAIN data' : data'[r] = {}
    BY <1>3, <2>1, NameFacts DEF Places
  <2>3. todo' \in [R -> Seq(Items(gen))]
    BY <1>3
  <2>4. QED
    BY <1>1, <1>2, <1>3, <1>4, <2>2, <2>3 DEF LocalInv
<1>6. \A r \in R : pc'[r] = "map"
  BY <1>3
<1>7. PhaseInv' /\ FilesInv'
  BY <1>3, <1>4, <1>6 DEF PhaseInv, FilesInv, AllIn
<1>8. WriteInv' /\ DataInv' /\ RefuseInv'
  BY <1>2, <1>3, <1>4, <1>6 DEF WriteInv, DataInv, RefuseInv, AllIn, Writing
<1>9. MapInv'
  BY <1>2, <1>3, <1>4, <1>6, NameFacts DEF MapInv
<1>10. ResultInv'
  BY <1>2, <1>4, <1>6 DEF ResultInv, OwnTreesOnly, OtherSizeRefused, Idle
<1>11. QED
  BY <1>5, <1>7, <1>8, <1>9, <1>10

\* A kvtree_read_scatter_single runs.
LEMMA ReadScatterSingleStep ==
  ASSUME GatherInv, NEW bad, ReadScatterSingle(bad)
  PROVE  GatherInv'
<1> USE DEF GatherInv
<1>1. /\ op' = "read_scatter_single" /\ gen' = gen /\ whole' = whole /\ files' = files
      /\ pc' = [r \in {0} |-> "done"] /\ level' = 1
      /\ hash' = [r \in {0} |-> EmptyHash]
      /\ todo' = [r \in {0} |-> <<>>]
      /\ valid' = {} /\ file' = [r \in {0} |-> NoFile]
  BY DEF ReadScatterSingle, Call, Locals
<1>2. rc' \in [{0} -> BOOLEAN]
  BY DEF ReadScatterSingle, Locals
<1>3. ranks' \in Nat
  <2>1. Root \in DOMAIN files => files[Root].ranks \in Nat
    BY ContentFacts DEF FilesInv, Fits, IsData, IsMap
  <2>2. ranks' = 0 \/ (Root \in DOMAIN files /\ ranks' = files[Root].ranks)
    BY DEF ReadScatterSingle
  <2>3. QED
    BY <2>1, <2>2
<1>4. ASSUME NEW q \in DOMAIN data', NEW t \in data'[q]
      PROVE  t.gen \in 1 .. gen
  <2>1. PICK subs : subs = SubFiles(DOMAIN files \ bad)
    OBVIOUS
  <2>2. \/ data' = [r \in {} |-> {}]
        \/ data' = [p \in UNION {DOMAIN files[f].entries : f \in subs} |->
                     UNION {files[f].entries[p] : f \in {f \in subs : p \in DOMAIN files[f].entries}}]
    BY <2>1 DEF ReadScatterSingle, Locals, NoData
  <2>3. PICK f \in subs : q \in DOMAIN files[f].entries /\ t \in files[f].entries[q]
    BY <1>4, <2>2
  <2>4. f \in DOMAIN files /\ files[f].level = 0
    BY <2>1, <2>3 DEF SubFiles
  <2>5. IsData(gen, f, files[f])
    BY <2>4, ContentFacts DEF FilesInv, Fits, IsMap
  <2>6. PICK n \in Nat \ {0}, g \in 1 .. gen, S \in SUBSET Nat : files[f] = DataOf(n, g, S)
    BY <2>5 DEF IsData
  <2>7. t = Tree(g, n, q)
    BY <2>3, <2>6, ContentFacts
  <2>8. QED
    BY <2>7 DEF Tree
<1>5. Rank' = {0} /\ {0} = 0 .. 1 - 1
  BY <1>1 DEF Rank
<1>6. LocalInv'
  <2>1. EmptyHash \in Contents
    BY DEF Contents
  <2>2. /\ pc' \in [{0} -> Places] /\ hash' \in [{0} -> Contents]
        /\ file' \in [{0} -> Names \cup {NoFile}] /\ level' \in Nat \ {0}
    BY <1>1, <2>1 DEF Places
  <2>3. todo' \in [{0} -> Seq(Items(gen))]
    BY <1>1
  <2>4. QED
    BY <1>1, <1>2, <1>3, <1>4, <1>5, <2>2, <2>3 DEF LocalInv
<1>7. pc'[0] = "done"
  BY <1>1
<1>8. PhaseInv' /\ FilesInv'
  BY <1>1, <1>5, <1>7 DEF PhaseInv, FilesInv, AllIn
<1>9. WriteInv' /\ MapInv' /\ DataInv' /\ RefuseInv'
  BY <1>1, <1>5, <1>7 DEF WriteInv, MapInv, DataInv, RefuseInv, AllIn, Writing
<1>10. ResultInv'
  BY <1>1 DEF ResultInv, OwnTreesOnly, OtherSizeRefused
<1>11. QED
  BY <1>6, <1>8, <1>9, <1>10

\* The job dies.
LEMMA CrashStep ==
  ASSUME GatherInv, Crash
  PROVE  GatherInv'
<1> USE DEF GatherInv
<1>1. /\ op' = "none" /\ gen' = gen /\ whole' = whole /\ ranks' = 1
      /\ pc' = [r \in {0} |-> "done"] /\ level' = 1
      /\ rc' = [r \in {0} |-> FALSE] /\ data' = [r \in {0} |-> {}]
      /\ hash' = [r \in {0} |-> EmptyHash]
      /\ todo' = [r \in {0} |-> <<>>]
      /\ valid' = {} /\ file' = [r \in {0} |-> NoFile]
  BY DEF Crash, Locals, NoData
<1>2. Rank' = {0} /\ {0} = 0 .. 1 - 1
  BY <1>1 DEF Rank
<1>3. PICK torn : /\ files' = Lose(torn)
                  /\ torn \subseteq {NextWrite(r).file : r \in {r \in Rank : pc[r] = "opened"}}
  BY DEF Crash
<1>4. /\ FilesInv' /\ DOMAIN files' = DOMAIN files \ torn
      /\ \A f \in DOMAIN files' : files'[f] = files[f]
  BY <1>1, <1>3, LoseFits
<1>5. whole # 0 => torn = {}
  <2>1. ASSUME NEW r \in Rank, pc[r] = "opened"
        PROVE  whole = 0
    BY <2>1 DEF PhaseInv, AllIn, RefuseInv, Writing
  <2>2. QED
    BY <1>3, <2>1
<1>6. LocalInv'
  <2>1. EmptyHash \in Contents
    BY DEF Contents
  <2>2. /\ pc' \in [{0} -> Places] /\ hash' \in [{0} -> Contents] /\ rc' \in [{0} -> BOOLEAN]
        /\ file' \in [{0} -> Names \cup {NoFile}] /\ level' \in Nat \ {0}
        /\ \A r \in DOMAIN data' : data'[r] = {}
    BY <1>1, <2>1 DEF Places
  <2>3. todo' \in [{0} -> Seq(Items(gen))]
    BY <1>1
  <2>4. QED
    BY <1>1, <1>2, <2>2, <2>3 DEF LocalInv
<1>7. pc'[0] = "done"
  BY <1>1
<1>8. PhaseInv'
  BY <1>2, <1>7 DEF PhaseInv, AllIn
<1>9. WriteInv' /\ MapInv' /\ DataInv'
  BY <1>1, <1>2, <1>7 DEF WriteInv, MapInv, DataInv, AllIn
<1>10. RefuseInv'
  BY <1>1, <1>2, <1>4, <1>5, <1>7 DEF RefuseInv, AllIn, Writing
<1>11. ResultInv'
  BY <1>1 DEF ResultInv, OwnTreesOnly, OtherSizeRefused
<1>12. QED
  BY <1>4, <1>6, <1>8, <1>9, <1>10, <1>11

\* Every step keeps the invariant.
LEMMA GatherInvInductive == GatherInv /\ [Next]_vars => GatherInv'
<1> SUFFICES ASSUME GatherInv, [Next]_vars
             PROVE  GatherInv'
  OBVIOUS
<1>1. CASE Start
  BY <1>1, WriteGatherStep, WriteToGatherStep, ReadScatterStep, ReadScatterSingleStep DEF Start
<1>2. CASE Step
  BY <1>2, WriteGatherMapStep, EndWriteStep, ScatterMapStep, ScatterMapFailsStep, ScatterStep,
     OpenFileStep, WriteFileStep, WriteErrorStep, ReadMapStep, ReadDataStep, ReadErrorStep DEF Step
<1>3. CASE Crash
  BY <1>3, CrashStep
<1>4. CASE UNCHANGED vars
  <2>1. /\ files' = files /\ op' = op /\ ranks' = ranks /\ gen' = gen /\ whole' = whole
        /\ pc' = pc /\ rc' = rc /\ level' = level /\ valid' = valid /\ todo' = todo
        /\ file' = file /\ hash' = hash /\ data' = data
    BY <1>4 DEF vars, locals
  <2>2. Rank' = Rank
    BY <2>1 DEF Rank
  <2>3. LocalInv' /\ FilesInv' /\ PhaseInv'
    BY <2>1, <2>2 DEF GatherInv, LocalInv, FilesInv, PhaseInv, AllIn, Writing
  <2>4. WriteInv'
    BY <2>1, <2>2 DEF GatherInv, WriteInv, AllIn
  <2>5. MapInv' /\ DataInv' /\ RefuseInv'
    BY <2>1, <2>2 DEF GatherInv, MapInv, DataInv, RefuseInv, AllIn, Writing
  <2>6. ResultInv'
    BY <2>1, <2>2 DEF GatherInv, ResultInv, OwnTreesOnly, OtherSizeRefused, Idle
  <2>7. QED
    BY <2>3, <2>4, <2>5, <2>6 DEF GatherInv
<1>5. QED
  BY <1>1, <1>2, <1>3, <1>4 DEF Next, Finished

-----------------------------------------------------------------------------
(* Theorems. *)

\* The invariant holds in every state.
THEOREM GatherInvHolds == Spec => []GatherInv
<1>1. Init => GatherInv
  BY GatherInvInit
<1>2. GatherInv /\ [Next]_vars => GatherInv'
  BY GatherInvInductive
<1>3. QED
  BY <1>1, <1>2, PTL DEF Spec

\* The variables have their types: every name and LEVEL of a file, and every tree
\* that is returned.
THEOREM TypeCorrect == Spec => []TypeOK
BY GatherInvHolds, GatherInvImplies, PTL

\* All maps under the prefix, whichever writes they come from and however those
\* ended, send a rank to the same file of a level: kvtree_read_scatter_map may
\* take the first entry that reaches it.
THEOREM OneFilePerReaderHolds == Spec => []OneFilePerReader
BY GatherInvHolds, GatherInvImplies, PTL

\* kvtree_mpi_io.c:473, "rank 0, which we assume to be a reader in all steps".
THEOREM RankZeroReadsHolds == Spec => []RankZeroReads
BY GatherInvHolds, GatherInvImplies, PTL

\* A kvtree_read_scatter that succeeds gives a rank only trees that a rank of its
\* number has written in a job of its size, whatever mix of files is left.
THEOREM OwnTreesOnlyHolds == Spec => []OwnTreesOnly
BY GatherInvHolds, GatherInvImplies, PTL

\* A job of another size than that of the last complete write is refused on all
\* ranks.
THEOREM OtherSizeRefusedHolds == Spec => []OtherSizeRefused
BY GatherInvHolds, GatherInvImplies, PTL

=============================================================================
