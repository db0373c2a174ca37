--------------------------- MODULE WorkspaceProofs ----------------------------
(***************************************************************************)
(* The filesystem tool, for any calls, any tree of files under any paths   *)
(* that are closed under prefixes, any limits and any step that fails.     *)
(* The inductive invariant says that the tree is a tree, and of a call     *)
(* that nobody overlapped what it has done so far of what it promises:     *)
(* which paths of a copy are made, how much of a walk is searched, what a  *)
(* removal has taken away. A call that another one overlapped promises     *)
(* nothing, but it has to leave the others what they know.                 *)
(*                                                                         *)
(* A walk takes directories in any order, so what it still has to find is  *)
(* described by the directories that are left, and a removal by what is    *)
(* still there.                                                            *)
(***************************************************************************)
EXTENDS Workspace, SequenceTheorems, FiniteSetTheorems, WellFoundedInduction, TLAPS

Nodes == {Directory} \cup Seq(Nat)
Trees == UNION {[D -> Nodes] : D \in SUBSET Paths}
WorkOperations == Reads \cup Writes \cup {"none", "end"}
Awaits == {"idle", "truncate", "fill", "read", "open", "remove", "stat", "list", "glob", "search",
           "mkdir", "move"}
Hits == Paths \X (1..ReadLimit)
Finds == (Paths \X Seq(Nat) \X BOOLEAN) \cup {<<q>> : q \in Paths} \cup Hits
WorkCall ==
  [op : WorkOperations, at : Awaits, n : Nat, path : Paths, dest : Paths, deep : BOOLEAN,
   seen : Seq(Nat), dirs : SUBSET Paths, found : SUBSET Finds, before : Trees,
   alone : BOOLEAN, failed : BOOLEAN, answer : {"none", "ok", "failed"}]

\* Whatever is in a tree, all that is above it is there and a directory.
Rooted(tree) == \A q \in DOMAIN tree, p \in Paths : IsStrictPrefix(p, q) => IsDir(tree, p)
TreeOK(tree) == tree \in Trees /\ Rooted(tree)

\* The awaits of each operation.
AwaitsOf(op) ==
  CASE op = "none" -> {"idle"}
    [] op = "write" -> {"truncate", "fill"}
    [] op \in {"append", "patch"} -> {"read", "truncate", "fill"}
    [] op = "copy" -> {"open", "truncate", "fill"}
    [] op \in {"delete", "end"} -> {"remove"}
    [] op \in Reads \cup {"mkdir", "move"} -> {op}

\* What a call has on it, of what was checked when it began too.
CallOK(c) ==
  /\ c \in WorkCall /\ c.at \in AwaitsOf(c.op)
  /\ c.op # "none" => TreeOK(c.before)
  /\ c.op \in Reads => c.path \in DOMAIN c.before
  /\ c.op \in {"mkdir", "delete", "move", "end"} => c.path # << >>
  /\ c.op = "mkdir" => IsDir(c.before, Front(c.path))
  /\ c.op \in {"copy", "move"} => c.dest # << >>
  /\ c.op = "copy" => c.path # c.dest
  /\ c.at = "fill" => TruncatedPath(c) # << >>
  /\ c.op = "search" => c.found \in SUBSET Hits /\ Cardinality(c.found) < MaxMatches

Text(tree, p) == IF IsFile(tree, p) THEN tree[p] ELSE << >>

\* The files that a search looks at, and those it still finds from a directory.
Searched(c) ==
  {q \in Under(c.before, c.path) : q = c.path \/ Len(q) = Len(c.path) + 1 \/ c.deep}
FoundFrom(c, d) ==
  {q \in Under(c.before, d) : q = d \/ Len(q) = Len(d) + 1 \/ c.deep}

\* A search has found everything but what is below the directories that are left.
Searching(c) ==
  /\ c.dirs \subseteq Under(c.before, c.path) /\ (~c.deep => c.dirs \subseteq {c.path})
  /\ c.found \subseteq UNION {Matches(c.before, q) : q \in Searched(c)}
  /\ \A q \in Searched(c) : Matches(c.before, q) \subseteq c.found
                            \/ \E d \in c.dirs : q \in FoundFrom(c, d)

\* What a call that was read for is about to write.
Writing(c) ==
  LET text == Text(c.before, c.path) IN
  CASE c.op = "write" -> c.at = "fill" => c.seen = <<c.n>>
    [] c.op = "append" -> c.at # "read" => c.seen = text \o <<c.n>>
    [] c.op = "patch" -> c.at # "read" =>
         \E i \in DOMAIN text : /\ text[i] = Needle /\ \A j \in 1..(i - 1) : text[j] # Needle
                                /\ c.seen = [text EXCEPT ![i] = c.n]
    [] c.op = "copy" -> c.at # "open" => IsFile(c.before, c.path) /\ c.seen = text
    [] OTHER -> TRUE

\* What a call that nothing disturbed has done so far.
DoneSoFar(c, tree) ==
  /\ IF c.at = "remove" THEN tree = Cut(c.before, Below(c.before, c.path) \ DOMAIN tree)
     ELSE tree = IF c.at = "fill" THEN Put(c.before, TruncatedPath(c), << >>) ELSE c.before
  /\ c.op = "search" => Searching(c)
  /\ ~c.failed => Writing(c)

Undisturbed(w) ==
  /\ \A v \in Workers \ {w} : work[v].op \in Reads \cup {"none"}
  /\ DoneSoFar(work[w], files)

WorkspaceIInv ==
  /\ TreeOK(files) /\ session \in BOOLEAN /\ IsDir(files, << >>)
  /\ calls \in 0..MaxCalls
  /\ work \in [Workers -> WorkCall]
  /\ \A w \in Workers : /\ CallOK(work[w])
                        /\ work[w].alone /\ work[w].op # "none" => Undisturbed(w)

-----------------------------------------------------------------------------
(* Paths.                                                                   *)

\* A prefix agrees name by name.
LEMMA PrefixIs ==
  ASSUME NEW S, NEW p \in Seq(S), NEW q \in Seq(S)
  PROVE  /\ IsPrefix(p, q) <=> Len(p) <= Len(q) /\ \A i \in 1..Len(p) : p[i] = q[i]
         /\ Len(p) \in Nat /\ Len(q) \in Nat
<1>1. Len(p) \in Nat /\ Len(q) \in Nat /\ DOMAIN p = 1..Len(p) /\ DOMAIN q = 1..Len(q)
  OBVIOUS
<1>2. SubSeq(p, 1, Len(p)) = p
  BY SubSeqFull
<1>3. ASSUME Len(p) <= Len(q) PROVE p = SubSeq(q, 1, Len(p)) <=> \A i \in 1..Len(p) : p[i] = q[i]
  <2> DEFINE r == SubSeq(q, 1, Len(p))
  <2>1. \A i \in 1..Len(p) : q[i] \in S
    BY <1>1, <1>3
  <2>2. /\ r \in Seq(S) /\ Len(r) = IF 1 <= Len(p) THEN Len(p) - 1 + 1 ELSE 0
        /\ \A i \in 1..(Len(p) - 1 + 1) : r[i] = q[1 + i - 1]
    BY <1>1, <2>1, SubSeqProperties
  <2> HIDE DEF r
  <2>3. Len(r) = Len(p) /\ \A i \in 1..Len(p) : r[i] = q[i]
    BY <1>1, <2>2
  <2>4. p = r <=> \A i \in 1..Len(p) : p[i] = r[i]
    BY <2>2, <2>3, SeqEqual
  <2> QED
    BY <2>3, <2>4 DEF r
<1> QED
  BY <1>1, <1>2, <1>3 DEF IsPrefix

\* Paths are finitely many sequences of names, with the root among them.
LEMMA PathsAre ==
  /\ Paths \subseteq Seq(STRING) /\ << >> \in Paths /\ IsFiniteSet(Paths)
  /\ \A p \in Paths : p \in Seq(STRING) /\ Len(p) \in Nat /\ (p # << >> <=> Len(p) > 0)
<1>1. Paths \subseteq Seq(STRING) /\ << >> \in Paths /\ IsFiniteSet(Paths)
  BY WorkspaceAssumption
<1>2. ASSUME NEW p \in Paths PROVE p \in Seq(STRING) /\ Len(p) \in Nat /\ (p # << >> <=> Len(p) > 0)
  <2>1. p \in Seq(STRING)
    BY <1>1
  <2>2. Len(p) \in Nat
    BY <2>1
  <2> QED
    BY <2>1, <2>2, EmptySeq
<1> QED
  BY <1>1, <1>2

\* Prefixes are ordered by their lengths.
LEMMA PrefixOrder ==
  ASSUME NEW p \in Paths, NEW q \in Paths
  PROVE  /\ IsPrefix(p, p) /\ IsPrefix(<< >>, p)
         /\ IsPrefix(p, q) => Len(p) <= Len(q) /\ (Len(p) = Len(q) => p = q)
         /\ IsStrictPrefix(p, q) <=> IsPrefix(p, q) /\ Len(p) < Len(q)
         /\ \A r \in Paths : IsPrefix(p, q) /\ IsPrefix(q, r) => IsPrefix(p, r)
         /\ \A r \in Paths : IsPrefix(p, r) /\ IsPrefix(q, r) /\ Len(p) <= Len(q) => IsPrefix(p, q)
<1>1. p \in Seq(STRING) /\ q \in Seq(STRING) /\ << >> \in Seq(STRING) /\ Len(<< >>) = 0
      /\ Len(p) \in Nat /\ Len(q) \in Nat /\ Paths \subseteq Seq(STRING)
  BY PathsAre, EmptySeq
<1>2. IsPrefix(p, p) /\ IsPrefix(<< >>, p)
  <2>1. IsPrefix(p, p)
    BY <1>1, PrefixIs
  <2>2. \A i \in 1..Len(<< >>) : <<>>[i] = p[i]
    BY <1>1
  <2>3. Len(<< >>) <= Len(p)
    BY <1>1
  <2> QED
    BY <1>1, <2>1, <2>2, <2>3, PrefixIs
<1>3. IsPrefix(p, q) => Len(p) <= Len(q) /\ (Len(p) = Len(q) => p = q)
  BY <1>1, PrefixIs, SeqEqual
<1>4. IsStrictPrefix(p, q) <=> IsPrefix(p, q) /\ Len(p) < Len(q)
  BY <1>1, <1>3 DEF IsStrictPrefix
<1>5. ASSUME NEW r \in Paths, IsPrefix(p, q), IsPrefix(q, r) PROVE IsPrefix(p, r)
  <2>1. r \in Seq(STRING) /\ Len(r) \in Nat
    BY PathsAre
  <2>2. Len(p) <= Len(q) /\ Len(q) <= Len(r) /\ (\A i \in 1..Len(p) : p[i] = q[i])
        /\ \A i \in 1..Len(q) : q[i] = r[i]
    BY <1>1, <1>5, <2>1, PrefixIs
  <2>3. Len(p) <= Len(r) /\ \A i \in 1..Len(p) : p[i] = r[i]
    BY <1>1, <2>1, <2>2
  <2> QED
    BY <1>1, <2>1, <2>3, PrefixIs
<1>6. ASSUME NEW r \in Paths, IsPrefix(p, r), IsPrefix(q, r), Len(p) <= Len(q) PROVE IsPrefix(p, q)
  <2>1. r \in Seq(STRING)
    BY PathsAre
  <2>2. (\A i \in 1..Len(p) : p[i] = r[i]) /\ \A i \in 1..Len(q) : q[i] = r[i]
    BY <1>1, <1>6, <2>1, PrefixIs
  <2>3. \A i \in 1..Len(p) : p[i] = q[i]
    BY <1>1, <1>6, <2>2
  <2> QED
    BY <1>1, <1>6, <2>3, PrefixIs
<1> QED
  BY <1>2, <1>3, <1>4, <1>5, <1>6

\* The first names of a path.
LEMMA NamesOf ==
  ASSUME NEW p \in Paths, NEW k \in 0..Len(p)
  PROVE  SubSeq(p, 1, k) \in Paths /\ Len(SubSeq(p, 1, k)) = k /\ IsPrefix(SubSeq(p, 1, k), p)
<1>1. p \in Seq(STRING) /\ Len(p) \in Nat /\ DOMAIN p = 1..Len(p)
  BY PathsAre
<1>2. CASE k = 0
  <2>1. SubSeq(p, 1, k) = << >>
    <3>1. 1 \in Int /\ k \in Int /\ k < 1
      BY <1>2
    <3> QED
      BY <3>1, SubSeqEmpty
  <2> QED
    BY <1>2, <2>1, PathsAre, PrefixOrder, EmptySeq
<1>3. CASE k \in 1..Len(p)
  <2> DEFINE r == SubSeq(p, 1, k)
  <2>1. \A i \in 1..k : p[i] \in STRING
    BY <1>1, <1>3
  <2>2. 1 \in Int /\ k \in Int
    OBVIOUS
  <2>3. /\ r \in Seq(STRING) /\ Len(r) = IF 1 <= k THEN k - 1 + 1 ELSE 0
        /\ \A i \in 1..(k - 1 + 1) : r[i] = p[1 + i - 1]
    BY <2>1, <2>2, SubSeqProperties
  <2>4. r \in Paths
    BY <1>3, WorkspaceAssumption
  <2> HIDE DEF r
  <2>5. Len(r) = k /\ \A i \in 1..k : r[i] = p[i]
    BY <1>3, <2>3
  <2>6. IsPrefix(r, p)
    BY <1>1, <1>3, <2>3, <2>5, PrefixIs
  <2> QED
    BY <2>4, <2>5, <2>6 DEF r
<1> QED
  BY <1>1, <1>2, <1>3

\* The directory of a path is above it, below all the others that are.
LEMMA FrontIs ==
  ASSUME NEW p \in Paths, p # << >>
  PROVE  /\ Front(p) \in Paths /\ Len(Front(p)) = Len(p) - 1 /\ IsStrictPrefix(Front(p), p)
         /\ \A q \in Paths : IsStrictPrefix(q, p) => q = Front(p) \/ IsStrictPrefix(q, Front(p))
<1>1. Len(p) \in Nat /\ Len(p) > 0
  BY PathsAre
<1>2. Len(p) - 1 \in 0..Len(p)
  BY <1>1
<1>3. Front(p) \in Paths /\ Len(Front(p)) = Len(p) - 1 /\ IsPrefix(Front(p), p)
  BY <1>2, NamesOf DEF Front
<1>4. IsStrictPrefix(Front(p), p)
  BY <1>1, <1>3, PrefixOrder
<1>5. ASSUME NEW q \in Paths, IsStrictPrefix(q, p) PROVE q = Front(p) \/ IsStrictPrefix(q, Front(p))
  <2>1. IsPrefix(q, p) /\ Len(q) < Len(p) /\ Len(q) \in Nat
    BY <1>5, PrefixOrder, PathsAre
  <2>2. Len(q) <= Len(Front(p))
    BY <1>1, <1>3, <2>1
  <2>3. IsPrefix(q, Front(p))
    BY <1>3, <2>1, <2>2, PrefixOrder
  <2> QED
    BY <2>3 DEF IsStrictPrefix
<1> QED
  BY <1>3, <1>4, <1>5

-----------------------------------------------------------------------------
(* Trees.                                                                   *)

\* Trees are the functions from paths to nodes.
LEMMA TreesAre ==
  /\ \A tree \in Trees : DOMAIN tree \subseteq Paths /\ tree \in [DOMAIN tree -> Nodes]
  /\ \A D \in SUBSET Paths : [D -> Nodes] \subseteq Trees
BY DEF Trees

\* A tree with a node put at a path.
LEMMA PutIs ==
  ASSUME NEW tree \in Trees, NEW p \in Paths, NEW node \in Nodes
  PROVE  /\ Put(tree, p, node) \in Trees /\ DOMAIN Put(tree, p, node) = DOMAIN tree \cup {p}
         /\ Put(tree, p, node)[p] = node
         /\ \A q \in DOMAIN tree : q # p => Put(tree, p, node)[q] = tree[q]
<1>1. DOMAIN tree \cup {p} \in SUBSET Paths /\ tree \in [DOMAIN tree -> Nodes]
  BY TreesAre
<1>2. Put(tree, p, node) \in [DOMAIN tree \cup {p} -> Nodes]
  BY <1>1 DEF Put
<1> QED
  BY <1>1, <1>2, TreesAre DEF Put

\* A file in a directory that is there.
LEMMA PutOK ==
  ASSUME NEW tree, TreeOK(tree), NEW p \in Paths, p # << >>, IsDir(tree, Front(p)), ~IsDir(tree, p),
         NEW node \in Seq(Nat)
  PROVE  TreeOK(Put(tree, p, node))
<1> DEFINE new == Put(tree, p, node)
<1>1. /\ tree \in Trees /\ new \in Trees /\ DOMAIN new = DOMAIN tree \cup {p}
      /\ \A q \in DOMAIN tree : q # p => new[q] = tree[q]
      /\ DOMAIN tree \subseteq Paths
  <2>1. tree \in Trees /\ node \in Nodes
    BY DEF TreeOK, Nodes
  <2> QED
    BY <2>1, PutIs, TreesAre
<1> HIDE DEF new
<1>2. ASSUME NEW q \in DOMAIN new, NEW r \in Paths, IsStrictPrefix(r, q) PROVE IsDir(new, r)
  <2>1. IsDir(tree, r)
    <3>1. CASE q \in DOMAIN tree
      BY <1>2, <3>1 DEF TreeOK, Rooted
    <3>2. CASE q = p
      <4>1. r = Front(p) \/ IsStrictPrefix(r, Front(p))
        BY <1>2, <3>2, FrontIs
      <4>2. IsStrictPrefix(r, Front(p)) => IsDir(tree, r)
        BY DEF TreeOK, Rooted, IsDir
      <4> QED
        BY <4>1, <4>2
    <3> QED
      BY <1>1, <3>1, <3>2
  <2> QED
    BY <1>1, <2>1 DEF IsDir
<1> QED
  BY <1>1, <1>2 DEF TreeOK, Rooted, new

\* Nothing is below what is cut.
LEMMA CutOK ==
  ASSUME NEW tree, TreeOK(tree), NEW p \in DOMAIN tree, Below(tree, p) = {}
  PROVE  /\ TreeOK(Cut(tree, {p})) /\ DOMAIN Cut(tree, {p}) = DOMAIN tree \ {p}
         /\ \A q \in DOMAIN tree \ {p} : Cut(tree, {p})[q] = tree[q]
<1> DEFINE new == Cut(tree, {p})
<1>1. tree \in [DOMAIN tree -> Nodes] /\ DOMAIN tree \subseteq Paths
  BY TreesAre DEF TreeOK
<1>2. new = [q \in DOMAIN tree \ {p} |-> tree[q]]
  BY DEF Cut, Restrict
<1> HIDE DEF new
<1>3. new \in [DOMAIN tree \ {p} -> Nodes] /\ \A q \in DOMAIN tree \ {p} : new[q] = tree[q]
  BY <1>1, <1>2
<1>4. new \in Trees
  <2>1. DOMAIN tree \ {p} \in SUBSET Paths
    BY <1>1
  <2> QED
    BY <1>3, <2>1, TreesAre
<1>5. ASSUME NEW q \in DOMAIN new, NEW r \in Paths, IsStrictPrefix(r, q) PROVE IsDir(new, r)
  <2>1. q \in DOMAIN tree /\ IsDir(tree, r)
    BY <1>3, <1>5 DEF TreeOK, Rooted
  <2>2. r # p
    BY <1>5, <2>1 DEF Below, Under, IsStrictPrefix
  <2> QED
    BY <1>3, <2>1, <2>2 DEF IsDir
<1> QED
  BY <1>3, <1>4, <1>5 DEF TreeOK, Rooted, new

\* All that is missing above a path is made, unless a file is in the way.
LEMMA MkdirOK ==
  ASSUME NEW tree, TreeOK(tree), NEW p \in Paths,
         \A q \in DOMAIN tree : IsPrefix(q, p) => tree[q] = Directory
  PROVE  LET new == [q \in DOMAIN tree \cup {q \in Paths : IsPrefix(q, p)} |->
                       IF q \in DOMAIN tree THEN tree[q] ELSE Directory]
         IN  /\ TreeOK(new) /\ \A q \in DOMAIN tree : q \in DOMAIN new /\ new[q] = tree[q]
             /\ p \in DOMAIN new
<1> DEFINE D == DOMAIN tree \cup {q \in Paths : IsPrefix(q, p)}
           new == [q \in D |-> IF q \in DOMAIN tree THEN tree[q] ELSE Directory]
<1>1. tree \in [DOMAIN tree -> Nodes] /\ DOMAIN tree \subseteq Paths
  BY TreesAre DEF TreeOK
<1>2. new \in [D -> Nodes] /\ D \in SUBSET Paths
  BY <1>1 DEF Nodes
<1>3. new \in Trees
  <2> HIDE DEF new, D
  <2> QED
    BY <1>2, TreesAre
<1>4. DOMAIN new = D /\ \A q \in D : new[q] = IF q \in DOMAIN tree THEN tree[q] ELSE Directory
  OBVIOUS
<1>5. p \in D
  BY PrefixOrder
<1> HIDE DEF new
<1>6. ASSUME NEW q \in DOMAIN new, NEW r \in Paths, IsStrictPrefix(r, q) PROVE IsDir(new, r)
  <2>1. CASE q \in DOMAIN tree
    <3>1. r \in DOMAIN tree /\ tree[r] = Directory
      BY <1>6, <2>1 DEF TreeOK, Rooted, IsDir
    <3> QED
      BY <1>4, <3>1 DEF IsDir
  <2>2. CASE IsPrefix(q, p)
    <3>1. q \in Paths
      BY <1>2, <1>4, <1>6
    <3>2. IsPrefix(r, p)
      BY <1>6, <2>2, <3>1, PrefixOrder DEF IsStrictPrefix
    <3>3. r \in D /\ new[r] = Directory
      BY <1>4, <3>2
    <3> QED
      BY <1>4, <3>3 DEF IsDir
  <2> QED
    BY <1>4, <1>6, <2>1, <2>2
<1> QED
  BY <1>3, <1>4, <1>5, <1>6 DEF TreeOK, Rooted, new

\* A path with the names before its end exchanged.
Rebased(p, dest, q) == dest \o SubSeq(q, Len(p) + 1, Len(q))

\* A path below one directory is as far below another one.
LEMMA RebasedIs ==
  ASSUME NEW p \in Paths, NEW q \in Paths, NEW dest \in Paths, IsPrefix(p, q)
  PROVE  LET m == Rebased(p, dest, q)
         IN  /\ m \in Seq(STRING) /\ Len(m) = Len(dest) + Len(q) - Len(p)
             /\ \A i \in 1..Len(dest) : m[i] = dest[i]
             /\ \A i \in 1..(Len(q) - Len(p)) : m[Len(dest) + i] = q[Len(p) + i]
<1> DEFINE a == Len(p)
           b == Len(q)
           d == Len(dest)
           rest == SubSeq(q, a + 1, b)
<1>1. /\ q \in Seq(STRING) /\ dest \in Seq(STRING) /\ a \in Nat /\ b \in Nat /\ d \in Nat /\ a <= b
      /\ DOMAIN q = 1..b
  BY PathsAre, PrefixOrder
<1>2. \A i \in (a + 1)..b : q[i] \in STRING
  BY <1>1
<1>3. a + 1 \in Int /\ b \in Int
  BY <1>1
<1>4. /\ rest \in Seq(STRING) /\ Len(rest) = IF a + 1 <= b THEN b - (a + 1) + 1 ELSE 0
      /\ \A i \in 1..(b - (a + 1) + 1) : rest[i] = q[a + 1 + i - 1]
  BY <1>2, <1>3, SubSeqProperties
<1> HIDE DEF a, b, d, rest
<1>5. Len(rest) = b - a /\ \A i \in 1..(b - a) : rest[i] = q[a + i]
  <2>1. Len(rest) = b - a
    BY <1>1, <1>4
  <2>2. ASSUME NEW i \in 1..(b - a) PROVE rest[i] = q[a + i]
    <3>1. i \in 1..(b - (a + 1) + 1) /\ a + 1 + i - 1 = a + i
      BY <1>1
    <3> QED
      BY <1>4, <3>1
  <2> QED
    BY <2>1, <2>2
<1>6. /\ dest \o rest \in Seq(STRING) /\ Len(dest \o rest) = Len(dest) + Len(rest)
      /\ \A i \in 1..Len(dest) + Len(rest) : (dest \o rest)[i] =
           IF i <= Len(dest) THEN dest[i] ELSE rest[i - Len(dest)]
  BY <1>1, <1>4, ConcatProperties
<1>7. \A i \in 1..d : (dest \o rest)[i] = dest[i]
  BY <1>1, <1>5, <1>6 DEF d
<1>8. \A i \in 1..(b - a) : (dest \o rest)[d + i] = q[a + i]
  <2> SUFFICES ASSUME NEW i \in 1..(b - a) PROVE (dest \o rest)[d + i] = q[a + i]
    OBVIOUS
  <2>1. d + i \in 1..Len(dest) + Len(rest) /\ ~(d + i <= Len(dest)) /\ (d + i) - Len(dest) = i
    BY <1>1, <1>5 DEF d
  <2> QED
    BY <1>5, <1>6, <2>1
<1>9. Len(dest \o rest) = d + b - a
  BY <1>1, <1>5, <1>6 DEF d
<1> QED
  BY <1>6, <1>7, <1>8, <1>9 DEF a, b, d, rest, Rebased

\* Exchanged twice, it is what it was.
LEMMA RebasedBack ==
  ASSUME NEW p \in Paths, NEW q \in Paths, NEW dest \in Paths, IsPrefix(p, q),
         NEW m \in Paths, m = Rebased(p, dest, q)
  PROVE  IsPrefix(dest, m) /\ Rebased(dest, p, m) = q /\ Len(m) = Len(dest) + Len(q) - Len(p)
<1> DEFINE a == Len(p)
           b == Len(q)
           d == Len(dest)
           back == Rebased(dest, p, m)
<1>1. /\ p \in Seq(STRING) /\ q \in Seq(STRING) /\ dest \in Seq(STRING) /\ m \in Seq(STRING)
      /\ a \in Nat /\ b \in Nat /\ d \in Nat /\ a <= b
      /\ \A i \in 1..a : p[i] = q[i]
  BY PathsAre, PrefixOrder, PrefixIs
<1>2. /\ Len(m) = d + b - a /\ (\A i \in 1..d : m[i] = dest[i])
      /\ \A i \in 1..(b - a) : m[d + i] = q[a + i]
  <2> DEFINE v == Rebased(p, dest, q)
  <2>1. /\ Len(v) = d + b - a /\ (\A i \in 1..d : v[i] = dest[i])
        /\ \A i \in 1..(b - a) : v[d + i] = q[a + i]
    <3>1. p \in Paths /\ q \in Paths /\ dest \in Paths /\ IsPrefix(p, q)
      OBVIOUS
    <3>2. /\ v \in Seq(STRING) /\ Len(v) = Len(dest) + Len(q) - Len(p)
          /\ \A i \in 1..Len(dest) : v[i] = dest[i]
          /\ \A i \in 1..(Len(q) - Len(p)) : v[Len(dest) + i] = q[Len(p) + i]
      BY <3>1, RebasedIs, Zenon
    <3> HIDE DEF v
    <3> QED
      BY <3>2, Zenon
  <2> HIDE DEF v, a, b, d
  <2>2. m = v
    BY DEF v
  <2> QED
    BY <2>1, <2>2, Zenon
<1>3. IsPrefix(dest, m)
  <2>1. d <= Len(m)
    BY <1>1, <1>2
  <2>2. \A i \in 1..Len(dest) : dest[i] = m[i]
    BY <1>2
  <2> QED
    BY <1>1, <2>1, <2>2, PrefixIs
<1>4. /\ back \in Seq(STRING) /\ Len(back) = a + Len(m) - d /\ (\A i \in 1..a : back[i] = p[i])
      /\ \A i \in 1..(Len(m) - d) : back[a + i] = m[d + i]
  <2>1. dest \in Paths /\ m \in Paths /\ p \in Paths /\ IsPrefix(dest, m)
    BY <1>3
  <2>2. /\ back \in Seq(STRING) /\ Len(back) = Len(p) + Len(m) - Len(dest)
        /\ \A i \in 1..Len(p) : back[i] = p[i]
        /\ \A i \in 1..(Len(m) - Len(dest)) : back[Len(p) + i] = m[Len(dest) + i]
    BY <2>1, RebasedIs, Zenon
  <2> HIDE DEF back
  <2> QED
    BY <2>2, Zenon
<1> HIDE DEF a, b, d, back
<1>5. Len(back) = b
  BY <1>1, <1>2, <1>4
<1>6. \A i \in 1..b : back[i] = q[i]
  <2> SUFFICES ASSUME NEW i \in 1..b PROVE back[i] = q[i]
    OBVIOUS
  <2>1. CASE i <= a
    BY <1>1, <1>4, <2>1
  <2>2. CASE i > a
    <3>1. PICK j \in 1..(b - a) : i = a + j
      <4>1. i - a \in 1..(b - a) /\ i = a + (i - a)
        BY <1>1, <2>2
      <4> QED
        BY <4>1
    <3>2. j \in 1..(Len(m) - d)
      BY <1>1, <1>2, <3>1
    <3> QED
      BY <1>2, <1>4, <3>1, <3>2
  <2> QED
    BY <1>1, <2>1, <2>2
<1>7. back = q
  BY <1>1, <1>4, <1>5, <1>6, SeqEqual DEF b
<1> QED
  BY <1>2, <1>3, <1>7 DEF a, b, d, back

\* What is moved, and what is above it and moves with it.
LEMMA MovedIs ==
  ASSUME NEW tree, TreeOK(tree), NEW p \in Paths, NEW dest \in Paths, Moved(tree, p, dest) \subseteq Paths,
         NEW m \in Moved(tree, p, dest)
  PROVE  /\ m \in Paths /\ IsPrefix(dest, m) /\ Rebased(dest, p, m) \in Under(tree, p)
         /\ \A r \in Paths : IsPrefix(dest, r) /\ IsStrictPrefix(r, m) =>
              r \in Moved(tree, p, dest) /\ tree[Rebased(dest, p, r)] = Directory
<1>1. DOMAIN tree \subseteq Paths
  BY TreesAre DEF TreeOK
<1>2. PICK q \in Under(tree, p) : m = Rebased(p, dest, q)
  BY DEF Moved, Rebased
<1>3. q \in DOMAIN tree /\ q \in Paths /\ IsPrefix(p, q) /\ m \in Paths
  BY <1>1, <1>2 DEF Under
<1>4. IsPrefix(dest, m) /\ Rebased(dest, p, m) = q /\ Len(m) = Len(dest) + Len(q) - Len(p)
  BY <1>2, <1>3, RebasedBack
<1>5. ASSUME NEW r \in Paths, IsPrefix(dest, r), IsStrictPrefix(r, m)
      PROVE  r \in Moved(tree, p, dest) /\ tree[Rebased(dest, p, r)] = Directory
  <2> DEFINE a == Len(p)
             b == Len(q)
             d == Len(dest)
             l == Len(r)
  <2>1. /\ a \in Nat /\ b \in Nat /\ d \in Nat /\ l \in Nat /\ a <= b /\ d <= l /\ l < Len(m)
        /\ Len(m) = d + b - a /\ r \in Seq(STRING) /\ m \in Seq(STRING)
        /\ dest \in Seq(STRING) /\ q \in Seq(STRING)
    BY <1>3, <1>4, <1>5, PathsAre, PrefixOrder
  <2> DEFINE k == l - d + a
             s == SubSeq(q, 1, k)
  <2>2. k \in 0..b /\ a <= k /\ k < b
    BY <2>1
  <2>3. s \in Paths /\ Len(s) = k /\ IsPrefix(s, q) /\ s \in Seq(STRING)
    BY <1>3, <2>2, NamesOf, PathsAre
  <2>4. IsPrefix(p, s) /\ IsStrictPrefix(s, q)
    <3> HIDE DEF k, s
    <3>1. Len(p) <= Len(s) /\ Len(s) < Len(q)
      BY <2>2, <2>3 DEF a, b
    <3> QED
      BY <1>3, <2>3, <3>1, PrefixOrder
  <2>5. s \in DOMAIN tree /\ tree[s] = Directory /\ s \in Under(tree, p)
    BY <1>3, <2>3, <2>4 DEF TreeOK, Rooted, IsDir, Under
  <2> DEFINE v == Rebased(p, dest, s)
  <2>6. /\ v \in Seq(STRING) /\ Len(v) = d + k - a /\ (\A i \in 1..d : v[i] = dest[i])
        /\ \A i \in 1..(k - a) : v[d + i] = s[a + i]
    <3>1. /\ v \in Seq(STRING) /\ Len(v) = Len(dest) + Len(s) - Len(p)
          /\ \A i \in 1..Len(dest) : v[i] = dest[i]
          /\ \A i \in 1..(Len(s) - Len(p)) : v[Len(dest) + i] = s[Len(p) + i]
      BY <2>3, <2>4, RebasedIs, Zenon
    <3> HIDE DEF k, s, v
    <3> QED
      BY <2>3, <3>1, Zenon
  <2>7. /\ \A i \in 1..d : dest[i] = r[i]
        /\ \A i \in 1..l : r[i] = m[i]
        /\ \A i \in 1..k : s[i] = q[i]
        /\ \A i \in 1..(b - a) : m[d + i] = q[a + i]
    <3>1. (\A i \in 1..d : dest[i] = r[i]) /\ \A i \in 1..l : r[i] = m[i]
      BY <1>5, <2>1, PrefixIs DEF IsStrictPrefix
    <3>2. \A i \in 1..k : s[i] = q[i]
      <4> HIDE DEF k, s
      <4>1. \A i \in 1..Len(s) : s[i] = q[i]
        BY <2>1, <2>3, PrefixIs
      <4> QED
        BY <2>3, <4>1
    <3>3. \A i \in 1..(b - a) : m[d + i] = q[a + i]
      <4> DEFINE o == Rebased(p, dest, q)
      <4>1. \A i \in 1..(b - a) : o[d + i] = q[a + i]
        BY <1>3, RebasedIs, Zenon
      <4>2. m = o
        BY <1>2
      <4> HIDE DEF o
      <4> QED
        BY <4>1, <4>2, Zenon
    <3> QED
      BY <3>1, <3>2, <3>3
  <2> HIDE DEF a, b, d, s, v
  <2>8. Len(v) = l
    BY <2>1, <2>6
  <2>9. \A i \in 1..l : v[i] = r[i]
    <3> SUFFICES ASSUME NEW i \in 1..l PROVE v[i] = r[i]
      OBVIOUS
    <3>1. CASE i <= d
      BY <2>1, <2>6, <2>7, <3>1
    <3>2. CASE i > d
      <4>1. i - d \in 1..(k - a) /\ i - d \in 1..(b - a) /\ i = d + (i - d) /\ a + (i - d) \in 1..k
        BY <2>1, <2>2, <3>2
      <4>2. PICK j \in 1..(k - a) : j \in 1..(b - a) /\ i = d + j /\ a + j \in 1..k
        BY <4>1
      <4>3. v[i] = s[a + j] /\ s[a + j] = q[a + j] /\ m[i] = q[a + j] /\ r[i] = m[i]
        BY <2>6, <2>7, <4>2
      <4> QED
        BY <4>3
    <3> QED
      BY <2>1, <3>1, <3>2
  <2>10. v = r
    BY <2>1, <2>6, <2>8, <2>9, SeqEqual
  <2>11. r \in Moved(tree, p, dest)
    BY <2>5, <2>10 DEF Moved, Rebased, v
  <2>12. Rebased(dest, p, r) = s
    BY <2>3, <2>4, <2>10, RebasedBack DEF v
  <2> QED
    BY <2>5, <2>11, <2>12
<1> QED
  BY <1>2, <1>3, <1>4, <1>5

\* A file or a directory under its new name.
LEMMA RenamedOK ==
  ASSUME NEW tree, TreeOK(tree), NEW p \in Paths, NEW dest \in Paths, p # << >>, dest # << >>,
         Renames(tree, p, dest)
  PROVE  /\ TreeOK(Renamed(tree, p, dest))
         /\ IsDir(tree, << >>) => IsDir(Renamed(tree, p, dest), << >>)
<1> DEFINE moved == Moved(tree, p, dest)
           kept == DOMAIN tree \ (Under(tree, p) \cup {dest})
           new == Renamed(tree, p, dest)
<1>1. tree \in [DOMAIN tree -> Nodes] /\ DOMAIN tree \subseteq Paths
  BY TreesAre DEF TreeOK
<1>2. /\ moved \subseteq Paths /\ IsDir(tree, Front(dest)) /\ ~IsStrictPrefix(p, dest)
      /\ dest \in DOMAIN tree => p = dest \/ Below(tree, dest) = {}
  BY DEF Renames
<1>3. /\ DOMAIN new = kept \cup moved
      /\ \A q \in moved : new[q] = tree[Rebased(dest, p, q)]
      /\ \A q \in kept \ moved : new[q] = tree[q]
  BY DEF Renamed, Rebased
<1>4. new \in Trees
  <2>1. \A q \in moved : tree[Rebased(dest, p, q)] \in Nodes
    BY <1>1, <1>2, MovedIs DEF Under
  <2>2. new \in [kept \cup moved -> Nodes]
    <3>1. new = [q \in kept \cup moved |-> IF q \in moved THEN tree[Rebased(dest, p, q)] ELSE tree[q]]
      BY DEF Renamed, Rebased
    <3> HIDE DEF new, moved
    <3> QED
      BY <1>1, <2>1, <3>1
  <2>3. kept \cup moved \in SUBSET Paths
    BY <1>1, <1>2
  <2> HIDE DEF new, kept, moved
  <2> QED
    BY <2>2, <2>3, TreesAre
<1> HIDE DEF new
<1>5. ASSUME NEW q \in kept, q \notin moved, NEW r \in Paths, r = q \/ IsStrictPrefix(r, q), IsDir(tree, r)
      PROVE  IsDir(new, r)
  <2>1. q \in DOMAIN tree /\ q \in Paths /\ q \notin Under(tree, p) /\ q # dest
    BY <1>1, <1>5
  <2>2. IsPrefix(r, q)
    BY <1>5, <2>1, PrefixOrder DEF IsStrictPrefix
  <2>3. ~IsPrefix(p, r)
    BY <1>5, <2>1, <2>2, PrefixOrder DEF Under
  <2>4. ~IsPrefix(dest, r)
    <3> SUFFICES ASSUME IsPrefix(dest, r) PROVE FALSE
      OBVIOUS
    <3>1. IsPrefix(dest, q)
      BY <1>5, <2>1, <2>2, PrefixOrder
    <3>2. IsStrictPrefix(dest, q)
      BY <2>1, <3>1 DEF IsStrictPrefix
    <3>3. dest \in DOMAIN tree /\ q \in Below(tree, dest)
      BY <2>1, <3>1, <3>2 DEF TreeOK, Rooted, IsDir, Below, Under
    <3>4. p = dest
      BY <1>2, <3>3
    <3> QED
      BY <2>1, <3>1, <3>4 DEF Under
  <2>5. r \in kept
    BY <1>5, <2>3, <2>4, PrefixOrder DEF IsDir, Under
  <2>6. r \notin moved
    BY <1>2, <2>4, MovedIs
  <2> QED
    BY <1>3, <1>5, <2>5, <2>6 DEF IsDir
<1>6. ASSUME NEW q \in DOMAIN new, NEW r \in Paths, IsStrictPrefix(r, q) PROVE IsDir(new, r)
  <2>1. CASE q \in moved /\ IsPrefix(dest, r)
    <3>1. r \in moved /\ tree[Rebased(dest, p, r)] = Directory
      BY <1>2, <1>6, <2>1, MovedIs
    <3> QED
      BY <1>3, <3>1 DEF IsDir
  <2>2. CASE q \in moved /\ ~IsPrefix(dest, r)
    <3>1. q \in Paths /\ IsPrefix(dest, q) /\ IsPrefix(r, q)
      BY <1>2, <1>6, <2>2, MovedIs DEF IsStrictPrefix
    <3>2. Len(r) < Len(dest)
      <4>1. Len(r) \in Nat /\ Len(dest) \in Nat
        BY PathsAre
      <4>2. Len(dest) <= Len(r) => IsPrefix(dest, r)
        BY <3>1, PrefixOrder
      <4> QED
        BY <2>2, <4>1, <4>2
    <3>3. IsStrictPrefix(r, dest)
      <4>1. Len(r) <= Len(dest)
        BY <3>2, PathsAre
      <4>2. IsPrefix(r, dest)
        BY <3>1, <4>1, PrefixOrder
      <4> QED
        BY <3>2, <4>2, PrefixOrder
    <3>4. IsDir(tree, r)
      <4>1. r = Front(dest) \/ IsStrictPrefix(r, Front(dest))
        BY <3>3, FrontIs
      <4> QED
        BY <1>2, <4>1 DEF TreeOK, Rooted, IsDir
    <3>5. r \notin moved
      BY <1>2, <2>2, MovedIs
    <3>6. r \in kept
      <4>1. r # dest
        BY <3>3 DEF IsStrictPrefix
      <4>2. ~IsPrefix(p, r)
        <5> SUFFICES ASSUME IsPrefix(p, r) PROVE FALSE
          OBVIOUS
        <5>1. IsPrefix(p, dest) /\ Len(p) <= Len(r)
          BY <3>3, PrefixOrder DEF IsStrictPrefix
        <5>2. Len(p) < Len(dest)
          BY <3>2, <5>1, PathsAre
        <5> QED
          BY <1>2, <5>1, <5>2, PrefixOrder
      <4> QED
        BY <3>4, <4>1, <4>2 DEF IsDir, Under
    <3> QED
      BY <1>3, <3>4, <3>5, <3>6 DEF IsDir
  <2>3. CASE q \in kept /\ q \notin moved
    <3>1. IsDir(tree, r)
      BY <1>6, <2>3 DEF TreeOK, Rooted
    <3> QED
      BY <1>5, <1>6, <2>3, <3>1
  <2> QED
    BY <1>3, <1>6, <2>1, <2>2, <2>3
<1>7. ASSUME IsDir(tree, << >>) PROVE IsDir(new, << >>)
  <2>1. << >> \in Paths /\ ~IsPrefix(p, << >>) /\ ~IsPrefix(dest, << >>)
    <3>1. << >> \in Paths /\ Len(<< >>) = 0 /\ Len(p) \in Nat /\ Len(p) > 0 /\ Len(dest) \in Nat /\ Len(dest) > 0
      BY PathsAre, EmptySeq
    <3> QED
      BY <3>1, PrefixOrder
  <2>2. << >> \in kept /\ << >> \notin moved
    BY <1>2, <1>7, <2>1, MovedIs DEF IsDir, Under
  <2> QED
    BY <1>3, <1>7, <2>2 DEF IsDir
<1> QED
  BY <1>4, <1>6, <1>7 DEF TreeOK, Rooted, new

-----------------------------------------------------------------------------
(* Steps of a call.                                                         *)

\* A call that succeeds, undisturbed and with nothing that failed, did what it promises.
Keeps(w) ==
  Succeeds(w) /\ work[w].alone /\ ~work'[w].failed => Promised(work[w], files', work'[w].found)

\* A step of one call disturbs no other, unless it writes.
LEMMA StepOK ==
  ASSUME WorkspaceIInv, NEW w \in Workers, NEW c, work' = [work EXCEPT ![w] = c],
         UNCHANGED <<session, calls>>,
         CallOK(c), c.op = "none" \/ (c.op = work[w].op /\ c.alone = work[w].alone),
         TreeOK(files'), IsDir(files', << >>),
         files' = files \/ work[w].op \notin Reads \cup {"none"},
         c.alone /\ c.op # "none" => DoneSoFar(c, files'),
         /\ work[w].at # "idle" /\ c.at = "idle" /\ c.answer = "ok" /\ work[w].alone /\ ~c.failed
           => Promised(work[w], files', c.found)
  PROVE  WorkspaceIInv' /\ \A v \in Workers : Keeps(v)
<1>1. /\ work' \in [Workers -> WorkCall] /\ work'[w] = c
      /\ \A v \in Workers \ {w} : work'[v] = work[v]
  BY DEF WorkspaceIInv, CallOK
<1>2. \A v \in Workers : CallOK(work'[v])
  <2> SUFFICES ASSUME NEW v \in Workers PROVE CallOK(work'[v])
    OBVIOUS
  <2>1. CASE v = w
    BY <1>1, <2>1
  <2>2. CASE v # w
    BY <1>1, <2>2 DEF WorkspaceIInv
  <2> QED
    BY <2>1, <2>2
<1>3. ASSUME NEW v \in Workers, work'[v].alone, work'[v].op # "none"
      PROVE  /\ \A u \in Workers \ {v} : work'[u].op \in Reads \cup {"none"}
             /\ DoneSoFar(work'[v], files')
  <2>1. work[v].alone /\ work[v].op # "none"
    BY <1>1, <1>3
  <2>2. /\ \A u \in Workers \ {v} : work[u].op \in Reads \cup {"none"}
        /\ DoneSoFar(work[v], files)
    BY <2>1 DEF WorkspaceIInv, Undisturbed
  <2>3. \A u \in Workers \ {v} : work'[u].op \in Reads \cup {"none"}
    BY <1>1, <2>2
  <2>4. DoneSoFar(work'[v], files')
    <3>1. CASE v = w
      BY <1>1, <1>3, <3>1
    <3>2. CASE v # w
      BY <1>1, <2>2, <3>2
    <3> QED
      BY <3>1, <3>2
  <2> QED
    BY <2>3, <2>4
<1>4. WorkspaceIInv'
  <2>1. /\ TreeOK(files') /\ session' \in BOOLEAN /\ IsDir(files', << >>)
        /\ calls' \in 0..MaxCalls
    BY DEF WorkspaceIInv
  <2>2. \A v \in Workers : work'[v].alone /\ work'[v].op # "none" => Undisturbed(v)'
    BY <1>3, Zenon DEF Undisturbed
  <2> QED
    BY <1>1, <1>2, <2>1, <2>2, Zenon DEF WorkspaceIInv
<1>5. ASSUME NEW v \in Workers PROVE Keeps(v)
  <2>1. CASE v = w
    BY <1>1, <2>1 DEF Keeps, Succeeds
  <2>2. CASE v # w
    BY <1>1, <2>2 DEF Keeps, Succeeds
  <2> QED
    BY <2>1, <2>2
<1> QED
  BY <1>4, <1>5

\* The call that answered.
EndedWith(c, answer, found) == [NoCall EXCEPT !.answer = answer, !.found = found, !.failed = c.failed]

\* A worker at rest has a call.
LEMMA NoCallIs == NoCall \in WorkCall
<1>1. << >> \in Paths /\ << >> \in Seq(Nat)
  BY PathsAre, EmptySeq
<1>2. << >> \in Trees
  <2>1. << >> \in [{} -> Nodes]
    OBVIOUS
  <2>2. {} \in SUBSET Paths
    OBVIOUS
  <2> QED
    BY <2>1, <2>2, TreesAre
<1>3. {} \in SUBSET Paths /\ {} \in SUBSET Finds
  OBVIOUS
<1> QED
  BY <1>1, <1>2, <1>3 DEF WorkCall, WorkOperations, Awaits, NoCall

\* A call that ended is at rest with its answer.
LEMMA EndedIs ==
  ASSUME NEW c \in WorkCall, NEW answer \in {"ok", "failed"}, NEW found \in SUBSET Finds
  PROVE  LET e == EndedWith(c, answer, found)
         IN  /\ CallOK(e) /\ e.op = "none" /\ e.at = "idle" /\ e.answer = answer /\ e.found = found
             /\ e.failed = c.failed
<1> DEFINE e == EndedWith(c, answer, found)
           e1 == [NoCall EXCEPT !.answer = answer]
           e2 == [e1 EXCEPT !.found = found]
           e3 == [e2 EXCEPT !.failed = c.failed]
<1>1. NoCall \in WorkCall /\ c.failed \in BOOLEAN
  BY NoCallIs DEF WorkCall
<1>2. e1 \in WorkCall
  BY <1>1 DEF WorkCall
<1>3. e2 \in WorkCall
  <2> HIDE DEF e1
  <2> QED
    BY <1>2 DEF WorkCall
<1>4. e3 \in WorkCall
  <2> HIDE DEF e2
  <2> QED
    BY <1>1, <1>3 DEF WorkCall
<1>5. e = e3
  BY <1>1 DEF EndedWith
<1>6. e.op = "none" /\ e.at = "idle" /\ e.answer = answer /\ e.found = found /\ e.failed = c.failed
  BY DEF EndedWith, NoCall
<1> HIDE DEF e, e3
<1>7. CallOK(e)
  BY <1>4, <1>5, <1>6 DEF CallOK, AwaitsOf, Reads
<1> QED
  BY <1>6, <1>7 DEF e

\* A call that ends leaves the invariant, if it leaves a tree, and if it was alone kept its promise.
LEMMA EndsOK ==
  ASSUME WorkspaceIInv, NEW w \in Workers, NEW answer \in {"ok", "failed"}, NEW found \in SUBSET Finds,
         Ends(w, answer, found), UNCHANGED <<session, calls>>,
         TreeOK(files'), IsDir(files', << >>),
         files' = files \/ work[w].op \notin Reads \cup {"none"},
         answer = "ok" /\ work[w].alone /\ ~work[w].failed => Promised(work[w], files', found)
  PROVE  WorkspaceIInv' /\ \A v \in Workers : Keeps(v)
<1> DEFINE e == EndedWith(work[w], answer, found)
<1>1. work[w] \in WorkCall
  BY DEF WorkspaceIInv
<1>2. /\ CallOK(e) /\ e.op = "none" /\ e.at = "idle" /\ e.answer = answer /\ e.found = found
      /\ e.failed = work[w].failed
  BY <1>1, EndedIs
<1>3. work' = [work EXCEPT ![w] = e]
  BY DEF Ends, EndedWith
<1> HIDE DEF e
<1> QED
  BY <1>2, <1>3, StepOK

\* A failure promises nothing.
LEMMA FailsOK ==
  ASSUME WorkspaceIInv, NEW w \in Workers, Fails(w), UNCHANGED <<session, calls>>
  PROVE  WorkspaceIInv' /\ \A v \in Workers : Keeps(v)
<1>1. Ends(w, "failed", {}) /\ files' = files /\ {} \in SUBSET Finds
  BY DEF Fails
<1>2. TreeOK(files') /\ IsDir(files', << >>)
  BY <1>1 DEF WorkspaceIInv
<1> QED
  BY <1>1, <1>2, EndsOK

\* What is known of a call in progress.
LEMMA CallIs ==
  ASSUME WorkspaceIInv, NEW w \in Workers
  PROVE  /\ work[w] \in WorkCall /\ CallOK(work[w]) /\ work[w].path \in Paths /\ work[w].dest \in Paths
         /\ work[w].n \in Nat /\ work[w].seen \in Seq(Nat) /\ work[w].at \in AwaitsOf(work[w].op)
         /\ TreeOK(files) /\ files \in Trees /\ DOMAIN files \subseteq Paths
         /\ \A p \in DOMAIN files : files[p] \in Nodes
         /\ work[w].alone /\ work[w].op # "none" => DoneSoFar(work[w], files)
<1>1. /\ work[w] \in WorkCall /\ CallOK(work[w]) /\ TreeOK(files) /\ files \in Trees
      /\ work[w].alone /\ work[w].op # "none" => DoneSoFar(work[w], files)
  BY DEF WorkspaceIInv, Undisturbed, TreeOK
<1>2. /\ work[w].path \in Paths /\ work[w].dest \in Paths /\ work[w].n \in Nat /\ work[w].seen \in Seq(Nat)
      /\ work[w].at \in AwaitsOf(work[w].op)
  BY <1>1 DEF WorkCall, CallOK
<1>3. DOMAIN files \subseteq Paths /\ \A p \in DOMAIN files : files[p] \in Nodes
  BY <1>1, TreesAre
<1> QED
  BY <1>1, <1>2, <1>3

\* The pieces up to the limit.
LEMMA CappedIs ==
  ASSUME NEW text \in Seq(Nat), NEW limit \in Nat
  PROVE  Capped(text, limit) \in Seq(Nat) /\ DOMAIN Capped(text, limit) \subseteq 1..limit
<1> DEFINE k == IF Len(text) < limit THEN Len(text) ELSE limit
<1>1. limit \in Nat /\ Len(text) \in Nat /\ DOMAIN text = 1..Len(text)
  OBVIOUS
<1>2. k \in Nat /\ k \in Int /\ 1 \in Int /\ k <= limit /\ \A i \in 1..k : text[i] \in Nat
  BY <1>1
<1>3. Capped(text, limit) = SubSeq(text, 1, k)
  BY DEF Capped
<1> HIDE DEF k
<1>4. SubSeq(text, 1, k) \in Seq(Nat) /\ Len(SubSeq(text, 1, k)) = IF 1 <= k THEN k - 1 + 1 ELSE 0
  BY <1>2, SubSeqProperties
<1>5. Len(SubSeq(text, 1, k)) <= limit /\ Len(SubSeq(text, 1, k)) \in Nat
  BY <1>1, <1>2, <1>4
<1> QED
  BY <1>1, <1>3, <1>4, <1>5

\* A read ends its call and changes nothing.
LEMMA ReadStep ==
  ASSUME WorkspaceIInv, NEW w \in Workers, Read(w)
  PROVE  WorkspaceIInv' /\ \A v \in Workers : Keeps(v)
<1> DEFINE p == work[w].path
<1>1. work[w].op = "read" /\ work[w].at = "read" /\ UNCHANGED <<session, calls>>
  BY DEF Read, At
<1>2. CASE ~IsFile(files, p)
  BY <1>1, <1>2, FailsOK DEF Read
<1>3. CASE IsFile(files, p)
  <2>1. Ends(w, "ok", Content(p, files[p])) /\ files' = files
    BY <1>3 DEF Read
  <2>2. Content(p, files[p]) \in SUBSET Finds
    <3>1. files[p] \in Seq(Nat) /\ p \in Paths
      BY <1>3, CallIs DEF IsFile, Nodes
    <3>2. Capped(files[p], ReadLimit) \in Seq(Nat) /\ (Len(files[p]) > ReadLimit) \in BOOLEAN
      BY <3>1, CappedIs, WorkspaceAssumption
    <3> DEFINE piece == Capped(files[p], ReadLimit)
               more == Len(files[p]) > ReadLimit
    <3>3. Content(p, files[p]) = {<<p, piece, more>>}
      BY DEF Content
    <3> HIDE DEF piece, more
    <3>4. <<p, piece, more>> \in Paths \X Seq(Nat) \X BOOLEAN
      BY <3>1, <3>2 DEF piece, more
    <3> QED
      BY <3>3, <3>4 DEF Finds
  <2>3. work[w].alone => Promised(work[w], files', Content(p, files[p]))
    <3>1. work[w].alone => files = work[w].before
      BY <1>1, CallIs DEF DoneSoFar
    <3> QED
      BY <1>1, <2>1, <3>1 DEF Promised
  <2>4. TreeOK(files') /\ IsDir(files', << >>)
    BY <2>1 DEF WorkspaceIInv
  <2> QED
    BY <1>1, <2>1, <2>2, <2>3, <2>4, EndsOK
<1> QED
  BY <1>2, <1>3

\* A list, a stat and a glob end their call and change nothing.
LEMMA LookStep ==
  ASSUME WorkspaceIInv, NEW w \in Workers, Look(w)
  PROVE  WorkspaceIInv' /\ \A v \in Workers : Keeps(v)
<1> DEFINE p == work[w].path
<1>1. PICK op \in {"stat", "list", "glob"} :
        /\ At(w, op, op)
        /\ IF Exists(p) THEN \E found \in Looked(op, files, p) : Ends(w, "ok", found)
           ELSE Ends(w, IF op = "glob" THEN "ok" ELSE "failed", {})
        /\ UNCHANGED files
  BY DEF Look
<1>2. /\ work[w].op = op /\ work[w].at = op /\ UNCHANGED <<session, calls>> /\ files' = files
      /\ TreeOK(files') /\ IsDir(files', << >>)
  BY <1>1 DEF At, WorkspaceIInv
<1>3. work[w].alone => files = work[w].before /\ Exists(p)
  <2>1. work[w].alone => files = work[w].before
    BY <1>2, CallIs DEF DoneSoFar
  <2>2. p \in DOMAIN work[w].before
    BY <1>2, CallIs DEF CallOK, Reads
  <2> QED
    BY <2>1, <2>2 DEF Exists
<1>4. CASE Exists(p)
  <2>1. PICK found \in Looked(op, files, p) : Ends(w, "ok", found)
    BY <1>1, <1>4
  <2>2. found \in SUBSET Finds
    <3>1. DOMAIN files \subseteq Paths
      BY CallIs
    <3>2. CASE op = "stat"
      <4>1. found = {<<q>> : q \in DOMAIN files \cap {p}}
        BY <2>1, <3>2 DEF Looked, StatOf
      <4> QED
        BY <3>1, <4>1 DEF Finds
    <3>3. CASE op = "list"
      <4>1. found = {<<q>> : q \in {q \in Below(files, p) : Len(q) = Len(p) + 1}}
        BY <2>1, <3>3 DEF Looked, ListOf
      <4> QED
        BY <3>1, <4>1 DEF Finds, Below, Under
    <3>4. CASE op = "glob"
      <4>1. found \subseteq {<<q>> : q \in Below(files, p)}
        BY <2>1, <3>4 DEF Looked, GlobOf, kSubset
      <4> QED
        BY <3>1, <4>1 DEF Finds, Below, Under
    <3> QED
      BY <3>2, <3>3, <3>4
  <2>3. work[w].alone => Promised(work[w], files', found)
    BY <1>2, <1>3, <2>1 DEF Promised
  <2> QED
    BY <1>2, <2>1, <2>2, <2>3, EndsOK
<1>5. CASE ~Exists(p)
  <2>1. ~work[w].alone /\ {} \in SUBSET Finds
    BY <1>3, <1>5
  <2>2. Ends(w, "ok", {}) \/ Ends(w, "failed", {})
    BY <1>1, <1>5
  <2> QED
    BY <1>2, <2>1, <2>2, EndsOK
<1> QED
  BY <1>4, <1>5

\* A call that looks on, from what it has found so far.
Wider(c, found, dirs) == [[c EXCEPT !.found = found] EXCEPT !.dirs = dirs]

\* A walk that goes on, with what it found and the directories left.
LEMMA WiderIs ==
  ASSUME NEW c \in WorkCall, NEW found \in SUBSET Finds, NEW dirs \in SUBSET Paths
  PROVE  LET d == Wider(c, found, dirs)
         IN  /\ d \in WorkCall /\ d.found = found /\ d.dirs = dirs
             /\ d.op = c.op /\ d.at = c.at /\ d.n = c.n /\ d.path = c.path /\ d.dest = c.dest
             /\ d.deep = c.deep /\ d.seen = c.seen /\ d.before = c.before /\ d.alone = c.alone
             /\ d.failed = c.failed /\ d.answer = c.answer
<1> DEFINE d1 == [c EXCEPT !.found = found]
           d == [d1 EXCEPT !.dirs = dirs]
<1>1. /\ d1 \in WorkCall /\ d1.found = found /\ d1.op = c.op /\ d1.at = c.at /\ d1.n = c.n
      /\ d1.path = c.path /\ d1.dest = c.dest
      /\ d1.deep = c.deep /\ d1.seen = c.seen /\ d1.before = c.before /\ d1.alone = c.alone
      /\ d1.failed = c.failed /\ d1.answer = c.answer
  BY DEF WorkCall
<1> HIDE DEF d1
<1>2. /\ d \in WorkCall /\ d.dirs = dirs /\ d.found = d1.found /\ d.op = d1.op /\ d.at = d1.at /\ d.n = d1.n
      /\ d.path = d1.path /\ d.dest = d1.dest
      /\ d.deep = d1.deep /\ d.seen = d1.seen /\ d.before = d1.before /\ d.alone = d1.alone
      /\ d.failed = d1.failed /\ d.answer = d1.answer
  BY <1>1 DEF WorkCall
<1>3. Wider(c, found, dirs) = d
  BY DEF Wider, d1
<1> HIDE DEF d
<1> QED
  BY <1>1, <1>2, <1>3

\* There are only so many hits.
LEMMA HitsAre ==
  /\ IsFiniteSet(Hits) /\ Hits \subseteq Finds
  /\ \A found \in SUBSET Hits : IsFiniteSet(found) /\ Cardinality(found) \in Nat
<1>1. ReadLimit \in Nat /\ 1 \in Int /\ ReadLimit \in Int /\ IsFiniteSet(Paths)
  BY WorkspaceAssumption
<1>2. IsFiniteSet(1..ReadLimit)
  BY <1>1, FS_Interval
<1>3. IsFiniteSet(Hits)
  BY <1>1, <1>2, FS_Product DEF Hits
<1>4. ASSUME NEW found \in SUBSET Hits PROVE IsFiniteSet(found) /\ Cardinality(found) \in Nat
  BY <1>3, FS_Subset, FS_CardinalityType
<1> QED
  BY <1>3, <1>4 DEF Finds

\* The matches of a search are hits.
LEMMA MatchesAre ==
  ASSUME NEW tree \in Trees, NEW p \in Paths
  PROVE  Matches(tree, p) \in SUBSET Hits
<1>1. CASE ~IsFile(tree, p) \/ Len(tree[p]) > 4 * ReadLimit
  BY <1>1 DEF Matches
<1>2. CASE ~(~IsFile(tree, p) \/ Len(tree[p]) > 4 * ReadLimit)
  <2>1. tree[p] \in Seq(Nat)
    BY <1>2, TreesAre DEF IsFile, Nodes
  <2>2. DOMAIN Capped(tree[p], Searchable) \subseteq 1..ReadLimit
    <3>1. Searchable \in Nat /\ Searchable <= ReadLimit /\ ReadLimit \in Nat
      BY WorkspaceAssumption DEF Searchable
    <3>2. DOMAIN Capped(tree[p], Searchable) \subseteq 1..Searchable
      BY <2>1, <3>1, CappedIs
    <3> QED
      BY <3>1, <3>2
  <2>3. Matches(tree, p) = {<<p, i>> : i \in {i \in DOMAIN Capped(tree[p], Searchable) : tree[p][i] = Needle}}
    BY <1>2 DEF Matches
  <2> QED
    BY <2>2, <2>3 DEF Hits
<1> QED
  BY <1>1, <1>2

\* A directory that the search looks into adds what is found in the files it is to look at.
LEMMA SearchedAre ==
  ASSUME NEW c \in WorkCall, TreeOK(c.before), Searching(c), NEW p \in c.dirs
  PROVE  /\ SearchedIn(c.before, p) \in SUBSET Hits
         /\ SearchedIn(c.before, p) \subseteq UNION {Matches(c.before, q) : q \in Searched(c)}
<1>1. /\ c.before \in Trees /\ DOMAIN c.before \subseteq Paths /\ c.path \in Paths
      /\ p \in Under(c.before, c.path) /\ (~c.deep => p = c.path)
  BY TreesAre DEF WorkCall, TreeOK, Searching
<1>2. p \in Paths /\ p \in DOMAIN c.before /\ IsPrefix(c.path, p)
  BY <1>1 DEF Under
<1>3. CASE IsDir(c.before, p)
  <2> DEFINE next == {q \in Below(c.before, p) : Len(q) = Len(p) + 1}
  <2>1. SearchedIn(c.before, p) = UNION {Matches(c.before, q) : q \in next}
    BY <1>3 DEF SearchedIn
  <2>2. ASSUME NEW q \in next PROVE q \in Paths /\ q \in Searched(c)
    <3>1. q \in DOMAIN c.before /\ q \in Paths /\ IsPrefix(p, q) /\ Len(q) = Len(p) + 1
      BY <1>1 DEF Below, Under
    <3>2. IsPrefix(c.path, q)
      BY <1>1, <1>2, <3>1, PrefixOrder
    <3> QED
      BY <1>1, <3>1, <3>2 DEF Searched, Under
  <2>3. \A q \in next : Matches(c.before, q) \in SUBSET Hits
    BY <1>1, <2>2, MatchesAre
  <2> HIDE DEF next
  <2> QED
    BY <2>1, <2>2, <2>3
<1>4. CASE ~IsDir(c.before, p)
  <2>1. SearchedIn(c.before, p) = Matches(c.before, p)
    BY <1>4 DEF SearchedIn
  <2>2. p \in Searched(c)
    BY <1>1 DEF Searched
  <2>3. Matches(c.before, p) \in SUBSET Hits
    BY <1>1, <1>2, MatchesAre
  <2> QED
    BY <2>1, <2>2, <2>3
<1> QED
  BY <1>3, <1>4

\* The stack when one of its directories was looked into.
Left(tree, c, p) ==
  (c.dirs \ {p}) \cup {q \in Below(tree, p) : c.deep /\ Len(q) = Len(p) + 1 /\ IsDir(tree, q)}

\* It leaves nothing out but what is below the directories it has put on the stack.
LEMMA SearchingGoesOn ==
  ASSUME NEW c \in WorkCall, TreeOK(c.before), Searching(c), NEW p \in c.dirs
  PROVE  /\ Left(c.before, c, p) \subseteq Under(c.before, c.path)
         /\ ~c.deep => Left(c.before, c, p) \subseteq {c.path}
         /\ \A q \in Searched(c) : \/ Matches(c.before, q) \subseteq c.found \cup SearchedIn(c.before, p)
                                   \/ \E d \in Left(c.before, c, p) : q \in FoundFrom(c, d)
<1> DEFINE found == c.found \cup SearchedIn(c.before, p)
           tree == c.before
           dirs == Left(tree, c, p)
<1>0. \A q : q \in dirs <=>
              (\/ q \in c.dirs /\ q # p
               \/ q \in Below(tree, p) /\ c.deep /\ Len(q) = Len(p) + 1 /\ IsDir(tree, q))
  BY DEF Left
<1> HIDE DEF dirs
<1>1. /\ tree \in Trees /\ DOMAIN tree \subseteq Paths /\ c.path \in Paths
      /\ c.dirs \subseteq Under(tree, c.path) /\ (~c.deep => c.dirs \subseteq {c.path})
  BY TreesAre DEF WorkCall, TreeOK, Searching
<1>2. p \in Paths /\ p \in DOMAIN tree /\ IsPrefix(c.path, p) /\ Len(p) \in Nat
  BY <1>1, PathsAre DEF Under
<1>3. ASSUME NEW q \in Below(tree, p)
      PROVE  q \in Paths /\ q \in DOMAIN tree /\ IsPrefix(p, q) /\ q # p /\ IsPrefix(c.path, q)
             /\ Len(q) \in Nat /\ Len(p) < Len(q)
  <2>1. q \in Paths /\ q \in DOMAIN tree /\ IsPrefix(p, q) /\ q # p
    BY <1>1 DEF Below, Under
  <2>2. IsPrefix(c.path, q) /\ Len(q) \in Nat
    BY <1>1, <1>2, <2>1, PrefixOrder, PathsAre
  <2>3. IsStrictPrefix(p, q)
    BY <2>1 DEF IsStrictPrefix
  <2> QED
    BY <1>2, <2>1, <2>2, <2>3, PrefixOrder
<1>4. dirs \subseteq Under(tree, c.path) /\ (~c.deep => dirs \subseteq {c.path})
  BY <1>0, <1>1, <1>3 DEF Under
<1>5. ASSUME NEW q \in Searched(c), ~(Matches(tree, q) \subseteq found)
      PROVE  \E d \in dirs : q \in FoundFrom(c, d)
  <2>1. PICK d \in c.dirs : q \in FoundFrom(c, d)
    BY <1>5 DEF Searching
  <2>2. CASE d # p
    BY <1>0, <2>1, <2>2
  <2>3. CASE d = p
    <3>1. q \in Under(tree, p) /\ (q = p \/ Len(q) = Len(p) + 1 \/ c.deep)
      BY <2>1, <2>3 DEF FoundFrom
    <3>2. q # p
      <4> SUFFICES ASSUME q = p PROVE FALSE
        OBVIOUS
      <4>1. CASE IsDir(tree, p)
        <5>1. Matches(tree, q) = {}
          BY <4>1 DEF Matches, IsFile, IsDir
        <5> QED
          BY <1>5, <5>1
      <4>2. CASE ~IsDir(tree, p)
        <5>1. Matches(tree, q) \subseteq found
          BY <4>2 DEF SearchedIn
        <5> QED
          BY <1>5, <5>1
      <4> QED
        BY <4>1, <4>2
    <3>3. q \in Below(tree, p)
      BY <3>1, <3>2 DEF Below
    <3>4. q \in Paths /\ IsPrefix(p, q) /\ Len(q) \in Nat /\ Len(p) < Len(q) /\ IsStrictPrefix(p, q)
      BY <1>3, <3>2, <3>3 DEF IsStrictPrefix
    <3>5. IsDir(tree, p)
      BY <1>2, <3>3, <3>4 DEF TreeOK, Rooted, Below, Under
    <3>6. Len(q) # Len(p) + 1
      <4> SUFFICES ASSUME Len(q) = Len(p) + 1 PROVE FALSE
        OBVIOUS
      <4>1. SearchedIn(tree, p) = UNION {Matches(tree, r) : r \in {r \in Below(tree, p) : Len(r) = Len(p) + 1}}
        BY <3>5 DEF SearchedIn
      <4>2. Matches(tree, q) \subseteq SearchedIn(tree, p)
        BY <3>3, <4>1
      <4> QED
        BY <1>5, <4>2
    <3>7. c.deep /\ Len(p) + 1 < Len(q)
      BY <1>2, <3>1, <3>2, <3>4, <3>6
    <3> DEFINE r == SubSeq(q, 1, Len(p) + 1)
    <3>8. r \in Paths /\ Len(r) = Len(p) + 1 /\ IsPrefix(r, q)
      <4>1. Len(p) + 1 \in 0..Len(q)
        BY <1>2, <3>4, <3>7
      <4> QED
        BY <3>4, <4>1, NamesOf
    <3> HIDE DEF r
    <3>9. IsPrefix(p, r) /\ r # p /\ IsStrictPrefix(r, q)
      <4>1. Len(p) <= Len(r) /\ Len(p) # Len(r) /\ Len(r) < Len(q)
        BY <1>2, <3>4, <3>7, <3>8
      <4>2. IsPrefix(p, r)
        BY <1>2, <3>4, <3>8, <4>1, PrefixOrder
      <4> QED
        BY <3>4, <3>8, <4>1, <4>2, PrefixOrder
    <3>10. IsDir(tree, r)
      BY <3>3, <3>8, <3>9 DEF TreeOK, Rooted, Below, Under
    <3>11. r \in dirs
      BY <1>0, <3>7, <3>8, <3>9, <3>10 DEF Below, Under, IsDir
    <3>12. q \in FoundFrom(c, r)
      BY <3>3, <3>7, <3>8 DEF FoundFrom, Below, Under
    <3> QED
      BY <3>11, <3>12
  <2> QED
    BY <2>2, <2>3
<1> QED
  BY <1>4, <1>5 DEF dirs

\* A directory of the walk moves what it holds to the found and the directories left.
LEMMA SearchStep ==
  ASSUME WorkspaceIInv, NEW w \in Workers, SearchDirectory(w)
  PROVE  WorkspaceIInv' /\ \A v \in Workers : Keeps(v)
<1> DEFINE c == work[w]
<1>1. /\ c.op = "search" /\ c.at = "search" /\ UNCHANGED <<session, calls>> /\ files' = files
      /\ TreeOK(files') /\ IsDir(files', << >>)
  BY DEF SearchDirectory, At, WorkspaceIInv
<1>2. PICK p \in c.dirs :
        LET found == c.found \cup SearchedIn(files, p)
            dirs  == (c.dirs \ {p}) \cup
                     {q \in Below(files, p) : c.deep /\ Len(q) = Len(p) + 1 /\ IsDir(files, q)}
        IN  IF Cardinality(found) >= MaxMatches
            THEN \E cut \in {s \in kSubset(MaxMatches, found) : c.found \subseteq s} : Ends(w, "ok", cut)
            ELSE work' = [work EXCEPT ![w].found = found, ![w].dirs = dirs]
  BY DEF SearchDirectory
<1>3. /\ c \in WorkCall /\ CallOK(c) /\ c.found \in SUBSET Hits /\ c.dirs \in SUBSET Paths /\ p \in Paths
      /\ files \in Trees /\ DOMAIN files \subseteq Paths
  BY <1>1, <1>2, CallIs DEF CallOK, WorkCall
<1>4. PICK found : found = c.found \cup SearchedIn(files, p)
  OBVIOUS
<1>5. PICK dirs : dirs = (c.dirs \ {p}) \cup
                     {q \in Below(files, p) : c.deep /\ Len(q) = Len(p) + 1 /\ IsDir(files, q)}
  OBVIOUS
<1>6. SearchedIn(files, p) \in SUBSET Hits
  <2>1. \A q \in Paths : Matches(files, q) \in SUBSET Hits
    BY <1>3, MatchesAre
  <2>2. Below(files, p) \subseteq Paths
    BY <1>3 DEF Below, Under
  <2> QED
    BY <1>3, <2>1, <2>2 DEF SearchedIn
<1>7. found \in SUBSET Hits /\ dirs \in SUBSET Paths /\ found \in SUBSET Finds
  BY <1>3, <1>4, <1>5, <1>6, HitsAre DEF Below, Under
<1>8. c.alone => files = c.before /\ TreeOK(c.before) /\ Searching(c)
  BY <1>1, CallIs DEF DoneSoFar, CallOK
<1>9. CASE Cardinality(found) >= MaxMatches
  <2>1. PICK cut \in kSubset(MaxMatches, found) : c.found \subseteq cut /\ Ends(w, "ok", cut)
    BY <1>2, <1>4, <1>5, <1>9
  <2>2. cut \subseteq found /\ Cardinality(cut) = MaxMatches
    BY <2>1 DEF kSubset
  <2>3. c.alone => Promised(c, files', cut)
    <3> SUFFICES ASSUME c.alone PROVE Promised(c, files', cut)
      OBVIOUS
    <3>1. SearchedIn(files, p) \subseteq UNION {Matches(c.before, q) : q \in Searched(c)}
      BY <1>2, <1>3, <1>8, SearchedAre
    <3>2. cut \subseteq UNION {Matches(c.before, q) : q \in Searched(c)}
      BY <1>4, <1>8, <2>2, <3>1 DEF Searching
    <3> QED
      BY <1>1, <1>8, <2>2, <3>2 DEF Promised, Searched
  <2>4. cut \in SUBSET Finds
    BY <1>7, <2>2
  <2> QED
    BY <1>1, <2>1, <2>3, <2>4, EndsOK
<1>10. CASE ~(Cardinality(found) >= MaxMatches)
  <2> DEFINE d == Wider(c, found, dirs)
  <2>1. work' = [work EXCEPT ![w] = d]
    <3>1. work' = [work EXCEPT ![w].found = found, ![w].dirs = dirs]
      BY <1>2, <1>4, <1>5, <1>10
    <3> QED
      BY <3>1 DEF Wider, WorkspaceIInv
  <2>2. /\ d \in WorkCall /\ d.found = found /\ d.dirs = dirs
        /\ d.op = c.op /\ d.at = c.at /\ d.n = c.n /\ d.path = c.path /\ d.dest = c.dest
        /\ d.deep = c.deep /\ d.seen = c.seen /\ d.before = c.before /\ d.alone = c.alone
        /\ d.failed = c.failed /\ d.answer = c.answer
    BY <1>3, <1>7, WiderIs
  <2> HIDE DEF d
  <2>3. Cardinality(found) < MaxMatches
    BY <1>7, <1>10, HitsAre, WorkspaceAssumption
  <2>4. CallOK(d)
    <3>1. c.op = "search" /\ c.at = "search"
      BY <1>1
    <3> HIDE DEF c
    <3> QED
      BY <1>3, <1>7, <2>2, <2>3, <3>1 DEF CallOK
  <2>5. d.alone => DoneSoFar(d, files')
    <3> SUFFICES ASSUME c.alone PROVE DoneSoFar(d, files')
      BY <2>2
    <3>1. Searching(d)
      <4>1. /\ dirs \subseteq Under(c.before, c.path) /\ (~c.deep => dirs \subseteq {c.path})
            /\ \A q \in Searched(c) : Matches(c.before, q) \subseteq found
                                      \/ \E e \in dirs : q \in FoundFrom(c, e)
        <5>1. /\ c \in WorkCall /\ TreeOK(c.before) /\ Searching(c) /\ p \in c.dirs
              /\ found = c.found \cup SearchedIn(c.before, p)
          BY <1>2, <1>3, <1>4, <1>8
        <5>2. dirs = Left(c.before, c, p)
          BY <1>5, <1>8 DEF Left
        <5> HIDE DEF c
        <5>3. /\ Left(c.before, c, p) \subseteq Under(c.before, c.path)
              /\ ~c.deep => Left(c.before, c, p) \subseteq {c.path}
              /\ \A q \in Searched(c) : \/ Matches(c.before, q) \subseteq c.found \cup SearchedIn(c.before, p)
                                        \/ \E e \in Left(c.before, c, p) : q \in FoundFrom(c, e)
          BY <5>1, SearchingGoesOn
        <5> QED
          BY <5>1, <5>2, <5>3, Zenon
      <4>2. SearchedIn(files, p) \subseteq UNION {Matches(c.before, q) : q \in Searched(c)}
        BY <1>2, <1>3, <1>8, SearchedAre
      <4>3. found \subseteq UNION {Matches(c.before, q) : q \in Searched(c)}
        BY <1>4, <1>8, <4>2 DEF Searching
      <4>4. Searched(d) = Searched(c) /\ \A e : FoundFrom(d, e) = FoundFrom(c, e)
        BY <2>2 DEF Searched, FoundFrom
      <4> HIDE DEF c
      <4> QED
        BY <2>2, <4>1, <4>3, <4>4 DEF Searching
    <3>2. Writing(d)
      BY <1>1, <2>2 DEF Writing
    <3> QED
      BY <1>1, <1>8, <2>2, <3>1, <3>2 DEF DoneSoFar
  <2>6. d.at # "idle"
    BY <1>1, <2>2
  <2> QED
    BY <1>1, <2>1, <2>2, <2>4, <2>5, <2>6, StepOK
<1> QED
  BY <1>9, <1>10

\* A walk ends with all that it had to find, or with its cap.
LEMMA SearchEndStep ==
  ASSUME WorkspaceIInv, NEW w \in Workers, SearchEnds(w)
  PROVE  WorkspaceIInv' /\ \A v \in Workers : Keeps(v)
<1> DEFINE c == work[w]
<1>1. /\ c.op = "search" /\ c.at = "search" /\ UNCHANGED <<session, calls>> /\ files' = files
      /\ TreeOK(files') /\ IsDir(files', << >>) /\ c.dirs = {} /\ Ends(w, "ok", c.found)
  BY DEF SearchEnds, At, WorkspaceIInv
<1>2. c.found \in SUBSET Finds
  BY <1>1, CallIs, HitsAre DEF CallOK
<1>3. c.alone => Promised(c, files', c.found)
  <2> SUFFICES ASSUME c.alone PROVE Promised(c, files', c.found)
    OBVIOUS
  <2>1. files = c.before /\ Searching(c)
    BY <1>1, CallIs DEF DoneSoFar
  <2>2. c.found = UNION {Matches(c.before, q) : q \in Searched(c)}
    <3>1. c.found \subseteq UNION {Matches(c.before, q) : q \in Searched(c)}
      BY <2>1 DEF Searching
    <3>2. \A q \in Searched(c) : Matches(c.before, q) \subseteq c.found
      BY <1>1, <2>1 DEF Searching
    <3> QED
      BY <3>1, <3>2
  <2> QED
    BY <1>1, <2>1, <2>2 DEF Promised, Searched
<1> QED
  BY <1>1, <1>2, <1>3, EndsOK

\* A call that goes to the next of its awaits.
Onward(c, at, seen, failed) == [[[c EXCEPT !.at = at] EXCEPT !.seen = seen] EXCEPT !.failed = failed]

\* A call that goes on, with where it is and what it has read.
LEMMA OnwardIs ==
  ASSUME NEW c \in WorkCall, NEW at \in Awaits, NEW seen \in Seq(Nat), NEW failed \in BOOLEAN
  PROVE  LET d == Onward(c, at, seen, failed)
         IN  /\ d \in WorkCall /\ d.at = at /\ d.seen = seen /\ d.failed = failed
             /\ d.op = c.op /\ d.n = c.n /\ d.path = c.path /\ d.dest = c.dest
             /\ d.deep = c.deep /\ d.dirs = c.dirs /\ d.found = c.found /\ d.before = c.before
             /\ d.alone = c.alone /\ d.answer = c.answer
<1> DEFINE d1 == [c EXCEPT !.at = at]
           d2 == [d1 EXCEPT !.seen = seen]
           d == [d2 EXCEPT !.failed = failed]
<1>1. /\ d1 \in WorkCall /\ d1.at = at /\ d1.op = c.op /\ d1.n = c.n /\ d1.path = c.path /\ d1.dest = c.dest
      /\ d1.deep = c.deep /\ d1.dirs = c.dirs /\ d1.found = c.found /\ d1.before = c.before
      /\ d1.alone = c.alone /\ d1.answer = c.answer
  BY DEF WorkCall
<1> HIDE DEF d1
<1>2. /\ d2 \in WorkCall /\ d2.seen = seen /\ d2.at = at /\ d2.op = c.op /\ d2.n = c.n /\ d2.path = c.path
      /\ d2.dest = c.dest /\ d2.deep = c.deep /\ d2.dirs = c.dirs /\ d2.found = c.found /\ d2.before = c.before
      /\ d2.alone = c.alone /\ d2.answer = c.answer
  BY <1>1 DEF WorkCall
<1> HIDE DEF d2
<1>3. /\ d \in WorkCall /\ d.failed = failed /\ d.seen = seen /\ d.at = at /\ d.op = c.op /\ d.n = c.n /\ d.path = c.path
      /\ d.dest = c.dest /\ d.deep = c.deep /\ d.dirs = c.dirs /\ d.found = c.found /\ d.before = c.before
      /\ d.alone = c.alone /\ d.answer = c.answer
  BY <1>2 DEF WorkCall
<1>4. Onward(c, at, seen, failed) = d
  BY DEF Onward, d1, d2
<1> HIDE DEF d
<1> QED
  BY <1>3, <1>4

\* A call that goes on leaves the invariant, if what it did so far is what it promises.
LEMMA OnwardOK ==
  ASSUME WorkspaceIInv, NEW w \in Workers, NEW at \in {"truncate", "fill"}, NEW seen \in Seq(Nat),
         NEW failed \in BOOLEAN, work[w].op \in {"write", "append", "patch", "copy"},
         work' = [work EXCEPT ![w] = Onward(work[w], at, seen, failed)], UNCHANGED <<session, calls>>,
         TreeOK(files'), IsDir(files', << >>),
         at = "fill" => TruncatedPath(work[w]) # << >>,
         work[w].alone => files' = IF at = "fill" THEN Put(work[w].before, TruncatedPath(work[w]), << >>)
                                   ELSE work[w].before,
         work[w].alone /\ ~failed => Writing(Onward(work[w], at, seen, failed))
  PROVE  WorkspaceIInv' /\ \A v \in Workers : Keeps(v)
<1> DEFINE c == work[w]
           d == Onward(c, at, seen, failed)
<1>1. c \in WorkCall /\ CallOK(c)
  BY CallIs
<1>2. /\ d \in WorkCall /\ d.at = at /\ d.seen = seen /\ d.failed = failed
      /\ d.op = c.op /\ d.n = c.n /\ d.path = c.path /\ d.dest = c.dest
      /\ d.deep = c.deep /\ d.dirs = c.dirs /\ d.found = c.found /\ d.before = c.before
      /\ d.alone = c.alone /\ d.answer = c.answer
  <2>1. at \in Awaits
    BY DEF Awaits
  <2> HIDE DEF c
  <2> QED
    BY <1>1, <2>1, OnwardIs
<1> HIDE DEF d
<1>3. TruncatedPath(d) = TruncatedPath(c)
  BY <1>2 DEF TruncatedPath
<1>4. d.at \in AwaitsOf(d.op) /\ d.at # "idle" /\ d.op \notin Reads \cup {"none"} /\ d.op # "search"
  BY <1>2 DEF AwaitsOf, Reads
<1>5. CallOK(d)
  <2> HIDE DEF c
  <2>1. c.op \in {"write", "append", "patch", "copy"} /\ (at = "fill" => TruncatedPath(c) # << >>)
    BY DEF c
  <2> QED
    BY <1>1, <1>2, <1>3, <1>4, <2>1 DEF CallOK
<1>6. d.alone => DoneSoFar(d, files')
  <2> SUFFICES ASSUME c.alone PROVE DoneSoFar(d, files')
    BY <1>2
  <2>1. files' = IF d.at = "fill" THEN Put(d.before, TruncatedPath(d), << >>) ELSE d.before
    BY <1>2, <1>3
  <2>2. ~d.failed => Writing(d)
    BY <1>2 DEF d
  <2>3. d.at # "remove"
    BY <1>2
  <2> QED
    BY <1>4, <2>1, <2>2, <2>3 DEF DoneSoFar
<1>7. work' = [work EXCEPT ![w] = d] /\ c.op \notin Reads \cup {"none"}
  BY DEF d, Reads
<1> QED
  BY <1>2, <1>4, <1>5, <1>6, <1>7, StepOK

\* GoesTo, as a step to the next await.
LEMMA GoesToIs ==
  ASSUME WorkspaceIInv, NEW w \in Workers, NEW at \in Awaits, NEW seen \in Seq(Nat), GoesTo(w, at, seen)
  PROVE  work' = [work EXCEPT ![w] = Onward(work[w], at, seen, work[w].failed)]
<1>1. work[w] \in WorkCall
  BY CallIs
<1>2. work' = [work EXCEPT ![w] = [[work[w] EXCEPT !.at = at] EXCEPT !.seen = seen]]
  BY DEF GoesTo, WorkspaceIInv
<1>3. [[work[w] EXCEPT !.at = at] EXCEPT !.seen = seen] = Onward(work[w], at, seen, work[w].failed)
  BY <1>1 DEF Onward, WorkCall
<1> QED
  BY <1>2, <1>3

\* An append has read the text that its piece will follow.
LEMMA AppendReadStep ==
  ASSUME WorkspaceIInv, NEW w \in Workers, AppendRead(w)
  PROVE  WorkspaceIInv' /\ \A v \in Workers : Keeps(v)
<1> DEFINE c == work[w]
           old == Text(files, c.path)
<1>1. /\ c.op = "append" /\ c.at = "read" /\ UNCHANGED <<session, calls>> /\ files' = files
      /\ TreeOK(files') /\ IsDir(files', << >>)
  BY DEF AppendRead, At, WorkspaceIInv
<1>2. /\ c \in WorkCall /\ c.path \in Paths /\ c.n \in Nat /\ c.failed \in BOOLEAN
      /\ \A p \in DOMAIN files : files[p] \in Nodes
  BY CallIs DEF WorkCall
<1>3. c.alone => files = c.before
  BY <1>1, CallIs DEF DoneSoFar
<1>4. old \in Seq(Nat) /\ <<c.n>> \in Seq(Nat)
  BY <1>2, EmptySeq DEF Text, IsFile, Nodes
<1>5. old \o <<c.n>> \in Seq(Nat) /\ << >> \o <<c.n>> = <<c.n>>
  BY <1>4, ConcatProperties, ConcatEmptySeq
<1>6. PICK seen \in Seq(Nat), failed \in BOOLEAN :
        /\ work' = [work EXCEPT ![w] = Onward(c, "truncate", seen, failed)]
        /\ failed \/ seen = old \o <<c.n>>
  <2>1. CASE IsFile(files, c.path) /\ GoesTo(w, "truncate", files[c.path] \o <<c.n>>)
    <3>1. old = files[c.path]
      BY <2>1 DEF Text
    <3>2. GoesTo(w, "truncate", old \o <<c.n>>) /\ "truncate" \in Awaits
      BY <2>1, <3>1 DEF Awaits
    <3>3. work' = [work EXCEPT ![w] = Onward(c, "truncate", old \o <<c.n>>, c.failed)]
      BY <1>5, <3>2, GoesToIs
    <3> QED
      BY <1>2, <1>5, <3>3
  <2>2. CASE ~IsFile(files, c.path) /\ GoesTo(w, "truncate", <<c.n>>)
    <3>1. old \o <<c.n>> = <<c.n>>
      BY <1>5, <2>2 DEF Text
    <3>2. "truncate" \in Awaits
      BY DEF Awaits
    <3>3. work' = [work EXCEPT ![w] = Onward(c, "truncate", <<c.n>>, c.failed)]
      BY <1>4, <2>2, <3>2, GoesToIs
    <3> QED
      BY <1>2, <1>4, <3>1, <3>3
  <2>3. CASE work' = [work EXCEPT ![w].at = "truncate", ![w].seen = <<c.n>>, ![w].failed = TRUE]
    <3>1. work' = [work EXCEPT ![w] = Onward(c, "truncate", <<c.n>>, TRUE)]
      BY <2>3 DEF Onward, WorkspaceIInv
    <3> QED
      BY <1>4, <3>1
  <2> QED
    BY <2>1, <2>2, <2>3 DEF AppendRead
<1>7. c.alone /\ ~failed => Writing(Onward(c, "truncate", seen, failed))
  <2> SUFFICES ASSUME c.alone, ~failed PROVE Writing(Onward(c, "truncate", seen, failed))
    OBVIOUS
  <2> DEFINE d == Onward(c, "truncate", seen, failed)
  <2>1. d.at = "truncate" /\ d.seen = seen /\ d.op = c.op /\ d.n = c.n /\ d.path = c.path /\ d.before = c.before
    <3>1. "truncate" \in Awaits
      BY DEF Awaits
    <3> QED
      BY <1>2, <3>1, OnwardIs
  <2>2. seen = Text(c.before, c.path) \o <<c.n>>
    BY <1>3, <1>6
  <2> HIDE DEF d, c
  <2> QED
    BY <1>1, <2>1, <2>2 DEF Writing, d
<1>8. c.op \in {"write", "append", "patch", "copy"} /\ "truncate" \in {"truncate", "fill"} /\ "truncate" # "fill"
  BY <1>1
<1> QED
  BY <1>1, <1>3, <1>6, <1>7, <1>8, OnwardOK

\* The first of the pieces that patch looks for.
LEMMA FirstIs ==
  ASSUME NEW S \in SUBSET Nat, S # {}
  PROVE  Min(S) \in S /\ \A j \in S : Min(S) <= j
<1>1. PICK m \in S : \A j \in S : ~(<<j, m>> \in OpToRel(<, Nat))
  BY NatLessThanWellFounded, WFMin
<1>2. \A j \in S : j < m => <<j, m>> \in OpToRel(<, Nat)
  BY DEF OpToRel
<1>3. \A j \in S : m <= j
  <2> TAKE j \in S
  <2>1. j \in Nat /\ m \in Nat /\ ~(j < m)
    BY <1>1, <1>2
  <2> QED
    BY <2>1
<1> QED
  BY <1>1, <1>3 DEF Min

\* A patch has read the text, and exchanged the first needle.
LEMMA PatchReadStep ==
  ASSUME WorkspaceIInv, NEW w \in Workers, PatchRead(w)
  PROVE  WorkspaceIInv' /\ \A v \in Workers : Keeps(v)
<1> DEFINE c == work[w]
           p == c.path
           some == /\ IsFile(files, p) /\ Len(files[p]) <= ReadLimit
                   /\ \E i \in DOMAIN files[p] : files[p][i] = Needle
<1>1. /\ c.op = "patch" /\ c.at = "read" /\ UNCHANGED <<session, calls>> /\ files' = files
      /\ TreeOK(files') /\ IsDir(files', << >>)
  BY DEF PatchRead, At, WorkspaceIInv
<1>2. /\ c \in WorkCall /\ p \in Paths /\ c.n \in Nat /\ c.failed \in BOOLEAN
      /\ \A q \in DOMAIN files : files[q] \in Nodes
  BY CallIs DEF WorkCall
<1>3. c.alone => files = c.before
  BY <1>1, CallIs DEF DoneSoFar
<1>4. CASE ~some
  <2>1. Fails(w)
    BY <1>4 DEF PatchRead, Fails
  <2> QED
    BY <1>1, <2>1, FailsOK
<1>5. CASE some
  <2> DEFINE text == files[p]
             S == {i \in DOMAIN text : text[i] = Needle}
             seen == [text EXCEPT ![Min(S)] = c.n]
  <2>1. text \in Seq(Nat) /\ Len(text) \in Nat /\ DOMAIN text = 1..Len(text)
    <3>1. text \in Seq(Nat)
      BY <1>2, <1>5 DEF IsFile, Nodes
    <3> HIDE DEF text
    <3> QED
      BY <3>1
  <2>2. S \in SUBSET Nat /\ S # {}
    BY <1>5, <2>1
  <2>3. Min(S) \in S /\ \A j \in S : Min(S) <= j
    <3> HIDE DEF S
    <3> QED
      BY <2>2, FirstIs
  <2>4. seen \in Seq(Nat)
    <3> HIDE DEF text
    <3>1. seen \in [1..Len(text) -> Nat]
      BY <1>2, <2>1, <2>3
    <3> QED
      BY <2>1, <3>1
  <2>5. work' = [work EXCEPT ![w] = Onward(c, "truncate", seen, c.failed)]
    <3>1. GoesTo(w, "truncate", seen) /\ "truncate" \in Awaits
      BY <1>5 DEF PatchRead, Awaits
    <3> HIDE DEF seen
    <3> QED
      BY <2>4, <3>1, GoesToIs
  <2>6. c.alone => Writing(Onward(c, "truncate", seen, c.failed))
    <3> SUFFICES ASSUME c.alone PROVE Writing(Onward(c, "truncate", seen, c.failed))
      OBVIOUS
    <3> DEFINE d == Onward(c, "truncate", seen, c.failed)
               i == Min(S)
    <3>1. d.at = "truncate" /\ d.seen = seen /\ d.op = c.op /\ d.n = c.n /\ d.path = c.path /\ d.before = c.before
      <4>1. "truncate" \in Awaits
        BY DEF Awaits
      <4> HIDE DEF seen
      <4> QED
        BY <1>2, <2>4, <4>1, OnwardIs
    <3>2. Text(c.before, p) = text
      BY <1>3, <1>5 DEF Text
    <3>3. /\ i \in DOMAIN text /\ text[i] = Needle /\ seen = [text EXCEPT ![i] = c.n]
          /\ \A j \in 1..(i - 1) : text[j] # Needle
      <4>1. i \in DOMAIN text /\ text[i] = Needle /\ \A j \in DOMAIN text : text[j] = Needle => i <= j
        BY <2>3
      <4> HIDE DEF i, text
      <4>2. \A j \in 1..(i - 1) : j \in DOMAIN text /\ ~(i <= j)
        BY <2>1, <4>1
      <4> QED
        BY <4>1, <4>2 DEF i
    <3> HIDE DEF d, c, i, seen, text
    <3>4. \E k \in DOMAIN text : /\ text[k] = Needle /\ \A j \in 1..(k - 1) : text[j] # Needle
                                 /\ d.seen = [text EXCEPT ![k] = d.n]
      BY <3>1, <3>3
    <3> QED
      BY <1>1, <3>1, <3>2, <3>4 DEF Writing, d
  <2> HIDE DEF seen
  <2>7. c.op \in {"write", "append", "patch", "copy"} /\ "truncate" \in {"truncate", "fill"} /\ "truncate" # "fill"
    BY <1>1
  <2> QED
    BY <1>1, <1>2, <1>3, <2>4, <2>5, <2>6, <2>7, OnwardOK
<1> QED
  BY <1>4, <1>5

\* A copy has read the file that it copies.
LEMMA CopyOpenStep ==
  ASSUME WorkspaceIInv, NEW w \in Workers, CopyOpen(w)
  PROVE  WorkspaceIInv' /\ \A v \in Workers : Keeps(v)
<1> DEFINE c == work[w]
           p == c.path
<1>1. /\ c.op = "copy" /\ c.at = "open" /\ UNCHANGED <<session, calls>>
      /\ TreeOK(files) /\ IsDir(files, << >>)
  BY DEF CopyOpen, At, WorkspaceIInv
<1>2. CASE ~IsFile(files, p)
  BY <1>1, <1>2, FailsOK DEF CopyOpen
<1>3. CASE IsFile(files, p)
  <2>1. /\ c \in WorkCall /\ p \in Paths /\ c.n \in Nat /\ c.failed \in BOOLEAN /\ files[p] \in Seq(Nat)
        /\ files' = files
    BY <1>3, CallIs DEF WorkCall, IsFile, Nodes, CopyOpen
  <2>2. c.alone => files = c.before
    BY <1>1, CallIs DEF DoneSoFar
  <2>3. "truncate" \in Awaits
    BY DEF Awaits
  <2>4. work' = [work EXCEPT ![w] = Onward(c, "truncate", files[p], c.failed)]
    <3>1. GoesTo(w, "truncate", files[p])
      BY <1>3 DEF CopyOpen
    <3> QED
      BY <2>1, <2>3, <3>1, GoesToIs
  <2>5. c.alone => Writing(Onward(c, "truncate", files[p], c.failed))
    <3> SUFFICES ASSUME c.alone PROVE Writing(Onward(c, "truncate", files[p], c.failed))
      OBVIOUS
    <3> DEFINE d == Onward(c, "truncate", files[p], c.failed)
    <3>1. d.at = "truncate" /\ d.seen = files[p] /\ d.op = c.op /\ d.path = c.path /\ d.before = c.before
      BY <2>1, <2>3, OnwardIs
    <3>2. IsFile(c.before, p) /\ Text(c.before, p) = files[p]
      BY <1>3, <2>2 DEF Text
    <3> HIDE DEF d
    <3> QED
      BY <1>1, <3>1, <3>2 DEF Writing, d
  <2>6. c.op \in {"write", "append", "patch", "copy"} /\ "truncate" \in {"truncate", "fill"} /\ "truncate" # "fill"
    BY <1>1
  <2> QED
    BY <1>1, <2>1, <2>2, <2>4, <2>5, <2>6, OnwardOK
<1> QED
  BY <1>2, <1>3

\* The root stays when something else is put or cut.
LEMMA RootStays ==
  ASSUME NEW tree \in Trees, NEW p \in Paths, p # << >>, NEW node \in Nodes, IsDir(tree, << >>)
  PROVE  IsDir(Put(tree, p, node), << >>)
<1>1. << >> \in DOMAIN tree /\ tree[<< >>] = Directory
  BY DEF IsDir
<1>2. /\ DOMAIN Put(tree, p, node) = DOMAIN tree \cup {p}
      /\ \A q \in DOMAIN tree : q # p => Put(tree, p, node)[q] = tree[q]
  BY PutIs
<1>3. Put(tree, p, node)[<< >>] = tree[<< >>]
  BY <1>1, <1>2
<1> QED
  BY <1>1, <1>2, <1>3 DEF IsDir

\* A write has emptied or made its file.
LEMMA TruncateStep ==
  ASSUME WorkspaceIInv, NEW w \in Workers, Truncate(w)
  PROVE  WorkspaceIInv' /\ \A v \in Workers : Keeps(v)
<1> DEFINE c == work[w]
           p == TruncatedPath(c)
           ok == p # << >> /\ IsDir(files, Front(p)) /\ ~IsDir(files, p)
<1>1. c.at = "truncate" /\ UNCHANGED <<session, calls>>
  BY DEF Truncate
<1>2. /\ c \in WorkCall /\ c.path \in Paths /\ c.dest \in Paths /\ c.n \in Nat /\ c.failed \in BOOLEAN
      /\ c.seen \in Seq(Nat) /\ TreeOK(files) /\ files \in Trees /\ IsDir(files, << >>)
      /\ c.op \in WorkOperations /\ c.at \in AwaitsOf(c.op)
  BY CallIs DEF WorkCall, WorkspaceIInv
<1>3. c.op \in {"write", "append", "patch", "copy"}
  <2> HIDE DEF c
  <2> QED
    BY <1>1, <1>2 DEF AwaitsOf, WorkOperations, Reads, Writes
<1>4. c.alone => files = c.before /\ (~c.failed => Writing(c))
  BY <1>1, <1>3, CallIs DEF DoneSoFar
<1>5. p \in Paths
  BY <1>2 DEF TruncatedPath
<1>6. CASE ~ok
  BY <1>1, <1>6, FailsOK DEF Truncate
<1>7. CASE ok
  <2> DEFINE seen == IF c.op = "write" THEN <<c.n>> ELSE c.seen
  <2>1. files' = Put(files, p, << >>) /\ GoesTo(w, "fill", seen)
    BY <1>7 DEF Truncate
  <2>2. seen \in Seq(Nat) /\ << >> \in Seq(Nat) /\ << >> \in Nodes /\ "fill" \in Awaits
    BY <1>2, EmptySeq DEF Nodes, Awaits
  <2>3. TreeOK(files') /\ IsDir(files', << >>)
    BY <1>2, <1>5, <1>7, <2>1, <2>2, PutOK, RootStays
  <2>4. work' = [work EXCEPT ![w] = Onward(c, "fill", seen, c.failed)]
    <3> HIDE DEF seen
    <3> QED
      BY <2>1, <2>2, GoesToIs
  <2>5. c.alone /\ ~c.failed => Writing(Onward(c, "fill", seen, c.failed))
    <3> SUFFICES ASSUME c.alone, ~c.failed PROVE Writing(Onward(c, "fill", seen, c.failed))
      OBVIOUS
    <3> DEFINE d == Onward(c, "fill", seen, c.failed)
    <3>1. d.at = "fill" /\ d.seen = seen /\ d.op = c.op /\ d.n = c.n /\ d.path = c.path /\ d.before = c.before
      <4> HIDE DEF seen
      <4> QED
        BY <1>2, <2>2, OnwardIs
    <3>2. Writing(c) /\ c.at = "truncate" /\ (c.op = "write" => seen = <<c.n>>) /\ (c.op # "write" => seen = c.seen)
      BY <1>1, <1>4
    <3> HIDE DEF d, c, seen
    <3>3. CASE c.op = "write"
      BY <3>1, <3>2, <3>3 DEF Writing, d
    <3>4. CASE c.op = "append"
      BY <3>1, <3>2, <3>4 DEF Writing, d
    <3>5. CASE c.op = "patch"
      <4>1. d.seen = c.seen
        BY <3>1, <3>2, <3>5
      <4> QED
        BY <3>1, <3>2, <3>5, <4>1 DEF Writing, d
    <3>6. CASE c.op = "copy"
      BY <3>1, <3>2, <3>6 DEF Writing, d
    <3> QED
      BY <1>3, <3>3, <3>4, <3>5, <3>6 DEF d
  <2>6. c.alone => files' = Put(c.before, p, << >>)
    BY <1>4, <2>1
  <2> HIDE DEF seen
  <2> QED
    BY <1>1, <1>2, <1>3, <1>7, <2>2, <2>3, <2>4, <2>5, <2>6, OnwardOK
<1> QED
  BY <1>6, <1>7

\* What is put twice is there as it was put last.
LEMMA PutTwice ==
  ASSUME NEW tree \in Trees, NEW p \in Paths, NEW node \in Nodes, NEW old \in Nodes
  PROVE  Put(Put(tree, p, old), p, node) = Put(tree, p, node)
<1> DEFINE one == Put(tree, p, old)
           two == Put(one, p, node)
           new == Put(tree, p, node)
<1>1. /\ one \in Trees /\ DOMAIN one = DOMAIN tree \cup {p}
      /\ \A q \in DOMAIN tree : q # p => one[q] = tree[q]
  BY PutIs
<1>2. DOMAIN two = DOMAIN one \cup {p} /\ two[p] = node /\ \A q \in DOMAIN one : q # p => two[q] = one[q]
  <2> HIDE DEF one
  <2> QED
    BY <1>1, PutIs
<1>3. DOMAIN new = DOMAIN tree \cup {p} /\ new[p] = node /\ \A q \in DOMAIN tree : q # p => new[q] = tree[q]
  BY PutIs
<1>4. two = [q \in DOMAIN two |-> two[q]] /\ new = [q \in DOMAIN new |-> new[q]]
  BY DEF Put
<1> HIDE DEF one, two, new
<1>5. DOMAIN two = DOMAIN new /\ \A q \in DOMAIN two : two[q] = new[q]
  BY <1>1, <1>2, <1>3
<1>6. two = new
  BY <1>4, <1>5
<1> QED
  BY <1>6 DEF one, two, new

\* Over an empty file, what is written is the file.
LEMMA OverIs ==
  ASSUME NEW new \in Seq(Nat), NEW old \in Seq(Nat)
  PROVE  Over(new, old) \in Seq(Nat) /\ Over(new, << >>) = new
<1>1. Len(new) \in Nat /\ Len(old) \in Nat /\ DOMAIN old = 1..Len(old) /\ Len(<< >>) = 0
  BY EmptySeq
<1>2. SubSeq(old, Len(new) + 1, Len(old)) \in Seq(Nat)
  <2>1. Len(new) + 1 \in Int /\ Len(old) \in Int /\ \A i \in (Len(new) + 1)..Len(old) : old[i] \in Nat
    BY <1>1
  <2> QED
    BY <2>1, SubSeqProperties
<1>3. SubSeq(<< >>, Len(new) + 1, 0) = << >>
  <2>1. Len(new) + 1 \in Int /\ 0 \in Int /\ 0 < Len(new) + 1
    BY <1>1
  <2> QED
    BY <2>1, SubSeqEmpty
<1> QED
  BY <1>1, <1>2, <1>3, ConcatProperties, ConcatEmptySeq DEF Over

\* A write has filled its file, and ends.
LEMMA FillStep ==
  ASSUME WorkspaceIInv, NEW w \in Workers, Fill(w)
  PROVE  WorkspaceIInv' /\ \A v \in Workers : Keeps(v)
<1> DEFINE c == work[w]
           p == TruncatedPath(c)
           new == Filling(c)
<1>1. c.at = "fill" /\ UNCHANGED <<session, calls>>
  BY DEF Fill
<1>2. /\ c \in WorkCall /\ c.path \in Paths /\ c.dest \in Paths /\ c.n \in Nat /\ CallOK(c)
      /\ c.seen \in Seq(Nat) /\ TreeOK(files) /\ files \in Trees /\ IsDir(files, << >>)
      /\ c.op \in WorkOperations /\ c.at \in AwaitsOf(c.op) /\ \A q \in DOMAIN files : files[q] \in Nodes
  BY CallIs DEF WorkCall, WorkspaceIInv
<1>3. c.op \in {"write", "append", "patch", "copy"}
  <2> HIDE DEF c
  <2> QED
    BY <1>1, <1>2 DEF AwaitsOf, WorkOperations, Reads, Writes
<1>4. c.alone => files = Put(c.before, p, << >>) /\ (~c.failed => Writing(c))
  BY <1>1, <1>3, CallIs DEF DoneSoFar
<1>5. p \in Paths /\ p # << >> /\ (c.op = "copy" => c.path # c.dest /\ p = c.dest) /\ (c.op # "copy" => p = c.path)
      /\ c.before \in Trees
  BY <1>1, <1>2, <1>3 DEF TruncatedPath, CallOK, WorkCall
<1>6. new \in Seq(Nat) /\ new \in Nodes
  BY <1>2 DEF Filling, IsFile, Nodes
<1>7. ASSUME c.alone
      PROVE  /\ files = Put(c.before, p, << >>) /\ files[p] = << >> /\ p \in DOMAIN files
             /\ DOMAIN files = DOMAIN c.before \cup {p}
             /\ \A q \in DOMAIN c.before : q # p => files[q] = c.before[q]
  <2>1. files = Put(c.before, p, << >>)
    BY <1>4, <1>7
  <2> HIDE DEF c, p, new
  <2>2. /\ Put(c.before, p, << >>)[p] = << >>
        /\ DOMAIN Put(c.before, p, << >>) = DOMAIN c.before \cup {p}
        /\ \A q \in DOMAIN c.before : q # p => Put(c.before, p, << >>)[q] = c.before[q]
    BY DEF Put
  <2> QED
    BY <2>1, <2>2, Zenon
<1>8. CASE Fails(w)
  BY <1>1, <1>8, FailsOK
<1>9. CASE /\ files' = IF IsFile(files, p) THEN Put(files, p, Over(new, files[p])) ELSE files
           /\ Ends(w, "ok", {})
  <2>1. TreeOK(files') /\ IsDir(files', << >>)
    <3>1. CASE IsFile(files, p)
      <4>1. files[p] \in Seq(Nat)
        BY <1>2, <3>1 DEF IsFile, Nodes
      <4>2. Over(new, files[p]) \in Seq(Nat)
        BY <1>6, <4>1, OverIs
      <4>3. Over(new, files[p]) \in Nodes
        BY <4>2 DEF Nodes
      <4>4. IsDir(files, Front(p)) /\ ~IsDir(files, p)
        BY <1>2, <1>5, <3>1, FrontIs DEF TreeOK, Rooted, IsFile, IsDir
      <4>5. files' = Put(files, p, Over(new, files[p]))
        BY <1>9, <3>1
      <4> HIDE DEF p, new
      <4> QED
        BY <1>2, <1>5, <4>2, <4>3, <4>4, <4>5, PutOK, RootStays
    <3>2. CASE ~IsFile(files, p)
      BY <1>2, <1>9, <3>2
    <3> QED
      BY <3>1, <3>2
  <2>2. c.alone /\ ~c.failed => Promised(c, files', {})
    <3> SUFFICES ASSUME c.alone, ~c.failed PROVE Promised(c, files', {})
      OBVIOUS
    <3>1. << >> \in Nodes /\ << >> # Directory /\ << >> \in Seq(Nat)
      BY EmptySeq, WorkspaceAssumption DEF Nodes
    <3>2. /\ files = Put(c.before, p, << >>) /\ files[p] = << >> /\ p \in DOMAIN files
          /\ DOMAIN files = DOMAIN c.before \cup {p}
          /\ \A q \in DOMAIN c.before : q # p => files[q] = c.before[q]
      BY <1>7
    <3>3. files' = Put(c.before, p, new)
      <4>1. files' = Put(files, p, Over(new, files[p]))
        BY <1>9, <3>1, <3>2 DEF IsFile
      <4>2. Over(new, files[p]) = new
        BY <1>6, <3>1, <3>2, OverIs
      <4> HIDE DEF c, p, new
      <4> QED
        BY <1>5, <1>6, <3>1, <3>2, <4>1, <4>2, PutTwice
    <3>4. Writing(c)
      BY <1>4
    <3>5. c.op \in {"write", "append", "patch"} => new = c.seen
      BY DEF Filling
    <3>6. c.op = "copy" => new = c.seen /\ c.seen = Text(c.before, c.path)
      <4> SUFFICES ASSUME c.op = "copy" PROVE new = c.seen /\ c.seen = Text(c.before, c.path)
        OBVIOUS
      <4>1. IsFile(c.before, c.path) /\ c.seen = Text(c.before, c.path)
        BY <1>1, <3>4 DEF Writing
      <4>2. IsFile(files, c.path) => files[c.path] = c.before[c.path]
        BY <1>5, <3>2, <4>1 DEF IsFile
      <4> QED
        BY <4>1, <4>2 DEF Filling, Text
    <3> HIDE DEF c, p, new
    <3>7. CASE c.op = "write"
      BY <1>1, <1>5, <3>3, <3>4, <3>5, <3>7 DEF Promised, Writing
    <3>8. CASE c.op = "append"
      BY <1>1, <1>5, <3>3, <3>4, <3>5, <3>8 DEF Promised, Writing, Text
    <3>9. CASE c.op = "patch"
      BY <1>1, <1>5, <3>3, <3>4, <3>5, <3>9 DEF Promised, Writing, Text
    <3>10. CASE c.op = "copy"
      BY <1>5, <3>3, <3>6, <3>10 DEF Promised, Text
    <3> QED
      BY <1>3, <3>7, <3>8, <3>9, <3>10
  <2>3. c.op \notin Reads \cup {"none"} /\ {} \in SUBSET Finds
    BY <1>3 DEF Reads
  <2> QED
    BY <1>1, <1>9, <2>1, <2>2, <2>3, EndsOK
<1> QED
  BY <1>8, <1>9 DEF Fill

\* A directory in a directory that is there is all that is made.
LEMMA MkdirPuts ==
  ASSUME NEW tree, TreeOK(tree), NEW p \in Paths, p # << >>, IsDir(tree, Front(p)),
         \A q \in DOMAIN tree : IsPrefix(q, p) => tree[q] = Directory
  PROVE  [q \in DOMAIN tree \cup {q \in Paths : IsPrefix(q, p)} |->
            IF q \in DOMAIN tree THEN tree[q] ELSE Directory] = Put(tree, p, Directory)
<1>1. DOMAIN tree \subseteq Paths /\ IsPrefix(p, p)
  BY TreesAre, PrefixOrder DEF TreeOK
<1>2. ASSUME NEW q \in Paths, IsPrefix(q, p), q # p PROVE q \in DOMAIN tree
  <2>1. IsStrictPrefix(q, p)
    BY <1>2 DEF IsStrictPrefix
  <2>2. q = Front(p) \/ IsStrictPrefix(q, Front(p))
    BY <2>1, FrontIs
  <2> QED
    BY <2>2 DEF TreeOK, Rooted, IsDir
<1>3. DOMAIN tree \cup {q \in Paths : IsPrefix(q, p)} = DOMAIN tree \cup {p}
  BY <1>1, <1>2
<1>4. \A q \in DOMAIN tree \cup {p} :
        (IF q \in DOMAIN tree THEN tree[q] ELSE Directory) = (IF q = p THEN Directory ELSE tree[q])
  BY <1>1
<1> QED
  BY <1>3, <1>4 DEF Put

\* A directory is made with all that is missing above it.
LEMMA CreateDirStep ==
  ASSUME WorkspaceIInv, NEW w \in Workers, CreateDirAll(w)
  PROVE  WorkspaceIInv' /\ \A v \in Workers : Keeps(v)
<1> DEFINE c == work[w]
           p == c.path
           new == [q \in DOMAIN files \cup {q \in Paths : IsPrefix(q, p)} |->
                     IF q \in DOMAIN files THEN files[q] ELSE Directory]
<1>1. c.op = "mkdir" /\ c.at = "mkdir" /\ UNCHANGED <<session, calls>>
  BY DEF CreateDirAll, At
<1>2. /\ TreeOK(files) /\ IsDir(files, << >>) /\ p \in Paths /\ DOMAIN files \subseteq Paths
      /\ p # << >> /\ IsDir(c.before, Front(p))
  BY <1>1, CallIs DEF WorkspaceIInv, CallOK
<1>3. CASE Fails(w)
  BY <1>1, <1>3, FailsOK
<1>4. CASE ~Fails(w)
  <2>1. /\ \A q \in DOMAIN files : IsPrefix(q, p) => files[q] = Directory
        /\ files' = new /\ Ends(w, "ok", {})
    BY <1>4 DEF CreateDirAll
  <2>2. TreeOK(new) /\ \A q \in DOMAIN files : q \in DOMAIN new /\ new[q] = files[q]
    <3> HIDE DEF p
    <3> QED
      BY <1>2, <2>1, MkdirOK
  <2>3. TreeOK(files') /\ IsDir(files', << >>)
    <3> HIDE DEF new
    <3> QED
      BY <1>2, <2>1, <2>2 DEF IsDir
  <2>4. c.alone => Promised(c, files', {})
    <3> SUFFICES ASSUME c.alone PROVE Promised(c, files', {})
      OBVIOUS
    <3>1. files = c.before
      BY <1>1, CallIs DEF DoneSoFar
    <3>2. IsDir(files, Front(p))
      BY <1>2, <3>1
    <3>3. new = Put(files, p, Directory)
      <4> HIDE DEF p
      <4> QED
        BY <1>2, <2>1, <3>2, MkdirPuts, Zenon
    <3>4. files' = Put(c.before, p, Directory)
      <4> HIDE DEF new
      <4> QED
        BY <2>1, <3>1, <3>3
    <3> QED
      BY <1>1, <3>4 DEF Promised
  <2>5. c.op \notin Reads \cup {"none"} /\ {} \in SUBSET Finds
    BY <1>1 DEF Reads
  <2> QED
    BY <1>1, <2>1, <2>3, <2>4, <2>5, EndsOK
<1> QED
  BY <1>3, <1>4

\* A move takes all that is below a path below another one.
LEMMA RenameStep ==
  ASSUME WorkspaceIInv, NEW w \in Workers, Rename(w)
  PROVE  WorkspaceIInv' /\ \A v \in Workers : Keeps(v)
<1> DEFINE c == work[w]
<1>1. c.op = "move" /\ c.at = "move" /\ UNCHANGED <<session, calls>>
  BY DEF Rename, At
<1>2. /\ TreeOK(files) /\ IsDir(files, << >>) /\ c.path \in Paths /\ c.dest \in Paths
      /\ c.path # << >> /\ c.dest # << >>
  BY <1>1, CallIs DEF WorkspaceIInv, CallOK
<1>3. CASE ~Renames(files, c.path, c.dest)
  BY <1>1, <1>3, FailsOK DEF Rename
<1>4. CASE Renames(files, c.path, c.dest)
  <2>1. files' = Renamed(files, c.path, c.dest) /\ Ends(w, "ok", {})
    BY <1>4 DEF Rename
  <2>2. TreeOK(files') /\ IsDir(files', << >>)
    <3>1. /\ TreeOK(Renamed(files, c.path, c.dest))
          /\ IsDir(files, << >>) => IsDir(Renamed(files, c.path, c.dest), << >>)
      <4> HIDE DEF c
      <4> QED
        BY <1>2, <1>4, RenamedOK
    <3> QED
      BY <1>2, <2>1, <3>1
  <2>3. c.alone => Promised(c, files', {})
    <3>1. c.alone => files = c.before
      BY <1>1, CallIs DEF DoneSoFar
    <3> QED
      BY <1>1, <1>4, <2>1, <3>1 DEF Promised
  <2>4. c.op \notin Reads \cup {"none"} /\ {} \in SUBSET Finds
    BY <1>1 DEF Reads
  <2> QED
    BY <1>1, <2>1, <2>2, <2>3, <2>4, EndsOK
<1> QED
  BY <1>3, <1>4

\* Nothing is cut.
LEMMA CutNothing ==
  ASSUME NEW tree \in Trees
  PROVE  Cut(tree, {}) = tree
<1>1. tree = [q \in DOMAIN tree |-> tree[q]]
  BY TreesAre
<1>2. DOMAIN tree \ {} = DOMAIN tree
  OBVIOUS
<1> QED
  BY <1>1, <1>2 DEF Cut, Restrict

\* What was removed so far and one more.
LEMMA CutOneMore ==
  ASSUME NEW before \in Trees, NEW below \in SUBSET DOMAIN before, NEW files0,
         files0 = Cut(before, below \ DOMAIN files0), NEW q \in below, q \in DOMAIN files0
  PROVE  Cut(files0, {q}) = Cut(before, below \ DOMAIN Cut(files0, {q}))
<1> DEFINE gone == below \ DOMAIN files0
           new == Cut(files0, {q})
<1>1. files0 = [r \in DOMAIN before \ gone |-> before[r]]
  BY DEF Cut, Restrict
<1>2. new = [r \in DOMAIN files0 \ {q} |-> files0[r]]
  BY DEF Cut, Restrict
<1> HIDE DEF gone, new
<1>3. DOMAIN files0 = DOMAIN before \ gone /\ \A r \in DOMAIN files0 : files0[r] = before[r]
  BY <1>1
<1>4. DOMAIN new = DOMAIN files0 \ {q} /\ \A r \in DOMAIN new : new[r] = before[r]
  BY <1>2, <1>3
<1>5. DOMAIN new = DOMAIN before \ (below \ DOMAIN new)
  <2>1. gone = below \ DOMAIN files0
    BY DEF gone
  <2> QED
    BY <1>3, <1>4, <2>1
<1>6. new = [r \in DOMAIN before \ (below \ DOMAIN new) |-> before[r]]
  BY <1>2, <1>3, <1>4, <1>5
<1> QED
  BY <1>6 DEF Cut, Restrict, new

\* When nothing is left below, only the path is to go.
LEMMA CutAll ==
  ASSUME NEW before \in Trees, NEW p \in DOMAIN before, NEW files0,
         files0 = Cut(before, Below(before, p) \ DOMAIN files0), Below(files0, p) = {}
  PROVE  Cut(files0, {p}) = Cut(before, Under(before, p))
<1> DEFINE gone == Below(before, p) \ DOMAIN files0
           new == Cut(files0, {p})
<1>1. files0 = [r \in DOMAIN before \ gone |-> before[r]]
  BY DEF Cut, Restrict
<1>2. new = [r \in DOMAIN files0 \ {p} |-> files0[r]]
  BY DEF Cut, Restrict
<1>3. gone = Below(before, p) \ DOMAIN files0
  OBVIOUS
<1> HIDE DEF gone, new
<1>4. DOMAIN files0 = DOMAIN before \ gone /\ \A r \in DOMAIN files0 : files0[r] = before[r]
  BY <1>1
<1>5. Below(before, p) \cap DOMAIN files0 = {}
  BY <1>4 DEF Below, Under
<1>6. IsPrefix(p, p)
  <2>1. p \in Paths
    BY TreesAre
  <2> QED
    BY <2>1, PrefixOrder
<1>7. Under(before, p) = Below(before, p) \cup {p}
  BY <1>6 DEF Below, Under
<1>8. DOMAIN files0 \ {p} = DOMAIN before \ Under(before, p)
  BY <1>3, <1>4, <1>5, <1>7
<1>9. new = [r \in DOMAIN before \ Under(before, p) |-> before[r]]
  BY <1>2, <1>4, <1>8
<1> QED
  BY <1>9 DEF Cut, Restrict, new

\* Nothing is below what is not a directory.
LEMMA NothingBelow ==
  ASSUME NEW tree, TreeOK(tree), NEW p \in Paths, ~IsDir(tree, p)
  PROVE  Below(tree, p) = {}
<1> SUFFICES ASSUME NEW q \in Below(tree, p) PROVE FALSE
  OBVIOUS
<1>1. q \in DOMAIN tree /\ IsPrefix(p, q) /\ q # p
  BY DEF Below, Under
<1>2. IsStrictPrefix(p, q)
  BY <1>1 DEF IsStrictPrefix
<1> QED
  BY <1>1, <1>2 DEF TreeOK, Rooted

\* A removal that finds nothing to remove leaves the tree as it was.
LEMMA NothingRemoved ==
  ASSUME NEW before, TreeOK(before), NEW p \in Paths, NEW files0,
         files0 = Cut(before, Below(before, p) \ DOMAIN files0), ~IsDir(files0, p)
  PROVE  files0 = before /\ (p \notin DOMAIN before => Cut(before, Under(before, p)) = before)
<1> DEFINE gone == Below(before, p) \ DOMAIN files0
<1>1. files0 = [q \in DOMAIN before \ gone |-> before[q]]
  BY DEF Cut, Restrict
<1>2. p \notin gone
  BY DEF Below
<1> HIDE DEF gone
<1>3. ~IsDir(before, p)
  BY <1>1, <1>2 DEF IsDir
<1>4. Below(before, p) = {} /\ gone = {}
  BY <1>3, NothingBelow DEF gone
<1>5. Cut(before, {}) = before
  BY CutNothing DEF TreeOK
<1>6. files0 = before
  BY <1>4, <1>5 DEF gone
<1>7. p \notin DOMAIN before => Under(before, p) = {}
  BY <1>4 DEF Below, Under
<1> QED
  BY <1>5, <1>6, <1>7

\* A removal takes one path that has nothing below it.
LEMMA RemoveStep ==
  ASSUME WorkspaceIInv, NEW w \in Workers, RemoveNext(w)
  PROVE  WorkspaceIInv' /\ \A v \in Workers : Keeps(v)
<1> DEFINE c == work[w]
           p == c.path
<1>1. c.op \in {"delete", "end"} /\ c.at = "remove" /\ UNCHANGED <<session, calls>>
  BY DEF RemoveNext, Removes
<1>2. /\ c \in WorkCall /\ CallOK(c) /\ TreeOK(files) /\ IsDir(files, << >>) /\ p \in Paths
      /\ DOMAIN files \subseteq Paths /\ p # << >>
      /\ TreeOK(c.before) /\ c.before \in Trees
  BY <1>1, CallIs DEF WorkspaceIInv, CallOK, TreeOK
<1>3. c.alone => files = Cut(c.before, Below(c.before, p) \ DOMAIN files)
  BY <1>1, CallIs DEF DoneSoFar
<1>4. c.op \notin Reads \cup {"none"} /\ {} \in SUBSET Finds
  BY <1>1 DEF Reads
<1>5. ASSUME NEW q \in Below(files, p), Below(files, q) = {}, files' = Cut(files, {q}), UNCHANGED work
      PROVE  WorkspaceIInv' /\ \A v \in Workers : Keeps(v)
  <2>1. q \in DOMAIN files /\ q \in Paths /\ IsPrefix(p, q) /\ q # p
    BY <1>2 DEF Below, Under
  <2>2. /\ TreeOK(files') /\ DOMAIN files' = DOMAIN files \ {q}
        /\ \A r \in DOMAIN files \ {q} : files'[r] = files[r]
    BY <1>2, <1>5, <2>1, CutOK
  <2>3. q # << >>
    <3>1. IsPrefix(p, << >>) => p = << >>
      <4>1. << >> \in Paths /\ Len(<< >>) = 0 /\ Len(p) \in Nat
        BY <1>2, PathsAre, EmptySeq
      <4> QED
        BY <1>2, <4>1, PrefixOrder
    <3> QED
      BY <2>1, <3>1
  <2>4. IsDir(files', << >>)
    BY <1>2, <2>2, <2>3 DEF IsDir
  <2>5. c.alone => DoneSoFar(c, files')
    <3> SUFFICES ASSUME c.alone PROVE DoneSoFar(c, files')
      OBVIOUS
    <3>1. Below(c.before, p) \in SUBSET DOMAIN c.before
      BY DEF Below, Under
    <3>2. q \in Below(c.before, p)
      <4>1. DOMAIN files \subseteq DOMAIN c.before
        BY <1>3 DEF Cut, Restrict
      <4> QED
        BY <2>1, <4>1 DEF Below, Under
    <3>3. Cut(files, {q}) = Cut(c.before, Below(c.before, p) \ DOMAIN Cut(files, {q}))
      BY <1>2, <1>3, <2>1, <3>1, <3>2, CutOneMore
    <3>4. files' = Cut(c.before, Below(c.before, p) \ DOMAIN files')
      BY <1>5, <3>3
    <3>5. Writing(c) /\ c.op # "search"
      BY <1>1 DEF Writing
    <3> QED
      BY <1>1, <3>4, <3>5 DEF DoneSoFar
  <2>6. work' = [work EXCEPT ![w] = c] /\ c.at # "idle"
    BY <1>1, <1>5 DEF WorkspaceIInv
  <2> QED
    BY <1>1, <1>2, <1>4, <2>2, <2>4, <2>5, <2>6, StepOK
<1>6. ASSUME ~NotHere(c), Below(files, p) = {}, files' = Cut(files, {p}), Ends(w, "ok", {})
      PROVE  WorkspaceIInv' /\ \A v \in Workers : Keeps(v)
  <2>1. p \in DOMAIN files /\ (c.op = "end" => ~IsFile(files, p))
    BY <1>6 DEF NotHere
  <2>2. /\ TreeOK(files') /\ DOMAIN files' = DOMAIN files \ {p}
        /\ \A r \in DOMAIN files \ {p} : files'[r] = files[r]
    BY <1>2, <1>6, <2>1, CutOK
  <2>3. IsDir(files', << >>)
    BY <1>2, <2>2 DEF IsDir
  <2>4. c.alone => Promised(c, files', {})
    <3> SUFFICES ASSUME c.alone PROVE Promised(c, files', {})
      OBVIOUS
    <3>1. p \in DOMAIN c.before /\ files[p] = c.before[p]
      BY <1>3, <2>1 DEF Cut, Restrict
    <3>2. files' = Cut(c.before, Under(c.before, p))
      BY <1>2, <1>3, <1>6, <3>1, CutAll
    <3>3. CASE c.op = "delete"
      BY <3>2, <3>3 DEF Promised
    <3>4. CASE c.op = "end"
      <4>1. ~IsFile(c.before, p)
        BY <2>1, <3>1, <3>4 DEF IsFile
      <4> QED
        BY <3>2, <3>4, <4>1 DEF Promised
    <3> QED
      BY <1>1, <3>3, <3>4
  <2> QED
    BY <1>1, <1>4, <1>6, <2>2, <2>3, <2>4, EndsOK
<1>7. ASSUME NotHere(c), Ends(w, RemoveAnswer(w), {}), UNCHANGED files
      PROVE  WorkspaceIInv' /\ \A v \in Workers : Keeps(v)
  <2>1. CASE c.op = "delete"
    <3>1. RemoveAnswer(w) = "failed"
      BY <2>1 DEF RemoveAnswer
    <3> QED
      BY <1>1, <1>7, <3>1, FailsOK DEF Fails
  <2>2. CASE c.op = "end"
    <3>1. RemoveAnswer(w) = "ok" /\ TreeOK(files') /\ IsDir(files', << >>)
      BY <1>2, <1>7, <2>2 DEF RemoveAnswer
    <3>2. c.alone => Promised(c, files', {})
      <4> SUFFICES ASSUME c.alone PROVE Promised(c, files', {})
        OBVIOUS
      <4>1. ~IsDir(files, p)
        BY <1>7 DEF NotHere, IsFile, IsDir
      <4>2. /\ files = c.before
            /\ p \notin DOMAIN c.before => Cut(c.before, Under(c.before, p)) = c.before
        BY <1>2, <1>3, <4>1, NothingRemoved
      <4>3. IsFile(c.before, p) \/ p \notin DOMAIN c.before
        BY <1>7, <4>2 DEF NotHere
      <4>4. files' = IF IsFile(c.before, p) THEN c.before ELSE Cut(c.before, Under(c.before, p))
        BY <1>7, <4>2, <4>3
      <4> QED
        BY <2>2, <4>4 DEF Promised
    <3> QED
      BY <1>1, <1>4, <1>7, <3>1, <3>2, EndsOK
  <2> QED
    BY <1>1, <2>1, <2>2
<1>8. \/ \E q \in Below(files, p) : Below(files, q) = {} /\ files' = Cut(files, {q}) /\ UNCHANGED work
      \/ ~NotHere(c) /\ Below(files, p) = {} /\ files' = Cut(files, {p}) /\ Ends(w, "ok", {})
      \/ NotHere(c) /\ Ends(w, RemoveAnswer(w), {}) /\ UNCHANGED files
  BY DEF RemoveNext
<1> QED
  BY <1>5, <1>6, <1>7, <1>8

\* A removal that fails ends its call and leaves a tree.
LEMMA RemoveFailsStep ==
  ASSUME WorkspaceIInv, NEW w \in Workers, RemoveFails(w)
  PROVE  WorkspaceIInv' /\ \A v \in Workers : Keeps(v)
<1>1. PICK answer \in {"ok", "failed"} :
        work' = [work EXCEPT ![w] = [NoCall EXCEPT !.failed = TRUE, !.answer = answer]]
  BY DEF RemoveFails, RemoveAnswer
<1> DEFINE d1 == [NoCall EXCEPT !.failed = TRUE]
           d == [d1 EXCEPT !.answer = answer]
<1>2. d1 \in WorkCall /\ d1.op = "none" /\ d1.at = "idle" /\ d1.failed = TRUE
  BY NoCallIs DEF WorkCall, NoCall
<1>3. d = [NoCall EXCEPT !.failed = TRUE, !.answer = answer]
  BY NoCallIs DEF WorkCall
<1> HIDE DEF d1
<1>4. d \in WorkCall /\ d.op = "none" /\ d.at = "idle" /\ d.failed = TRUE
  BY <1>2 DEF WorkCall
<1> HIDE DEF d
<1>5. CallOK(d)
  BY <1>4 DEF CallOK, AwaitsOf, Reads
<1>6. /\ work' = [work EXCEPT ![w] = d] /\ files' = files /\ UNCHANGED <<session, calls>>
      /\ TreeOK(files') /\ IsDir(files', << >>)
  BY <1>1, <1>3 DEF RemoveFails, WorkspaceIInv
<1> QED
  BY <1>4, <1>5, <1>6, StepOK

\* A call that is left promises nothing.
LEMMA LeaveStep ==
  ASSUME WorkspaceIInv, NEW w \in Workers, Leave(w)
  PROVE  WorkspaceIInv' /\ \A v \in Workers : Keeps(v)
BY FailsOK DEF Leave

-----------------------------------------------------------------------------
(* Calls that begin.                                                        *)

\* A call beside which an other begins.
Aside(c, alone) == [c EXCEPT !.alone = alone]

\* A call that is overlapped, or is not, otherwise the same.
LEMMA AsideIs ==
  ASSUME NEW c \in WorkCall, NEW alone \in BOOLEAN
  PROVE  LET d == Aside(c, alone)
         IN  /\ d \in WorkCall /\ d.alone = alone
             /\ d.op = c.op /\ d.at = c.at /\ d.n = c.n /\ d.path = c.path /\ d.dest = c.dest
             /\ d.deep = c.deep /\ d.seen = c.seen /\ d.dirs = c.dirs /\ d.found = c.found
             /\ d.before = c.before /\ d.failed = c.failed /\ d.answer = c.answer
BY DEF Aside, WorkCall

\* What is known of it is still known.
LEMMA AsideOK ==
  ASSUME NEW c \in WorkCall, CallOK(c), NEW alone \in BOOLEAN
  PROVE  /\ CallOK(Aside(c, alone))
         /\ \A tree : DoneSoFar(c, tree) => DoneSoFar(Aside(c, alone), tree)
<1> DEFINE d == Aside(c, alone)
<1>1. /\ d \in WorkCall /\ d.alone = alone
      /\ d.op = c.op /\ d.at = c.at /\ d.n = c.n /\ d.path = c.path /\ d.dest = c.dest
      /\ d.deep = c.deep /\ d.seen = c.seen /\ d.dirs = c.dirs /\ d.found = c.found
      /\ d.before = c.before /\ d.failed = c.failed /\ d.answer = c.answer
  BY AsideIs
<1> HIDE DEF d
<1>2. TruncatedPath(d) = TruncatedPath(c)
  BY <1>1 DEF TruncatedPath
<1>3. CallOK(d)
  BY <1>1, <1>2 DEF CallOK
<1>4. Searching(c) => Searching(d)
  <2>1. Searched(d) = Searched(c) /\ \A q : FoundFrom(d, q) = FoundFrom(c, q)
    BY <1>1 DEF Searched, FoundFrom
  <2> QED
    BY <1>1, <2>1 DEF Searching
<1>5. Writing(c) => Writing(d)
  BY <1>1 DEF Writing
<1>6. ASSUME NEW tree, DoneSoFar(c, tree) PROVE DoneSoFar(d, tree)
  BY <1>1, <1>2, <1>4, <1>5, <1>6 DEF DoneSoFar
<1> QED
  BY <1>3, <1>6 DEF d

\* A call that has begun: with its number, and the tree it began with.
Begun(call, n, tree, alone) == [[[call EXCEPT !.n = n] EXCEPT !.before = tree] EXCEPT !.alone = alone]

\* A call that begins, with its number and the tree that it finds.
LEMMA BegunIs ==
  ASSUME NEW call \in WorkCall, NEW n \in Nat, NEW tree \in Trees, NEW alone \in BOOLEAN
  PROVE  LET d == Begun(call, n, tree, alone)
         IN  /\ d \in WorkCall /\ d.n = n /\ d.before = tree /\ d.alone = alone
             /\ d.op = call.op /\ d.at = call.at /\ d.path = call.path /\ d.dest = call.dest
             /\ d.deep = call.deep /\ d.seen = call.seen /\ d.dirs = call.dirs /\ d.found = call.found
             /\ d.failed = call.failed
<1> DEFINE d1 == [call EXCEPT !.n = n]
           d2 == [d1 EXCEPT !.before = tree]
           d == [d2 EXCEPT !.alone = alone]
<1>1. /\ d1 \in WorkCall /\ d1.n = n /\ d1.op = call.op /\ d1.at = call.at /\ d1.path = call.path
      /\ d1.dest = call.dest /\ d1.deep = call.deep /\ d1.seen = call.seen /\ d1.dirs = call.dirs
      /\ d1.found = call.found /\ d1.failed = call.failed
  BY DEF WorkCall
<1> HIDE DEF d1
<1>2. /\ d2 \in WorkCall /\ d2.before = tree /\ d2.n = n /\ d2.op = call.op /\ d2.at = call.at /\ d2.path = call.path
      /\ d2.dest = call.dest /\ d2.deep = call.deep /\ d2.seen = call.seen /\ d2.dirs = call.dirs
      /\ d2.found = call.found /\ d2.failed = call.failed
  BY <1>1 DEF WorkCall
<1> HIDE DEF d2
<1>3. /\ d \in WorkCall /\ d.alone = alone /\ d.before = tree /\ d.n = n /\ d.op = call.op /\ d.at = call.at
      /\ d.path = call.path
      /\ d.dest = call.dest /\ d.deep = call.deep /\ d.seen = call.seen /\ d.dirs = call.dirs
      /\ d.found = call.found /\ d.failed = call.failed
  BY <1>2 DEF WorkCall
<1>4. Begun(call, n, tree, alone) = d
  BY DEF Begun, d1, d2
<1> HIDE DEF d
<1> QED
  BY <1>3, <1>4

\* What is checked before a call begins.
Fits(call) ==
  /\ call.op \in Reads => call.path \in DOMAIN files
  /\ call.op \in {"mkdir", "delete", "move", "end"} => call.path # << >>
  /\ call.op = "mkdir" => IsDir(files, Front(call.path))
  /\ call.op \in {"copy", "move"} => call.dest # << >>
  /\ call.op = "copy" => call.path # call.dest

\* Every operation begins at an await of its own.
LEMMA FirstIsAwait ==
  ASSUME NEW op \in WorkOperations \ {"none", "end"}
  PROVE  FirstAwait(op) \in AwaitsOf(op) /\ FirstAwait(op) \in Awaits /\ FirstAwait(op) \notin {"idle", "fill"}
         /\ (op = "write" => FirstAwait(op) = "truncate") /\ (op \in {"append", "patch"} => FirstAwait(op) = "read")
         /\ (op = "copy" => FirstAwait(op) = "open")
<1>1. CASE op = "write"
  BY <1>1 DEF FirstAwait, AwaitsOf, Awaits, Reads
<1>2. CASE op \in {"append", "patch"}
  BY <1>2 DEF FirstAwait, AwaitsOf, Awaits, Reads
<1>3. CASE op = "copy"
  BY <1>3 DEF FirstAwait, AwaitsOf, Awaits, Reads
<1>4. CASE op = "delete"
  BY <1>4 DEF FirstAwait, AwaitsOf, Awaits, Reads
<1>5. CASE op \in {"read", "stat", "list", "glob", "search", "mkdir", "move"}
  BY <1>5 DEF FirstAwait, AwaitsOf, Awaits, Reads
<1> QED
  BY <1>1, <1>2, <1>3, <1>4, <1>5 DEF WorkOperations, Reads, Writes

\* A call that begins, alone if nothing else writes, leaves the invariant.
LEMMA JoinsOK ==
  ASSUME WorkspaceIInv, NEW w \in Workers, work[w].at = "idle", NEW call \in WorkCall, Joins(w, call),
         files' = files, session' \in BOOLEAN,
         call.op # "none", call.at \in AwaitsOf(call.op), call.at # "idle", call.at # "fill", ~call.failed,
         call.op \in {"append", "patch"} => call.at = "read", call.op = "copy" => call.at = "open",
         Fits(call), call.op = "search" => call.dirs = {call.path} /\ call.found = {}
  PROVE  WorkspaceIInv' /\ \A v \in Workers : Keeps(v)
<1>1. /\ TreeOK(files) /\ files \in Trees /\ IsDir(files, << >>) /\ calls \in 0..MaxCalls /\ MaxCalls \in Nat
      /\ work \in [Workers -> WorkCall]
  BY WorkspaceAssumption DEF WorkspaceIInv, TreeOK
<1>2. calls < MaxCalls /\ calls' = calls + 1 /\ calls' \in 0..MaxCalls /\ calls' \in Nat
  <2>1. calls < MaxCalls /\ calls' = calls + 1
    BY DEF Joins
  <2> QED
    BY <1>1, <2>1
<1>3. PICK b \in BOOLEAN : b = \A u \in Workers : work[u].op \in Reads \cup {"none"}
  OBVIOUS
<1>4. PICK r \in BOOLEAN : r = (call.op \in Reads)
  <2>1. (call.op \in Reads) \in BOOLEAN
    OBVIOUS
  <2> QED
    BY <2>1, Zenon
<1> DEFINE c == Begun(call, calls', files, b)
           other(v) == Aside(work[v], work[v].alone /\ r)
<1>5. work' = [v \in Workers |-> IF v = w THEN c ELSE other(v)]
  BY <1>3, <1>4 DEF Joins, Begun, Aside
<1>6. /\ c \in WorkCall /\ c.n = calls' /\ c.before = files /\ c.alone = b
      /\ c.op = call.op /\ c.at = call.at /\ c.path = call.path /\ c.dest = call.dest
      /\ c.deep = call.deep /\ c.seen = call.seen /\ c.dirs = call.dirs /\ c.found = call.found
      /\ c.failed = call.failed
  <2>1. files \in Trees /\ calls' \in Nat
    BY <1>1, <1>2
  <2> HIDE DEF other
  <2> QED
    BY <2>1, BegunIs, SMTT(60)
<1> HIDE DEF c
<1>7. ASSUME NEW v \in Workers, v # w
      PROVE  /\ other(v) \in WorkCall /\ other(v).op = work[v].op /\ other(v).at = work[v].at
             /\ CallOK(other(v)) /\ (other(v).alone => work[v].alone /\ call.op \in Reads)
             /\ \A tree : DoneSoFar(work[v], tree) => DoneSoFar(other(v), tree)
  <2>1. work[v] \in WorkCall /\ CallOK(work[v]) /\ work[v].alone \in BOOLEAN
    BY CallIs DEF WorkCall
  <2>2. PICK a \in BOOLEAN : a = (work[v].alone /\ r)
    OBVIOUS
  <2>3. Aside(work[v], a) \in WorkCall /\ Aside(work[v], a).op = work[v].op /\ Aside(work[v], a).at = work[v].at
        /\ Aside(work[v], a).alone = a
    BY <2>1, AsideIs
  <2>4. CallOK(Aside(work[v], a)) /\ \A tree : DoneSoFar(work[v], tree) => DoneSoFar(Aside(work[v], a), tree)
    BY <2>1, AsideOK
  <2>5. other(v) = Aside(work[v], a)
    BY <2>2
  <2>6. a => work[v].alone /\ call.op \in Reads
    BY <1>4, <2>2
  <2> HIDE DEF other
  <2> QED
    BY <2>3, <2>4, <2>5, <2>6
<1> HIDE DEF other
<1>8. CallOK(c)
  <2>1. c.op = "search" => c.found \in SUBSET Hits /\ Cardinality(c.found) < MaxMatches
    <3>1. Cardinality({}) = 0 /\ MaxMatches \in Nat \ {0} /\ {} \in SUBSET Hits
      BY FS_EmptySet, WorkspaceAssumption
    <3>2. c.op = "search" => c.found = {}
      BY <1>6
    <3> QED
      BY <3>1, <3>2
  <2> QED
    BY <1>1, <1>6, <2>1 DEF CallOK, Fits
<1>9. DoneSoFar(c, files)
  <2>1. c.at = "remove" => files = Cut(files, Below(files, c.path) \ DOMAIN files)
    <3>1. Below(files, c.path) \ DOMAIN files = {}
      BY DEF Below, Under
    <3>2. Cut(files, {}) = files
      BY <1>1, CutNothing
    <3> QED
      BY <3>1, <3>2
  <2>2. c.op = "search" => Searching(c)
    <3> SUFFICES ASSUME c.op = "search" PROVE Searching(c)
      OBVIOUS
    <3>1. c.dirs = {c.path} /\ c.found = {} /\ c.path \in DOMAIN c.before /\ c.path \in Paths
      BY <1>6 DEF Fits, Reads, WorkCall
    <3>2. c.dirs \subseteq Under(c.before, c.path)
      BY <3>1, PrefixOrder DEF Under
    <3>3. \A q \in Searched(c) : q \in FoundFrom(c, c.path)
      BY DEF Searched, FoundFrom
    <3> QED
      BY <3>1, <3>2, <3>3 DEF Searching
  <2>3. Writing(c)
    BY <1>6 DEF Writing
  <2> QED
    BY <1>6, <2>1, <2>2, <2>3 DEF DoneSoFar
<1>10. WorkspaceIInv'
  <2>1. /\ TreeOK(files') /\ session' \in BOOLEAN /\ IsDir(files', << >>)
        /\ calls' \in 0..MaxCalls
    BY <1>1, <1>2
  <2>2. \A v \in Workers : work'[v] = IF v = w THEN c ELSE other(v)
    BY <1>5
  <2>3. work' \in [Workers -> WorkCall]
    <3>1. \A v \in Workers : (IF v = w THEN c ELSE other(v)) \in WorkCall
      BY <1>6, <1>7
    <3> QED
      BY <1>5, <3>1
  <2>4. \A v \in Workers : CallOK(work'[v])
    <3> SUFFICES ASSUME NEW v \in Workers PROVE CallOK(work'[v])
      OBVIOUS
    <3>1. CASE v = w
      BY <1>6, <1>8, <2>2, <3>1
    <3>2. CASE v # w
      BY <1>7, <2>2, <3>2
    <3> QED
      BY <3>1, <3>2
  <2>5. ASSUME NEW v \in Workers, work'[v].alone, work'[v].op # "none"
        PROVE  (\A u \in Workers \ {v} : work'[u].op \in Reads \cup {"none"}) /\ DoneSoFar(work'[v], files')
    <3>1. CASE v = w
      <4>1. \A u \in Workers : work[u].op \in Reads \cup {"none"}
        BY <1>3, <1>6, <2>2, <2>5, <3>1
      <4>2. \A u \in Workers \ {v} : work'[u].op = work[u].op
        BY <1>7, <2>2, <3>1
      <4>3. DoneSoFar(work'[v], files')
        BY <1>9, <2>2, <3>1
      <4> QED
        BY <4>1, <4>2, <4>3
    <3>2. CASE v # w
      <4>1. work'[v] = other(v) /\ work'[w] = c
        BY <2>2, <3>2
      <4>2. work[v].alone /\ call.op \in Reads /\ work[v].op # "none"
        BY <1>7, <2>5, <3>2, <4>1
      <4>3. (\A u \in Workers \ {v} : work[u].op \in Reads \cup {"none"}) /\ DoneSoFar(work[v], files)
        BY <4>2 DEF WorkspaceIInv, Undisturbed
      <4>4. ASSUME NEW u \in Workers \ {v} PROVE work'[u].op \in Reads \cup {"none"}
        <5>1. CASE u = w
          BY <1>6, <4>1, <4>2, <5>1
        <5>2. CASE u # w
          BY <1>7, <2>2, <4>3, <5>2
        <5> QED
          BY <5>1, <5>2
      <4>5. DoneSoFar(work'[v], files')
        BY <1>7, <3>2, <4>1, <4>3
      <4> QED
        BY <4>4, <4>5
    <3> QED
      BY <3>1, <3>2
  <2>6. \A v \in Workers : work'[v].alone /\ work'[v].op # "none" => Undisturbed(v)'
    BY <2>5, Zenon DEF Undisturbed
  <2> QED
    BY <2>1, <2>3, <2>4, <2>6, Zenon DEF WorkspaceIInv
<1>11. ASSUME NEW v \in Workers PROVE Keeps(v)
  <2>1. CASE v = w
    BY <2>1 DEF Keeps, Succeeds
  <2>2. CASE v # w
    <3>1. work'[v].at = work[v].at
      BY <1>5, <1>7, <2>2
    <3> QED
      BY <3>1 DEF Keeps, Succeeds
  <2> QED
    BY <2>1, <2>2
<1> QED
  BY <1>10, <1>11

\* A call as it is made, before it is counted.
Made(op, p, dest, deep, at, dirs) ==
  [[[[[[NoCall EXCEPT !.op = op] EXCEPT !.path = p] EXCEPT !.dest = dest] EXCEPT !.deep = deep]
     EXCEPT !.at = at] EXCEPT !.dirs = dirs]

IsMade(d, op, p, dest, at, dirs) ==
  /\ d \in WorkCall /\ d.op = op /\ d.path = p /\ d.dest = dest /\ d.at = at
  /\ d.dirs = dirs /\ d.found = {} /\ d.failed = FALSE

\* A call is made with what it was asked for.
LEMMA MadeIs ==
  ASSUME NEW op, op \in WorkOperations, NEW p, p \in Paths, NEW dest, dest \in Paths, NEW deep, deep \in BOOLEAN,
         NEW at, at \in Awaits, NEW dirs, dirs \in SUBSET Paths
  PROVE  IsMade(Made(op, p, dest, deep, at, dirs), op, p, dest, at, dirs)
<1> DEFINE d1 == [NoCall EXCEPT !.op = op]
           d2 == [d1 EXCEPT !.path = p]
           d3 == [d2 EXCEPT !.dest = dest]
           d4 == [d3 EXCEPT !.deep = deep]
           d5 == [d4 EXCEPT !.at = at]
           d  == [d5 EXCEPT !.dirs = dirs]
<1>1. d1 \in WorkCall /\ d1.op = op /\ d1.found = {} /\ d1.failed = FALSE
  BY NoCallIs DEF WorkCall, NoCall
<1> HIDE DEF d1
<1>2. d2 \in WorkCall /\ d2.op = op /\ d2.path = p /\ d2.found = {} /\ d2.failed = FALSE
  BY <1>1 DEF WorkCall
<1> HIDE DEF d2
<1>3. d3 \in WorkCall /\ d3.op = op /\ d3.path = p /\ d3.dest = dest /\ d3.found = {} /\ d3.failed = FALSE
  BY <1>2 DEF WorkCall
<1> HIDE DEF d3
<1>4. /\ d4 \in WorkCall /\ d4.op = op /\ d4.path = p /\ d4.dest = dest /\ d4.deep = deep
      /\ d4.found = {} /\ d4.failed = FALSE
  BY <1>3 DEF WorkCall
<1> HIDE DEF d4
<1>5. /\ d5 \in WorkCall /\ d5.op = op /\ d5.path = p /\ d5.dest = dest /\ d5.deep = deep /\ d5.at = at
      /\ d5.found = {} /\ d5.failed = FALSE
  BY <1>4 DEF WorkCall
<1> HIDE DEF d5
<1>6. /\ d \in WorkCall /\ d.op = op /\ d.path = p /\ d.dest = dest /\ d.deep = deep /\ d.at = at
      /\ d.dirs = dirs /\ d.found = {} /\ d.failed = FALSE
  BY <1>5 DEF WorkCall
<1>7. Made(op, p, dest, deep, at, dirs) = d
  BY DEF Made, d1, d2, d3, d4, d5
<1> HIDE DEF d
<1> QED
  BY <1>6, <1>7 DEF IsMade

\* Every operation that is let in begins as it should.
LEMMA BeginStep ==
  ASSUME WorkspaceIInv, NEW w \in Workers, Begin(w)
  PROVE  WorkspaceIInv' /\ \A v \in Workers : Keeps(v)
<1>1. PICK op \in Reads \cup Writes, p \in Paths, dest \in Paths, deep \in BOOLEAN :
        /\ Accepted(op, p, dest) /\ ~Refused(op, p, dest)
        /\ Joins(w, [NoCall EXCEPT !.op = op, !.path = p, !.dest = dest, !.deep = deep,
                       !.at = FirstAwait(op), !.dirs = IF op = "search" THEN {p} ELSE {}])
  BY DEF Begin
<1>2. op \in WorkOperations /\ op \notin {"none", "end"}
  BY DEF WorkOperations, Reads, Writes
<1>3. PICK at \in Awaits :
        /\ at = FirstAwait(op) /\ at \in AwaitsOf(op) /\ at \notin {"idle", "fill"}
        /\ (op \in {"append", "patch"} => at = "read") /\ (op = "copy" => at = "open")
  BY <1>2, FirstIsAwait
<1>4. PICK dirs \in SUBSET Paths : dirs = (IF op = "search" THEN {p} ELSE {}) /\ (op = "search" => dirs = {p})
  OBVIOUS
<1> DEFINE call == Made(op, p, dest, deep, at, dirs)
<1>5. Joins(w, call)
  BY <1>1, <1>3, <1>4, NoCallIs DEF Made, WorkCall
<1>6. /\ call \in WorkCall /\ call.op = op /\ call.path = p /\ call.dest = dest /\ call.at = at
      /\ call.dirs = dirs /\ call.found = {} /\ call.failed = FALSE
  <2>1. IsMade(call, op, p, dest, at, dirs)
    BY <1>2, MadeIs
  <2> QED
    BY <2>1 DEF IsMade
<1> HIDE DEF call
<1>7. Fits(call)
  <2>1. /\ op \in Reads => p \in DOMAIN files
        /\ op = "mkdir" => p # << >> /\ IsDir(files, Front(p))
        /\ op \in {"copy", "move"} => dest # << >>
    BY <1>1 DEF Accepted, Exists, Creatable
  <2>2. (op = "copy" => p # dest) /\ (op \in {"move", "delete"} => p # << >>)
    BY <1>1 DEF Refused
  <2> QED
    BY <1>2, <1>6, <2>1, <2>2 DEF Fits
<1>8. work[w].at = "idle" /\ files' = files /\ session' = session /\ session' \in BOOLEAN
  BY DEF Begin, WorkspaceIInv
<1> QED
  BY <1>2, <1>3, <1>4, <1>5, <1>6, <1>7, <1>8, JoinsOK

\* The end of a session begins a removal of its directory.
LEMMA DeleteSessionStep ==
  ASSUME WorkspaceIInv, NEW w \in Workers, DeleteSession(w)
  PROVE  WorkspaceIInv' /\ \A v \in Workers : Keeps(v)
<1> DEFINE d1 == [NoCall EXCEPT !.op = "end"]
           d2 == [d1 EXCEPT !.path = Home]
           call == [d2 EXCEPT !.at = "remove"]
<1>1. Home \in Paths /\ Home # << >>
  <2>1. Home \in Paths /\ Len(Home) = 1 /\ Len(<< >>) = 0
    BY WorkspaceAssumption, EmptySeq
  <2> QED
    BY <2>1
<1>2. d1 \in WorkCall /\ d1.op = "end" /\ d1.failed = FALSE
  BY NoCallIs DEF WorkCall, NoCall, WorkOperations
<1>3. Joins(w, call)
  BY NoCallIs DEF DeleteSession, WorkCall
<1> HIDE DEF d1
<1>4. d2 \in WorkCall /\ d2.op = "end" /\ d2.path = Home /\ d2.failed = FALSE
  BY <1>1, <1>2 DEF WorkCall
<1> HIDE DEF d2
<1>5. call \in WorkCall /\ call.op = "end" /\ call.at = "remove" /\ call.path = Home /\ call.failed = FALSE
  BY <1>4 DEF WorkCall, Awaits
<1> HIDE DEF call
<1>6. call.at \in AwaitsOf(call.op)
  BY <1>5 DEF AwaitsOf, Reads
<1>7. Fits(call)
  BY <1>1, <1>5 DEF Fits, Reads
<1>8. work[w].at = "idle" /\ files' = files /\ session' = FALSE
  BY DEF DeleteSession
<1> QED
  BY <1>3, <1>5, <1>6, <1>7, <1>8, JoinsOK

-----------------------------------------------------------------------------
(* The workspace.                                                           *)

\* The tree of the start is a tree, and nobody is calling.
LEMMA WorkspaceInitially == WorkspaceInit => WorkspaceIInv
<1> SUFFICES ASSUME WorkspaceInit PROVE WorkspaceIInv
  OBVIOUS
<1>1. PICK d \in Paths, f \in Paths :
        /\ Len(d) = 1 /\ Len(f) = 2 /\ IsPrefix(d, f)
        /\ files = [p \in {<< >>, d, f} |-> IF p = f THEN <<Needle>> ELSE Directory]
  BY WorkspaceAssumption DEF WorkspaceInit
<1>2. << >> \in Paths /\ Len(<< >>) = 0 /\ <<Needle>> \in Seq(Nat)
  BY PathsAre, EmptySeq DEF Needle
<1>3. << >> # f /\ d # f
  BY <1>1, <1>2
<1>4. DOMAIN files = {<< >>, d, f} /\ files[<< >>] = Directory /\ files[d] = Directory
  BY <1>1, <1>3
<1>5. files \in Trees
  <2>1. files \in [{<< >>, d, f} -> Nodes]
    <3>1. <<Needle>> \in Nodes /\ Directory \in Nodes
      BY <1>2 DEF Nodes
    <3> QED
      BY <1>1, <3>1
  <2>2. {<< >>, d, f} \in SUBSET Paths
    BY <1>2
  <2> QED
    BY <2>1, <2>2, TreesAre
<1>6. ASSUME NEW q \in DOMAIN files, NEW r \in Paths, IsStrictPrefix(r, q) PROVE IsDir(files, r)
  <2>1. q \in Paths /\ Len(r) \in Nat /\ Len(q) \in {0, 1, 2}
    BY <1>1, <1>2, <1>4, <1>6, PathsAre
  <2>2. IsPrefix(r, q) /\ Len(r) < Len(q)
    BY <1>6, <2>1, PrefixOrder
  <2>3. CASE Len(r) = 0
    <3>1. r = << >>
      BY <2>3, PathsAre
    <3> QED
      BY <1>4, <3>1 DEF IsDir
  <2>4. CASE Len(r) = 1
    <3>1. q = f
      <4>1. Len(q) # 0 /\ Len(q) # 1
        <5>1. PICK m \in Nat : m = Len(q)
          BY <2>1
        <5>2. 1 < m
          BY <2>2, <2>4, <5>1
        <5>3. m # 0 /\ m # 1
          BY <5>2
        <5> QED
          BY <5>1, <5>3
      <4>2. q = << >> \/ q = d \/ q = f
        BY <1>4, <1>6
      <4> QED
        BY <1>1, <1>2, <4>1, <4>2, Zenon
    <3>2. IsPrefix(r, d)
      <4>1. Len(r) <= Len(d) /\ IsPrefix(r, f)
        BY <1>1, <2>2, <2>4, <3>1
      <4> QED
        BY <1>1, <4>1, PrefixOrder
    <3>3. r = d
      BY <1>1, <2>4, <3>2, PrefixOrder
    <3> QED
      BY <1>4, <3>3 DEF IsDir
  <2>5. Len(r) = 0 \/ Len(r) = 1
    <3>1. PICK k \in Nat, m \in {0, 1, 2} : k = Len(r) /\ m = Len(q)
      BY <2>1
    <3>2. k < m
      BY <2>2, <3>1
    <3>3. k = 0 \/ k = 1
      BY <3>2
    <3> QED
      BY <3>1, <3>3
  <2> QED
    BY <2>3, <2>4, <2>5
<1>7. TreeOK(files) /\ IsDir(files, << >>)
  BY <1>4, <1>5, <1>6 DEF TreeOK, Rooted, IsDir
<1>8. NoCall.op = "none" /\ NoCall.at = "idle" /\ NoCall.alone = FALSE
  BY DEF NoCall
<1>9. NoCall \in WorkCall /\ CallOK(NoCall)
  BY <1>8, NoCallIs DEF CallOK, AwaitsOf, Reads
<1>10. work = [w \in Workers |-> NoCall] /\ session = TRUE /\ calls = 0 /\ calls \in 0..MaxCalls
  BY WorkspaceAssumption DEF WorkspaceInit
<1> HIDE DEF WorkspaceInit
<1> QED
  BY <1>7, <1>8, <1>9, <1>10 DEF WorkspaceIInv

\* Every step keeps the invariant, and every call that ends with it its promise.
LEMMA WorkspaceSteps ==
  ASSUME WorkspaceIInv, [WorkspaceNext]_workspaceVars
  PROVE  WorkspaceIInv' /\ \A w \in Workers : Keeps(w)
<1>1. CASE UNCHANGED workspaceVars
  <2>1. files' = files /\ session' = session /\ work' = work /\ calls' = calls
    BY <1>1 DEF workspaceVars
  <2>2. WorkspaceIInv'
    <3>1. \A w \in Workers : Undisturbed(w) => Undisturbed(w)'
      BY <2>1 DEF Undisturbed
    <3> QED
      BY <2>1, <3>1 DEF WorkspaceIInv
  <2>3. \A w \in Workers : Keeps(w)
    BY <2>1 DEF Keeps, Succeeds
  <2> QED
    BY <2>2, <2>3
<1>2. CASE WorkspaceNext
  <2>1. PICK w \in Workers :
          \/ Begin(w) \/ DeleteSession(w) \/ Read(w) \/ Look(w) \/ SearchDirectory(w)
          \/ SearchEnds(w) \/ AppendRead(w) \/ PatchRead(w) \/ Truncate(w) \/ Fill(w) \/ CopyOpen(w)
          \/ CreateDirAll(w) \/ Rename(w) \/ RemoveNext(w) \/ RemoveFails(w) \/ Leave(w)
    BY <1>2 DEF WorkspaceNext
  <2> QED
    BY <2>1, BeginStep, DeleteSessionStep, ReadStep, LookStep, SearchStep, SearchEndStep, AppendReadStep,
       PatchReadStep, TruncateStep, FillStep, CopyOpenStep, CreateDirStep, RenameStep, RemoveStep,
       RemoveFailsStep, LeaveStep
<1> QED
  BY <1>1, <1>2

\* What is known of the tree and of every call holds in every state.
THEOREM WorkspaceInductive == WorkspaceSpec => []WorkspaceIInv
<1>1. WorkspaceInit => WorkspaceIInv
  BY WorkspaceInitially
<1>2. WorkspaceIInv /\ [WorkspaceNext]_workspaceVars => WorkspaceIInv'
  BY WorkspaceSteps
<1> QED
  BY <1>1, <1>2, PTL DEF WorkspaceSpec

\* The invariant implies the type.
LEMMA WorkspaceTypeIs == WorkspaceIInv => WorkspaceTypeOK
<1> SUFFICES ASSUME WorkspaceIInv PROVE WorkspaceTypeOK
  OBVIOUS
<1>1. TreeOK(files) /\ DOMAIN files \subseteq Paths
  BY TreesAre DEF WorkspaceIInv, TreeOK
<1>2. \A p \in DOMAIN files \ {<< >>} : IsDir(files, Front(p))
  BY <1>1, FrontIs DEF TreeOK, Rooted
<1>3. \A w \in Workers : work[w].op = "search" => Cardinality(work[w].found) < MaxMatches
  BY CallIs DEF CallOK
<1> QED
  BY <1>1, <1>2, <1>3 DEF WorkspaceTypeOK, WorkspaceIInv

\* The tree stays a tree and its root a directory, whatever overlaps and fails half way,
\* and whatever becomes of the directory of the session; a walk that goes on has not met
\* its cap.
THEOREM WorkspaceTypeCorrect == WorkspaceSpec => []WorkspaceTypeOK
BY WorkspaceInductive, WorkspaceTypeIs, PTL

\* An operation of the filesystem tool, and the removal of a session, that answers
\* success, that no writing call overlapped and of which nothing failed, did in one piece
\* what it promises, however many jobs of the blocking pool it took.
THEOREM AloneIsOnePiece == WorkspaceSpec => AloneIsAtomic
<1>1. WorkspaceIInv /\ [WorkspaceNext]_workspaceVars
        => \A w \in Workers : Succeeds(w) /\ work[w].alone /\ ~work'[w].failed
                                => Promised(work[w], files', work'[w].found)
  BY WorkspaceSteps DEF Keeps
<1> QED
  BY <1>1, WorkspaceInductive, PTL DEF WorkspaceSpec, AloneIsAtomic

=============================================================================
