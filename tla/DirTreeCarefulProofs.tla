----------------------- MODULE DirTreeCarefulProofs -----------------------
(***************************************************************************)
(* Theorems about the directory tree in the hands of a careful user, for   *)
(* any number of files, paths of any length and directories of any size:   *)
(* the cache and the device together are one tree of all files in use.     *)
(***************************************************************************)
EXTENDS DirTreeProofs

----------------------------------------------------------------------------
(* Trees.                                                                  *)

\* Names a file can have, whatever else a path may hold.
Proper(nm) == nm \notin {Nameless, Here, Up}

\* No element twice.
Distinct(s) == \A i, j \in 1 .. Len(s) : s[i] = s[j] => i = j

\* A directory in the cache whose entries were read.
ReadWell(m, d) ==
  /\ Distinct(m[d].kids)
  /\ \A n \in KidSet(m, d) : m[n].parent = d /\ Proper(m[n].name)
  /\ \A a, b \in KidSet(m, d) : m[a].name = m[b].name => a = b

\* A directory on the device.
StoredWell(l) ==
  /\ l.dots
  /\ \A i \in 1 .. Len(l.kids) : Proper(l.kids[i].name)
  /\ \A i, j \in 1 .. Len(l.kids) :
       l.kids[i].node = l.kids[j].node \/ l.kids[i].name = l.kids[j].name => i = j

\* What a directory holds, for the cache m, the kinds k and the device v.
StoredKids(l) == {e.node : e \in ToSet(l.kids)}
Holds(m, k, v) ==
  [d \in Nodes |-> IF k[d] # "dir" THEN {}
                   ELSE IF m[d].dots THEN KidSet(m, d) ELSE StoredKids(v[d])]

\* X has the root, and all that a directory of X holds.
Whole(V, X) == X \in SUBSET Nodes /\ Root \in X /\ \A d \in X : V[d] \subseteq X

\* The nodes R are a tree: V[d] are those in d.
Tree(V, R) ==
  /\ \A d \in Nodes : V[d] \subseteq R \ {Root}
  /\ \A d, e \in Nodes : V[d] \cap V[e] # {} => d = e
  /\ \A X : Whole(V, X) => R \subseteq X

Real(k) == {n \in Nodes : k[n] # "free"}

Tidy(m, k, v) ==
  /\ Cache(m)
  /\ m[Root].parent = NoNode
  /\ Cached(m) \subseteq Real(k)
  /\ \A n \in Nodes : m[n].dots => n \in Cached(m) /\ k[n] = "dir" /\ ReadWell(m, n)
  /\ \A n \in Nodes : ~m[n].dots =>
       /\ m[n].kids = <<>>
       /\ k[n] = "dir" => StoredWell(v[n]) /\ StoredKids(v[n]) \cap Cached(m) = {}
  /\ Tree(Holds(m, k, v), Real(k))

\* cur_dir and the doomed directory.
Standing ==
  /\ mem[Root].dots
  /\ cur \in Nodes /\ mem[cur].dots
Leaving ==
  phase \in {"walking", "popping"} =>
    Visited(mem, Below(mem, doomed)) /\ cur \notin Below(mem, doomed)

CarefulInv ==
  careful =>
    /\ phase # "astray"
    /\ Tidy(mem, kind, dev)
    /\ phase = "off" => mem = [n \in Nodes |-> Blank]
    /\ phase # "off" => Standing
    /\ Leaving
    /\ rootBlocks = 1

\* What a tree gives: a closed set has all nodes, and one list has each node.
LEMMA TreeIs ==
  ASSUME NEW V, NEW R, Tree(V, R)
  PROVE  /\ \A d \in Nodes : \A x \in V[d] : x \in R /\ x # Root
         /\ \A d, e \in Nodes : \A x \in V[d] : x \in V[e] => d = e
         /\ \A X : Whole(V, X) => R \subseteq X
BY DEF Tree

\* Nobody else is in the set that has the root and nothing of B.
LEMMA TreeAvoids ==
  ASSUME NEW V, NEW R, Tree(V, R), NEW B \in SUBSET Nodes, Root \notin B,
         \A d \in Nodes \ B : V[d] \cap B = {}, R \subseteq Nodes
  PROVE  R \cap B = {}
<1> DEFINE X == Nodes \ B
<1>1. Whole(V, X)
  <2>1. \A d \in X : V[d] \subseteq X
    BY DEF Tree
  <2> QED
    BY <2>1, NodesAssumption DEF Whole
<1> QED
  BY <1>1 DEF Tree

\* Every node but the root is in a list.
LEMMA TreeLists ==
  ASSUME NEW V, NEW R \in SUBSET Nodes, Tree(V, R), NEW x \in R \ {Root}
  PROVE  \E d \in Nodes : x \in V[d]
<1> SUFFICES ASSUME \A d \in Nodes : x \notin V[d] PROVE FALSE
  OBVIOUS
<1> DEFINE B == {x}
<1>1. B \in SUBSET Nodes /\ Root \notin B /\ R \subseteq Nodes /\ x \in B
  OBVIOUS
<1>2. \A d \in Nodes \ B : V[d] \cap B = {}
  OBVIOUS
<1> HIDE DEF B
<1>3. R \cap B = {}
  BY <1>1, <1>2, TreeAvoids
<1> QED
  BY <1>1, <1>3

\* A new node x in the directory d.
Leafed(V, W, d, x) == \A e \in Nodes : W[e] = IF e = d THEN V[e] \cup {x} ELSE V[e]

LEMMA TreeAdd ==
  ASSUME NEW V, NEW R \in SUBSET Nodes, Tree(V, R), NEW d \in R, NEW x \in Nodes \ R, Root \in R,
         NEW W, Leafed(V, W, d, x)
  PROVE  Tree(W, R \cup {x})
<1> USE DEF Leafed
<1>1. \A e \in Nodes : W[e] \subseteq (R \cup {x}) \ {Root}
  BY DEF Tree
<1>2. \A e, f \in Nodes : W[e] \cap W[f] # {} => e = f
  <2> SUFFICES ASSUME NEW e \in Nodes, NEW f \in Nodes, NEW y \in W[e], y \in W[f] PROVE e = f
    OBVIOUS
  <2>1. CASE y = x
    <3>1. x \notin V[e] /\ x \notin V[f]
      BY DEF Tree
    <3> QED
      BY <2>1, <3>1
  <2>2. CASE y # x
    <3>1. y \in V[e] /\ y \in V[f]
      BY <2>2
    <3> QED
      BY <3>1, TreeIs
  <2> QED
    BY <2>1, <2>2
<1>3. ASSUME NEW X, Whole(W, X) PROVE R \cup {x} \subseteq X
  <2>1. Whole(V, X)
    BY <1>3 DEF Whole
  <2>2. R \subseteq X
    BY <2>1 DEF Tree
  <2>3. W[d] \subseteq X
    BY <1>3, <2>2 DEF Whole
  <2> QED
    BY <2>2, <2>3
<1> QED
  BY <1>1, <1>2, <1>3 DEF Tree

\* The tree without S, which holds all that its directories hold.
Pruned(V, W, S) == \A e \in Nodes : W[e] = IF e \in S THEN {} ELSE V[e] \ S

LEMMA TreeCut ==
  ASSUME NEW V, NEW R \in SUBSET Nodes, Tree(V, R), NEW S \in SUBSET Nodes, Root \notin S,
         \A d \in S : V[d] \subseteq S,
         NEW W, Pruned(V, W, S)
  PROVE  Tree(W, R \ S)
<1> USE DEF Pruned
<1>1. \A e \in Nodes : W[e] \subseteq (R \ S) \ {Root}
  BY DEF Tree
<1>2. \A e, f \in Nodes : W[e] \cap W[f] # {} => e = f
  <2> SUFFICES ASSUME NEW e \in Nodes, NEW f \in Nodes, NEW y \in W[e], y \in W[f] PROVE e = f
    OBVIOUS
  <2>1. y \in V[e] /\ y \in V[f]
    OBVIOUS
  <2> QED
    BY <2>1, TreeIs
<1>3. ASSUME NEW X, Whole(W, X) PROVE R \ S \subseteq X
  <2>1. Whole(V, X \cup S)
    <3>1. ASSUME NEW e \in X \cup S PROVE V[e] \subseteq X \cup S
      <4>1. CASE e \in S
        BY <4>1
      <4>2. CASE e \notin S
        BY <1>3, <3>1, <4>2 DEF Whole
      <4> QED
        BY <4>1, <4>2
    <3> QED
      BY <1>3, <3>1 DEF Whole
  <2>2. R \subseteq X \cup S
    BY <2>1 DEF Tree
  <2> QED
    BY <2>2
<1> QED
  BY <1>1, <1>2, <1>3 DEF Tree

\* The node s moves from h to d; S has s and all below it, not d.
Moved(V, W, s, h, d) ==
  \A e \in Nodes : W[e] = IF e = h THEN V[e] \ {s}
                          ELSE IF e = d THEN V[e] \cup {s} ELSE V[e]

LEMMA TreeMove ==
  ASSUME NEW V, NEW R \in SUBSET Nodes, Tree(V, R), NEW h \in Nodes, NEW d \in R, h # d,
         NEW s \in V[h], NEW S \in SUBSET Nodes, s \in S, d \notin S, \A e \in S : V[e] \subseteq S,
         NEW W, Moved(V, W, s, h, d)
  PROVE  Tree(W, R)
<1> USE DEF Moved
<1>0. s \in R /\ s # Root /\ s \in Nodes
  BY TreeIs
<1>1. \A e \in Nodes : W[e] \subseteq R \ {Root}
  BY <1>0 DEF Tree
<1>2. \A e, f \in Nodes : W[e] \cap W[f] # {} => e = f
  <2> SUFFICES ASSUME NEW e \in Nodes, NEW f \in Nodes, NEW y \in W[e], y \in W[f] PROVE e = f
    OBVIOUS
  <2>1. CASE y = s
    <3>1. ASSUME NEW g \in Nodes, s \in W[g] PROVE g = d
      <4>1. CASE g = h
        BY <3>1, <4>1
      <4>2. CASE g # h
        <5>1. s \notin V[g]
          BY <4>2, TreeIs
        <5> QED
          BY <3>1, <4>2, <5>1
      <4> QED
        BY <4>1, <4>2
    <3> QED
      BY <2>1, <3>1
  <2>2. CASE y # s
    <3>1. y \in V[e] /\ y \in V[f]
      BY <2>2
    <3> QED
      BY <3>1, TreeIs
  <2> QED
    BY <2>1, <2>2
<1>3. ASSUME NEW X, Whole(W, X) PROVE R \subseteq X
  <2>0. \A e \in X : V[e] \subseteq X \cup {s}
    <3> SUFFICES ASSUME NEW e \in X, NEW y \in V[e], y # s PROVE y \in X
      OBVIOUS
    <3>1. e \in Nodes /\ W[e] \subseteq X
      BY <1>3 DEF Whole
    <3>2. y \in W[e]
      BY <3>1
    <3> QED
      BY <3>1, <3>2
  <2>1. Whole(V, X \cup S)
    <3>1. \A e \in X \cup S : V[e] \subseteq X \cup S
      BY <2>0
    <3> QED
      BY <1>3, <3>1 DEF Whole
  <2>2. R \subseteq X \cup S
    BY <2>1 DEF Tree
  <2>3. d \in X
    BY <2>2
  <2>4. s \in X
    <3>1. d \in Nodes /\ W[d] \subseteq X
      BY <1>3, <2>3 DEF Whole
    <3>2. s \in W[d]
      BY <3>1
    <3> QED
      BY <3>1, <3>2
  <2>5. Whole(V, X)
    <3>1. \A e \in X : V[e] \subseteq X
      BY <2>0, <2>4
    <3> QED
      BY <1>3, <3>1 DEF Whole
  <2> QED
    BY <2>5 DEF Tree
<1> QED
  BY <1>1, <1>2, <1>3 DEF Tree

\* A set that has s and all below it, as least one.
Least(V, T, S) == \A X : T \subseteq X /\ (\A e \in X \cap S : V[e] \subseteq X) => S \subseteq X

\* W is V with the copies.
Doubled(V, W, S, T, new, d) ==
  /\ \A n \in S : W[new[n]] = {new[x] : x \in V[n]}
  /\ \A e \in Nodes \ Range(new) :
       W[e] = IF e = d THEN V[e] \cup {new[x] : x \in T} ELSE V[e]

\* S has all that its nodes hold, of which T is held by none of S.
Topped(V, S, T) == \A e \in S : V[e] \subseteq S \ T

\* Copies new[n] of the nodes S, of which d gets those of T.
LEMMA TreeCopy ==
  ASSUME NEW V, NEW R \in SUBSET Nodes, Tree(V, R), Root \in R, NEW S \in SUBSET R, NEW T \in SUBSET S,
         Topped(V, S, T), Least(V, T, S),
         \A e \in Nodes \ R : V[e] = {},
         NEW X0 \in SUBSET (Nodes \ R), NEW new, Numbered(new, S, X0), NEW d \in R,
         NEW W, Doubled(V, W, S, T, new, d)
  PROVE  Tree(W, R \cup Range(new))
<1> USE DEF Doubled, Topped
<1> DEFINE N == Range(new)
<1>0. /\ N \subseteq X0
      /\ \A n \in S : new[n] \in N
      /\ \A x \in N : \E n \in S : x = new[n]
  <2>1. N \subseteq X0 /\ (\A n \in S : new[n] \in N)
    BY OriginalIs
  <2>2. \A x \in N : Original(new, x) \in S /\ new[Original(new, x)] = x
    BY OriginalIs
  <2> QED
    BY <2>1, <2>2
<1>n. \A a \in S : \A b \in S : new[a] = new[b] => a = b
  BY DEF Numbered
<1> HIDE DEF N
<1>d. d \notin N /\ N \subseteq Nodes \ R /\ Root \notin N
  BY <1>0
<1>1. ASSUME NEW e \in Nodes PROVE W[e] \subseteq (R \cup N) \ {Root}
  <2>1. CASE e \in N
    <3>1. PICK n \in S : e = new[n]
      BY <1>0, <2>1
    <3>2. V[n] \subseteq S
      OBVIOUS
    <3>3. W[e] = {new[x] : x \in V[n]}
      BY <3>1
    <3> QED
      BY <1>0, <1>d, <3>2, <3>3
  <2>2. CASE e \notin N
    <3>1. W[e] = IF e = d THEN V[e] \cup {new[x] : x \in T} ELSE V[e]
      BY <2>2 DEF N
    <3>2. V[e] \subseteq R \ {Root}
      BY DEF Tree
    <3>3. {new[x] : x \in T} \subseteq N
      BY <1>0
    <3> QED
      BY <1>d, <3>1, <3>2, <3>3
  <2> QED
    BY <2>1, <2>2
\* A copy is in the copy of the directory its original is in, or in d.
<1>2. ASSUME NEW e \in Nodes, NEW n \in S, new[n] \in W[e]
      PROVE  \/ e = d /\ n \in T
             \/ \E a \in S : e = new[a] /\ n \in V[a]
  <2>1. CASE e \in N
    <3>1. PICK a \in S : e = new[a]
      BY <1>0, <2>1
    <3>2. PICK x \in V[a] : new[n] = new[x]
      BY <1>2, <3>1
    <3>3. x = n
      BY <1>n, <3>2
    <3> QED
      BY <3>1, <3>2, <3>3
  <2>2. CASE e \notin N
    <3>1. W[e] = IF e = d THEN V[e] \cup {new[x] : x \in T} ELSE V[e]
      BY <2>2 DEF N
    <3>2. new[n] \notin V[e]
      BY <1>0, <1>d DEF Tree
    <3>3. PICK x \in T : e = d /\ new[n] = new[x]
      BY <1>2, <3>1, <3>2
    <3>4. x = n
      BY <1>n, <3>3
    <3> QED
      BY <3>3, <3>4
  <2> QED
    BY <2>1, <2>2
\* All other nodes are where they were.
<1>3. ASSUME NEW e \in Nodes, NEW y \in W[e], y \notin N PROVE y \in V[e]
  <2>1. CASE e \in N
    <3>1. PICK a \in S : e = new[a]
      BY <1>0, <2>1
    <3>2. PICK x \in V[a] : y = new[x]
      BY <3>1
    <3>3. x \in S
      BY <3>2
    <3> QED
      BY <1>0, <1>3, <3>2, <3>3
  <2>2. CASE e \notin N
    <3>1. W[e] = IF e = d THEN V[e] \cup {new[x] : x \in T} ELSE V[e]
      BY <2>2 DEF N
    <3>2. {new[x] : x \in T} \subseteq N
      BY <1>0
    <3> QED
      BY <1>3, <3>1, <3>2
  <2> QED
    BY <2>1, <2>2
<1>4. ASSUME NEW e \in Nodes, NEW f \in Nodes, NEW y \in W[e], y \in W[f] PROVE e = f
  <2>1. CASE y \in N
    <3>1. PICK n \in S : y = new[n]
      BY <1>0, <2>1
    <3>2. \/ e = d /\ n \in T
          \/ \E a \in S : e = new[a] /\ n \in V[a]
      BY <1>2, <1>4, <3>1
    <3>3. \/ f = d /\ n \in T
          \/ \E a \in S : f = new[a] /\ n \in V[a]
      BY <1>2, <1>4, <3>1
    <3>4. CASE n \in T
      BY <3>2, <3>3, <3>4
    <3>5. CASE n \notin T
      <4>1. PICK a \in S : e = new[a] /\ n \in V[a]
        BY <3>2, <3>5
      <4>2. PICK b \in S : f = new[b] /\ n \in V[b]
        BY <3>3, <3>5
      <4>3. a = b
        BY <4>1, <4>2, TreeIs
      <4> QED
        BY <4>1, <4>2, <4>3
    <3> QED
      BY <3>4, <3>5
  <2>2. CASE y \notin N
    <3>1. y \in V[e] /\ y \in V[f]
      BY <1>3, <1>4, <2>2
    <3> QED
      BY <3>1, TreeIs
  <2> QED
    BY <2>1, <2>2
<1>5. ASSUME NEW X, Whole(W, X) PROVE R \cup N \subseteq X
  <2>1. Whole(V, X)
    <3>1. ASSUME NEW e \in X PROVE V[e] \subseteq X
      <4>1. e \in Nodes /\ W[e] \subseteq X
        BY <1>5, <3>1 DEF Whole
      <4>2. CASE e \in N
        BY <1>d, <4>1, <4>2
      <4>3. CASE e \notin N
        <5>1. W[e] = IF e = d THEN V[e] \cup {new[x] : x \in T} ELSE V[e]
          BY <4>1, <4>3 DEF N
        <5> QED
          BY <4>1, <5>1
      <4> QED
        BY <4>2, <4>3
    <3> QED
      BY <1>5, <3>1 DEF Whole
  <2>2. R \subseteq X
    BY <2>1 DEF Tree
  <2> DEFINE Y == {n \in S : new[n] \in X}
  <2>3. T \subseteq Y
    <3>1. d \in Nodes /\ W[d] \subseteq X
      BY <1>5, <2>2 DEF Whole
    <3>2. W[d] = V[d] \cup {new[x] : x \in T}
      BY <1>d, <3>1 DEF N
    <3> QED
      BY <3>1, <3>2
  <2>4. ASSUME NEW n \in Y PROVE V[n] \subseteq Y
    <3>1. W[new[n]] \subseteq X
      BY <1>5, <2>4 DEF Whole
    <3>2. W[new[n]] = {new[x] : x \in V[n]}
      BY <2>4
    <3>3. V[n] \subseteq S
      BY <2>4
    <3> QED
      BY <3>1, <3>2, <3>3
  <2>5. S \subseteq Y
    <3> HIDE DEF Y
    <3> QED
      BY <2>3, <2>4 DEF Least
  <2> QED
    BY <1>0, <2>2, <2>5
<1> QED
  BY <1>1, <1>4, <1>5 DEF Tree, N

----------------------------------------------------------------------------
(* What holds of a tidy cache.                                             *)

LEMMA HoldsIs ==
  ASSUME NEW m, NEW k, NEW v, NEW d \in Nodes
  PROVE  /\ k[d] # "dir" => Holds(m, k, v)[d] = {}
         /\ k[d] = "dir" /\ m[d].dots => Holds(m, k, v)[d] = KidSet(m, d)
         /\ k[d] = "dir" /\ ~m[d].dots => Holds(m, k, v)[d] = StoredKids(v[d])
BY DEF Holds

LEMMA HoldsSame ==
  ASSUME NEW m, NEW w, NEW k, NEW v, NEW d \in Nodes,
         m[d].dots <=> w[d].dots, m[d].dots => KidSet(m, d) = KidSet(w, d)
  PROVE  Holds(w, k, v)[d] = Holds(m, k, v)[d]
BY DEF Holds

\* A directory of the cache that was read.
LEMMA VisitedIs ==
  ASSUME NEW m, NEW k, NEW v, Tidy(m, k, v), NEW d \in Nodes, m[d].dots
  PROVE  /\ d \in Cached(m) /\ k[d] = "dir"
         /\ Distinct(m[d].kids)
         /\ \A n \in KidSet(m, d) : m[n].parent = d /\ Proper(m[n].name)
         /\ \A a, b \in KidSet(m, d) : m[a].name = m[b].name => a = b
         /\ Holds(m, k, v)[d] = KidSet(m, d)
<1>1. d \in Cached(m) /\ k[d] = "dir" /\ ReadWell(m, d)
  BY DEF Tidy
<1> QED
  BY <1>1, HoldsIs DEF ReadWell

\* Any other node.
LEMMA UnvisitedIs ==
  ASSUME NEW m, NEW k, NEW v, Tidy(m, k, v), NEW d \in Nodes, ~m[d].dots
  PROVE  /\ m[d].kids = <<>> /\ KidSet(m, d) = {}
         /\ k[d] = "dir" => /\ StoredWell(v[d])
                            /\ StoredKids(v[d]) \cap Cached(m) = {}
                            /\ Holds(m, k, v)[d] = StoredKids(v[d])
         /\ k[d] # "dir" => Holds(m, k, v)[d] = {}
<1>1. m[d].kids = <<>>
  BY DEF Tidy
<1>2. KidSet(m, d) = {}
  BY <1>1 DEF KidSet, ToSet
<1>3. k[d] = "dir" => StoredWell(v[d]) /\ StoredKids(v[d]) \cap Cached(m) = {}
  BY DEF Tidy
<1> QED
  BY <1>1, <1>2, <1>3, HoldsIs

\* The list with a node is that of a directory that was read, its parent.
LEMMA KidIs ==
  ASSUME NEW m, NEW k, NEW v, Tidy(m, k, v), NEW d \in Nodes, NEW n \in KidSet(m, d)
  PROVE  /\ m[d].dots /\ d \in Cached(m) /\ k[d] = "dir"
         /\ n \in Cached(m) /\ n # Root /\ n \in Nodes
         /\ m[n].parent = d /\ Proper(m[n].name)
<1>1. m[d].dots
  BY UnvisitedIs
<1>2. n \in Cached(m) \ {Root}
  BY CacheIs DEF Tidy
<1> QED
  BY <1>1, <1>2, VisitedIs DEF Cached

\* What is in the cache is in the list of its parent.
LEMMA ParentHolds ==
  ASSUME NEW m, NEW k, NEW v, Tidy(m, k, v), NEW n \in Cached(m) \ {Root}
  PROVE  /\ m[n].parent \in Nodes
         /\ m[m[n].parent].dots
         /\ n \in KidSet(m, m[n].parent)
<1>1. PICK d \in Nodes : n \in Holds(m, k, v)[d]
  <2>1. Tree(Holds(m, k, v), Real(k)) /\ Cached(m) \subseteq Real(k) /\ Real(k) \in SUBSET Nodes
    BY DEF Tidy, Real
  <2>2. n \in Real(k) \ {Root}
    BY <2>1
  <2> QED
    BY <2>1, <2>2, TreeLists
<1>2. m[d].dots
  <2> SUFFICES ASSUME ~m[d].dots PROVE FALSE
    BY DEF Tidy, Cache, Rec
  <2> QED
    BY <1>1, UnvisitedIs
<1>3. n \in KidSet(m, d) /\ m[n].parent = d
  BY <1>1, <1>2, VisitedIs
<1> QED
  BY <1>2, <1>3

\* The nodes of a cache, in terms of the kinds and directories as they are.
Held(m) == Tidy(m, kind, dev)

LEMMA HeldKids ==
  ASSUME NEW m, Held(m)
  PROVE  /\ Cache(m)
         /\ \A d \in Nodes : KidSet(m, d) \subseteq Nodes
         /\ \A d \in Nodes : KidSet(m, d) \subseteq Cached(m)
         /\ \A d \in Nodes : Root \notin KidSet(m, d)
<1>1. Cache(m)
  BY DEF Held, Tidy
<1> QED
  BY <1>1, CacheIs

\* The nodes below a node of the cache are in the cache.
LEMMA BelowIn ==
  ASSUME NEW m, Held(m), NEW n \in Cached(m)
  PROVE  /\ n \in Below(m, n) /\ Below(m, n) \subseteq Cached(m)
         /\ Below(m, n) \subseteq Nodes
         /\ Closed(m, Below(m, n))
<1>1. n \in Nodes /\ n \in Below(m, n) /\ Closed(m, Below(m, n)) /\ Below(m, n) \subseteq Nodes
  BY HeldKids, BelowClosed DEF Cached
<1>2. Closed(m, Cached(m))
  BY HeldKids DEF Closed, Cached
<1>3. Below(m, n) \subseteq Cached(m)
  BY <1>2, BelowLeast
<1> QED
  BY <1>1, <1>3

\* A set of cached nodes without the root, of which each is listed in it, is empty.
LEMMA NoRing ==
  ASSUME NEW m, Held(m), NEW B \in SUBSET Cached(m), Root \notin B,
         \A x \in B : m[x].parent \in B
  PROVE  B = {}
<1> DEFINE V == Holds(m, kind, dev)
<1>1. Tree(V, Real(kind)) /\ B \subseteq Real(kind) /\ Real(kind) \subseteq Nodes /\ B \subseteq Nodes
  BY DEF Held, Tidy, Real, Cached
<1>2. ASSUME NEW d \in Nodes \ B PROVE V[d] \cap B = {}
  <2> SUFFICES ASSUME NEW x \in B, x \in V[d] PROVE FALSE
    OBVIOUS
  <2>1. m[d].dots
    <3> SUFFICES ASSUME ~m[d].dots PROVE FALSE
      OBVIOUS
    <3> QED
      BY UnvisitedIs DEF Held
  <2>2. x \in KidSet(m, d) /\ m[x].parent = d
    BY <2>1, VisitedIs DEF Held
  <2> QED
    BY <2>2
<1> HIDE DEF V
<1>3. Real(kind) \cap B = {}
  BY <1>1, <1>2, TreeAvoids
<1> QED
  BY <1>1, <1>3

\* No directory is below one of its entries.
LEMMA NoLoop ==
  ASSUME NEW m, Held(m), NEW d \in Nodes, NEW n \in KidSet(m, d)
  PROVE  d \notin Below(m, n)
<1> SUFFICES ASSUME d \in Below(m, n) PROVE FALSE
  OBVIOUS
<1>1. n \in Cached(m) /\ n \in Nodes /\ n # Root /\ m[n].parent = d
  BY KidIs DEF Held
<1> DEFINE B == Below(m, n)
<1>2. B \subseteq Cached(m) /\ n \in B
  BY <1>1, BelowIn
<1>3. ASSUME NEW x \in B PROVE m[x].parent \in B /\ x # Root
  <2>1. CASE x = n
    BY <1>1, <2>1
  <2>2. CASE x # n
    <3>1. PICK e \in B : IsDir(e) /\ x \in KidSet(m, e)
      BY <1>1, <1>3, <2>2, HeldKids, BelowListed
    <3>2. e \in Nodes
      BY <1>2, <3>1 DEF Cached
    <3> QED
      BY <3>1, <3>2, KidIs DEF Held
  <2> QED
    BY <2>1, <2>2
<1> HIDE DEF B
<1>4. B = {}
  BY <1>2, <1>3, NoRing
<1> QED
  BY <1>2, <1>4

\* All of the cache is below the root.
LEMMA AllBelowRoot ==
  ASSUME NEW m, Held(m)
  PROVE  Below(m, Root) = Cached(m)
<1> DEFINE B == Cached(m) \ Below(m, Root)
<1>1. Root \in Cached(m)
  BY NodesAssumption DEF Cached
<1>2. Root \notin B /\ B \subseteq Cached(m) /\ Below(m, Root) \subseteq Cached(m)
  BY <1>1, BelowIn
<1>3. ASSUME NEW x \in B PROVE m[x].parent \in B
  <2>1. x \in Cached(m) \ {Root}
    BY <1>2, <1>3
  <2>2. m[x].parent \in Nodes /\ m[m[x].parent].dots /\ x \in KidSet(m, m[x].parent)
    BY <2>1, ParentHolds DEF Held
  <2>3. m[x].parent \in Cached(m) /\ IsDir(m[x].parent)
    BY <2>2, VisitedIs DEF Held, IsDir
  <2>4. m[x].parent \notin Below(m, Root)
    BY <1>1, <1>3, <2>2, <2>3, BelowIn DEF Closed
  <2> QED
    BY <2>3, <2>4
<1>4. B = {}
  <2> HIDE DEF B
  <2> QED
    BY <1>2, <1>3, NoRing
<1> QED
  BY <1>2, <1>4

\* The places where the directories of S list x.
Places(m, S, x) ==
  {e \in {d \in S : IsDir(d)} \X (1 .. MaxKids) :
     e[2] <= Len(m[e[1]].kids) /\ m[e[1]].kids[e[2]] = x}

LEMMA ListedOnce ==
  ASSUME NEW m, Held(m), NEW S \in SUBSET Nodes, NEW d \in S, NEW x \in KidSet(m, d)
  PROVE  Listed(m, S, x) = 1
<1>1. m[d].dots /\ IsDir(d) /\ m[x].parent = d
  BY KidIs DEF Held, IsDir
<1>2. m[d].kids \in Seq(Nodes) /\ Len(m[d].kids) \in Nat /\ Len(m[d].kids) <= MaxKids
  BY HeldKids, CacheIs
<1>3. PICK i \in 1 .. Len(m[d].kids) : m[d].kids[i] = x
  BY <1>2, ToSetIs DEF KidSet
<1>4. i \in 1 .. MaxKids
  BY <1>2, <1>3, BoundAssumption
<1>5. <<d, i>> \in Places(m, S, x)
  BY <1>1, <1>2, <1>3, <1>4 DEF Places
<1>6. ASSUME NEW e \in Places(m, S, x) PROVE e = <<d, i>>
  <2>1. PICK f \in S, j \in 1 .. MaxKids : e = <<f, j>> /\ j <= Len(m[f].kids) /\ m[f].kids[j] = x
    BY <1>6 DEF Places
  <2>2. m[f].kids \in Seq(Nodes) /\ Len(m[f].kids) \in Nat
    BY HeldKids, CacheIs
  <2>3. j \in 1 .. Len(m[f].kids)
    BY <2>1, <2>2, BoundAssumption
  <2>4. x \in KidSet(m, f)
    BY <2>1, <2>2, <2>3, InList DEF KidSet
  <2>5. f = d
    BY <1>1, <2>4, KidIs DEF Held
  <2>6. Distinct(m[d].kids)
    BY <1>1, VisitedIs DEF Held
  <2>7. j = i
    BY <1>3, <2>1, <2>3, <2>5, <2>6 DEF Distinct
  <2> QED
    BY <2>1, <2>5, <2>7
<1>7. Places(m, S, x) = {<<d, i>>}
  BY <1>5, <1>6
<1>8. Cardinality(Places(m, S, x)) = 1
  BY <1>7, FS_Singleton
<1> QED
  BY <1>8 DEF Listed, Places

LEMMA ListedNever ==
  ASSUME NEW m, Held(m), NEW S \in SUBSET Nodes, NEW x, \A d \in S : x \notin KidSet(m, d)
  PROVE  Listed(m, S, x) = 0
<1>1. ASSUME NEW e \in Places(m, S, x) PROVE FALSE
  <2>1. PICK f \in S, j \in 1 .. MaxKids : e = <<f, j>> /\ j <= Len(m[f].kids) /\ m[f].kids[j] = x
    BY <1>1 DEF Places
  <2>2. m[f].kids \in Seq(Nodes) /\ Len(m[f].kids) \in Nat
    BY HeldKids, CacheIs
  <2>3. j \in 1 .. Len(m[f].kids)
    BY <2>1, <2>2, BoundAssumption
  <2> QED
    BY <2>1, <2>2, <2>3, InList DEF KidSet
<1>2. Places(m, S, x) = {}
  BY <1>1
<1>3. Cardinality(Places(m, S, x)) = 0
  BY <1>2, FS_EmptySet
<1> QED
  BY <1>3 DEF Listed, Places

\* Whatever is cached is the top of a tree.
LEMMA IsTreeAt ==
  ASSUME NEW m, Held(m), NEW n \in Cached(m)
  PROVE  IsTree(m, n)
<1> DEFINE S == Below(m, n)
<1>1. S \subseteq Nodes /\ n \in Nodes
  BY BelowIn DEF Cached
<1>2. ASSUME NEW d \in S PROVE n \notin KidSet(m, d)
  BY <1>1, <1>2, NoLoop
<1>3. Listed(m, S, n) = 0
  BY <1>1, <1>2, ListedNever
<1>4. ASSUME NEW x \in S \ {n} PROVE Listed(m, S, x) = 1
  <2>1. PICK d \in S : IsDir(d) /\ x \in KidSet(m, d)
    BY <1>1, <1>4, HeldKids, BelowListed
  <2> HIDE DEF S
  <2> QED
    BY <1>1, <2>1, ListedOnce
<1> QED
  BY <1>3, <1>4 DEF IsTree

----------------------------------------------------------------------------
(* Reading a directory keeps a cache tidy, and the tree as it is.          *)

LEMMA UnreadHeld ==
  ASSUME NEW m, Held(m), NEW n \in Nodes
  PROVE  Unread(m, n) <=> IsDir(n) /\ ~m[n].dots
<1>1. m[n] \in Rec /\ Len(m[n].kids) \in Nat
  BY HeldKids, CacheIs
<1>2. CASE m[n].dots
  BY <1>1, <1>2 DEF Unread, Size
<1>3. CASE ~m[n].dots
  <2>1. m[n].kids = <<>>
    BY <1>3, UnvisitedIs DEF Held
  <2> QED
    BY <1>3, <2>1 DEF Unread, Size
<1> QED
  BY <1>2, <1>3

\* What a directory that was not read holds is in use and not in the cache.
LEMMA UnreadEntries ==
  ASSUME NEW m, Held(m), NEW d \in Nodes, Unread(m, d)
  PROVE  /\ IsDir(d) /\ ~m[d].dots /\ StoredWell(dev[d])
         /\ StoredKids(dev[d]) = Entries(d)
         /\ Holds(m, kind, dev)[d] = Entries(d)
         /\ \A e \in Entries(d) : /\ e \in Nodes /\ e \notin Cached(m) /\ kind[e] # "free"
                                  /\ m[e].parent = NoNode /\ ~m[e].dots /\ m[e].kids = <<>>
         /\ ~Twins(m, d)
<1>1. IsDir(d) /\ ~m[d].dots
  BY UnreadHeld
<1>2. StoredKids(dev[d]) = Entries(d)
  BY DEF StoredKids, Entries
<1>3. /\ StoredWell(dev[d]) /\ Entries(d) \cap Cached(m) = {}
      /\ Holds(m, kind, dev)[d] = Entries(d)
  BY <1>1, <1>2, UnvisitedIs DEF Held, IsDir
<1>4. Entries(d) \subseteq Real(kind)
  BY <1>3, TreeIs DEF Held, Tidy
<1>5. ASSUME NEW e \in Entries(d)
      PROVE  /\ e \in Nodes /\ e \notin Cached(m) /\ kind[e] # "free"
             /\ m[e].parent = NoNode /\ ~m[e].dots /\ m[e].kids = <<>>
  <2>1. e \in Nodes /\ e \notin Cached(m) /\ kind[e] # "free"
    BY <1>3, <1>4, <1>5 DEF Real
  <2>2. ~m[e].dots
    BY <2>1, VisitedIs DEF Held
  <2> QED
    BY <2>1, <2>2, UnvisitedIs DEF Held, Cached
<1>6. ~Twins(m, d)
  BY <1>5 DEF Twins
<1> QED
  BY <1>1, <1>2, <1>3, <1>5, <1>6

\* The records of a directory that was read, and of what is in it.
LEMMA ReadRec ==
  ASSUME NEW m, NEW d \in Nodes, Device, Cache(m), StoredWell(dev[d]), d \notin Entries(d)
  PROVE  /\ Read(m, d)[d].dots
         /\ Read(m, d)[d].kids = [i \in DOMAIN dev[d].kids |-> dev[d].kids[i].node]
         /\ \A e \in Entries(d) : ~Read(m, d)[e].dots
         /\ \A i \in 1 .. Len(dev[d].kids) :
              Read(m, d)[dev[d].kids[i].node].name = dev[d].kids[i].name
<1> DEFINE l == dev[d].kids
<1>1. l \in Seq(Entry) /\ DOMAIN l = 1 .. Len(l) /\ Len(l) \in Nat /\ dev[d].dots /\ m[d] \in Rec
  BY CacheIs DEF Device, Listing, StoredWell
<1>2. Entries(d) \subseteq Nodes
  BY EntriesIs
<1>3. Read(m, d)[d] = [m[d] EXCEPT !.kids = [i \in DOMAIN dev[d].kids |-> dev[d].kids[i].node],
                                   !.dots = dev[d].dots]
  BY DEF Read
<1>4. /\ Read(m, d)[d].dots
      /\ Read(m, d)[d].kids = [i \in DOMAIN dev[d].kids |-> dev[d].kids[i].node]
  BY <1>1, <1>3 DEF Rec
<1>5. ASSUME NEW e \in Entries(d)
      PROVE  Read(m, d)[e] = [Blank EXCEPT !.parent = d,
                                !.name = (CHOOSE x \in ToSet(dev[d].kids) : x.node = e).name]
  BY <1>2, <1>5 DEF Read
<1>6. ASSUME NEW e \in Entries(d) PROVE ~Read(m, d)[e].dots
  BY <1>5, <1>6 DEF Blank
<1>7. ASSUME NEW i \in 1 .. Len(l) PROVE Read(m, d)[l[i].node].name = l[i].name
  <2> DEFINE c == CHOOSE x \in ToSet(l) : x.node = l[i].node
  <2>1. l[i] \in ToSet(l)
    BY <1>1, <1>7, InList
  <2>2. c \in ToSet(l) /\ c.node = l[i].node
    BY <2>1
  <2>3. l[i].node \in Entries(d)
    BY <2>1 DEF Entries
  <2>4. Read(m, d)[l[i].node].name = c.name
    <3>1. Read(m, d)[l[i].node] = [Blank EXCEPT !.parent = d, !.name = c.name]
      BY <1>5, <2>3
    <3> HIDE DEF c
    <3> QED
      BY <3>1 DEF Blank
  <2> HIDE DEF c
  <2>5. PICK j \in 1 .. Len(l) : c = l[j]
    BY <1>1, <2>2, ToSetIs
  <2>6. \A a, b \in 1 .. Len(l) : l[a].node = l[b].node => a = b
    BY DEF StoredWell
  <2>7. j = i
    BY <1>7, <2>2, <2>5, <2>6
  <2> QED
    BY <2>4, <2>5, <2>7
<1> QED
  BY <1>4, <1>6, <1>7

\* A directory read from the device is one that was read well.
LEMMA ReadWellIs ==
  ASSUME Device, NEW m, Cache(m), NEW d \in Cached(m), StoredWell(dev[d]), d \notin Entries(d),
         \A e \in Entries(d) : m[e].parent = NoNode
  PROVE  ReadWell(Read(m, d), d)
<1> DEFINE l == dev[d].kids
           w == Read(m, d)
<1>0. d \in Nodes /\ Entries(d) \subseteq Nodes
  BY EntriesIs DEF Cached
<1>1. l \in Seq(Entry) /\ DOMAIN l = 1 .. Len(l) /\ Len(l) \in Nat
  BY <1>0 DEF Device, Listing
<1>2. /\ w[d].kids = [i \in DOMAIN l |-> l[i].node]
      /\ \A i \in 1 .. Len(l) : w[l[i].node].name = l[i].name
  BY <1>0, ReadRec
<1>3. /\ \A i \in 1 .. Len(l) : Proper(l[i].name)
      /\ \A i, j \in 1 .. Len(l) : l[i].node = l[j].node \/ l[i].name = l[j].name => i = j
  BY DEF StoredWell
<1>4. KidSet(w, d) = Entries(d) /\ \A e \in Entries(d) : w[e].parent = d
  <2>1. KidSet(w, d) = Entries(d)
    BY <1>0, ReadNode DEF KidSet
  <2>2. ASSUME NEW e \in Entries(d) PROVE w[e].parent = d
    BY <1>0, <2>2, ReadNode
  <2> QED
    BY <2>1, <2>2
<1>5. \A e \in Entries(d) : \E i \in 1 .. Len(l) : e = l[i].node
  BY <1>1, ToSetIs DEF Entries
<1> HIDE DEF w
<1>6. Len(w[d].kids) = Len(l) /\ \A i \in 1 .. Len(l) : w[d].kids[i] = l[i].node
  <2> DEFINE u == [i \in DOMAIN l |-> l[i].node]
  <2>1. u = [i \in 1 .. Len(l) |-> u[i]] /\ \A i \in 1 .. Len(l) : u[i] = l[i].node
    BY <1>1
  <2> HIDE DEF u
  <2>2. Len(u) = Len(l)
    BY <1>1, <2>1
  <2>3. w[d].kids = u
    BY <1>2 DEF u
  <2> QED
    BY <2>1, <2>2, <2>3
<1>7. Distinct(w[d].kids)
  BY <1>3, <1>6 DEF Distinct
<1>8. ASSUME NEW e \in Entries(d) PROVE Proper(w[e].name)
  BY <1>2, <1>3, <1>5, <1>8
<1>9. ASSUME NEW a \in Entries(d), NEW b \in Entries(d), w[a].name = w[b].name PROVE a = b
  <2>1. PICK i \in 1 .. Len(l) : a = l[i].node
    BY <1>5, <1>9
  <2>2. PICK j \in 1 .. Len(l) : b = l[j].node
    BY <1>5, <1>9
  <2>3. l[i].name = l[j].name
    BY <1>2, <1>9, <2>1, <2>2
  <2> QED
    BY <1>3, <2>1, <2>2, <2>3
<1> QED
  BY <1>4, <1>7, <1>8, <1>9 DEF ReadWell, w

\* The caches l and w: what was read in l is as it was.
Keeps(l, w) == \A n \in Nodes : l[n].dots => w[n] = l[n]

LEMMA ReadHeld ==
  ASSUME Device, NEW m, Held(m), NEW d \in Cached(m), Unread(m, d)
  PROVE  /\ Held(Read(m, d))
         /\ Keeps(m, Read(m, d))
         /\ Read(m, d)[d].dots
<1> DEFINE w == Read(m, d)
           E == Entries(d)
<1>0. d \in Nodes /\ Cache(m) /\ E \subseteq Nodes \ {Root}
  BY HeldKids, EntriesIs DEF Cached
<1>1. /\ IsDir(d) /\ ~m[d].dots /\ StoredWell(dev[d])
      /\ Holds(m, kind, dev)[d] = E
      /\ \A e \in E : /\ e \notin Cached(m) /\ kind[e] # "free"
                      /\ m[e].parent = NoNode /\ ~m[e].dots /\ m[e].kids = <<>>
  BY <1>0, UnreadEntries
<1>2. d \notin E /\ m[d].kids = <<>> /\ KidSet(m, d) = {}
  BY <1>0, <1>1, UnvisitedIs DEF Held
<1>3. Cache(w) /\ ReadWell(w, d)
  BY <1>0, <1>1, <1>2, ReadIs, ReadWellIs
<1>4. w[d].dots /\ w[d].parent = m[d].parent /\ KidSet(w, d) = E
  <2>1. w[d].dots
    BY <1>0, <1>1, <1>2, ReadRec
  <2>2. w[d].parent = m[d].parent /\ ToSet(w[d].kids) = E
    <3>1. \A e \in Entries(d) : m[e].parent = NoNode
      BY <1>1
    <3> QED
      BY <1>0, <3>1, ReadNode
  <2> QED
    BY <2>1, <2>2 DEF KidSet
<1>5. \A e \in E : w[e].parent = d /\ w[e].kids = <<>> /\ ~w[e].dots
  <2> SUFFICES ASSUME NEW e \in E PROVE w[e].parent = d /\ w[e].kids = <<>> /\ ~w[e].dots
    OBVIOUS
  <2>1. ~w[e].dots
    BY <1>0, <1>1, <1>2, ReadRec
  <2>2. w[e].parent = d /\ w[e].kids = <<>>
    <3>1. (\A x \in Entries(d) : m[x].parent = NoNode) /\ e \in Entries(d) /\ e \in Nodes /\ e # d
      BY <1>0, <1>1, <1>2
    <3> QED
      BY <1>0, <3>1, ReadNode
  <2> QED
    BY <2>1, <2>2
<1>6. \A n \in Nodes : n # d /\ n \notin E => w[n] = m[n]
  BY <1>0, <1>1, ReadNode
<1> HIDE DEF w, E
<1>7. Cached(w) = Cached(m) \cup E
  <2> SUFFICES ASSUME NEW n \in Nodes PROVE n \in Cached(w) <=> n \in Cached(m) \cup E
    BY <1>0 DEF Cached
  <2>1. CASE n = d
    BY <1>0, <1>4, <2>1 DEF Cached
  <2>2. CASE n # d /\ n \in E
    BY <1>0, <1>5, <2>2, NodesAssumption DEF Cached
  <2>3. CASE n # d /\ n \notin E
    BY <1>0, <1>6, <2>3 DEF Cached
  <2> QED
    BY <2>1, <2>2, <2>3
<1>8. w[Root].parent = NoNode
  <2>1. m[Root].parent = NoNode /\ Root \in Nodes /\ Root \notin E
    BY <1>0, NodesAssumption DEF Held, Tidy
  <2> QED
    BY <1>4, <1>6, <2>1
<1>9. Cached(w) \subseteq Real(kind)
  BY <1>0, <1>1, <1>7 DEF Held, Tidy, Real
<1>10. ASSUME NEW n \in Nodes, w[n].dots
       PROVE  n \in Cached(w) /\ kind[n] = "dir" /\ ReadWell(w, n)
  <2>1. CASE n = d
    BY <1>1, <1>3, <1>7, <2>1 DEF IsDir
  <2>2. CASE n # d
    <3>1. n \notin E /\ w[n] = m[n]
      BY <1>5, <1>6, <1>10, <2>2
    <3>2. n \in Cached(m) /\ kind[n] = "dir" /\ ReadWell(m, n)
      BY <1>10, <3>1 DEF Held, Tidy
    <3>3. KidSet(w, n) = KidSet(m, n)
      BY <3>1 DEF KidSet
    <3>4. ASSUME NEW x \in KidSet(m, n) PROVE w[x].name = m[x].name /\ w[x].parent = m[x].parent
      <4>1. x \in Nodes /\ x \in Cached(m) /\ m[x].parent = n
        BY <3>4, KidIs DEF Held
      <4>2. x \notin E
        BY <1>1, <4>1
      <4>3. CASE x = d
        <5>1. w[d] = [m[d] EXCEPT !.kids = [i \in DOMAIN dev[d].kids |-> dev[d].kids[i].node],
                                  !.dots = dev[d].dots]
          BY <1>0 DEF Read, w
        <5>2. m[d] \in Rec
          BY <1>0, CacheIs
        <5> QED
          BY <4>3, <5>1, <5>2 DEF Rec
      <4>4. CASE x # d
        BY <1>6, <4>1, <4>2, <4>4
      <4> QED
        BY <4>3, <4>4
    <3> QED
      BY <1>7, <3>1, <3>2, <3>3, <3>4 DEF ReadWell
  <2> QED
    BY <2>1, <2>2
<1>11. ASSUME NEW n \in Nodes, ~w[n].dots
       PROVE  /\ w[n].kids = <<>>
              /\ kind[n] = "dir" => StoredWell(dev[n]) /\ StoredKids(dev[n]) \cap Cached(w) = {}
  <2>1. n # d
    BY <1>4, <1>11
  <2>2. ~m[n].dots /\ w[n].kids = <<>>
    <3>1. CASE n \in E
      BY <1>1, <1>5, <3>1
    <3>2. CASE n \notin E
      <4>1. w[n] = m[n]
        BY <1>6, <2>1, <3>2
      <4> QED
        BY <1>11, <4>1, UnvisitedIs DEF Held
    <3> QED
      BY <3>1, <3>2
  <2>3. ASSUME kind[n] = "dir"
        PROVE  StoredWell(dev[n]) /\ StoredKids(dev[n]) \cap Cached(w) = {}
    <3>1. /\ StoredWell(dev[n]) /\ StoredKids(dev[n]) \cap Cached(m) = {}
          /\ Holds(m, kind, dev)[n] = StoredKids(dev[n])
      BY <2>2, <2>3, UnvisitedIs DEF Held
    <3>2. StoredKids(dev[n]) \cap E = {}
      <4>1. Tree(Holds(m, kind, dev), Real(kind))
        BY DEF Held, Tidy
      <4> QED
        BY <1>0, <1>1, <2>1, <3>1, <4>1, TreeIs
    <3> QED
      BY <1>7, <3>1, <3>2
  <2> QED
    BY <2>2, <2>3
<1>12. Holds(w, kind, dev) = Holds(m, kind, dev)
  <2>1. ASSUME NEW n \in Nodes PROVE Holds(w, kind, dev)[n] = Holds(m, kind, dev)[n]
    <3>1. CASE n = d
      BY <1>0, <1>1, <1>4, <3>1, HoldsIs DEF IsDir
    <3>2. CASE n # d /\ n \in E
      BY <1>1, <1>5, <3>2, HoldsSame
    <3>3. CASE n # d /\ n \notin E
      <4>1. w[n] = m[n]
        BY <1>6, <3>3
      <4>2. KidSet(w, n) = KidSet(m, n)
        BY <4>1 DEF KidSet
      <4> QED
        BY <4>1, <4>2, HoldsSame
    <3> QED
      BY <3>1, <3>2, <3>3
  <2> QED
    BY <2>1 DEF Holds
<1>13. Held(w)
  BY <1>3, <1>8, <1>9, <1>10, <1>11, <1>12 DEF Held, Tidy
<1>14. Keeps(m, w)
  <2> SUFFICES ASSUME NEW n \in Nodes, m[n].dots PROVE w[n] = m[n]
    BY DEF Keeps
  <2>1. n # d /\ n \notin E
    BY <1>1
  <2> QED
    BY <1>6, <2>1
<1> QED
  BY <1>4, <1>13, <1>14 DEF w

----------------------------------------------------------------------------
(* Paths.                                                                  *)

\* What a path finds in a tidy cache: the cache stays tidy, nothing goes astray, and
\* a directory the path leads to was read.
Reached(l, r) ==
  /\ Found(l, r)
  /\ Held(r.m) /\ Keeps(l, r.m)
  /\ r.out # "astray"
  /\ IsDir(r.at) => r.m[r.at].dots

LEMMA KeepsTrans ==
  ASSUME NEW l, NEW m, NEW w, Keeps(l, m), Keeps(m, w)
  PROVE  Keeps(l, w)
BY DEF Keeps

LEMMA StepHeld ==
  ASSUME Device, NEW l, NEW r, Reached(l, r), NEW nm, NEW isLast
  PROVE  Reached(l, Step(r, nm, isLast))
<1> DEFINE m == r.m
           d == r.at
           child == FirstNamed(r.m, d, nm)
           s == Step(r, nm, isLast)
<1>0. /\ r.out \in {"ok", "none"} /\ r = [at |-> r.at, m |-> r.m, out |-> r.out]
      /\ Cache(m) /\ Held(m) /\ Keeps(l, m) /\ d \in Cached(m) /\ d \in Nodes
      /\ IsDir(d) => m[d].dots
  BY DEF Reached, Found, Cached
<1>1. Found(l, s)
  BY StepIs DEF Reached
<1>2. CASE s = r
  BY <1>2
<1>3. CASE s = [r EXCEPT !.out = "none"]
  <2>1. s.at = d /\ s.m = m /\ s.out = "none"
    <3> HIDE DEF s
    <3> QED
      BY <1>0, <1>3
  <2> QED
    BY <1>0, <1>1, <2>1 DEF Reached
<1>4. CASE s = [r EXCEPT !.at = r.m[d].parent] /\ d # Root
  <2>1. m[m[d].parent].dots
    BY <1>0, <1>4, ParentHolds DEF Held
  <2>2. s.at = m[d].parent /\ s.m = m /\ s.out = r.out
    <3> HIDE DEF s
    <3> QED
      BY <1>0, <1>4
  <2> QED
    BY <1>0, <1>1, <2>1, <2>2 DEF Reached
<1>5. CASE d # Root /\ r.m[d].parent = Freed
  <2>1. m[d].parent \in Nodes
    BY <1>0, <1>5, ParentHolds DEF Held
  <2> QED
    BY <1>5, <2>1, NodesAssumption
<1>6. CASE /\ Has(m, d, nm) /\ nm # Here /\ nm # Up
           /\ \/ s = [r EXCEPT !.at = child] /\ ~Unread(r.m, child)
              \/ Unread(r.m, child) /\ Twins(r.m, child)
              \/ /\ Unread(r.m, child)
                 /\ s = [at |-> child, m |-> Read(r.m, child), out |-> "ok"]
  <2>1. child \in KidSet(m, d)
    BY <1>0, <1>6, FirstNamedIs DEF Has
  <2>2. child \in Cached(m) /\ child \in Nodes
    BY <1>0, <2>1, CacheIs
  <2>3. CASE s = [r EXCEPT !.at = child] /\ ~Unread(r.m, child)
    <3>1. s.at = child /\ s.m = m /\ s.out = r.out
      <4> HIDE DEF s, child
      <4> QED
        BY <1>0, <2>3
    <3>2. IsDir(child) => m[child].dots
      BY <1>0, <2>2, <2>3, UnreadHeld
    <3> QED
      BY <1>0, <1>1, <3>1, <3>2 DEF Reached
  <2>4. CASE Unread(r.m, child) /\ Twins(r.m, child)
    BY <1>0, <2>2, <2>4, UnreadEntries
  <2>5. CASE /\ Unread(r.m, child)
             /\ s = [at |-> child, m |-> Read(r.m, child), out |-> "ok"]
    <3>1. Held(Read(m, child)) /\ Keeps(m, Read(m, child)) /\ Read(m, child)[child].dots
      BY <1>0, <2>2, <2>5, ReadHeld
    <3>2. s.at = child /\ s.m = Read(m, child) /\ s.out = "ok"
      BY <2>5
    <3>3. Keeps(l, Read(m, child))
      BY <1>0, <3>1, KeepsTrans
    <3> QED
      BY <1>1, <3>1, <3>2, <3>3 DEF Reached
  <2> QED
    BY <1>6, <2>3, <2>4, <2>5
<1>7. \/ s = r
      \/ s = [r EXCEPT !.out = "none"]
      \/ s = [r EXCEPT !.at = r.m[d].parent] /\ d # Root
      \/ d # Root /\ r.m[d].parent = Freed
      \/ /\ Has(m, d, nm) /\ nm # Here /\ nm # Up
         /\ \/ s = [r EXCEPT !.at = child] /\ ~Unread(r.m, child)
            \/ Unread(r.m, child) /\ Twins(r.m, child)
            \/ /\ Unread(r.m, child)
               /\ s = [at |-> child, m |-> Read(r.m, child), out |-> "ok"]
  <2> HIDE DEF child
  <2> QED
    BY Zenon DEF Step, child
<1> HIDE DEF s
<1> QED
  BY <1>2, <1>3, <1>4, <1>5, <1>6, <1>7, Zenon DEF Reached, s

\* A place where a path may begin: a directory that was read.
LEMMA ParseFromHeld ==
  ASSUME Device, NEW m, Held(m), NEW at \in Nodes, m[at].dots, NEW names, Len(names) \in Nat
  PROVE  Reached(m, ParseFrom(m, at, names))
<1> DEFINE R == Len(names)
<1>0. Cache(m) /\ at \in Cached(m) /\ at # Freed
  BY HeldKids, VisitedIs, NodesAssumption DEF Held
<1>1. PICK w : Steps(m, at, names, w)
  BY <1>0, ParseRun
<1>2. /\ ParseFrom(m, at, names) = w[R]
      /\ w[0] = [at |-> at, m |-> m, out |-> "ok"]
      /\ \A i \in 1 .. R : w[i] = Step(w[i - 1], names[i], i = R)
  BY <1>1 DEF Steps
<1> HIDE DEF R
<1>3. R \in Nat
  BY DEF R
<1> DEFINE D == {i \in 0 .. R : Reached(m, w[i])}
<1>4. 0 \in D
  <2>1. Found(m, w[0])
    BY <1>0, <1>2, GrownSame DEF Found
  <2>2. Keeps(m, m)
    BY DEF Keeps
  <2>3. Reached(m, w[0])
    BY <1>2, <2>1, <2>2 DEF Reached
  <2> QED
    BY <1>3, <2>3
<1>5. ASSUME NEW i \in 1 .. R, i - 1 \in D PROVE i \in D
  <2>1. Reached(m, w[i - 1]) /\ i \in 0 .. R
    BY <1>3, <1>5
  <2>2. Reached(m, Step(w[i - 1], names[i], i = R))
    BY <2>1, StepHeld
  <2>3. w[i] = Step(w[i - 1], names[i], i = R)
    BY <1>2
  <2> QED
    BY <2>1, <2>2, <2>3
<1>6. R \in D
  <2> HIDE DEF D
  <2>1. 0 .. R \subseteq D
    BY <1>3, <1>4, <1>5, Climb
  <2> QED
    BY <1>3, <2>1
<1> QED
  BY <1>2, <1>6

LEMMA ReachedTrans ==
  ASSUME NEW l, NEW m, NEW r, Reached(m, r), Keeps(l, m), Grown(l, m)
  PROVE  Reached(l, r)
BY GrownTrans, KeepsTrans DEF Reached, Found

LEMMA ReadEachHeld ==
  ASSUME Device, NEW m, Held(m), m[Root].dots, NEW list \in Seq(Nodes),
         ToSet(list) \subseteq Cached(m) \ {Root}
  PROVE  Reached(m, ReadEach(m, list))
<1> DEFINE R == Len(list)
<1>1. R \in Nat
  OBVIOUS
<1>2. PICK w : Reads(m, list, w)
  BY <1>1, ReadEachRun
<1>3. /\ ReadEach(m, list) = w[R]
      /\ w[0] = [at |-> Root, m |-> m, out |-> "ok"]
      /\ \A i \in 1 .. R : w[i] = ReadKid(w[i - 1], list[i])
  BY <1>2 DEF Reads
<1>4. \A i \in 1 .. R : list[i] \in Cached(m) \ {Root}
  BY InList
<1> HIDE DEF R
<1> DEFINE D == {i \in 0 .. R : Reached(m, w[i])}
<1>5. 0 \in D
  <2>1. Found(m, w[0])
    BY <1>3, GrownSame, NodesAssumption, HeldKids DEF Found, Cached
  <2>2. Keeps(m, m)
    BY DEF Keeps
  <2>3. Reached(m, w[0])
    BY <1>3, <2>1, <2>2 DEF Reached
  <2> QED
    BY <1>1, <2>3
<1>6. ASSUME NEW i \in 1 .. R, i - 1 \in D PROVE i \in D
  <2> DEFINE r == w[i - 1]
             n == list[i]
             nms == <<r.m[n].name>>
             q == ParseFrom(r.m, r.m[n].parent, nms)
  <2>1. Reached(m, r) /\ i \in 0 .. R
    BY <1>1, <1>6
  <2>2. n \in Cached(m) \ {Root}
    BY <1>4
  <2>3. w[i] = r \/ w[i] = q
    <3>1. w[i] = ReadKid(r, n)
      BY <1>3
    <3> HIDE DEF r, n
    <3> QED
      BY <3>1 DEF ReadKid
  <2>4. Len(nms) \in Nat
    OBVIOUS
  <2> HIDE DEF r, n, nms
  <2>5. Held(r.m) /\ Grown(m, r.m) /\ Keeps(m, r.m) /\ n \in Cached(r.m) \ {Root}
    BY <2>1, <2>2 DEF Reached, Found, Grown
  <2>6. r.m[n].parent \in Nodes /\ r.m[r.m[n].parent].dots
    BY <2>5, ParentHolds DEF Held
  <2>7. Reached(r.m, q)
    BY <2>4, <2>5, <2>6, ParseFromHeld
  <2>8. Reached(m, q)
    <3> HIDE DEF q
    <3> QED
      BY <2>5, <2>7, ReachedTrans
  <2> QED
    BY <2>1, <2>3, <2>8 DEF r
<1>7. R \in D
  <2> HIDE DEF D
  <2>1. 0 .. R \subseteq D
    BY <1>1, <1>5, <1>6, Climb
  <2> QED
    BY <1>1, <2>1
<1> QED
  BY <1>3, <1>7

\* A user's path, from the root or cur_dir.
LEMMA ParseHeld ==
  ASSUME Device, NEW m, Held(m), m[Root].dots, cur \in Nodes, m[cur].dots, NEW p \in Paths
  PROVE  Reached(m, Parse(m, p)) /\ Reached(m, Parse(m, DirPart(p))) /\ Reached(m, ParentOf(m, p))
<1>1. Root \in Nodes
  BY NodesAssumption
<1>2. ASSUME NEW q, Len(q.names) \in Nat PROVE Reached(m, Parse(m, q))
  <2> DEFINE at == IF q.abs \/ q.names = <<>> THEN Root ELSE cur
  <2>1. at \in Nodes /\ m[at].dots
    BY <1>1
  <2> HIDE DEF at
  <2>2. Reached(m, ParseFrom(m, at, q.names))
    BY <1>2, <2>1, ParseFromHeld
  <2> QED
    BY <2>2 DEF Parse, at
<1>3. Reached(m, Parse(m, p)) /\ Reached(m, Parse(m, DirPart(p)))
  BY <1>2, NamesIs
<1>4. Reached(m, ParseFrom(m, cur, <<>>))
  <2> DEFINE none == <<>>
  <2>1. Len(none) \in Nat
    OBVIOUS
  <2> HIDE DEF none
  <2>2. Reached(m, ParseFrom(m, cur, none))
    BY <2>1, ParseFromHeld
  <2> QED
    BY <2>2 DEF none
<1> QED
  BY <1>3, <1>4, Zenon DEF ParentOf

----------------------------------------------------------------------------
(* Steps that only read.                                                   *)

\* A tidy cache with the root and cur_dir read.
Ready(m) == Held(m) /\ m[Root].dots /\ cur \in Nodes /\ m[cur].dots

LEMMA ReadyIs ==
  ASSUME Inv, CarefulInv, careful, phase # "off"
  PROVE  Device /\ Ready(mem)
BY DEF Inv, DiskOK, CarefulInv, Standing, Ready, Held

LEMMA KeepsReady ==
  ASSUME NEW m, Ready(m), NEW w, Held(w), Keeps(m, w)
  PROVE  Ready(w)
<1>1. w[Root] = m[Root] /\ w[cur] = m[cur]
  BY NodesAssumption DEF Ready, Keeps
<1> QED
  BY <1>1 DEF Ready

LEMMA ParseReady ==
  ASSUME Device, NEW m, Ready(m), NEW p \in Paths
  PROVE  /\ Reached(m, Parse(m, p)) /\ Ready(Parse(m, p).m)
         /\ Reached(m, Parse(m, DirPart(p))) /\ Ready(Parse(m, DirPart(p)).m)
         /\ Reached(m, ParentOf(m, p)) /\ Ready(ParentOf(m, p).m)
<1>1. Reached(m, Parse(m, p)) /\ Reached(m, Parse(m, DirPart(p))) /\ Reached(m, ParentOf(m, p))
  BY ParseHeld DEF Ready
<1>2. ASSUME NEW r, Reached(m, r) PROVE Ready(r.m)
  BY <1>2, KeepsReady DEF Reached
<1> QED
  BY <1>1, <1>2

\* What is reached is cached; a directory was read, anything else holds nothing.
LEMMA ReachedIs ==
  ASSUME NEW m, NEW r, Reached(m, r)
  PROVE  /\ Held(r.m) /\ Cache(r.m) /\ r.at \in Cached(r.m) /\ r.at \in Nodes
         /\ Keeps(m, r.m) /\ Grown(m, r.m)
         /\ r.out \in {"ok", "none"}
         /\ IsDir(r.at) => r.m[r.at].dots
BY DEF Reached, Found, Cached

LEMMA CarefulLs ==
  ASSUME Inv, CarefulInv, NEW p \in Paths, Ls(p)
  PROVE  CarefulInv'
<1> SUFFICES ASSUME careful' PROVE CarefulInv'
  BY DEF CarefulInv
<1>1. careful /\ phase = "up" /\ UNCHANGED <<kind, dev, rootBlocks, cur>>
  BY DEF Ls, disk
<1>2. Device /\ Ready(mem)
  BY <1>1, ReadyIs
<1> DEFINE r == Parse(mem, p)
<1>3. Reached(mem, r) /\ Ready(r.m)
  BY <1>2, ParseReady
<1>4. mem' = r.m /\ phase' = "up"
  BY <1>3 DEF Ls, Reached
<1> HIDE DEF r
<1> QED
  BY <1>1, <1>3, <1>4 DEF CarefulInv, Standing, Leaving, Ready, Held

LEMMA CarefulCd ==
  ASSUME Inv, CarefulInv, NEW p \in Paths, Cd(p)
  PROVE  CarefulInv'
<1> SUFFICES ASSUME careful' PROVE CarefulInv'
  BY DEF CarefulInv
<1>1. careful /\ phase = "up" /\ UNCHANGED <<kind, dev, rootBlocks, phase>>
  BY DEF Cd, disk
<1>2. Device /\ Ready(mem)
  BY <1>1, ReadyIs
<1> DEFINE r == Parse(mem, p)
<1>3. Reached(mem, r) /\ Ready(r.m)
  BY <1>2, ParseReady
<1>4. mem' = r.m /\ cur' = r.at /\ IsDir(r.at)
  BY DEF Cd
<1> HIDE DEF r
<1>5. r.at \in Nodes /\ r.m[r.at].dots
  BY <1>3, <1>4, ReachedIs
<1> QED
  BY <1>1, <1>3, <1>4, <1>5 DEF CarefulInv, Standing, Leaving, Ready, Held

LEMMA CarefulRmDir ==
  ASSUME Inv, CarefulInv, NEW p \in Paths, RmDir(p)
  PROVE  CarefulInv'
<1> SUFFICES ASSUME careful' PROVE CarefulInv'
  BY DEF CarefulInv
<1>1. phase = "up" /\ UNCHANGED <<kind, dev, rootBlocks, cur>>
  BY DEF RmDir, disk
<1> DEFINE r == Parse(mem, p)
<1>2. /\ mem' = r.m /\ phase' = "walking" /\ doomed' = r.at
      /\ careful /\ Visited(r.m, Below(r.m, r.at)) /\ cur \notin Below(r.m, r.at)
  BY DEF RmDir
<1>3. Device /\ Ready(mem)
  BY <1>1, <1>2, ReadyIs
<1>4. Reached(mem, r) /\ Ready(r.m)
  BY <1>3, ParseReady
<1>5. Below(mem, doomed)' = Below(r.m, r.at)
  <2>1. Below(mem, doomed)' = Below(mem', doomed')
    BY <1>1, BelowNext
  <2> QED
    BY <1>2, <2>1
<1> HIDE DEF r
<1>6. Leaving'
  BY <1>1, <1>2, <1>5 DEF Leaving, Visited, IsDir
<1> QED
  BY <1>1, <1>2, <1>4, <1>6 DEF CarefulInv, Standing, Ready, Held

LEMMA CarefulWalkPop ==
  ASSUME Inv, CarefulInv, WalkPop
  PROVE  CarefulInv'
<1> SUFFICES ASSUME careful' PROVE CarefulInv'
  BY DEF CarefulInv
<1>1. /\ careful /\ phase = "popping" /\ phase' = "walking"
      /\ UNCHANGED <<kind, dev, rootBlocks, cur, mem, doomed>>
  BY DEF WalkPop, disk
<1>2. Below(mem, doomed)' = Below(mem, doomed)
  <2>1. Below(mem, doomed)' = Below(mem', doomed')
    BY <1>1, BelowNext
  <2> QED
    BY <1>1, <2>1
<1>3. Leaving'
  BY <1>1, <1>2 DEF CarefulInv, Leaving, Visited, IsDir
<1> QED
  BY <1>1, <1>3 DEF CarefulInv, Standing

\* The first entry of a name has that name.
LEMMA FirstNamedName ==
  ASSUME NEW m, Cache(m), NEW d \in Nodes, NEW nm, \E n \in KidSet(m, d) : m[n].name = nm
  PROVE  m[FirstNamed(m, d, nm)].name = nm
<1> DEFINE s == m[d].kids
           I == {i \in 1 .. Len(s) : m[s[i]].name = nm}
<1>1. s \in Seq(Nodes) /\ Len(s) \in Nat
  BY CacheIs
<1>2. I # {} /\ I \in SUBSET Nat
  <2>1. PICK n \in ToSet(s) : m[n].name = nm
    BY DEF KidSet
  <2>2. PICK i \in 1 .. Len(s) : n = s[i]
    BY <1>1, ToSetIs
  <2> QED
    BY <2>1, <2>2
<1>3. Min(I) \in I
  <2> HIDE DEF I
  <2> QED
    BY <1>2, FirstPlace
<1>4. FirstNamed(m, d, nm) = s[Min(I)]
  BY <1>2 DEF FirstNamed, SelectInSeq
<1> QED
  BY <1>3, <1>4

\* The path from the parent of a node leads back to it.
LEMMA SelfPath ==
  ASSUME NEW m, Held(m), NEW d \in Cached(m) \ {Root}, ~Unread(m, d)
  PROVE  ParseFrom(m, m[d].parent, <<m[d].name>>) = [at |-> d, m |-> m, out |-> "ok"]
<1> DEFINE e == m[d].parent
           nm == m[d].name
           nms == <<nm>>
           r == [at |-> e, m |-> m, out |-> "ok"]
<1>1. e \in Nodes /\ d \in KidSet(m, e) /\ e # Freed /\ Cache(m)
  BY ParentHolds, HeldKids, NodesAssumption DEF Held
<1>2. m[e].dots /\ Proper(nm)
  BY <1>1, KidIs DEF Held
<1>3. FirstNamed(m, e, nm) = d
  <2>1. /\ FirstNamed(m, e, nm) \in KidSet(m, e)
        /\ m[FirstNamed(m, e, nm)].name = nm
    BY <1>1, FirstNamedIs, FirstNamedName
  <2> QED
    BY <1>1, <1>2, <2>1, VisitedIs DEF Held
<1>4. Has(m, e, nm) /\ nm # Here /\ nm # Up
  BY <1>1, <1>2 DEF Has, Proper
<1>5. Step(r, nm, TRUE) = [r EXCEPT !.at = d]
  BY <1>3, <1>4 DEF Step
<1>6. Len(nms) = 1 /\ nms[1] = nm /\ Len(nms) \in Nat
  OBVIOUS
<1> HIDE DEF nms, r
<1>7. PICK w : Steps(m, e, nms, w)
  BY <1>1, <1>6, ParseRun
<1>8. ParseFrom(m, e, nms) = Step(r, nm, TRUE)
  <2>1. ParseFrom(m, e, nms) = w[1] /\ w[0] = r
    BY <1>6, <1>7 DEF Steps, r
  <2>2. w[1] = Step(w[0], nm, TRUE)
    <3>1. 1 \in 1 .. Len(nms) /\ 1 - 1 = 0
      BY <1>6
    <3>2. w[1] = Step(w[0], nms[1], 1 = Len(nms))
      BY <1>7, <3>1 DEF Steps
    <3> QED
      BY <1>6, <3>2
  <2> QED
    BY <2>1, <2>2
<1>9. [r EXCEPT !.at = d] = [at |-> d, m |-> m, out |-> "ok"]
  BY DEF r
<1> QED
  BY <1>5, <1>8, <1>9 DEF nms

LEMMA CarefulWalkDown ==
  ASSUME Inv, CarefulInv, WalkDown
  PROVE  CarefulInv'
<1> SUFFICES ASSUME careful' PROVE CarefulInv'
  BY DEF CarefulInv
<1>1. /\ careful /\ phase = "walking" /\ walk # <<>>
      /\ UNCHANGED <<kind, dev, rootBlocks, cur, doomed>>
  BY DEF WalkDown, disk
<1>2. Device /\ Ready(mem)
  BY <1>1, ReadyIs
<1>3. OnTheWay
  BY <1>1 DEF Inv, WalkOK
<1> DEFINE d == Head(walk)
           r == ParseFrom(mem, mem[d].parent, <<mem[d].name>>)
<1>4. d \in ToSet(walk)
  <2>1. walk \in Seq(Nodes) /\ Len(walk) \in Nat /\ Len(walk) # 0
    BY <1>1, <1>3 DEF OnTheWay
  <2>2. d = walk[1] /\ 1 \in 1 .. Len(walk)
    BY <2>1
  <2> QED
    BY <2>1, <2>2, InList
<1>5. IsDir(d) /\ d \in Below(mem, doomed)
  BY <1>3, <1>4 DEF OnTheWay
<1>6. d \in Cached(mem) \ {Root} /\ d \in Nodes
  BY <1>3, <1>5, BelowCached DEF Inv, CacheOK, OnTheWay, Cached
<1>7. ~Unread(mem, d)
  BY <1>1, <1>5 DEF CarefulInv, Leaving, Visited, Unread
<1>8. r = [at |-> d, m |-> mem, out |-> "ok"]
  BY <1>2, <1>6, <1>7, SelfPath DEF Ready
<1>9. mem' = mem /\ phase' = "popping"
  <2>1. mem' = r.m /\ phase' = IF r.out = "astray" THEN "astray" ELSE "popping"
    BY DEF WalkDown
  <2> HIDE DEF r
  <2> QED
    BY <1>8, <2>1
<1>10. Below(mem, doomed)' = Below(mem, doomed)
  <2>1. Below(mem, doomed)' = Below(mem', doomed')
    BY <1>1, BelowNext
  <2> QED
    BY <1>1, <1>9, <2>1
<1>11. Leaving'
  BY <1>1, <1>9, <1>10 DEF CarefulInv, Leaving, Visited, IsDir
<1> QED
  BY <1>1, <1>9, <1>11 DEF CarefulInv, Standing

----------------------------------------------------------------------------
(* Lists without repetition.                                               *)

LEMMA AppendDistinct ==
  ASSUME NEW S, NEW s \in Seq(S), Distinct(s), NEW e \in S, e \notin ToSet(s)
  PROVE  Distinct(Append(s, e))
<1> DEFINE w == Append(s, e)
<1>1. Len(w) = Len(s) + 1 /\ Len(s) \in Nat
  OBVIOUS
<1>2. \A i \in 1 .. Len(s) + 1 : w[i] = IF i = Len(s) + 1 THEN e ELSE s[i]
  OBVIOUS
<1>3. \A i \in 1 .. Len(s) : s[i] # e
  BY InList
<1> HIDE DEF w
<1>4. ASSUME NEW i \in 1 .. Len(w), NEW j \in 1 .. Len(w), w[i] = w[j] PROVE i = j
  <2>1. i \in 1 .. Len(s) + 1 /\ j \in 1 .. Len(s) + 1
    BY <1>1
  <2>2. CASE i = Len(s) + 1
    <3> SUFFICES ASSUME j # Len(s) + 1 PROVE FALSE
      BY <2>2
    <3>1. j \in 1 .. Len(s)
      BY <1>1, <2>1
    <3> QED
      BY <1>2, <1>3, <1>4, <2>1, <2>2, <3>1
  <2>3. CASE i # Len(s) + 1
    <3>1. i \in 1 .. Len(s)
      BY <1>1, <2>1, <2>3
    <3>2. w[i] = s[i]
      BY <1>2, <2>1, <2>3
    <3>3. j # Len(s) + 1
      BY <1>2, <1>3, <1>4, <2>1, <3>1, <3>2
    <3>4. j \in 1 .. Len(s) /\ w[j] = s[j]
      BY <1>1, <1>2, <2>1, <3>3
    <3> QED
      BY <1>4, <3>1, <3>2, <3>4 DEF Distinct
  <2> QED
    BY <2>2, <2>3
<1> QED
  BY <1>4 DEF Distinct, w

\* What stays of a list, exactly.
LEMMA OnlyExact ==
  ASSUME NEW S, NEW s \in Seq(S), Distinct(s), NEW A
  PROVE  ToSet(Only(s, A)) = ToSet(s) \cap A /\ Distinct(Only(s, A))
<1> DEFINE R == Len(s)
           Head1(i) == {s[j] : j \in 1 .. i} \cap A
           Part(u, i) == u \in Seq(S) /\ ToSet(u) = Head1(i) /\ Distinct(u)
<1>1. R \in Nat
  OBVIOUS
<1>2. PICK w : /\ Only(s, A) = w[Len(s)]
               /\ w[0] = <<>>
               /\ \A i \in 1 .. Len(s) :
                    w[i] = IF s[i] \in A THEN Append(w[i - 1], s[i]) ELSE w[i - 1]
  BY OnlyRun
<1> DEFINE D == {i \in 0 .. R : Part(w[i], i)}
<1>3. 0 \in D
  <2>1. <<>> \in Seq(S) /\ Len(<<>>) = 0 /\ ToSet(<<>>) = {} /\ 1 .. 0 = {}
    BY DEF ToSet
  <2>2. Head1(0) = {}
    BY <2>1
  <2>3. Distinct(<<>>)
    BY <2>1 DEF Distinct
  <2>4. Part(w[0], 0)
    BY <1>2, <2>1, <2>2, <2>3
  <2> QED
    BY <1>1, <2>4
<1>4. ASSUME NEW i \in 1 .. R, i - 1 \in D PROVE i \in D
  <2> DEFINE u == w[i - 1]
             H == Head1(i - 1)
  <2>1. u \in Seq(S) /\ ToSet(u) = H /\ Distinct(u)
    BY <1>4
  <2>2. w[i] = (IF s[i] \in A THEN Append(u, s[i]) ELSE u) /\ s[i] \in S
    BY <1>2, InList
  <2>3. 1 .. i = (1 .. i - 1) \cup {i} /\ i \in 0 .. R
    BY <1>1
  <2>4. Head1(i) = H \cup ({s[i]} \cap A)
    BY <2>3
  <2>5. s[i] \notin H
    <3>1. ASSUME NEW j \in 1 .. i - 1 PROVE s[i] # s[j]
      <4>1. j \in 1 .. Len(s) /\ i \in 1 .. Len(s) /\ j # i
        BY <1>1
      <4> QED
        BY <4>1 DEF Distinct
    <3> QED
      BY <3>1
  <2> HIDE DEF u, H
  <2>6. CASE s[i] \in A
    <3>1. /\ w[i] \in Seq(S) /\ ToSet(w[i]) = ToSet(u) \cup {s[i]}
      BY <2>1, <2>2, <2>6, AppendIs
    <3>2. Distinct(w[i])
      BY <2>1, <2>2, <2>5, <2>6, AppendDistinct
    <3>3. ToSet(w[i]) = Head1(i)
      BY <2>1, <2>4, <2>6, <3>1
    <3> HIDE DEF Head1
    <3> QED
      BY <2>3, <3>1, <3>2, <3>3
  <2>7. CASE s[i] \notin A
    <3>1. Head1(i) = H
      BY <2>4, <2>7
    <3>2. w[i] = u
      BY <2>2, <2>7
    <3> HIDE DEF Head1
    <3> QED
      BY <2>1, <2>3, <3>1, <3>2
  <2> QED
    BY <2>6, <2>7
<1>5. R \in D
  <2> HIDE DEF D
  <2>1. 0 .. R \subseteq D
    BY <1>1, <1>3, <1>4, Climb
  <2> QED
    BY <1>1, <2>1
<1>6. Head1(R) = ToSet(s) \cap A
  BY ToSetIs
<1> QED
  BY <1>2, <1>5, <1>6

LEMMA RemoveFirstExact ==
  ASSUME NEW S, NEW s \in Seq(S), Distinct(s), NEW e \in ToSet(s)
  PROVE  ToSet(RemoveFirst(s, e)) = ToSet(s) \ {e} /\ Distinct(RemoveFirst(s, e))
<1> DEFINE I == {i \in 1 .. Len(s) : s[i] = e}
           x == Min(I)
           u == SubSeq(s, 1, x - 1)
           v == SubSeq(s, x + 1, Len(s))
<1>0. Len(s) \in Nat /\ ToSet(s) = {s[i] : i \in 1 .. Len(s)}
  BY ToSetIs
<1>1. \E i \in 1 .. Len(s) : s[i] = e
  BY <1>0
<1>2. RemoveFirst(s, e) = u \o v
  BY <1>1 DEF RemoveFirst, RemoveAt, SelectInSeq
<1>3. x \in 1 .. Len(s) /\ s[x] = e
  <2>1. I \in SUBSET Nat /\ I # {}
    BY <1>1
  <2>2. x \in I
    <3> HIDE DEF I
    <3> QED
      BY <2>1, FirstPlace
  <2> QED
    BY <2>2
<1> HIDE DEF x
<1> DEFINE w == u \o v
<1>4. /\ u \in Seq(S) /\ Len(u) = x - 1 /\ \A i \in 1 .. x - 1 : u[i] = s[i]
  BY <1>0, <1>3
<1>5. /\ v \in Seq(S) /\ Len(v) = Len(s) - x /\ \A i \in 1 .. Len(s) - x : v[i] = s[i + x]
  BY <1>0, <1>3
<1> HIDE DEF u, v
<1>6. /\ w \in Seq(S) /\ Len(w) = Len(s) - 1
      /\ \A i \in 1 .. Len(s) - 1 : w[i] = IF i <= x - 1 THEN u[i] ELSE v[i - (x - 1)]
  <2>1. u \in Seq(S) /\ v \in Seq(S) /\ Len(u) \in Nat /\ Len(v) \in Nat
    BY <1>4, <1>5
  <2>2. /\ w \in Seq(S) /\ Len(w) = Len(u) + Len(v)
        /\ \A i \in 1 .. Len(u) + Len(v) : w[i] = IF i <= Len(u) THEN u[i] ELSE v[i - Len(u)]
    BY <2>1
  <2>3. Len(u) + Len(v) = Len(s) - 1 /\ Len(u) = x - 1
    BY <1>0, <1>3, <1>4, <1>5
  <2> HIDE DEF w
  <2> QED
    BY <2>2, <2>3
<1> HIDE DEF w
<1>7. ASSUME NEW i \in 1 .. Len(s) - 1
      PROVE  w[i] = IF i <= x - 1 THEN s[i] ELSE s[i + 1]
  <2>1. CASE i <= x - 1
    BY <1>0, <1>3, <1>4, <1>6, <1>7, <2>1
  <2>2. CASE ~(i <= x - 1)
    <3>1. i - (x - 1) \in 1 .. Len(s) - x /\ (i - (x - 1)) + x = i + 1
      BY <1>0, <1>3, <2>2
    <3>2. w[i] = v[i - (x - 1)]
      BY <1>6, <2>2
    <3>3. v[i - (x - 1)] = s[(i - (x - 1)) + x]
      BY <1>5, <3>1
    <3> QED
      BY <2>2, <3>1, <3>2, <3>3
  <2> QED
    BY <2>1, <2>2
<1> DEFINE p(i) == IF i <= x - 1 THEN i ELSE i + 1
<1>8. ASSUME NEW i \in 1 .. Len(s) - 1
      PROVE  p(i) \in 1 .. Len(s) /\ p(i) # x /\ w[i] = s[p(i)]
  BY <1>0, <1>3, <1>7
<1>9. Distinct(w)
  <2> SUFFICES ASSUME NEW i \in 1 .. Len(s) - 1, NEW j \in 1 .. Len(s) - 1, w[i] = w[j] PROVE i = j
    BY <1>6 DEF Distinct
  <2>1. p(i) \in 1 .. Len(s) /\ p(j) \in 1 .. Len(s) /\ s[p(i)] = s[p(j)]
    BY <1>8
  <2>2. p(i) = p(j)
    <3> HIDE DEF p
    <3> QED
      BY <2>1 DEF Distinct
  <2> QED
    BY <1>0, <1>3, <2>2
<1>10. ToSet(w) = {w[i] : i \in 1 .. Len(s) - 1}
  <2>1. ToSet(w) = {w[i] : i \in 1 .. Len(w)}
    BY <1>6, ToSetIs
  <2> QED
    BY <1>6, <2>1
<1>11. ASSUME NEW y \in ToSet(w) PROVE y \in ToSet(s) /\ y # e
  <2>1. PICK i \in 1 .. Len(s) - 1 : y = w[i]
    BY <1>10
  <2>2. p(i) \in 1 .. Len(s) /\ p(i) # x /\ y = s[p(i)]
    BY <1>8, <2>1
  <2> HIDE DEF p
  <2>3. y # e
    BY <1>3, <2>2 DEF Distinct
  <2> QED
    BY <1>0, <2>2, <2>3
<1>12. ASSUME NEW y \in ToSet(s), y # e PROVE y \in ToSet(w)
  <2>1. PICK j \in 1 .. Len(s) : y = s[j]
    BY <1>0
  <2>2. j # x
    BY <1>3, <1>12, <2>1
  <2>3. CASE j < x
    <3>1. j \in 1 .. Len(s) - 1 /\ p(j) = j
      BY <1>0, <1>3, <2>3
    <3>2. w[j] = y
      BY <1>8, <2>1, <3>1
    <3> QED
      BY <1>10, <3>1, <3>2
  <2>4. CASE j > x
    <3>1. j - 1 \in 1 .. Len(s) - 1 /\ p(j - 1) = j
      BY <1>0, <1>3, <2>4
    <3>2. w[j - 1] = y
      BY <1>8, <2>1, <3>1
    <3> QED
      BY <1>10, <3>1, <3>2
  <2> QED
    BY <1>3, <2>2, <2>3, <2>4
<1>13. ToSet(w) = ToSet(s) \ {e}
  BY <1>11, <1>12
<1> QED
  BY <1>2, <1>9, <1>13 DEF w

LEMMA DroppedExact ==
  ASSUME NEW S, NEW s \in Seq(S), Distinct(s), NEW n
  PROVE  ToSet(Dropped(s, n)) = ToSet(s) \ {n} /\ Distinct(Dropped(s, n))
<1>1. /\ ToSet(Only(s, ToSet(s) \ {n})) = ToSet(s) \cap (ToSet(s) \ {n})
      /\ Distinct(Only(s, ToSet(s) \ {n}))
  BY OnlyExact
<1> QED
  BY <1>1 DEF Dropped

----------------------------------------------------------------------------
(* mkdir and touch.                                                        *)

LEMMA ReadWellSame ==
  ASSUME NEW m, NEW w, NEW e, ReadWell(m, e), w[e].kids = m[e].kids,
         \A x \in KidSet(m, e) : w[x].name = m[x].name /\ w[x].parent = m[x].parent
  PROVE  ReadWell(w, e)
<1>1. KidSet(w, e) = KidSet(m, e)
  BY DEF KidSet
<1> QED
  BY <1>1 DEF ReadWell

\* The records of node e in two caches, but for the list.
Alike(x, y) == x.name = y.name /\ x.parent = y.parent /\ x.dots = y.dots

\* w is m with the new node n, of record x, in the directory d.
Makes(m, w, d, n, x) ==
  /\ Cache(w)
  /\ w[n] = x
  /\ w[d].kids = Append(m[d].kids, n)
  /\ \A e \in Nodes \ {n} : Alike(w[e], m[e])
  /\ \A e \in Nodes \ {n, d} : w[e] = m[e]

LEMMA MakesIs ==
  ASSUME NEW m, Cache(m), NEW d \in Cached(m), NEW n \in Nodes \ {Root}, n # d, NEW x \in Rec,
         x.parent = d, x.kids = <<>>, Len(m[d].kids) < MaxKids, NEW w,
         w = [m EXCEPT ![d].kids = Append(@, n), ![n] = x]
  PROVE  Makes(m, w, d, n, x)
<1> DEFINE y == [m[d] EXCEPT !.kids = Append(m[d].kids, n)]
           l == [m EXCEPT ![d] = y]
<1>1. d \in Nodes /\ m \in [Nodes -> Rec] /\ m[d] \in Rec /\ m[d].kids \in Seq(Nodes)
  BY CacheIs DEF Cached, Cache
<1>2. Append(m[d].kids, n) \in Seq(Nodes)
  BY <1>1
<1>3. y \in Rec /\ y.kids = Append(m[d].kids, n) /\ Alike(y, m[d])
  BY <1>1, <1>2, SetKids DEF Alike
<1>4. w = [l EXCEPT ![n] = x]
  OBVIOUS
<1>5. l \in [Nodes -> Rec] /\ l[d] = y /\ \A e \in Nodes \ {d} : l[e] = m[e]
  <2> HIDE DEF y
  <2> QED
    BY <1>1, <1>3
<1>6. Cache(w)
  BY MadeIs
<1> HIDE DEF y, l
<1>7. w[n] = x /\ \A e \in Nodes \ {n} : w[e] = l[e]
  BY <1>4, <1>5
<1>8. \A e \in Nodes \ {n} : Alike(w[e], m[e])
  BY <1>3, <1>5, <1>7 DEF Alike
<1> QED
  BY <1>1, <1>3, <1>5, <1>6, <1>7, <1>8 DEF Makes

\* What is new, seen by its sets.
LEMMA MakesSets ==
  ASSUME NEW m, Cache(m), NEW d \in Nodes, NEW n \in Nodes \ {Root}, n # d, n \notin Cached(m), NEW x \in Rec,
         x.parent = d, x.kids = <<>>, NEW w, Makes(m, w, d, n, x)
  PROVE  /\ KidSet(w, d) = KidSet(m, d) \cup {n} /\ KidSet(w, n) = {}
         /\ \A e \in Nodes \ {n, d} : KidSet(w, e) = KidSet(m, e)
         /\ Cached(w) = Cached(m) \cup {n}
<1>1. KidSet(w, d) = KidSet(m, d) \cup {n}
  <2>1. m[d].kids \in Seq(Nodes)
    BY CacheIs
  <2>2. ToSet(Append(m[d].kids, n)) = ToSet(m[d].kids) \cup {n}
    BY <2>1, AppendIs
  <2> QED
    BY <2>2 DEF KidSet, Makes
<1>2. KidSet(w, n) = {}
  <2>1. w[n].kids = <<>>
    BY DEF Makes
  <2> QED
    BY <2>1 DEF KidSet, ToSet
<1>3. \A e \in Nodes \ {n, d} : KidSet(w, e) = KidSet(m, e)
  BY DEF KidSet, Makes
<1>4. Cached(w) = Cached(m) \cup {n}
  <2> SUFFICES ASSUME NEW e \in Nodes PROVE e \in Cached(w) <=> e \in Cached(m) \cup {n}
    BY DEF Cached
  <2>1. CASE e = n
    BY <2>1, NodesAssumption DEF Cached, Makes
  <2>2. CASE e # n
    <3>1. w[e].parent = m[e].parent
      BY <2>2 DEF Makes, Alike
    <3> QED
      BY <2>2, <3>1 DEF Cached
  <2> QED
    BY <2>1, <2>2
<1> QED
  BY <1>1, <1>2, <1>3, <1>4

\* The new list.
LEMMA MadeReadWell ==
  ASSUME NEW m, NEW k, NEW v, Tidy(m, k, v), NEW d \in Nodes, m[d].dots,
         NEW n \in Nodes \ {Root}, n # d, n \notin Cached(m), NEW x \in Rec,
         x.parent = d, x.kids = <<>>, Proper(x.name), \A e \in KidSet(m, d) : m[e].name # x.name,
         NEW w, Makes(m, w, d, n, x)
  PROVE  ReadWell(w, d)
<1>1. /\ Distinct(m[d].kids)
      /\ \A z \in KidSet(m, d) : m[z].parent = d /\ Proper(m[z].name)
      /\ \A a, b \in KidSet(m, d) : m[a].name = m[b].name => a = b
  BY VisitedIs
<1>2. Cache(m)
  BY DEF Tidy
<1>3. n \notin KidSet(m, d) /\ KidSet(m, d) \subseteq Nodes /\ m[d].kids \in Seq(Nodes)
  BY <1>2, CacheIs
<1>4. KidSet(w, d) = KidSet(m, d) \cup {n}
  BY <1>2, MakesSets
<1>5. Distinct(w[d].kids)
  <2>1. n \notin ToSet(m[d].kids)
    BY <1>3 DEF KidSet
  <2>2. Distinct(Append(m[d].kids, n))
    BY <1>1, <1>3, <2>1, AppendDistinct
  <2> QED
    BY <2>2 DEF Makes
<1>6. /\ w[n].name = x.name /\ w[n].parent = d
      /\ \A z \in KidSet(m, d) : w[z].name = m[z].name /\ w[z].parent = m[z].parent
  BY <1>3 DEF Makes, Alike
<1>7. ASSUME NEW z \in KidSet(w, d) PROVE w[z].parent = d /\ Proper(w[z].name)
  BY <1>1, <1>4, <1>6, <1>7
<1>8. ASSUME NEW a \in KidSet(w, d), NEW b \in KidSet(w, d), w[a].name = w[b].name PROVE a = b
  <2>1. CASE a = n \/ b = n
    BY <1>4, <1>6, <1>8, <2>1
  <2>2. CASE a # n /\ b # n
    <3>1. a \in KidSet(m, d) /\ b \in KidSet(m, d) /\ m[a].name = m[b].name
      BY <1>4, <1>6, <1>8, <2>2
    <3> QED
      BY <1>1, <3>1
  <2> QED
    BY <2>1, <2>2
<1> QED
  BY <1>5, <1>7, <1>8 DEF ReadWell

\* kk is k with n of kind c; vv is v but for n.
Kinded(k, kk, v, vv, n, c) ==
  kk[n] = c /\ \A e \in Nodes \ {n} : kk[e] = k[e] /\ vv[e] = v[e]

\* A new node n, of kind c, in the directory d.
LEMMA TidyMade ==
  ASSUME NEW m, NEW k, NEW v, Tidy(m, k, v), NEW d \in Nodes, m[d].dots,
         NEW n \in Nodes, k[n] = "free", n # Root, k[Root] # "free", n # d, n \notin Cached(m),
         NEW c \in {"file", "dir"}, NEW x \in Rec, x.parent = d, x.kids = <<>>, Proper(x.name),
         x.dots <=> c = "dir", \A e \in KidSet(m, d) : m[e].name # x.name,
         NEW w, Makes(m, w, d, n, x), NEW kk, NEW vv, Kinded(k, kk, v, vv, n, c)
  PROVE  Tidy(w, kk, vv)
<1>1. /\ Cache(m) /\ m[Root].parent = NoNode /\ Cached(m) \subseteq Real(k)
      /\ Tree(Holds(m, k, v), Real(k))
  BY DEF Tidy
<1>2. d \in Cached(m) /\ k[d] = "dir"
  BY VisitedIs
<1>9. /\ KidSet(w, d) = KidSet(m, d) \cup {n} /\ KidSet(w, n) = {}
      /\ \A e \in Nodes \ {n, d} : KidSet(w, e) = KidSet(m, e)
      /\ Cached(w) = Cached(m) \cup {n}
  BY <1>1, MakesSets
<1>12. Real(kk) = Real(k) \cup {n}
  BY DEF Real, Kinded
<1>13. w[Root].parent = NoNode
  BY <1>1, NodesAssumption DEF Makes, Alike
<1>14. \A e \in Nodes \ {n} : w[e].name = m[e].name /\ w[e].parent = m[e].parent
                              /\ w[e].dots = m[e].dots
  BY DEF Makes, Alike
<1>15. ASSUME NEW e \in Nodes, w[e].dots
       PROVE  e \in Cached(w) /\ kk[e] = "dir" /\ ReadWell(w, e)
  <2>1. CASE e = n
    <3>1. w[e].kids = <<>> /\ KidSet(w, e) = {} /\ c = "dir"
      BY <1>9, <1>15, <2>1 DEF Makes
    <3>2. Distinct(w[e].kids)
      BY <3>1 DEF Distinct
    <3>3. ReadWell(w, e)
      BY <3>1, <3>2 DEF ReadWell
    <3> QED
      BY <1>9, <2>1, <3>1, <3>3 DEF Kinded
  <2>2. CASE e = d
    <3>1. ReadWell(w, d)
      BY MadeReadWell
    <3> QED
      BY <1>2, <1>9, <2>2, <3>1 DEF Kinded
  <2>3. CASE e # n /\ e # d
    <3>1. m[e].dots /\ w[e].kids = m[e].kids
      BY <1>15, <2>3 DEF Makes
    <3>2. e \in Cached(m) /\ kk[e] = "dir" /\ ReadWell(m, e)
      BY <2>3, <3>1 DEF Tidy, Kinded
    <3>3. \A z \in KidSet(m, e) : z \in Nodes \ {n}
      BY <1>1, CacheIs
    <3>4. \A z \in KidSet(m, e) : w[z].name = m[z].name /\ w[z].parent = m[z].parent
      BY <1>14, <3>3
    <3>5. ReadWell(w, e)
      BY <3>1, <3>2, <3>4, ReadWellSame
    <3> QED
      BY <1>9, <3>2, <3>5
  <2> QED
    BY <2>1, <2>2, <2>3
<1>16. ASSUME NEW e \in Nodes, ~w[e].dots
       PROVE  /\ w[e].kids = <<>>
              /\ kk[e] = "dir" => StoredWell(vv[e]) /\ StoredKids(vv[e]) \cap Cached(w) = {}
  <2>1. CASE e = n
    BY <1>16, <2>1 DEF Makes, Kinded
  <2>2. CASE e # n
    <3>1. ~m[e].dots /\ e # d /\ w[e] = m[e] /\ vv[e] = v[e] /\ kk[e] = k[e]
      BY <1>14, <1>16, <2>2 DEF Makes, Kinded
    <3>2. /\ m[e].kids = <<>>
          /\ k[e] = "dir" => /\ StoredWell(v[e])
                             /\ StoredKids(v[e]) \cap Cached(m) = {}
                             /\ Holds(m, k, v)[e] = StoredKids(v[e])
      BY <3>1, UnvisitedIs
    <3>3. Holds(m, k, v)[e] \subseteq Real(k)
      BY <1>1 DEF Tree
    <3>4. n \notin Real(k)
      BY DEF Real
    <3> QED
      BY <1>9, <3>1, <3>2, <3>3, <3>4
  <2> QED
    BY <2>1, <2>2
<1>17. ASSUME NEW e \in Nodes
       PROVE  Holds(w, kk, vv)[e] =
                IF e = d THEN Holds(m, k, v)[e] \cup {n} ELSE Holds(m, k, v)[e]
  <2>1. CASE e = n
    <3>1. Holds(m, k, v)[e] = {}
      BY <2>1, HoldsIs
    <3>2. KidSet(w, e) = {} /\ kk[e] = c /\ (w[e].dots <=> c = "dir")
      BY <1>9, <2>1 DEF Makes, Kinded
    <3>3. Holds(w, kk, vv)[e] = {}
      BY <3>2, HoldsIs
    <3> QED
      BY <2>1, <3>1, <3>3
  <2>2. CASE e = d
    <3>1. kk[d] = "dir" /\ w[d].dots
      BY <1>2, <1>14 DEF Kinded
    <3>2. Holds(w, kk, vv)[d] = KidSet(w, d)
      BY <3>1, HoldsIs
    <3>3. Holds(m, k, v)[d] = KidSet(m, d)
      BY VisitedIs
    <3> QED
      BY <1>9, <2>2, <3>2, <3>3
  <2>3. CASE e # n /\ e # d
    <3>1. kk[e] = k[e] /\ vv[e] = v[e] /\ w[e].dots = m[e].dots /\ KidSet(w, e) = KidSet(m, e)
      BY <1>9, <1>14, <2>3 DEF Kinded
    <3> QED
      BY <2>3, <3>1 DEF Holds
  <2> QED
    BY <2>1, <2>2, <2>3
<1>18. Tree(Holds(w, kk, vv), Real(kk))
  <2>0. PICK R : R = Real(k)
    OBVIOUS
  <2>1. R \in SUBSET Nodes /\ d \in R /\ n \in Nodes \ R /\ Root \in R
    BY <1>2, <2>0, NodesAssumption DEF Real
  <2>2. PICK V : V = Holds(m, k, v)
    OBVIOUS
  <2>3. PICK W : W = Holds(w, kk, vv)
    OBVIOUS
  <2>4. Leafed(V, W, d, n)
    BY <1>17, <2>2, <2>3 DEF Leafed
  <2>5. Tree(V, R)
    BY <1>1, <2>0, <2>2
  <2>6. Tree(W, R \cup {n})
    BY <2>1, <2>4, <2>5, TreeAdd
  <2> QED
    BY <1>12, <2>0, <2>3, <2>6
<1>19. Cache(w) /\ Cached(w) \subseteq Real(kk)
  BY <1>1, <1>9, <1>12 DEF Makes
<1> QED
  BY <1>13, <1>15, <1>16, <1>18, <1>19 DEF Tidy

LEMMA CarefulMake ==
  ASSUME Inv, CarefulInv, NEW p \in Paths, NEW c \in {"file", "dir"}, NEW n \in Nodes,
         Make(p, c, n)
  PROVE  CarefulInv'
<1> SUFFICES ASSUME careful' PROVE CarefulInv'
  BY DEF CarefulInv
<1> DEFINE r == ParentOf(mem, p)
           d == r.at
           nm == LastName(p)
           x == [name |-> nm, parent |-> d, kids |-> <<>>, dots |-> (c = "dir")]
<1>1. /\ phase = "up" /\ n \in Free /\ Len(r.m[d].kids) < MaxKids /\ ~Has(r.m, d, nm)
      /\ mem' = [r.m EXCEPT ![d].kids = Append(@, n), ![n] = x]
      /\ careful /\ IsDir(d) /\ nm # Nameless /\ nm \notin {Here, Up}
      /\ kind' = [kind EXCEPT ![n] = c]
      /\ dev' = [dev EXCEPT ![n] = Empty]
      /\ UNCHANGED <<phase, rootBlocks, cur>>
  BY DEF Make
<1>2. Device /\ Ready(mem) /\ Kinds
  BY <1>1, ReadyIs DEF Inv, DiskOK
<1>3. Reached(mem, r) /\ Ready(r.m)
  BY <1>2, ParseReady
<1>5. nm \in Words /\ Proper(nm)
  BY <1>1, NamesIs DEF Proper
<1> HIDE DEF r, nm
<1>6. d \in Nodes /\ r.m[d].dots /\ Held(r.m) /\ Cache(r.m) /\ d \in Cached(r.m)
  BY <1>1, <1>3, ReachedIs
<1>7. \A e \in KidSet(r.m, d) : r.m[e].name # nm
  BY <1>1 DEF Has
<1>8. x \in Rec /\ x.parent = d /\ x.kids = <<>> /\ x.name = nm /\ (x.dots <=> c = "dir")
  <2>1. d \in Nodes \cup {NoNode, Freed} /\ <<>> \in Seq(Nodes) /\ (c = "dir") \in BOOLEAN
    BY <1>6
  <2> QED
    BY <1>5, <2>1 DEF Rec
<1> HIDE DEF x, d
<1>4. /\ kind[n] = "free" /\ kind[Root] = "dir" /\ kind[cur] = "dir" /\ n # Root /\ n # cur
      /\ kind[d] = "dir" /\ n # d /\ n \notin Cached(r.m)
  <2>1. kind[n] = "free" /\ kind[Root] = "dir" /\ kind[d] = "dir"
    BY <1>1, <1>2 DEF Free, Kinds, IsDir
  <2>2. kind[cur] = "dir"
    BY <1>3, VisitedIs DEF Ready, Held
  <2>3. Cached(r.m) \subseteq Real(kind)
    BY <1>6 DEF Held, Tidy
  <2> QED
    BY <2>1, <2>2, <2>3 DEF Real
<1>9. PICK w : w = mem'
  OBVIOUS
<1>10. Makes(r.m, w, d, n, x)
  <2>1. n \in Nodes \ {Root} /\ n # d /\ Len(r.m[d].kids) < MaxKids
    BY <1>1, <1>4
  <2>2. w = [r.m EXCEPT ![d].kids = Append(@, n), ![n] = x]
    BY <1>1, <1>9
  <2> QED
    BY <1>6, <1>8, <2>1, <2>2, MakesIs
<1>11. PICK kk : kk = kind'
  OBVIOUS
<1>12. PICK vv : vv = dev'
  OBVIOUS
<1>13. Kinded(kind, kk, dev, vv, n, c)
  BY <1>1, <1>2, <1>11, <1>12 DEF Kinded, Kinds, Device
<1>14. Tidy(w, kk, vv)
  <2>1. Tidy(r.m, kind, dev)
    BY <1>6 DEF Held
  <2>2. kind[Root] # "free" /\ Proper(x.name)
    BY <1>4, <1>5, <1>8
  <2>3. \A e \in KidSet(r.m, d) : r.m[e].name # x.name
    BY <1>7, <1>8
  <2> QED
    BY <1>4, <1>6, <1>8, <1>10, <1>13, <2>1, <2>2, <2>3, TidyMade
<1>15. Tidy(mem', kind', dev')
  BY <1>9, <1>11, <1>12, <1>14
<1>16. Standing'
  <2>1. w[Root].dots = r.m[Root].dots /\ w[cur].dots = r.m[cur].dots
    BY <1>3, <1>4, <1>10, NodesAssumption DEF Makes, Alike, Ready
  <2> QED
    BY <1>1, <1>3, <1>9, <2>1 DEF Standing, Ready
<1> QED
  BY <1>1, <1>2, <1>15, <1>16 DEF CarefulInv, Leaving

----------------------------------------------------------------------------
(* rm and rmdir.                                                           *)

\* The nodes S are s and all below it, read to the bottom; h is the directory with s.
Branch(m, S, s, h) ==
  /\ S \in SUBSET (Cached(m) \ {Root}) /\ s \in S
  /\ h \in Cached(m) \ S /\ m[h].dots /\ s \in KidSet(m, h)
  /\ \A e \in S : KidSet(m, e) \subseteq S
  /\ \A e \in S : IsDir(e) => m[e].dots
  /\ \A e \in Nodes \ S : \A x \in KidSet(m, e) : x \in S => e = h /\ x = s
  /\ \A e \in Nodes \ S : m[e].parent \notin S

\* w is m without the nodes S, and with another list in h.
Cuts(m, w, S, h, list) ==
  /\ Cache(w) /\ Cached(w) = Cached(m) \ S
  /\ \A e \in S : w[e] = Blank
  /\ \A e \in Nodes \ S : Alike(w[e], m[e]) /\ w[e].kids = IF e = h THEN list ELSE m[e].kids

LEMMA WithoutAlike ==
  ASSUME NEW m, Cache(m), NEW S \in SUBSET Nodes, NEW h \in Nodes, NEW list \in Seq(Nodes),
         NEW e \in Nodes \ S, m[e].parent \notin S
  PROVE  /\ Alike(Without(m, S, h, list)[e], m[e])
         /\ Without(m, S, h, list)[e].kids = IF e = h THEN list ELSE m[e].kids
<1> DEFINE K == IF e = h THEN list ELSE m[e].kids
           P == m[e].parent
           y == [m[e] EXCEPT !.kids = K]
<1>1. m[e] \in Rec /\ K \in Seq(Nodes) /\ P \in Nodes \cup {NoNode, Freed}
  BY CacheIs, RecIs
<1>2. Without(m, S, h, list)[e] = [m[e] EXCEPT !.kids = K, !.parent = P]
  BY DEF Without
<1>3. Without(m, S, h, list)[e] = [y EXCEPT !.parent = P]
  BY <1>2
<1>k. K = IF e = h THEN list ELSE m[e].kids
  OBVIOUS
<1> HIDE DEF K
<1>4. y \in Rec /\ y.kids = K /\ y.name = m[e].name /\ y.dots = m[e].dots
  BY <1>1, SetKids
<1> HIDE DEF y
<1>5. /\ [y EXCEPT !.parent = P].parent = P /\ [y EXCEPT !.parent = P].kids = K
      /\ [y EXCEPT !.parent = P].name = m[e].name /\ [y EXCEPT !.parent = P].dots = m[e].dots
  BY <1>1, <1>4, SetParent
<1> QED
  BY <1>3, <1>5, <1>k DEF Alike

\* Nothing dangles when a branch goes.
LEMMA CutsIs ==
  ASSUME NEW m, Cache(m), NEW S, NEW s, NEW h, Branch(m, S, s, h), NEW list \in Seq(Nodes),
         Len(list) <= Len(m[h].kids), ToSet(list) = KidSet(m, h) \ {s}
  PROVE  ~Dangling(Without(m, S, h, list), S) /\ Cuts(m, Without(m, S, h, list), S, h, list)
<1> DEFINE w == Without(m, S, h, list)
<1>1. S \in SUBSET Nodes /\ S \in SUBSET (Nodes \ {Root}) /\ h \in Nodes /\ h \in Cached(m)
  BY DEF Branch, Cached
<1>2. \A e \in S : w[e] = Blank
  BY <1>1 DEF Without
<1>3. ASSUME NEW e \in Nodes \ S
      PROVE  Alike(w[e], m[e]) /\ w[e].kids = IF e = h THEN list ELSE m[e].kids
  <2>1. m[e].parent \notin S
    BY DEF Branch
  <2> QED
    BY <1>1, <2>1, WithoutAlike
<1>4. ~Dangling(w, S)
  <2> SUFFICES ASSUME NEW e \in Nodes \ S, NEW x \in KidSet(w, e), x \in S PROVE FALSE
    BY DEF Dangling
  <2>1. CASE e = h
    <3>1. x \in KidSet(m, h) \ {s}
      BY <1>3, <2>1 DEF KidSet
    <3> QED
      BY <2>1, <3>1 DEF Branch
  <2>2. CASE e # h
    <3>1. x \in KidSet(m, e)
      BY <1>3, <2>2 DEF KidSet
    <3> QED
      BY <2>2, <3>1 DEF Branch
  <2> QED
    BY <2>1, <2>2
<1>5. Cut(m, w, S)
  <2>1. ToSet(list) \subseteq KidSet(m, h)
    OBVIOUS
  <2> QED
    BY <1>1, <1>4, <2>1, WithoutIs
<1> HIDE DEF w
<1>6. Cuts(m, w, S, h, list)
  BY <1>2, <1>3, <1>5 DEF Cut, Cuts
<1> QED
  BY <1>4, <1>6 DEF w

\* The kinds and directories kk, vv are those of now, but for the nodes S set free.
Freeing(kk, vv, S) ==
  /\ \A e \in S : kk[e] = "free"
  /\ \A e \in Nodes \ S : kk[e] = kind[e] /\ vv[e] = dev[e]

\* What is left of a list is still well.
LEMMA FewerWell ==
  ASSUME NEW m, NEW w, NEW d, ReadWell(m, d), Distinct(w[d].kids), KidSet(w, d) \subseteq KidSet(m, d),
         \A n \in KidSet(w, d) : w[n].name = m[n].name /\ w[n].parent = m[n].parent
  PROVE  ReadWell(w, d)
<1>1. \A n \in KidSet(w, d) : n \in KidSet(m, d)
  OBVIOUS
<1> QED
  BY <1>1 DEF ReadWell

LEMMA TidyCut ==
  ASSUME NEW m, Held(m), NEW S, NEW s, NEW h, Branch(m, S, s, h), NEW list,
         Distinct(list), ToSet(list) = KidSet(m, h) \ {s},
         NEW w, Cuts(m, w, S, h, list), NEW kk, NEW vv, Freeing(kk, vv, S)
  PROVE  Tidy(w, kk, vv)
<1>1. /\ Cache(m) /\ m[Root].parent = NoNode /\ Cached(m) \subseteq Real(kind)
      /\ Tree(Holds(m, kind, dev), Real(kind))
  BY DEF Held, Tidy
<1>2. /\ S \in SUBSET Nodes /\ Root \notin S /\ Root \in Nodes /\ h \in Nodes \ S
      /\ S \subseteq Cached(m)
  BY NodesAssumption DEF Branch, Cached
<1>3. KidSet(w, h) = KidSet(m, h) \ {s} /\ KidSet(w, h) \cap S = {}
  <2>1. KidSet(w, h) = ToSet(list)
    BY <1>2 DEF Cuts, KidSet
  <2> QED
    BY <1>2, <2>1 DEF Branch
<1>4. ASSUME NEW e \in Nodes \ S PROVE KidSet(w, e) = KidSet(m, e) \ S
  <2>1. CASE e = h
    <3>1. \A x \in KidSet(m, h) : x \in S => x = s
      BY <1>2 DEF Branch
    <3>2. s \in S
      BY DEF Branch
    <3> QED
      BY <1>3, <2>1, <3>1, <3>2
  <2>2. CASE e # h
    <3>1. KidSet(w, e) = KidSet(m, e)
      BY <2>2 DEF Cuts, KidSet
    <3>2. \A x \in KidSet(m, e) : x \notin S
      BY <2>2 DEF Branch
    <3> QED
      BY <3>1, <3>2
  <2> QED
    BY <2>1, <2>2
<1>5. ASSUME NEW e \in S PROVE ~w[e].dots /\ w[e].kids = <<>> /\ KidSet(w, e) = {}
  <2>1. w[e] = Blank
    BY DEF Cuts
  <2> QED
    BY <2>1, BlankIs DEF KidSet, Blank
<1>6. ASSUME NEW e \in Nodes \ S
      PROVE  w[e].name = m[e].name /\ w[e].parent = m[e].parent /\ w[e].dots = m[e].dots
  BY DEF Cuts, Alike
<1>7. Real(kk) = Real(kind) \ S
  BY <1>2 DEF Freeing, Real
<1>8. Cache(w) /\ Cached(w) = Cached(m) \ S
  BY DEF Cuts
<1>9. w[Root].parent = NoNode
  BY <1>1, <1>2, <1>6
<1>10. ASSUME NEW e \in Nodes, w[e].dots
       PROVE  e \in Cached(w) /\ kk[e] = "dir" /\ ReadWell(w, e)
  <2>1. e \notin S
    BY <1>5, <1>10
  <2>2. m[e].dots
    BY <1>6, <1>10, <2>1
  <2>3. e \in Cached(m) /\ kind[e] = "dir" /\ ReadWell(m, e)
    BY <2>2 DEF Held, Tidy
  <2>4. Distinct(w[e].kids)
    <3>1. CASE e = h
      BY <1>2, <3>1 DEF Cuts
    <3>2. CASE e # h
      BY <2>1, <2>3, <3>2 DEF Cuts, ReadWell
    <3> QED
      BY <3>1, <3>2
  <2>5. KidSet(w, e) = KidSet(m, e) \ S /\ KidSet(m, e) \subseteq Nodes
    BY <1>1, <1>4, <2>1, CacheIs
  <2>6. \A n \in KidSet(w, e) : w[n].name = m[n].name /\ w[n].parent = m[n].parent
    BY <1>6, <2>5
  <2>7. ReadWell(w, e)
    BY <2>3, <2>4, <2>5, <2>6, FewerWell
  <2> QED
    BY <1>8, <2>1, <2>3, <2>7 DEF Freeing
<1>11. ASSUME NEW e \in Nodes, ~w[e].dots
       PROVE  /\ w[e].kids = <<>>
              /\ kk[e] = "dir" => StoredWell(vv[e]) /\ StoredKids(vv[e]) \cap Cached(w) = {}
  <2>1. CASE e \in S
    BY <1>5, <2>1 DEF Freeing
  <2>2. CASE e \notin S
    <3>1. ~m[e].dots /\ kk[e] = kind[e] /\ vv[e] = dev[e]
      BY <1>6, <1>11, <2>2 DEF Freeing
    <3>2. /\ m[e].kids = <<>>
          /\ kind[e] = "dir" => StoredWell(dev[e]) /\ StoredKids(dev[e]) \cap Cached(m) = {}
      BY <3>1, UnvisitedIs DEF Held
    <3>3. e # h
      BY <3>1 DEF Branch
    <3>4. w[e].kids = m[e].kids
      BY <2>2, <3>3 DEF Cuts
    <3> QED
      BY <1>8, <3>1, <3>2, <3>4
  <2> QED
    BY <2>1, <2>2
<1>12. ASSUME NEW e \in Nodes
       PROVE  Holds(w, kk, vv)[e] = IF e \in S THEN {} ELSE Holds(m, kind, dev)[e] \ S
  <2>1. CASE e \in S
    <3>1. kk[e] # "dir"
      BY <2>1 DEF Freeing
    <3> QED
      BY <2>1, <3>1, HoldsIs
  <2>2. CASE e \notin S
    <3>1. kk[e] = kind[e] /\ vv[e] = dev[e] /\ w[e].dots = m[e].dots /\ KidSet(w, e) = KidSet(m, e) \ S
      BY <1>4, <1>6, <2>2 DEF Freeing
    <3>2. CASE kind[e] # "dir"
      <4>1. Holds(w, kk, vv)[e] = {} /\ Holds(m, kind, dev)[e] = {}
        BY <3>1, <3>2, HoldsIs
      <4> QED
        BY <2>2, <4>1
    <3>3. CASE kind[e] = "dir" /\ m[e].dots
      <4>1. kk[e] = "dir" /\ w[e].dots
        BY <3>1, <3>3
      <4>2. Holds(w, kk, vv)[e] = KidSet(w, e)
        BY <4>1, HoldsIs
      <4>3. Holds(m, kind, dev)[e] = KidSet(m, e)
        BY <3>3, HoldsIs
      <4> QED
        BY <2>2, <3>1, <4>2, <4>3
    <3>4. CASE kind[e] = "dir" /\ ~m[e].dots
      <4>1. Holds(w, kk, vv)[e] = StoredKids(dev[e]) /\ Holds(m, kind, dev)[e] = StoredKids(dev[e])
        BY <3>1, <3>4, HoldsIs
      <4>2. StoredKids(dev[e]) \cap Cached(m) = {}
        BY <3>4, UnvisitedIs DEF Held
      <4> QED
        BY <1>2, <2>2, <4>1, <4>2
    <3> QED
      BY <3>2, <3>3, <3>4
  <2> QED
    BY <2>1, <2>2
<1>13. Tree(Holds(w, kk, vv), Real(kk))
  <2>1. PICK V : V = Holds(m, kind, dev)
    OBVIOUS
  <2>2. PICK W : W = Holds(w, kk, vv)
    OBVIOUS
  <2>3. PICK R : R = Real(kind)
    OBVIOUS
  <2>4. Pruned(V, W, S)
    BY <1>12, <2>1, <2>2 DEF Pruned
  <2>5. Tree(V, R) /\ R \in SUBSET Nodes
    BY <1>1, <2>1, <2>3 DEF Real
  <2>6. ASSUME NEW e \in S PROVE V[e] \subseteq S
    <3>1. CASE kind[e] # "dir"
      <4>1. V[e] = {}
        BY <1>2, <2>1, <3>1, HoldsIs
      <4> QED
        BY <4>1
    <3>2. CASE kind[e] = "dir"
      <4>1. m[e].dots /\ KidSet(m, e) \subseteq S
        BY <3>2 DEF Branch, IsDir
      <4>2. V[e] = KidSet(m, e)
        BY <1>2, <2>1, <3>2, <4>1, HoldsIs
      <4> QED
        BY <4>1, <4>2
    <3> QED
      BY <3>1, <3>2
  <2>7. \A e \in S : V[e] \subseteq S
    BY <2>6
  <2>8. Tree(W, R \ S)
    BY <1>2, <2>4, <2>5, <2>7, TreeCut
  <2> QED
    BY <1>7, <2>2, <2>3, <2>8
<1>14. Cached(w) \subseteq Real(kk)
  BY <1>1, <1>7, <1>8
<1> QED
  BY <1>8, <1>9, <1>10, <1>11, <1>13, <1>14 DEF Tidy

\* Whatever is below a node of the cache, read to the bottom, is a branch.
LEMMA BranchIs ==
  ASSUME NEW m, Held(m), NEW s \in Cached(m) \ {Root}, Visited(m, Below(m, s))
  PROVE  Branch(m, Below(m, s), s, m[s].parent)
<1> DEFINE S == Below(m, s)
           h == m[s].parent
<1>1. /\ Cache(m) /\ m[Root].parent = NoNode /\ s \in Nodes /\ s # Root
      /\ \A d \in Nodes : KidSet(m, d) \subseteq Nodes
      /\ \A d \in Nodes : Root \notin KidSet(m, d)
  BY HeldKids DEF Held, Tidy, Cached
<1>2. s \in S /\ S \subseteq Cached(m) /\ S \subseteq Nodes /\ Closed(m, S)
  BY BelowIn
<1>3. h \in Nodes /\ m[h].dots /\ s \in KidSet(m, h)
  BY ParentHolds DEF Held
<1>4. h \in Cached(m) /\ h \notin S
  <2>1. h \in Cached(m)
    BY <1>3, VisitedIs DEF Held
  <2>2. h \notin S
    BY <1>3, NoLoop
  <2> QED
    BY <2>1, <2>2
<1>5. ASSUME NEW x \in S, x # s PROVE \E d \in S : IsDir(d) /\ x \in KidSet(m, d)
  BY <1>1, <1>5, BelowListed
<1> HIDE DEF S, h
<1>6. Root \notin S
  <2> SUFFICES ASSUME Root \in S PROVE FALSE
    OBVIOUS
  <2>1. PICK d \in S : Root \in KidSet(m, d)
    BY <1>1, <1>5
  <2> QED
    BY <1>1, <1>2, <2>1
<1>7. ASSUME NEW e \in S PROVE KidSet(m, e) \subseteq S
  <2> SUFFICES ASSUME NEW x \in KidSet(m, e) PROVE x \in S
    OBVIOUS
  <2>1. e \in Nodes
    BY <1>2
  <2>2. IsDir(e)
    BY <2>1, KidIs DEF Held, IsDir
  <2> QED
    BY <1>2, <2>2 DEF Closed
<1>8. ASSUME NEW e \in S, IsDir(e) PROVE m[e].dots
  <2> SUFFICES ASSUME ~m[e].dots PROVE FALSE
    OBVIOUS
  <2>1. m[e].kids = <<>>
    BY <1>2, UnvisitedIs DEF Held
  <2>2. Len(m[e].kids) = 0
    BY <2>1
  <2>3. Size(m, e) = 0
    BY <2>2 DEF Size
  <2>4. Size(m, e) > 0
    BY <1>8 DEF Visited, S
  <2> QED
    BY <2>3, <2>4
<1>9. ASSUME NEW e \in Nodes \ S, NEW x \in KidSet(m, e), x \in S PROVE e = h /\ x = s
  <2>1. m[x].parent = e
    BY KidIs DEF Held
  <2>2. CASE x = s
    BY <2>1, <2>2 DEF h
  <2>3. CASE x # s
    <3>1. PICK d \in S : x \in KidSet(m, d)
      BY <1>5, <1>9, <2>3
    <3>2. m[x].parent = d
      BY <1>2, <3>1, KidIs DEF Held
    <3> QED
      BY <2>1, <3>1, <3>2
  <2> QED
    BY <2>2, <2>3
<1>10. ASSUME NEW e \in Nodes \ S, m[e].parent \in S PROVE FALSE
  <2>1. m[e].parent # NoNode
    BY <1>2, <1>10, NodesAssumption
  <2>2. e \in Cached(m) \ {Root}
    BY <1>1, <2>1 DEF Cached
  <2>3. e \in KidSet(m, m[e].parent)
    BY <2>2, ParentHolds DEF Held
  <2> QED
    BY <1>7, <1>10, <2>3
<1>11. Branch(m, S, s, h)
  BY <1>2, <1>3, <1>4, <1>6, <1>7, <1>8, <1>9, <1>10 DEF Branch
<1> QED
  BY <1>11 DEF S, h

LEMMA CarefulDelete ==
  ASSUME Kinds, Device, NEW m, Ready(m), NEW S, NEW s, NEW h, Branch(m, S, s, h), cur \notin S,
         NEW list \in Seq(Nodes), Len(list) <= Len(m[h].kids), Distinct(list),
         ToSet(list) = KidSet(m, h) \ {s}, Delete(m, S, h, list, S)
  PROVE  phase' = "up" /\ Tidy(mem', kind', dev') /\ Standing' /\ UNCHANGED rootBlocks
<1>1. Held(m) /\ Cache(m) /\ m[Root].dots /\ cur \in Nodes /\ m[cur].dots
  BY DEF Ready, Held, Tidy
<1>2. S \in SUBSET (Nodes \ {Root}) /\ h \in Nodes /\ h # Freed
  BY NodesAssumption DEF Branch, Cached
<1> DEFINE w == Without(m, S, h, list)
<1>3. ~Dangling(w, S) /\ Cuts(m, w, S, h, list)
  BY <1>1, CutsIs
<1>4. /\ phase' = "up" /\ mem' = w
      /\ kind' = [n \in Nodes |-> IF n \in S THEN "free" ELSE kind[n]]
      /\ dev' = [n \in Nodes |-> IF n \in S THEN Empty ELSE dev[n]]
      /\ cur' = IF cur \in S THEN Freed ELSE cur
      /\ UNCHANGED rootBlocks
  BY <1>2, <1>3 DEF Delete
<1>5. PICK l : l = w
  OBVIOUS
<1>6. Cuts(m, l, S, h, list) /\ mem' = l
  BY <1>3, <1>4, <1>5
<1> HIDE DEF w
<1>7. PICK kk : kk = kind'
  OBVIOUS
<1>8. PICK vv : vv = dev'
  OBVIOUS
<1>9. Freeing(kk, vv, S)
  BY <1>2, <1>4, <1>7, <1>8 DEF Freeing
<1>10. Tidy(l, kk, vv)
  BY <1>1, <1>6, <1>9, TidyCut
<1>11. l[Root].dots /\ l[cur].dots
  BY <1>1, <1>2, <1>6, NodesAssumption DEF Cuts, Alike
<1>12. Standing'
  BY <1>1, <1>4, <1>6, <1>11 DEF Standing
<1> QED
  BY <1>4, <1>6, <1>7, <1>8, <1>10, <1>12

LEMMA SizeIs ==
  ASSUME NEW m, Cache(m), NEW n \in Nodes
  PROVE  /\ Len(m[n].kids) \in Nat
         /\ m[n].dots => Size(m, n) = Len(m[n].kids) + 2
         /\ ~m[n].dots => Size(m, n) = Len(m[n].kids)
<1>1. m[n].dots \in BOOLEAN /\ Len(m[n].kids) \in Nat
  BY CacheIs, RecIs
<1>2. PICK l : l = Len(m[n].kids)
  OBVIOUS
<1>3. PICK b : b = m[n].dots
  OBVIOUS
<1>4. Size(m, n) = l + IF b THEN 2 ELSE 0
  BY <1>2, <1>3 DEF Size
<1>5. l \in Nat /\ b \in BOOLEAN
  BY <1>1, <1>2, <1>3
<1>6. (b => Size(m, n) = l + 2) /\ (~b => Size(m, n) = l)
  BY <1>4, <1>5
<1> QED
  BY <1>1, <1>2, <1>3, <1>6

\* Below a node without entries there is nothing else.
LEMMA LoneBelow ==
  ASSUME NEW m, Held(m), NEW n \in Cached(m), KidSet(m, n) = {}
  PROVE  Below(m, n) = {n}
<1>1. Closed(m, {n}) /\ n \in {n}
  BY DEF Closed
<1>2. Below(m, n) \subseteq {n}
  BY <1>1, BelowLeast
<1>3. n \in Below(m, n)
  BY BelowIn
<1> QED
  BY <1>2, <1>3

\* The list of the directory a branch hangs in, without the branch.
LEMMA DroppedBranch ==
  ASSUME NEW m, Held(m), NEW S, NEW s, NEW h, Branch(m, S, s, h)
  PROVE  /\ Dropped(m[h].kids, s) \in Seq(Nodes) /\ Len(Dropped(m[h].kids, s)) <= Len(m[h].kids)
         /\ Distinct(Dropped(m[h].kids, s)) /\ ToSet(Dropped(m[h].kids, s)) = KidSet(m, h) \ {s}
<1>1. h \in Nodes /\ h \in Cached(m) /\ m[h].dots
  BY DEF Branch, Cached
<1>2. m[h].kids \in Seq(Nodes) /\ Distinct(m[h].kids) /\ Cache(m)
  BY <1>1, HeldKids, CacheIs, VisitedIs DEF Held
<1>3. Dropped(m[h].kids, s) \in Seq(Nodes) /\ Len(Dropped(m[h].kids, s)) <= Len(m[h].kids)
  BY <1>1, <1>2, DroppedIs
<1>4. /\ ToSet(Dropped(m[h].kids, s)) = ToSet(m[h].kids) \ {s}
      /\ Distinct(Dropped(m[h].kids, s))
  BY <1>2, DroppedExact
<1> QED
  BY <1>3, <1>4 DEF KidSet

\* Deleting a node without entries.
LEMMA LoneBranch ==
  ASSUME NEW m, Held(m), NEW n \in Cached(m) \ {Root}, KidSet(m, n) = {}, IsDir(n) => m[n].dots
  PROVE  Branch(m, {n}, n, m[n].parent)
<1>1. Below(m, n) = {n}
  BY LoneBelow
<1>2. Visited(m, {n})
  <2>1. n \in Nodes /\ Cache(m)
    BY HeldKids DEF Cached
  <2>2. /\ Len(m[n].kids) \in Nat
        /\ m[n].dots => Size(m, n) = Len(m[n].kids) + 2
    BY <2>1, SizeIs
  <2>3. IsDir(n) => Size(m, n) > 0
    BY <2>2
  <2> QED
    BY <2>3 DEF Visited
<1> QED
  BY <1>1, <1>2, BranchIs

LEMMA CarefulRmFile ==
  ASSUME Inv, CarefulInv, NEW p \in Paths, RmFile(p)
  PROVE  CarefulInv'
<1> SUFFICES ASSUME careful' PROVE CarefulInv'
  BY DEF CarefulInv
<1> DEFINE r == Parse(mem, p)
           h == r.m[r.at].parent
           list == Dropped(r.m[h].kids, r.at)
<1>1. /\ phase = "up" /\ ~IsDir(r.at) /\ Delete(r.m, {r.at}, h, list, {r.at}) /\ careful
  BY DEF RmFile
<1>2. Device /\ Ready(mem) /\ Kinds
  BY <1>1, ReadyIs DEF Inv, DiskOK
<1>3. Reached(mem, r) /\ Ready(r.m)
  BY <1>2, ParseReady
<1> HIDE DEF r
<1>4. Held(r.m) /\ r.at \in Cached(r.m) /\ r.at \in Nodes
  BY <1>3, ReachedIs
<1>5. r.at # Root /\ cur # r.at
  <2>1. kind[cur] = "dir"
    BY <1>3, VisitedIs DEF Ready, Held
  <2> QED
    BY <1>1, <1>2, <2>1 DEF Kinds, IsDir
<1>6. KidSet(r.m, r.at) = {}
  <2> SUFFICES ASSUME NEW x \in KidSet(r.m, r.at) PROVE FALSE
    OBVIOUS
  <2>1. kind[r.at] = "dir"
    BY <1>4, KidIs DEF Held
  <2> QED
    BY <1>1, <2>1 DEF IsDir
<1>7. Branch(r.m, {r.at}, r.at, h)
  BY <1>1, <1>4, <1>5, <1>6, LoneBranch
<1> HIDE DEF h
<1>8. /\ list \in Seq(Nodes) /\ Len(list) <= Len(r.m[h].kids)
      /\ Distinct(list) /\ ToSet(list) = KidSet(r.m, h) \ {r.at}
  BY <1>4, <1>7, DroppedBranch
<1> HIDE DEF list
<1>9. cur \notin {r.at}
  BY <1>5
<1>10. phase' = "up" /\ Tidy(mem', kind', dev') /\ Standing' /\ UNCHANGED rootBlocks
  BY <1>1, <1>2, <1>3, <1>7, <1>8, <1>9, CarefulDelete
<1> QED
  BY <1>1, <1>10 DEF CarefulInv, Leaving

LEMMA CarefulRmdir ==
  ASSUME Inv, CarefulInv, NEW p \in Paths, Rmdir(p)
  PROVE  CarefulInv'
<1> SUFFICES ASSUME careful' PROVE CarefulInv'
  BY DEF CarefulInv
<1> DEFINE r == Parse(mem, p)
           d == r.at
           h == r.m[d].parent
           list == Dropped(r.m[h].kids, d)
<1>1. /\ phase = "up" /\ d \in filled /\ TwoKids(r.m, d) /\ careful /\ cur # d
      /\ Delete(r.m, {d} \cup KidSet(r.m, d), h,
                IF h = Freed THEN <<>> ELSE Dropped(r.m[h].kids, d), {d})
  BY DEF Rmdir
<1>2. Device /\ Ready(mem) /\ Kinds /\ Root \notin filled
  BY <1>1, ReadyIs DEF Inv, DiskOK
<1>3. Reached(mem, r) /\ Ready(r.m)
  BY <1>2, ParseReady
<1> HIDE DEF r
<1>4. Held(r.m) /\ d \in Cached(r.m) /\ d \in Nodes /\ Cache(r.m)
  BY <1>3, ReachedIs
<1> HIDE DEF d
<1>5. r.m[d].dots /\ Len(r.m[d].kids) = 0
  <2>1. /\ Len(r.m[d].kids) \in Nat
        /\ r.m[d].dots => Size(r.m, d) = Len(r.m[d].kids) + 2
        /\ ~r.m[d].dots => Size(r.m, d) = Len(r.m[d].kids)
    BY <1>4, SizeIs
  <2>4. Len(<<>>) = 0
    OBVIOUS
  <2>2. Size(r.m, d) = 2
    BY <1>1 DEF TwoKids
  <2>3. ~r.m[d].dots => r.m[d].kids = <<>>
    BY <1>4 DEF Held, Tidy
  <2> QED
    BY <2>1, <2>2, <2>3, <2>4
<1>6. KidSet(r.m, d) = {}
  <2>1. r.m[d].kids \in Seq(Nodes)
    BY <1>4, CacheIs
  <2>2. ToSet(r.m[d].kids) = {r.m[d].kids[i] : i \in 1 .. Len(r.m[d].kids)}
    BY <2>1, ToSetIs
  <2> QED
    BY <1>5, <2>2 DEF KidSet
<1>7. d \in Cached(r.m) \ {Root}
  BY <1>1, <1>2, <1>4
<1>8. Branch(r.m, {d}, d, h)
  BY <1>4, <1>5, <1>6, <1>7, LoneBranch
<1>9. h # Freed
  BY <1>8, NodesAssumption DEF Branch, Cached
<1>10. Delete(r.m, {d}, h, list, {d})
  BY <1>1, <1>6, <1>9
<1> HIDE DEF h
<1>11. /\ list \in Seq(Nodes) /\ Len(list) <= Len(r.m[h].kids)
       /\ Distinct(list) /\ ToSet(list) = KidSet(r.m, h) \ {d}
  BY <1>4, <1>8, DroppedBranch
<1> HIDE DEF list
<1>12. cur \notin {d}
  BY <1>1
<1>13. phase' = "up" /\ Tidy(mem', kind', dev') /\ Standing' /\ UNCHANGED rootBlocks
  BY <1>2, <1>3, <1>8, <1>10, <1>11, <1>12, CarefulDelete
<1> QED
  BY <1>1, <1>13 DEF CarefulInv, Leaving

LEMMA CarefulWalkDone ==
  ASSUME Inv, CarefulInv, WalkDone
  PROVE  CarefulInv'
<1> SUFFICES ASSUME careful' PROVE CarefulInv'
  BY DEF CarefulInv
<1> DEFINE S == Below(mem, doomed)
           h == mem[doomed].parent
           list == RemoveFirst(mem[h].kids, doomed)
<1>1. /\ phase = "walking" /\ careful
      /\ IF IsTree(mem, doomed) /\ h # Freed
         THEN Delete(mem, S, h, list, S)
         ELSE phase' = "astray" /\ UNCHANGED <<disk, mem, cur>>
  BY DEF WalkDone
<1>2. Device /\ Kinds /\ Ready(mem) /\ Held(mem)
  BY <1>1, ReadyIs DEF Inv, DiskOK, Ready
<1>3. doomed \in Cached(mem) \ {Root}
  BY <1>1 DEF Inv, WalkOK, OnTheWay
<1>4. Visited(mem, S) /\ cur \notin S
  BY <1>1 DEF CarefulInv, Leaving
<1>5. Branch(mem, S, doomed, h)
  BY <1>2, <1>3, <1>4, BranchIs
<1>6. IsTree(mem, doomed)
  BY <1>2, <1>3, IsTreeAt
<1>7. h # Freed /\ h \in Nodes /\ mem[h].dots /\ doomed \in KidSet(mem, h)
  BY <1>5, NodesAssumption DEF Branch, Cached
<1>8. Delete(mem, S, h, list, S)
  BY <1>1, <1>6, <1>7
<1> HIDE DEF S, h
<1>9. mem[h].kids \in Seq(Nodes) /\ Distinct(mem[h].kids) /\ doomed \in ToSet(mem[h].kids)
  BY <1>2, <1>7, HeldKids, CacheIs, VisitedIs DEF Held, KidSet
<1>10. list \in Seq(Nodes) /\ Len(list) <= Len(mem[h].kids)
  BY <1>9, RemoveFirstIs
<1>11. Distinct(list) /\ ToSet(list) = KidSet(mem, h) \ {doomed}
  BY <1>9, RemoveFirstExact DEF KidSet
<1> HIDE DEF list
<1>12. phase' = "up" /\ Tidy(mem', kind', dev') /\ Standing' /\ UNCHANGED rootBlocks
  BY <1>2, <1>4, <1>5, <1>8, <1>10, <1>11, CarefulDelete
<1> QED
  BY <1>1, <1>12 DEF CarefulInv, Leaving

----------------------------------------------------------------------------
(* mv.                                                                     *)

\* w is m with the list of n, the name of n, set.
Relisted(m, w, n, list) ==
  /\ w \in [Nodes -> Rec] /\ w[n].kids = list
  /\ \A e \in Nodes : Alike(w[e], m[e])
  /\ \A e \in Nodes \ {n} : w[e] = m[e]
Named(m, w, n, nm) ==
  /\ w[n].name = nm /\ \A e \in Nodes \ {n} : w[e].name = m[e].name
  /\ \A e \in Nodes : /\ w[e].parent = m[e].parent /\ w[e].kids = m[e].kids
                      /\ w[e].dots = m[e].dots

LEMMA ListPut ==
  ASSUME NEW m \in [Nodes -> Rec], NEW n \in Nodes, NEW list \in Seq(Nodes),
         NEW w, w = [m EXCEPT ![n].kids = list]
  PROVE  Relisted(m, w, n, list)
<1> DEFINE x == [m[n] EXCEPT !.kids = list]
<1>1. x \in Rec /\ x.kids = list /\ Alike(x, m[n])
  BY SetKids DEF Alike
<1>2. w = [m EXCEPT ![n] = x]
  OBVIOUS
<1> HIDE DEF x
<1>3. w \in [Nodes -> Rec] /\ w[n] = x /\ \A e \in Nodes \ {n} : w[e] = m[e]
  BY <1>1, <1>2
<1> QED
  BY <1>1, <1>3 DEF Alike, Relisted

LEMMA ParentPut ==
  ASSUME NEW m \in [Nodes -> Rec], NEW n \in Nodes, NEW p \in Nodes,
         NEW w, w = [m EXCEPT ![n].parent = p]
  PROVE  /\ w[n].parent = p /\ \A e \in Nodes \ {n} : w[e].parent = m[e].parent
         /\ \A e \in Nodes : /\ w[e].name = m[e].name /\ w[e].kids = m[e].kids
                             /\ w[e].dots = m[e].dots
<1> DEFINE x == [m[n] EXCEPT !.parent = p]
<1>1. x \in Rec /\ x.kids = m[n].kids /\ x.parent = p /\ x.name = m[n].name /\ x.dots = m[n].dots
  BY SetParent
<1>2. w = [m EXCEPT ![n] = x]
  OBVIOUS
<1> HIDE DEF x
<1>3. w \in [Nodes -> Rec] /\ w[n] = x /\ \A e \in Nodes \ {n} : w[e] = m[e]
  BY <1>1, <1>2
<1> QED
  BY <1>1, <1>3

LEMMA NamePut ==
  ASSUME NEW m \in [Nodes -> Rec], NEW n \in Nodes, NEW nm \in Words,
         NEW w, w = [m EXCEPT ![n].name = nm]
  PROVE  Named(m, w, n, nm)
<1> DEFINE x == [m[n] EXCEPT !.name = nm]
<1>1. x \in Rec /\ x.kids = m[n].kids /\ x.parent = m[n].parent
  BY SetName
<1>2. x.name = nm /\ x.dots = m[n].dots
  BY DEF Rec
<1>3. w = [m EXCEPT ![n] = x]
  OBVIOUS
<1> HIDE DEF x
<1>4. w \in [Nodes -> Rec] /\ w[n] = x /\ \A e \in Nodes \ {n} : w[e] = m[e]
  BY <1>1, <1>3
<1> QED
  BY <1>1, <1>2, <1>4 DEF Named

\* w is m with s moved from h to d.
Hangs(m, w, s, h, d) ==
  /\ Cache(w) /\ Cached(w) = Cached(m)
  /\ \A e \in Nodes : w[e].name = m[e].name /\ w[e].dots = m[e].dots
  /\ w[s].parent = d /\ \A e \in Nodes \ {s} : w[e].parent = m[e].parent
  /\ w[h].kids = Dropped(m[h].kids, s) /\ w[d].kids = Append(m[d].kids, s)
  /\ \A e \in Nodes \ {h, d} : w[e].kids = m[e].kids

LEMMA HangsIs ==
  ASSUME NEW m, Cache(m), NEW s \in Cached(m) \ {Root}, NEW h \in Cached(m), NEW d \in Cached(m),
         h # d, Len(m[d].kids) < MaxKids
  PROVE  Hangs(m, Hang(m, s, h, d), s, h, d)
<1> DEFINE less == Dropped(m[h].kids, s)
           taken == [m EXCEPT ![h].kids = less]
           more == Append(taken[d].kids, s)
           given == [taken EXCEPT ![d].kids = more]
           w == [given EXCEPT ![s].parent = d]
<1>1. Hang(m, s, h, d) = w
  BY DEF Hang
<1>2. h \in Nodes /\ d \in Nodes /\ s \in Nodes /\ m \in [Nodes -> Rec]
  BY DEF Cached, Cache
<1>3. SameNodes(m, Hang(m, s, h, d))
  BY HangIs
<1>4. less \in Seq(Nodes)
  BY DroppedIs
<1>l. less = Dropped(m[h].kids, s)
  OBVIOUS
<1> HIDE DEF less
<1>p. Relisted(m, taken, h, less)
  BY <1>2, <1>4, ListPut
<1> HIDE DEF taken
<1>5. /\ taken \in [Nodes -> Rec] /\ taken[h].kids = less
      /\ \A e \in Nodes : Alike(taken[e], m[e])
      /\ \A e \in Nodes \ {h} : taken[e] = m[e]
  BY <1>p DEF Relisted
<1>6. taken[d] = m[d] /\ m[d].kids \in Seq(Nodes)
  BY <1>2, <1>5, CacheIs
<1>7. more = Append(m[d].kids, s) /\ more \in Seq(Nodes)
  BY <1>2, <1>6
<1> HIDE DEF more
<1>q. Relisted(taken, given, d, more)
  BY <1>2, <1>5, <1>7, ListPut
<1> HIDE DEF given
<1>8. /\ given \in [Nodes -> Rec] /\ given[d].kids = more
      /\ \A e \in Nodes : Alike(given[e], taken[e])
      /\ \A e \in Nodes \ {d} : given[e] = taken[e]
  BY <1>q DEF Relisted
<1>9. /\ w[s].parent = d /\ \A e \in Nodes \ {s} : w[e].parent = given[e].parent
      /\ \A e \in Nodes : /\ w[e].name = given[e].name /\ w[e].kids = given[e].kids
                          /\ w[e].dots = given[e].dots
  BY <1>2, <1>8, ParentPut
<1> HIDE DEF w
<1>10. \A e \in Nodes : /\ given[e].name = m[e].name /\ given[e].dots = m[e].dots
                        /\ given[e].parent = m[e].parent
  BY <1>5, <1>8 DEF Alike
<1>11. /\ given[h].kids = less /\ given[d].kids = more
       /\ \A e \in Nodes \ {h, d} : given[e].kids = m[e].kids
  BY <1>2, <1>5, <1>8
<1>12. Hangs(m, w, s, h, d)
  BY <1>1, <1>2, <1>3, <1>7, <1>9, <1>10, <1>11, <1>l DEF SameNodes, Hangs
<1> QED
  BY <1>1, <1>12

\* All that a node holds, on the device too, is below it or not in the cache.
LEMMA HeldBelow ==
  ASSUME NEW m, Held(m), NEW s \in Cached(m), NEW e, NEW S,
         S = Below(m, s) \cup (Real(kind) \ Cached(m)), e \in S
  PROVE  Holds(m, kind, dev)[e] \subseteq S
<1>1. /\ Below(m, s) \subseteq Cached(m) /\ Closed(m, Below(m, s)) /\ e \in Nodes
  BY BelowIn DEF Real, Cached
<1>2. Holds(m, kind, dev)[e] \subseteq Real(kind)
  BY <1>1 DEF Held, Tidy, Tree
<1>3. CASE kind[e] # "dir"
  <2>1. Holds(m, kind, dev)[e] = {}
    BY <1>1, <1>3, HoldsIs
  <2> QED
    BY <2>1
<1>4. CASE kind[e] = "dir" /\ m[e].dots
  <2>1. Holds(m, kind, dev)[e] = KidSet(m, e)
    BY <1>1, <1>4, HoldsIs
  <2>2. e \in Cached(m)
    BY <1>1, <1>4, VisitedIs DEF Held
  <2>3. KidSet(m, e) \subseteq Below(m, s)
    BY <1>1, <1>4, <2>2 DEF Closed, IsDir
  <2> QED
    BY <2>1, <2>3
<1>5. CASE kind[e] = "dir" /\ ~m[e].dots
  <2>1. /\ Holds(m, kind, dev)[e] = StoredKids(dev[e])
        /\ StoredKids(dev[e]) \cap Cached(m) = {}
    BY <1>1, <1>5, UnvisitedIs DEF Held
  <2> QED
    BY <1>2, <2>1
<1> QED
  BY <1>3, <1>4, <1>5

\* The sets of a cache in which s was moved.
LEMMA HangsSets ==
  ASSUME NEW m, Held(m), NEW h \in Nodes, NEW s \in KidSet(m, h), NEW d \in Nodes, h # d,
         m[d].dots, NEW w, Hangs(m, w, s, h, d)
  PROVE  /\ m[h].dots /\ Distinct(w[h].kids) /\ Distinct(w[d].kids) /\ s \notin KidSet(m, d)
         /\ KidSet(w, h) = KidSet(m, h) \ {s}
         /\ KidSet(w, d) = KidSet(m, d) \cup {s}
         /\ \A e \in Nodes \ {h, d} : KidSet(w, e) = KidSet(m, e) /\ s \notin KidSet(m, e)
<1>1. m[h].dots /\ s \in Nodes /\ m[s].parent = h
  BY KidIs DEF Held
<1>2. \A e \in Nodes \ {h} : s \notin KidSet(m, e)
  BY <1>1, KidIs DEF Held
<1>3. /\ Distinct(m[h].kids) /\ Distinct(m[d].kids)
      /\ m[h].kids \in Seq(Nodes) /\ m[d].kids \in Seq(Nodes)
  BY <1>1, HeldKids, CacheIs, VisitedIs DEF Held
<1>4. KidSet(w, h) = KidSet(m, h) \ {s} /\ Distinct(w[h].kids)
  <2>1. /\ ToSet(Dropped(m[h].kids, s)) = ToSet(m[h].kids) \ {s}
        /\ Distinct(Dropped(m[h].kids, s))
    BY <1>3, DroppedExact
  <2> QED
    BY <2>1 DEF Hangs, KidSet
<1>5. KidSet(w, d) = KidSet(m, d) \cup {s} /\ Distinct(w[d].kids)
  <2>1. ToSet(Append(m[d].kids, s)) = ToSet(m[d].kids) \cup {s}
    BY <1>1, <1>3, AppendIs
  <2>2. s \notin ToSet(m[d].kids)
    BY <1>2 DEF KidSet
  <2>3. Distinct(Append(m[d].kids, s))
    BY <1>1, <1>3, <2>2, AppendDistinct
  <2> QED
    BY <2>1, <2>3 DEF Hangs, KidSet
<1>6. \A e \in Nodes \ {h, d} : KidSet(w, e) = KidSet(m, e)
  BY DEF Hangs, KidSet
<1> QED
  BY <1>1, <1>2, <1>4, <1>5, <1>6

LEMMA TidyHangs ==
  ASSUME NEW m, Held(m), NEW h \in Nodes, NEW s \in KidSet(m, h), NEW d \in Nodes, h # d,
         m[d].dots, d \notin Below(m, s), \A e \in KidSet(m, d) : m[e].name # m[s].name,
         NEW w, Hangs(m, w, s, h, d)
  PROVE  Held(w)
<1>1. /\ Cache(m) /\ m[Root].parent = NoNode /\ Cached(m) \subseteq Real(kind)
      /\ Tree(Holds(m, kind, dev), Real(kind))
  BY DEF Held, Tidy
<1>2. /\ m[h].dots /\ s \in Cached(m) /\ s # Root /\ s \in Nodes /\ m[s].parent = h /\ Proper(m[s].name)
  BY KidIs DEF Held
<1>3. d \in Cached(m) /\ kind[d] = "dir" /\ kind[h] = "dir"
  BY <1>2, VisitedIs DEF Held
<1>4. /\ Distinct(w[h].kids) /\ Distinct(w[d].kids) /\ s \notin KidSet(m, d)
      /\ KidSet(w, h) = KidSet(m, h) \ {s}
      /\ KidSet(w, d) = KidSet(m, d) \cup {s}
      /\ \A e \in Nodes \ {h, d} : KidSet(w, e) = KidSet(m, e) /\ s \notin KidSet(m, e)
  BY HangsSets
<1>5. /\ Cache(w) /\ Cached(w) = Cached(m) /\ w[s].parent = d
      /\ \A e \in Nodes : w[e].name = m[e].name /\ w[e].dots = m[e].dots
      /\ \A e \in Nodes \ {s} : w[e].parent = m[e].parent
      /\ \A e \in Nodes \ {h, d} : w[e].kids = m[e].kids
  BY DEF Hangs
<1>6. w[Root].parent = NoNode
  BY <1>1, <1>2, <1>5, NodesAssumption
<1>7. ASSUME NEW e \in Nodes, w[e].dots
      PROVE  e \in Cached(w) /\ kind[e] = "dir" /\ ReadWell(w, e)
  <2>1. m[e].dots
    BY <1>5, <1>7
  <2>2. /\ e \in Cached(m) /\ kind[e] = "dir" /\ ReadWell(m, e)
    BY <2>1 DEF Held, Tidy
  <2>3. KidSet(m, e) \subseteq Nodes
    BY <1>1, CacheIs
  <2>4. CASE e # h /\ e # d
    <3>1. \A x \in KidSet(m, e) : w[x].name = m[x].name /\ w[x].parent = m[x].parent
      BY <1>4, <1>5, <2>3, <2>4
    <3>2. w[e].kids = m[e].kids
      BY <1>5, <2>4
    <3>3. ReadWell(w, e)
      BY <2>2, <3>1, <3>2, ReadWellSame
    <3> QED
      BY <1>5, <2>2, <3>3
  <2>5. CASE e = h
    <3>1. KidSet(w, e) \subseteq KidSet(m, e) /\ Distinct(w[e].kids)
      BY <1>4, <2>5
    <3>2. \A x \in KidSet(w, e) : x \in Nodes \ {s}
      BY <1>4, <2>3, <2>5
    <3>3. \A x \in KidSet(w, e) : w[x].name = m[x].name /\ w[x].parent = m[x].parent
      BY <1>5, <3>2
    <3>4. ReadWell(w, e)
      BY <2>2, <3>1, <3>3, FewerWell
    <3> QED
      BY <1>5, <2>2, <3>4
  <2>6. CASE e = d
    <3>1. /\ \A n \in KidSet(m, d) : m[n].parent = d /\ Proper(m[n].name)
          /\ \A a, b \in KidSet(m, d) : m[a].name = m[b].name => a = b
      BY <2>2, <2>6 DEF ReadWell
    <3>2. \A n \in KidSet(m, d) : n \in Nodes \ {s}
      BY <1>4, <2>3, <2>6
    <3>3. ASSUME NEW n \in KidSet(w, d) PROVE w[n].parent = d /\ Proper(w[n].name)
      <4>1. CASE n = s
        BY <1>2, <1>5, <4>1
      <4>2. CASE n # s
        <5>1. n \in KidSet(m, d) /\ n \in Nodes \ {s}
          BY <1>4, <3>2, <3>3, <4>2
        <5> QED
          BY <1>5, <3>1, <5>1
      <4> QED
        BY <4>1, <4>2
    <3>4. ASSUME NEW a \in KidSet(w, d), NEW b \in KidSet(w, d), w[a].name = w[b].name
          PROVE  a = b
      <4>1. /\ a \in KidSet(m, d) \/ a = s
            /\ b \in KidSet(m, d) \/ b = s
            /\ a \in Nodes /\ b \in Nodes
        BY <1>2, <1>4, <3>2, <3>4
      <4>2. m[a].name = m[b].name
        BY <1>5, <3>4, <4>1
      <4> QED
        BY <3>1, <4>1, <4>2
    <3>5. ReadWell(w, d)
      BY <1>4, <3>3, <3>4 DEF ReadWell
    <3> QED
      BY <1>5, <2>2, <2>6, <3>5
  <2> QED
    BY <2>4, <2>5, <2>6
<1>8. ASSUME NEW e \in Nodes, ~w[e].dots
      PROVE  /\ w[e].kids = <<>>
             /\ kind[e] = "dir" => StoredWell(dev[e]) /\ StoredKids(dev[e]) \cap Cached(w) = {}
  <2>1. ~m[e].dots /\ e # h /\ e # d
    BY <1>2, <1>5, <1>8
  <2>2. /\ m[e].kids = <<>>
        /\ kind[e] = "dir" => StoredWell(dev[e]) /\ StoredKids(dev[e]) \cap Cached(m) = {}
    BY <2>1, UnvisitedIs DEF Held
  <2>3. w[e].kids = m[e].kids
    BY <1>5, <2>1
  <2> QED
    BY <1>5, <2>2, <2>3
<1>9. PICK V : V = Holds(m, kind, dev)
  OBVIOUS
<1>10. PICK W : W = Holds(w, kind, dev)
  OBVIOUS
<1>11. PICK R : R = Real(kind)
  OBVIOUS
<1>12. Moved(V, W, s, h, d)
  <2>1. V[h] = KidSet(m, h) /\ V[d] = KidSet(m, d)
    BY <1>2, <1>3, <1>9, HoldsIs
  <2>2. W[h] = KidSet(w, h) /\ W[d] = KidSet(w, d)
    BY <1>2, <1>3, <1>5, <1>10, HoldsIs
  <2>3. ASSUME NEW e \in Nodes \ {h, d} PROVE W[e] = V[e]
    <3>1. (m[e].dots <=> w[e].dots) /\ KidSet(m, e) = KidSet(w, e)
      BY <1>4, <1>5
    <3> QED
      BY <1>9, <1>10, <3>1, HoldsSame
  <2> QED
    BY <1>4, <2>1, <2>2, <2>3 DEF Moved
<1>13. Tree(W, R)
  <2>1. PICK S : S = Below(m, s) \cup (Real(kind) \ Cached(m))
    OBVIOUS
  <2>2. S \in SUBSET Nodes /\ s \in S /\ d \notin S
    BY <1>2, <1>3, <2>1, BelowIn DEF Real
  <2>3. \A e \in S : V[e] \subseteq S
    BY <1>2, <1>9, <2>1, HeldBelow
  <2>4. R \in SUBSET Nodes /\ d \in R /\ Tree(V, R) /\ s \in V[h]
    <3>1. V[h] = KidSet(m, h)
      BY <1>2, <1>3, <1>9, HoldsIs
    <3> QED
      BY <1>1, <1>3, <1>9, <1>11, <3>1 DEF Real
  <2> QED
    BY <1>12, <2>2, <2>3, <2>4, TreeMove
<1>14. Tidy(w, kind, dev)
  <2>1. Tree(Holds(w, kind, dev), Real(kind)) /\ Cached(w) \subseteq Real(kind) /\ Cache(w)
    BY <1>1, <1>5, <1>10, <1>11, <1>13
  <2> QED
    BY <1>6, <1>7, <1>8, <2>1 DEF Tidy
<1> QED
  BY <1>14 DEF Held

\* Another name, which nothing in the directory has.
LEMMA TidyNamed ==
  ASSUME NEW m, NEW k, NEW v, Tidy(m, k, v), NEW d \in Nodes, NEW n \in KidSet(m, d), NEW nm \in Words, Proper(nm),
         \A e \in KidSet(m, d) : m[e].name # nm,
         NEW w, Named(m, w, n, nm), SameNodes(m, w)
  PROVE  Tidy(w, k, v) /\ \A e \in Nodes : w[e].dots = m[e].dots
<1>1. /\ Cache(m) /\ m \in [Nodes -> Rec] /\ m[Root].parent = NoNode
      /\ Cached(m) \subseteq Real(k) /\ Tree(Holds(m, k, v), Real(k))
  BY DEF Tidy, Cache
<1>2. /\ m[d].dots /\ n \in Nodes /\ m[n].parent = d
  BY KidIs
<1>3. /\ w[n].name = nm /\ \A e \in Nodes \ {n} : w[e].name = m[e].name
      /\ \A e \in Nodes : /\ w[e].parent = m[e].parent /\ w[e].kids = m[e].kids
                          /\ w[e].dots = m[e].dots
  BY DEF Named
<1>4. Cache(w) /\ Cached(w) = Cached(m)
  BY DEF SameNodes
<1>5. \A e \in Nodes : KidSet(w, e) = KidSet(m, e)
  BY <1>3 DEF KidSet
<1>6. ASSUME NEW e \in Nodes, w[e].dots
      PROVE  e \in Cached(w) /\ k[e] = "dir" /\ ReadWell(w, e)
  <2>1. m[e].dots
    BY <1>3, <1>6
  <2>2. e \in Cached(m) /\ k[e] = "dir" /\ ReadWell(m, e)
    BY <2>1 DEF Tidy
  <2>3. KidSet(m, e) \subseteq Nodes
    BY <1>1, CacheIs
  <2>4. CASE e # d
    <3>1. n \notin KidSet(m, e)
      BY <1>2, <2>4, KidIs
    <3>2. \A x \in KidSet(m, e) : w[x].name = m[x].name /\ w[x].parent = m[x].parent
      BY <1>3, <2>3, <3>1
    <3>3. ReadWell(w, e)
      BY <1>3, <2>2, <3>2, ReadWellSame
    <3> QED
      BY <1>4, <2>2, <3>3
  <2>5. CASE e = d
    <3>1. /\ Distinct(m[d].kids)
          /\ \A x \in KidSet(m, d) : m[x].parent = d /\ Proper(m[x].name)
          /\ \A a, b \in KidSet(m, d) : m[a].name = m[b].name => a = b
      BY <2>2, <2>5 DEF ReadWell
    <3>2. ASSUME NEW x \in KidSet(m, d) PROVE w[x].parent = d /\ Proper(w[x].name)
      <4>1. x \in Nodes
        BY <2>3, <2>5
      <4>2. w[x].name = IF x = n THEN nm ELSE m[x].name
        BY <1>3, <4>1
      <4> QED
        BY <1>3, <3>1, <4>1, <4>2
    <3>3. ASSUME NEW a \in KidSet(m, d), NEW b \in KidSet(m, d), w[a].name = w[b].name
          PROVE  a = b
      <4>1. a \in Nodes /\ b \in Nodes
        BY <2>3, <2>5
      <4>2. /\ w[a].name = IF a = n THEN nm ELSE m[a].name
            /\ w[b].name = IF b = n THEN nm ELSE m[b].name
        BY <1>3, <4>1
      <4>3. m[a].name # nm /\ m[b].name # nm
        OBVIOUS
      <4> QED
        BY <3>1, <3>3, <4>2, <4>3
    <3>4. Distinct(w[d].kids)
      BY <1>3, <3>1
    <3>5. ReadWell(w, d)
      BY <1>5, <3>2, <3>3, <3>4 DEF ReadWell
    <3> QED
      BY <1>4, <2>2, <2>5, <3>5
  <2> QED
    BY <2>4, <2>5
<1>7. ASSUME NEW e \in Nodes, ~w[e].dots
      PROVE  /\ w[e].kids = <<>>
             /\ k[e] = "dir" => StoredWell(v[e]) /\ StoredKids(v[e]) \cap Cached(w) = {}
  <2>1. ~m[e].dots
    BY <1>3, <1>7
  <2>2. /\ m[e].kids = <<>>
        /\ k[e] = "dir" => StoredWell(v[e]) /\ StoredKids(v[e]) \cap Cached(m) = {}
    BY <2>1, UnvisitedIs
  <2> QED
    BY <1>3, <1>4, <2>2
<1>8. Holds(w, k, v) = Holds(m, k, v)
  <2>1. \A e \in Nodes : w[e].dots = m[e].dots /\ KidSet(w, e) = KidSet(m, e)
    BY <1>3, <1>5
  <2> QED
    BY <2>1 DEF Holds
<1>9. w[Root].parent = NoNode
  BY <1>1, <1>3, NodesAssumption
<1>10. Tidy(w, k, v)
  BY <1>1, <1>4, <1>6, <1>7, <1>8, <1>9 DEF Tidy
<1> QED
  BY <1>3, <1>10

LEMMA TidyRenamed ==
  ASSUME NEW m, NEW k, NEW v, Tidy(m, k, v), NEW d \in Nodes, NEW n \in KidSet(m, d), NEW nm \in Words
  PROVE  /\ Tidy(Renamed(m, n, d, nm), k, v)
         /\ \A e \in Nodes : Renamed(m, n, d, nm)[e].dots = m[e].dots
<1>1. Cache(m)
  BY DEF Tidy
<1>2. m[d].dots /\ n \in Cached(m)
  BY KidIs
<1>3. CASE nm = Nameless \/ Has(m, d, nm)
  <2>1. Renamed(m, n, d, nm) = m
    BY <1>3 DEF Renamed
  <2> QED
    BY <2>1
<1>4. CASE nm # Nameless /\ ~Has(m, d, nm)
  <2>1. PICK w : w = [m EXCEPT ![n].name = nm]
    OBVIOUS
  <2>2. Renamed(m, n, d, nm) = w
    BY <1>4, <2>1 DEF Renamed
  <2>3. SameNodes(m, w)
    <3>1. SameNodes(m, Renamed(m, n, d, nm))
      BY <1>1, <1>2, RenamedIs
    <3> QED
      BY <2>2, <3>1
  <2>4. Proper(nm) /\ \A e \in KidSet(m, d) : m[e].name # nm
    BY <1>2, <1>4 DEF Has, Proper
  <2>5. Named(m, w, n, nm)
    <3>1. m \in [Nodes -> Rec] /\ n \in Nodes
      BY <1>1, <1>2 DEF Cache, Cached
    <3> QED
      BY <2>1, <3>1, NamePut
  <2>6. Tidy(w, k, v) /\ \A e \in Nodes : w[e].dots = m[e].dots
    BY <2>3, <2>4, <2>5, TidyNamed
  <2> QED
    BY <2>2, <2>6
<1> QED
  BY <1>3, <1>4

LEMMA CarefulMv ==
  ASSUME Inv, CarefulInv, NEW p \in Paths, NEW q \in Paths, Mv(p, q)
  PROVE  CarefulInv'
<1> SUFFICES ASSUME careful' PROVE CarefulInv'
  BY DEF CarefulInv
<1> DEFINE s == Parse(mem, p)
           h == Parse(s.m, DirPart(p))
           d == Parse(h.m, q)
           moved == IF d.at = h.at THEN d.m ELSE Hang(d.m, s.at, h.at, d.at)
           nm == LastName(q)
           w == Renamed(moved, s.at, d.at, nm)
<1>1. /\ phase = "up" /\ (d.at = h.at \/ Len(d.m[d.at].kids) < MaxKids)
      /\ IF s.at = Root /\ d.at # h.at
         THEN phase' = "astray" /\ mem' = d.m
         ELSE phase' = "up" /\ mem' = w
      /\ careful /\ d.m[s.at].parent = h.at
      /\ d.at # h.at => /\ IsDir(d.at) /\ d.at \notin Below(d.m, s.at)
                        /\ ~Has(d.m, d.at, d.m[s.at].name)
      /\ UNCHANGED disk /\ UNCHANGED <<cur, walk, doomed>>
  BY DEF Mv, Idle
<1>2. Device /\ Ready(mem)
  BY <1>1, ReadyIs
<1>3. nm \in Words
  BY NamesIs
<1>4. Reached(mem, s) /\ Ready(s.m)
  BY <1>2, ParseReady
<1> HIDE DEF s, nm
<1>5. Reached(s.m, h) /\ Ready(h.m)
  BY <1>2, <1>4, ParseReady
<1> HIDE DEF h
<1>6. Reached(h.m, d) /\ Ready(d.m)
  BY <1>2, <1>5, ParseReady
<1> HIDE DEF d
<1>7. /\ s.at \in Cached(s.m) /\ h.at \in Cached(h.m) /\ d.at \in Cached(d.m)
      /\ Grown(s.m, h.m) /\ Grown(h.m, d.m) /\ (IsDir(d.at) => d.m[d.at].dots)
  BY <1>4, <1>5, <1>6, ReachedIs
<1>8. s.at \in Cached(d.m) /\ h.at \in Cached(d.m) /\ h.at \in Nodes /\ d.at \in Nodes
  <2> HIDE DEF moved, w
  <2>1. Cached(s.m) \subseteq Cached(h.m) /\ Cached(h.m) \subseteq Cached(d.m)
    BY <1>7 DEF Grown
  <2>2. Cached(h.m) \subseteq Nodes /\ Cached(d.m) \subseteq Nodes
    BY DEF Cached
  <2> QED
    BY <1>7, <2>1, <2>2
<1>9. Held(d.m) /\ Cache(d.m) /\ d.m[Root].parent = NoNode
  BY <1>6 DEF Ready, Held, Tidy
<1>10. s.at # Root
  BY <1>1, <1>8, <1>9, NodesAssumption
<1>11. s.at \in KidSet(d.m, h.at)
  <2>1. s.at \in Cached(d.m) \ {Root}
    BY <1>8, <1>10
  <2>2. s.at \in KidSet(d.m, d.m[s.at].parent)
    BY <1>9, <2>1, ParentHolds DEF Held
  <2> QED
    BY <1>1, <2>2
<1>12. Ready(moved) /\ s.at \in KidSet(moved, d.at)
  <2>1. CASE d.at = h.at
    BY <1>6, <1>11, <2>1
  <2>2. CASE d.at # h.at
    <3>1. PICK l : l = Hang(d.m, s.at, h.at, d.at)
      OBVIOUS
    <3>2. Hangs(d.m, l, s.at, h.at, d.at)
      <4>1. s.at \in Cached(d.m) \ {Root} /\ Len(d.m[d.at].kids) < MaxKids /\ h.at # d.at
        BY <1>1, <1>8, <1>10, <2>2
      <4> QED
        BY <1>7, <1>8, <1>9, <3>1, <4>1, HangsIs
    <3>h. /\ ~Has(d.m, d.at, d.m[s.at].name) /\ IsDir(d.at)
          /\ d.at \notin Below(d.m, s.at)
      BY <1>1, <2>2
    <3>k. d.m[d.at].dots
      BY <1>7, <3>h
    <3>e. \A e \in KidSet(d.m, d.at) : d.m[e].name # d.m[s.at].name
      BY <3>h DEF Has
    <3>3. /\ d.m[d.at].dots /\ d.at \notin Below(d.m, s.at) /\ h.at # d.at
          /\ \A e \in KidSet(d.m, d.at) : d.m[e].name # d.m[s.at].name
      BY <2>2, <3>h, <3>k, <3>e
    <3>4. Held(l)
      BY <1>8, <1>9, <1>11, <3>2, <3>3, TidyHangs
    <3>5. s.at \in KidSet(l, d.at)
      <4>1. KidSet(l, d.at) = KidSet(d.m, d.at) \cup {s.at}
        BY <1>8, <1>9, <1>11, <3>2, <3>3, HangsSets
      <4> QED
        BY <4>1
    <3>6. Ready(l)
      BY <1>6, <3>2, <3>4, NodesAssumption DEF Ready, Hangs
    <3> QED
      BY <2>2, <3>1, <3>5, <3>6
  <2> QED
    BY <2>1, <2>2
<1>13. phase' = "up" /\ mem' = w
  BY <1>1, <1>10
<1> HIDE DEF moved
<1>14. Ready(w)
  <2>1. Tidy(moved, kind, dev)
    BY <1>12 DEF Ready, Held
  <2>2. Tidy(w, kind, dev) /\ \A e \in Nodes : w[e].dots = moved[e].dots
    BY <1>3, <1>8, <1>12, <2>1, TidyRenamed
  <2> HIDE DEF w
  <2> QED
    BY <1>12, <2>2, NodesAssumption DEF Ready, Held
<1> HIDE DEF w
<1>15. UNCHANGED <<kind, dev, rootBlocks>>
  BY <1>1 DEF disk
<1> QED
  BY <1>1, <1>13, <1>14, <1>15 DEF CarefulInv, Standing, Leaving, Ready, Held

----------------------------------------------------------------------------
(* cp.                                                                     *)

LEMMA ConcatDistinct ==
  ASSUME NEW X, NEW s \in Seq(X), NEW t \in Seq(X), Distinct(s), Distinct(t),
         ToSet(s) \cap ToSet(t) = {}
  PROVE  Distinct(s \o t)
<1> DEFINE w == s \o t
           l == Len(s)
<1>1. l \in Nat /\ Len(t) \in Nat /\ Len(w) = l + Len(t)
  OBVIOUS
<1>2. \A i \in 1 .. l : w[i] = s[i]
  OBVIOUS
<1>3. \A i \in l + 1 .. l + Len(t) : w[i] = t[i - l]
  OBVIOUS
<1>4. \A i \in 1 .. l : s[i] \in ToSet(s)
  BY InList
<1>5. \A i \in 1 .. Len(t) : t[i] \in ToSet(t)
  BY InList
<1> HIDE DEF w, l
<1>6. ASSUME NEW i \in 1 .. Len(w), NEW j \in 1 .. Len(w), w[i] = w[j] PROVE i = j
  <2>1. i \in 1 .. l + Len(t) /\ j \in 1 .. l + Len(t)
    BY <1>1
  <2>2. CASE i \in 1 .. l /\ j \in 1 .. l
    <3>1. s[i] = s[j]
      BY <1>2, <1>6, <2>2
    <3> QED
      BY <2>2, <3>1 DEF Distinct, l
  <2>3. CASE i \notin 1 .. l /\ j \notin 1 .. l
    <3>1. /\ i \in l + 1 .. l + Len(t) /\ j \in l + 1 .. l + Len(t)
          /\ i - l \in 1 .. Len(t) /\ j - l \in 1 .. Len(t)
      BY <1>1, <2>1, <2>3
    <3>2. t[i - l] = t[j - l]
      BY <1>3, <1>6, <3>1
    <3>3. i - l = j - l
      BY <3>1, <3>2 DEF Distinct
    <3> QED
      BY <1>1, <2>1, <3>3
  <2>4. ASSUME NEW a \in 1 .. l, NEW b \in l + 1 .. l + Len(t), w[a] = w[b] PROVE FALSE
    <3>1. w[a] \in ToSet(s)
      BY <1>2, <1>4
    <3>2. b - l \in 1 .. Len(t)
      BY <1>1
    <3>3. w[b] \in ToSet(t)
      BY <1>3, <1>5, <3>2
    <3> QED
      BY <2>4, <3>1, <3>3
  <2>5. CASE i \in 1 .. l /\ j \notin 1 .. l
    <3>1. j \in l + 1 .. l + Len(t)
      BY <1>1, <2>1, <2>5
    <3> QED
      BY <1>6, <2>4, <2>5, <3>1
  <2>6. CASE i \notin 1 .. l /\ j \in 1 .. l
    <3>1. i \in l + 1 .. l + Len(t)
      BY <1>1, <2>1, <2>6
    <3> QED
      BY <1>6, <2>4, <2>6, <3>1
  <2> QED
    BY <2>2, <2>3, <2>5, <2>6
<1> QED
  BY <1>6 DEF Distinct, w

\* f takes no two elements of A to the same.
OneToOne(f, A) == \A a \in A : \A b \in A : f[a] = f[b] => a = b

LEMMA MapExact ==
  ASSUME NEW X, NEW s \in Seq(X), Distinct(s), NEW f, OneToOne(f, ToSet(s)),
         NEW w, MapOf(w, f, s)
  PROVE  Distinct(w) /\ ToSet(w) = {f[x] : x \in ToSet(s)} /\ Len(w) = Len(s)
<1> DEFINE l == Len(s)
           Y == {f[x] : x \in ToSet(s)}
<1>1. l \in Nat /\ DOMAIN s = 1 .. l
  OBVIOUS
<1>2. Into(f, ToSet(s), Y)
  BY DEF Into
<1> HIDE DEF Y
<1>3. w \in Seq(Y) /\ Len(w) = Len(s) /\ ToSet(w) \subseteq Y
  BY <1>2, MapIs
<1>4. \A i \in 1 .. l : w[i] = f[s[i]]
  BY <1>1 DEF MapOf
<1>5. \A i \in 1 .. l : s[i] \in ToSet(s)
  BY InList
<1>6. Distinct(w)
  <2> SUFFICES ASSUME NEW i \in 1 .. l, NEW j \in 1 .. l, w[i] = w[j] PROVE i = j
    BY <1>3 DEF Distinct
  <2>1. f[s[i]] = f[s[j]] /\ s[i] \in ToSet(s) /\ s[j] \in ToSet(s)
    BY <1>4, <1>5
  <2>2. s[i] = s[j]
    BY <2>1 DEF OneToOne
  <2> QED
    BY <2>2 DEF Distinct
<1>7. Y \subseteq ToSet(w)
  <2> SUFFICES ASSUME NEW y \in Y PROVE y \in ToSet(w)
    OBVIOUS
  <2>1. PICK x \in ToSet(s) : y = f[x]
    BY DEF Y
  <2>2. ToSet(s) = {s[i] : i \in 1 .. l}
    BY ToSetIs
  <2>3. PICK i \in 1 .. l : x = s[i]
    BY <2>1, <2>2
  <2>4. w[i] \in ToSet(w)
    BY <1>3, <2>3, InList
  <2> QED
    BY <1>4, <2>1, <2>3, <2>4
<1> QED
  BY <1>3, <1>6, <1>7 DEF Y

\* The copies of one record: n is what x was copied from.
LEMMA CopiesIs ==
  ASSUME NEW m, NEW new, NEW d, NEW tops, NEW x, NEW n, n = Original(new, x)
  PROVE  /\ Copies(m, new, d, tops, x).name = m[n].name
         /\ Copies(m, new, d, tops, x).dots = m[n].dots
         /\ Copies(m, new, d, tops, x).parent =
              IF n \in tops THEN d ELSE new[Lister(m, DOMAIN new, n)]
         /\ Copies(m, new, d, tops, x).kids =
              IF IsDir(n) THEN [i \in DOMAIN m[n].kids |-> new[m[n].kids[i]]] ELSE <<>>
BY DEF Copies

\* w is m with copies new[n] of the nodes S; those of the list hang in d.
Doubles(m, w, S, list, new, d) ==
  /\ \A n \in S : /\ w[new[n]].name = m[n].name /\ w[new[n]].dots = m[n].dots
                  /\ w[new[n]].parent = IF n \in ToSet(list) THEN d ELSE new[m[n].parent]
                  /\ MapOf(w[new[n]].kids, new, m[n].kids)
  /\ Alike(w[d], m[d])
  /\ \E more : MapOf(more, new, list) /\ w[d].kids = m[d].kids \o more
  /\ \A e \in Nodes \ (Range(new) \cup {d}) : w[e] = m[e]

LEMMA DoublesIs ==
  ASSUME NEW m, Held(m), NEW S, NEW list \in Seq(Nodes), Copiable(m, S, ToSet(list)),
         NEW X \in SUBSET Nodes, NEW new, Numbered(new, S, X), NEW d \in Nodes, d \notin X
  PROVE  Doubles(m, Copied(m, new, d, list), S, list, new, d)
<1> DEFINE w == Copied(m, new, d, list)
           R == Range(new)
           T == ToSet(list)
           more == [i \in DOMAIN list |-> new[list[i]]]
           C(x) == Copies(m, new, d, T, x)
<1>1. Cache(m) /\ S \subseteq Nodes /\ DOMAIN new = S
  BY HeldKids DEF Copiable, Numbered
<1>2. R \subseteq Nodes /\ d \notin R /\ \A n \in S : new[n] \in R /\ Original(new, new[n]) = n
  <2>1. R \subseteq X /\ \A n \in S : new[n] \in R /\ Original(new, new[n]) = n
    BY OriginalIs
  <2> QED
    BY <2>1
<1>3. \A x \in Nodes : w[x] = IF x \in R THEN C(x)
                              ELSE IF x = d THEN [m[d] EXCEPT !.kids = @ \o more] ELSE m[x]
  BY DEF Copied
<1>4. ASSUME NEW n \in S
      PROVE  /\ w[new[n]].name = m[n].name /\ w[new[n]].dots = m[n].dots
             /\ w[new[n]].parent = IF n \in T THEN d ELSE new[m[n].parent]
             /\ MapOf(w[new[n]].kids, new, m[n].kids)
  <2>1. w[new[n]] = C(new[n]) /\ n = Original(new, new[n])
    BY <1>2, <1>3
  <2>2. /\ C(new[n]).name = m[n].name
        /\ C(new[n]).dots = m[n].dots
        /\ C(new[n]).parent = IF n \in T THEN d ELSE new[Lister(m, S, n)]
        /\ C(new[n]).kids =
             IF IsDir(n) THEN [i \in DOMAIN m[n].kids |-> new[m[n].kids[i]]] ELSE <<>>
    BY <1>1, <2>1, CopiesIs
  <2> HIDE DEF w, C, R
  <2>3. n \notin T => Lister(m, S, n) = m[n].parent
    <3> SUFFICES ASSUME n \notin T PROVE Lister(m, S, n) = m[n].parent
      OBVIOUS
    <3>1. \E e \in S : IsDir(e) /\ n \in KidSet(m, e)
      BY <1>4 DEF Copiable, T
    <3>2. Lister(m, S, n) \in S /\ n \in KidSet(m, Lister(m, S, n))
      BY <3>1 DEF Lister
    <3> DEFINE e == Lister(m, S, n)
    <3>3. e \in Nodes /\ n \in KidSet(m, e)
      BY <1>1, <3>2
    <3> HIDE DEF e
    <3>4. m[n].parent = e
      BY <3>3, KidIs DEF Held
    <3> QED
      BY <3>4 DEF e
  <2>4. MapOf(w[new[n]].kids, new, m[n].kids)
    <3>1. CASE IsDir(n)
      BY <2>1, <2>2, <3>1 DEF MapOf
    <3>2. CASE ~IsDir(n)
      <4>1. ~m[n].dots
        BY <1>1, <3>2, VisitedIs DEF Held, IsDir
      <4>2. m[n].kids = <<>>
        BY <1>1, <4>1, UnvisitedIs DEF Held
      <4>3. w[new[n]].kids = <<>>
        BY <2>1, <2>2, <3>2
      <4>4. MapOf(<<>>, new, <<>>)
        BY DEF MapOf
      <4> QED
        BY <4>2, <4>3, <4>4
    <3> QED
      BY <3>1, <3>2
  <2> QED
    BY <2>1, <2>2, <2>3, <2>4
<1>5. Alike(w[d], m[d]) /\ w[d].kids = m[d].kids \o more /\ MapOf(more, new, list)
  <2>1. w[d] = [m[d] EXCEPT !.kids = m[d].kids \o more]
    BY <1>2, <1>3
  <2>2. m[d] \in Rec /\ MapOf(more, new, list)
    BY <1>1, CacheIs DEF MapOf
  <2> HIDE DEF w, more
  <2> QED
    BY <2>1, <2>2 DEF Alike, Rec
<1>6. \A e \in Nodes \ (R \cup {d}) : w[e] = m[e]
  BY <1>3
<1> HIDE DEF w, more
<1>7. Doubles(m, w, S, list, new, d)
  BY <1>4, <1>5, <1>6 DEF Doubles
<1> QED
  BY <1>7 DEF w

\* What can be copied: S is the list and all below it, read to the bottom; the list
\* has no name twice, and no directory of S lists one of its nodes.
Sources(m, S, list) ==
  /\ list \in Seq(Nodes) /\ Distinct(list)
  /\ Copiable(m, S, ToSet(list)) /\ S \subseteq Cached(m) \ {Root}
  /\ S = BelowAll(m, ToSet(list))
  /\ \A e \in S : KidSet(m, e) \subseteq S \ ToSet(list)
  /\ \A e \in S : IsDir(e) => m[e].dots
  /\ \A n \in ToSet(list) : Proper(m[n].name)
  /\ \A a, b \in ToSet(list) : m[a].name = m[b].name => a = b

\* Copies have the kinds of their originals and nothing on the device.
Copying(kk, vv, S, new) ==
  /\ \A n \in S : kk[new[n]] = kind[n]
  /\ \A e \in Nodes \ Range(new) : kk[e] = kind[e] /\ vv[e] = dev[e]

\* The sets of a cache with copies.
DoubledKids(m, w, S, list, new, d) ==
  /\ \A n \in S : /\ KidSet(w, new[n]) = {new[x] : x \in KidSet(m, n)}
                  /\ m[n].dots => Distinct(w[new[n]].kids)
                  /\ ~m[n].dots => w[new[n]].kids = <<>>
  /\ KidSet(w, d) = KidSet(m, d) \cup {new[x] : x \in ToSet(list)}
  /\ Distinct(w[d].kids)
  /\ \A e \in Nodes \ (Range(new) \cup {d}) : KidSet(w, e) = KidSet(m, e)

LEMMA DoublesSets ==
  ASSUME NEW m, Held(m), NEW S, NEW list, Sources(m, S, list),
         NEW new, Numbered(new, S, Free), NEW d \in Nodes, m[d].dots,
         NEW w, Doubles(m, w, S, list, new, d)
  PROVE  DoubledKids(m, w, S, list, new, d)
<1>1. /\ Cache(m) /\ S \subseteq Nodes /\ list \in Seq(Nodes) /\ Distinct(list)
      /\ ToSet(list) \subseteq S /\ \A e \in S : KidSet(m, e) \subseteq S
  BY HeldKids DEF Sources, Copiable
<1>2. OneToOne(new, S)
  BY DEF Numbered, OneToOne
<1>3. ASSUME NEW n \in S
      PROVE  /\ KidSet(w, new[n]) = {new[x] : x \in KidSet(m, n)}
             /\ m[n].dots => Distinct(w[new[n]].kids)
             /\ ~m[n].dots => w[new[n]].kids = <<>>
  <2>1. MapOf(w[new[n]].kids, new, m[n].kids)
    BY DEF Doubles
  <2>2. PICK l : l = w[new[n]].kids
    OBVIOUS
  <2>3. PICK k : k = m[n].kids
    OBVIOUS
  <2>4. MapOf(l, new, k) /\ k \in Seq(Nodes)
    BY <1>1, <2>1, <2>2, <2>3, CacheIs
  <2>5. CASE m[n].dots
    <3>1. Distinct(k)
      BY <1>1, <2>3, <2>5, VisitedIs DEF Held
    <3>2. OneToOne(new, ToSet(k))
      <4>1. ToSet(k) \subseteq S
        BY <1>1, <2>3 DEF KidSet
      <4> QED
        BY <1>2, <4>1 DEF OneToOne
    <3>3. Distinct(l) /\ ToSet(l) = {new[x] : x \in ToSet(k)}
      BY <2>4, <3>1, <3>2, MapExact
    <3> QED
      BY <2>2, <2>3, <2>5, <3>3 DEF KidSet
  <2>6. CASE ~m[n].dots
    <3>1. k = <<>> /\ KidSet(m, n) = {}
      BY <1>1, <2>3, <2>6, UnvisitedIs DEF Held
    <3>2. Distinct(k) /\ ToSet(k) = {} /\ Len(k) = 0
      BY <3>1 DEF Distinct, ToSet
    <3>3. OneToOne(new, ToSet(k))
      BY <3>2 DEF OneToOne
    <3>4. ToSet(l) = {new[x] : x \in ToSet(k)} /\ Len(l) = 0
      BY <2>4, <3>2, <3>3, MapExact
    <3>5. KidSet(w, new[n]) = {}
      BY <2>2, <3>2, <3>4 DEF KidSet
    <3>6. l = <<>>
      <4>1. l = [i \in DOMAIN k |-> new[k[i]]]
        BY <2>4 DEF MapOf
      <4>2. DOMAIN k = {}
        BY <3>1
      <4> QED
        BY <3>1, <4>1, <4>2
    <3> QED
      BY <2>2, <2>6, <3>1, <3>5, <3>6
  <2> QED
    BY <2>5, <2>6
<1>4. /\ KidSet(w, d) = KidSet(m, d) \cup {new[x] : x \in ToSet(list)}
      /\ Distinct(w[d].kids)
  <2>1. PICK more : MapOf(more, new, list) /\ w[d].kids = m[d].kids \o more
    BY DEF Doubles
  <2>2. OneToOne(new, ToSet(list))
    BY <1>1, <1>2 DEF OneToOne
  <2>3. Distinct(more) /\ ToSet(more) = {new[x] : x \in ToSet(list)}
    BY <1>1, <2>1, <2>2, MapExact
  <2>4. Into(new, ToSet(list), Free)
    BY <1>1 DEF Into, Numbered
  <2>5. more \in Seq(Free) /\ ToSet(more) \subseteq Free
    BY <1>1, <2>1, <2>4, MapIs
  <2>6. more \in Seq(Nodes)
    BY <2>5 DEF Free
  <2>7. m[d].kids \in Seq(Nodes) /\ Distinct(m[d].kids)
    BY <1>1, CacheIs, VisitedIs DEF Held
  <2>8. ToSet(m[d].kids) \cap ToSet(more) = {}
    <3>1. ToSet(m[d].kids) \subseteq Cached(m)
      BY <1>1, CacheIs DEF KidSet
    <3>2. Cached(m) \subseteq Real(kind)
      BY DEF Held, Tidy
    <3> QED
      BY <2>5, <3>1, <3>2 DEF Real, Free
  <2>9. Distinct(m[d].kids \o more)
    BY <2>3, <2>6, <2>7, <2>8, ConcatDistinct
  <2>10. ToSet(m[d].kids \o more) = ToSet(m[d].kids) \cup ToSet(more)
    BY <2>6, <2>7, ConcatIs
  <2> QED
    BY <2>1, <2>3, <2>9, <2>10 DEF KidSet
<1>5. \A e \in Nodes \ (Range(new) \cup {d}) : KidSet(w, e) = KidSet(m, e)
  BY DEF Doubles, KidSet
<1> QED
  BY <1>3, <1>4, <1>5 DEF DoubledKids

\* What the nodes S hold, before and after.
LEMMA CopyHolds ==
  ASSUME NEW m, Held(m), NEW S, NEW list, Sources(m, S, list),
         NEW new, Numbered(new, S, Free), NEW d \in Nodes, m[d].dots,
         NEW w, Doubles(m, w, S, list, new, d), NEW kk, NEW vv, Copying(kk, vv, S, new)
  PROVE  /\ \A n \in S : Holds(m, kind, dev)[n] = KidSet(m, n)
         /\ Doubled(Holds(m, kind, dev), Holds(w, kk, vv), S, ToSet(list), new, d)
<1>1. /\ S \subseteq Nodes /\ Range(new) \subseteq Free /\ Range(new) \subseteq Nodes
      /\ \A n \in S : new[n] \in Range(new)
  <2>1. Range(new) \subseteq Free /\ \A n \in S : new[n] \in Range(new)
    BY OriginalIs
  <2> QED
    BY <2>1 DEF Sources, Copiable, Free
<1>2. /\ \A n \in S : KidSet(w, new[n]) = {new[x] : x \in KidSet(m, n)}
      /\ KidSet(w, d) = KidSet(m, d) \cup {new[x] : x \in ToSet(list)}
      /\ \A e \in Nodes \ (Range(new) \cup {d}) : KidSet(w, e) = KidSet(m, e)
  <2>1. DoubledKids(m, w, S, list, new, d)
    BY DoublesSets
  <2> QED
    BY <2>1 DEF DoubledKids
<1>3. d \notin Range(new) /\ kind[d] = "dir"
  <2>1. kind[d] = "dir"
    BY VisitedIs DEF Held
  <2> QED
    BY <1>1, <2>1 DEF Free
<1>4. ASSUME NEW n \in S
      PROVE  /\ Holds(m, kind, dev)[n] = KidSet(m, n)
             /\ Holds(w, kk, vv)[new[n]] = {new[x] : x \in KidSet(m, n)}
  <2>1. n \in Nodes /\ new[n] \in Nodes
    BY <1>1
  <2>2. /\ w[new[n]].dots = m[n].dots /\ kk[new[n]] = kind[n]
        /\ KidSet(w, new[n]) = {new[x] : x \in KidSet(m, n)}
    BY <1>2 DEF Doubles, Copying
  <2>3. CASE m[n].dots
    <3>1. kind[n] = "dir" /\ Holds(m, kind, dev)[n] = KidSet(m, n)
      BY <2>1, <2>3, VisitedIs DEF Held
    <3>2. kk[new[n]] = "dir" /\ w[new[n]].dots
      BY <2>2, <2>3, <3>1
    <3>3. Holds(w, kk, vv)[new[n]] = KidSet(w, new[n])
      BY <2>1, <3>2, HoldsIs
    <3> QED
      BY <2>2, <3>1, <3>3
  <2>4. CASE ~m[n].dots
    <3>1. kind[n] # "dir"
      BY <2>4 DEF Sources, IsDir
    <3>2. KidSet(m, n) = {} /\ Holds(m, kind, dev)[n] = {}
      BY <2>1, <2>4, <3>1, UnvisitedIs DEF Held
    <3>3. Holds(w, kk, vv)[new[n]] = {}
      BY <2>1, <2>2, <3>1, HoldsIs
    <3> QED
      BY <3>2, <3>3
  <2> QED
    BY <2>3, <2>4
<1>5. ASSUME NEW e \in Nodes \ Range(new)
      PROVE  Holds(w, kk, vv)[e] = IF e = d THEN Holds(m, kind, dev)[e] \cup {new[x] : x \in ToSet(list)}
                                   ELSE Holds(m, kind, dev)[e]
  <2>1. kk[e] = kind[e] /\ vv[e] = dev[e] /\ e \in Nodes
    BY DEF Copying
  <2>2. CASE e = d
    <3>1. w[d].dots /\ kk[d] = "dir"
      BY <1>3, <2>1, <2>2 DEF Doubles, Alike
    <3>2. Holds(w, kk, vv)[d] = KidSet(w, d)
      BY <3>1, HoldsIs
    <3>3. Holds(m, kind, dev)[d] = KidSet(m, d)
      BY VisitedIs DEF Held
    <3> QED
      BY <1>2, <2>2, <3>2, <3>3
  <2>3. CASE e # d
    <3>1. w[e].dots = m[e].dots /\ KidSet(w, e) = KidSet(m, e)
      BY <1>2, <2>3 DEF Doubles
    <3> QED
      BY <2>1, <2>3, <3>1 DEF Holds
  <2> QED
    BY <2>2, <2>3
<1>6. Doubled(Holds(m, kind, dev), Holds(w, kk, vv), S, ToSet(list), new, d)
  BY <1>4, <1>5 DEF Doubled
<1> QED
  BY <1>4, <1>6

\* The directories of the cache with copies.
LEMMA CopyWell ==
  ASSUME NEW m, Held(m), NEW S, NEW list, Sources(m, S, list),
         NEW new, Numbered(new, S, Free), NEW d \in Nodes, m[d].dots,
         \A n \in ToSet(list) : ~Has(m, d, m[n].name),
         NEW w, Doubles(m, w, S, list, new, d), NEW e \in Nodes, w[e].dots
  PROVE  ReadWell(w, e)
<1>1. /\ S \subseteq Nodes /\ Range(new) \subseteq Free /\ Range(new) \subseteq Nodes
      /\ \A n \in S : new[n] \in Range(new)
      /\ \A x \in Range(new) : Original(new, x) \in S /\ new[Original(new, x)] = x
  <2>1. /\ Range(new) \subseteq Free /\ \A n \in S : new[n] \in Range(new)
        /\ \A x \in Range(new) : Original(new, x) \in S /\ new[Original(new, x)] = x
    BY OriginalIs
  <2> QED
    BY <2>1 DEF Sources, Copiable, Free
<1>2. /\ \A n \in S : /\ KidSet(w, new[n]) = {new[x] : x \in KidSet(m, n)}
                      /\ m[n].dots => Distinct(w[new[n]].kids)
      /\ KidSet(w, d) = KidSet(m, d) \cup {new[x] : x \in ToSet(list)}
      /\ Distinct(w[d].kids)
      /\ \A y \in Nodes \ (Range(new) \cup {d}) : KidSet(w, y) = KidSet(m, y)
  <2>1. DoubledKids(m, w, S, list, new, d)
    BY DoublesSets
  <2> QED
    BY <2>1 DEF DoubledKids
<1>3. \A n \in S : /\ w[new[n]].name = m[n].name /\ w[new[n]].dots = m[n].dots
                   /\ w[new[n]].parent = IF n \in ToSet(list) THEN d ELSE new[m[n].parent]
  BY DEF Doubles
<1>4. ASSUME NEW y \in Cached(m) PROVE w[y].name = m[y].name /\ w[y].parent = m[y].parent
  <2>1. y \notin Range(new) /\ y \in Nodes
    <3>1. kind[y] # "free"
      BY DEF Held, Tidy, Real
    <3> QED
      BY <1>1, <3>1 DEF Free, Cached
  <2> QED
    BY <2>1 DEF Doubles, Alike
<1>5. \A y \in Nodes : KidSet(m, y) \subseteq Cached(m)
  BY HeldKids
<1>6. CASE e \in Range(new)
  <2>1. PICK n \in S : e = new[n]
    BY <1>1, <1>6
  <2>2. m[n].dots /\ n \in Nodes
    BY <1>1, <1>3, <2>1
  <2>3. /\ \A x \in KidSet(m, n) : m[x].parent = n /\ Proper(m[x].name)
        /\ \A a, b \in KidSet(m, n) : m[a].name = m[b].name => a = b
    BY <2>2, VisitedIs DEF Held
  <2>4. KidSet(m, n) \subseteq S \ ToSet(list)
    BY DEF Sources
  <2>5. ASSUME NEW y \in KidSet(w, e) PROVE \E x \in KidSet(m, n) : y = new[x]
    BY <1>2, <2>1, <2>5
  <2>6. ASSUME NEW y \in KidSet(w, e) PROVE w[y].parent = e /\ Proper(w[y].name)
    <3>1. PICK x \in KidSet(m, n) : y = new[x]
      BY <2>5, <2>6
    <3> QED
      BY <1>3, <2>1, <2>3, <2>4, <3>1
  <2>7. ASSUME NEW a \in KidSet(w, e), NEW b \in KidSet(w, e), w[a].name = w[b].name PROVE a = b
    <3>1. PICK x \in KidSet(m, n) : a = new[x]
      BY <2>5, <2>7
    <3>2. PICK y \in KidSet(m, n) : b = new[y]
      BY <2>5, <2>7
    <3>3. m[x].name = m[y].name
      BY <1>3, <2>4, <2>7, <3>1, <3>2
    <3> QED
      BY <2>3, <3>1, <3>2, <3>3
  <2>8. Distinct(w[e].kids)
    BY <1>2, <2>1, <2>2
  <2> QED
    BY <2>6, <2>7, <2>8 DEF ReadWell
<1>7. CASE e = d
  <2>1. /\ \A x \in KidSet(m, d) : m[x].parent = d /\ Proper(m[x].name)
        /\ \A a, b \in KidSet(m, d) : m[a].name = m[b].name => a = b
    BY VisitedIs DEF Held
  <2>2. ASSUME NEW y \in KidSet(m, d)
        PROVE  w[y].name = m[y].name /\ w[y].parent = d /\ Proper(w[y].name)
    BY <1>4, <1>5, <2>1, <2>2
  <2>3. ASSUME NEW x \in ToSet(list)
        PROVE  /\ w[new[x]].name = m[x].name /\ w[new[x]].parent = d /\ Proper(w[new[x]].name)
               /\ \A y \in KidSet(m, d) : m[y].name # m[x].name
    <3>1. x \in S /\ Proper(m[x].name)
      BY DEF Sources, Copiable
    <3>2. \A y \in KidSet(m, d) : m[y].name # m[x].name
      BY DEF Has
    <3> QED
      BY <1>3, <3>1, <3>2
  <2>4. ASSUME NEW y \in KidSet(w, d)
        PROVE  y \in KidSet(m, d) \/ \E x \in ToSet(list) : y = new[x]
    BY <1>2, <2>4
  <2>5. ASSUME NEW y \in KidSet(w, d) PROVE w[y].parent = d /\ Proper(w[y].name)
    BY <2>2, <2>3, <2>4, <2>5
  <2>6. ASSUME NEW a \in KidSet(w, d), NEW b \in KidSet(w, d), w[a].name = w[b].name PROVE a = b
    <3>1. CASE a \in KidSet(m, d) /\ b \in KidSet(m, d)
      BY <2>1, <2>2, <2>6, <3>1
    <3>2. CASE a \in KidSet(m, d) /\ b \notin KidSet(m, d)
      <4>1. PICK x \in ToSet(list) : b = new[x]
        BY <2>4, <2>6, <3>2
      <4> QED
        BY <2>2, <2>3, <2>6, <3>2, <4>1
    <3>3. CASE a \notin KidSet(m, d) /\ b \in KidSet(m, d)
      <4>1. PICK x \in ToSet(list) : a = new[x]
        BY <2>4, <2>6, <3>3
      <4> QED
        BY <2>2, <2>3, <2>6, <3>3, <4>1
    <3>4. CASE a \notin KidSet(m, d) /\ b \notin KidSet(m, d)
      <4>1. PICK x \in ToSet(list) : a = new[x]
        BY <2>4, <2>6, <3>4
      <4>2. PICK y \in ToSet(list) : b = new[y]
        BY <2>4, <2>6, <3>4
      <4>3. m[x].name = m[y].name
        BY <2>3, <2>6, <4>1, <4>2
      <4>4. x = y
        BY <4>3 DEF Sources
      <4> QED
        BY <4>1, <4>2, <4>4
    <3> QED
      BY <3>1, <3>2, <3>3, <3>4
  <2> QED
    BY <1>2, <1>7, <2>5, <2>6 DEF ReadWell
<1>8. CASE e \notin Range(new) /\ e # d
  <2>1. w[e] = m[e]
    BY <1>8 DEF Doubles
  <2>2. ReadWell(m, e)
    BY <2>1 DEF Held, Tidy
  <2>3. \A x \in KidSet(m, e) : w[x].name = m[x].name /\ w[x].parent = m[x].parent
    BY <1>4, <1>5
  <2>4. w[e].kids = m[e].kids
    BY <2>1
  <2> QED
    BY <2>2, <2>3, <2>4, ReadWellSame
<1> QED
  BY <1>6, <1>7, <1>8

\* A tidy cache with copies in it is tidy.
LEMMA TidyCopied ==
  ASSUME NEW m, Held(m), NEW S, NEW list, Sources(m, S, list),
         NEW new, Numbered(new, S, Free), NEW d \in Nodes, m[d].dots,
         \A n \in ToSet(list) : ~Has(m, d, m[n].name),
         NEW w, Doubles(m, w, S, list, new, d), Added(m, w, Range(new)),
         NEW kk, NEW vv, Copying(kk, vv, S, new)
  PROVE  Tidy(w, kk, vv)
<1> DEFINE N == Range(new)
           V == Holds(m, kind, dev)
           W == Holds(w, kk, vv)
           T == ToSet(list)
<1>1. /\ S \subseteq Cached(m) \ {Root} /\ T \subseteq S /\ S = BelowAll(m, T)
      /\ \A e \in S : IsDir(e) => m[e].dots
      /\ \A e \in S : KidSet(m, e) \subseteq S \ T
  BY DEF Sources, Copiable
<1>2. /\ N \subseteq Free /\ N \subseteq Nodes /\ \A n \in S : new[n] \in N
      /\ \A x \in N : \E n \in S : x = new[n]
  <2>1. N \subseteq Free /\ \A n \in S : new[n] \in N
    BY OriginalIs
  <2>2. \A x \in N : Original(new, x) \in S /\ new[Original(new, x)] = x
    BY OriginalIs
  <2> QED
    BY <2>1, <2>2 DEF Free
<1>3. /\ Cached(m) \subseteq Real(kind) /\ Real(kind) \subseteq Nodes /\ m[Root].parent = NoNode
      /\ Tree(V, Real(kind)) /\ Root \in Cached(m) /\ Free = Nodes \ Real(kind)
  BY NodesAssumption DEF Held, Tidy, Real, Cached, Free
<1>4. d \in Cached(m)
  BY VisitedIs DEF Held
<1>5. DoubledKids(m, w, S, list, new, d)
  BY DoublesSets
<1>6. Doubled(V, W, S, T, new, d) /\ \A n \in S : V[n] = KidSet(m, n)
  BY CopyHolds
<1>7. /\ \A n \in S : w[new[n]].dots = m[n].dots /\ (~m[n].dots => w[new[n]].kids = <<>>)
      /\ w[d].name = m[d].name /\ w[d].parent = m[d].parent /\ w[d].dots = m[d].dots
      /\ \A e \in Nodes \ (N \cup {d}) : w[e] = m[e]
  BY <1>5 DEF Doubles, DoubledKids, Alike
<1>8. /\ \A n \in S : kk[new[n]] = kind[n]
      /\ \A e \in Nodes \ N : kk[e] = kind[e] /\ vv[e] = dev[e]
  BY DEF Copying
<1>9. Cache(w) /\ Cached(w) = Cached(m) \cup N
  BY DEF Added
<1> HIDE DEF N, V, W, T
<1>10. Real(kk) = Real(kind) \cup N
  <2> SUFFICES ASSUME NEW x \in Nodes PROVE x \in Real(kk) <=> x \in Real(kind) \cup N
    BY <1>2, <1>3 DEF Real
  <2>1. CASE x \in N
    <3>1. PICK n \in S : x = new[n]
      BY <1>2, <2>1
    <3>2. kk[x] = kind[n] /\ n \in Real(kind)
      BY <1>1, <1>3, <1>8, <3>1
    <3> QED
      BY <2>1, <3>2 DEF Real
  <2>2. CASE x \notin N
    BY <1>8, <2>2 DEF Real
  <2> QED
    BY <2>1, <2>2
<1>11. w[Root].parent = NoNode
  <2>1. Root \notin N /\ Root \in Nodes
    BY <1>2, <1>3
  <2> QED
    BY <1>3, <1>7, <2>1
<1>12. ASSUME NEW e \in Nodes, w[e].dots
       PROVE  e \in Cached(w) /\ kk[e] = "dir" /\ ReadWell(w, e)
  <2>1. ReadWell(w, e)
    BY <1>12, CopyWell
  <2>2. CASE e \in N
    <3>1. PICK n \in S : e = new[n]
      BY <1>2, <2>2
    <3>2. m[n].dots /\ n \in Nodes
      BY <1>1, <1>3, <1>7, <1>12, <3>1
    <3>3. kind[n] = "dir"
      BY <3>2, VisitedIs DEF Held
    <3> QED
      BY <1>8, <1>9, <2>1, <2>2, <3>1, <3>3
  <2>3. CASE e \notin N
    <3>1. m[e].dots
      BY <1>7, <1>12, <2>3
    <3>2. e \in Cached(m) /\ kind[e] = "dir"
      BY <3>1, VisitedIs DEF Held
    <3> QED
      BY <1>8, <1>9, <2>1, <2>3, <3>2
  <2> QED
    BY <2>2, <2>3
<1>13. ASSUME NEW e \in Nodes, ~w[e].dots
       PROVE  /\ w[e].kids = <<>>
              /\ kk[e] = "dir" => StoredWell(vv[e]) /\ StoredKids(vv[e]) \cap Cached(w) = {}
  <2>1. CASE e \in N
    <3>1. PICK n \in S : e = new[n]
      BY <1>2, <2>1
    <3>2. ~m[n].dots
      BY <1>7, <1>13, <3>1
    <3>3. kind[n] # "dir"
      BY <1>1, <3>2 DEF IsDir
    <3> QED
      BY <1>7, <1>8, <3>1, <3>2, <3>3
  <2>2. CASE e \notin N
    <3>1. e # d /\ ~m[e].dots /\ w[e] = m[e]
      BY <1>7, <1>13, <2>2
    <3>2. /\ m[e].kids = <<>>
          /\ kind[e] = "dir" => /\ StoredWell(dev[e]) /\ StoredKids(dev[e]) \cap Cached(m) = {}
                                /\ V[e] = StoredKids(dev[e])
      BY <3>1, UnvisitedIs DEF Held, V
    <3>3. V[e] \subseteq Real(kind)
      BY <1>3 DEF Tree
    <3>4. kind[e] = "dir" => StoredKids(dev[e]) \cap N = {}
      BY <1>2, <1>3, <3>2, <3>3
    <3> QED
      BY <1>8, <1>9, <2>2, <3>1, <3>2, <3>4
  <2> QED
    BY <2>1, <2>2
<1>14. Topped(V, S, T)
  BY <1>1, <1>6 DEF Topped
<1>15. Least(V, T, S)
  <2> SUFFICES ASSUME NEW X, T \subseteq X, \A e \in X \cap S : V[e] \subseteq X PROVE S \subseteq X
    BY DEF Least
  <2> DEFINE Y == X \cap S
  <2>1. Closed(m, Y)
    <3>1. ASSUME NEW e \in Y PROVE KidSet(m, e) \subseteq Y
      BY <1>1, <1>6, <3>1
    <3> QED
      BY <3>1 DEF Closed
  <2>2. T \subseteq Y
    BY <1>1
  <2> HIDE DEF Y
  <2>3. ASSUME NEW n \in T PROVE Below(m, n) \subseteq Y
    BY <2>1, <2>2, BelowLeast
  <2>4. S \subseteq Y
    BY <1>1, <2>3 DEF BelowAll
  <2> QED
    BY <2>4 DEF Y
<1>16. ASSUME NEW e \in Nodes \ Real(kind) PROVE V[e] = {}
  <2>1. kind[e] # "dir"
    BY DEF Real
  <2> QED
    BY <2>1, HoldsIs DEF V
<1>17. Tree(W, Real(kk))
  <2>1. S \subseteq Real(kind) /\ d \in Real(kind) /\ Root \in Real(kind) /\ Free \subseteq Nodes \ Real(kind)
    BY <1>1, <1>3, <1>4
  <2>2. Tree(W, Real(kind) \cup Range(new))
    BY <1>1, <1>3, <1>6, <1>14, <1>15, <1>16, <2>1, TreeCopy
  <2> QED
    BY <1>10, <2>2 DEF N
<1>18. Cached(w) \subseteq Real(kk)
  BY <1>3, <1>9, <1>10
<1> QED
  BY <1>9, <1>11, <1>12, <1>13, <1>17, <1>18 DEF Tidy, W

\* Nodes of the cache can be copied when all directories below them were read, none of
\* them is below another, and they have names of their own.
LEMMA SourcesAre ==
  ASSUME NEW m, Held(m), NEW list \in Seq(Nodes), Distinct(list),
         ToSet(list) \subseteq Cached(m) \ {Root}, NEW S, S = BelowAll(m, ToSet(list)),
         Visited(m, S), \A e \in S : KidSet(m, e) \cap ToSet(list) = {},
         \A a, b \in ToSet(list) : m[a].name = m[b].name => a = b
  PROVE  Sources(m, S, list)
<1> DEFINE T == ToSet(list)
<1>1. Cache(m) /\ T \in SUBSET (Cached(m) \ {Root})
  BY HeldKids
<1> HIDE DEF T
<1>2. Copiable(m, S, T)
  BY <1>1, BelowAllIs DEF T
<1>3. S \subseteq Nodes /\ T \subseteq S /\ Closed(m, S)
  BY <1>2 DEF Copiable
<1>4. ASSUME NEW x \in S PROVE x \in Cached(m) \ {Root}
  <2>1. PICK n \in T : x \in Below(m, n)
    BY <1>4 DEF BelowAll, T
  <2>2. n \in Cached(m) \ {Root} /\ n \in Nodes
    BY <1>1 DEF Cached
  <2>3. Below(m, n) \subseteq Cached(m) /\ Below(m, n) \subseteq Nodes
    BY <2>2, BelowIn
  <2>4. x # Root
    <3>1. CASE x = n
      BY <2>2, <3>1
    <3>2. CASE x # n
      <4>1. PICK e \in Below(m, n) : IsDir(e) /\ x \in KidSet(m, e)
        BY <2>1, <2>2, <3>2, HeldKids, BelowListed
      <4> QED
        BY <2>3, <4>1, HeldKids
    <3> QED
      BY <3>1, <3>2
  <2> QED
    BY <2>1, <2>3, <2>4
<1>5. ASSUME NEW e \in S, IsDir(e) PROVE m[e].dots
  <2>1. e \in Nodes
    BY <1>3
  <2>2. Size(m, e) > 0
    BY <1>5 DEF Visited
  <2>3. ~Unread(m, e)
    BY <2>2 DEF Unread
  <2> QED
    BY <1>5, <2>1, <2>3, UnreadHeld
<1>6. ASSUME NEW e \in S PROVE KidSet(m, e) \subseteq S \ T
  <2>1. e \in Nodes /\ KidSet(m, e) \cap T = {}
    BY <1>3 DEF T
  <2>2. CASE IsDir(e)
    BY <1>3, <2>1, <2>2 DEF Closed
  <2>3. CASE ~IsDir(e)
    <3>1. ~m[e].dots
      BY <2>1, <2>3, VisitedIs DEF Held, IsDir
    <3>2. KidSet(m, e) = {}
      BY <2>1, <3>1, UnvisitedIs DEF Held
    <3> QED
      BY <3>2
  <2> QED
    BY <2>2, <2>3
<1>7. ASSUME NEW n \in T PROVE Proper(m[n].name)
  <2>1. n \in Cached(m) \ {Root}
    BY <1>1
  <2>2. m[n].parent \in Nodes /\ n \in KidSet(m, m[n].parent)
    BY <2>1, ParentHolds DEF Held
  <2> QED
    BY <2>2, KidIs DEF Held
<1> QED
  BY <1>2, <1>4, <1>5, <1>6, <1>7 DEF Sources, T

\* What cp copies: a file, or the entries of a directory that was read.
LEMMA SourcesFile ==
  ASSUME NEW m, Held(m), NEW a \in Cached(m) \ {Root}, NEW list, list = <<a>>,
         NEW S, S = BelowAll(m, ToSet(list)), Visited(m, S)
  PROVE  Sources(m, S, list)
<1>1. a \in Nodes
  BY DEF Cached
<1>2. list \in Seq(Nodes) /\ ToSet(list) = {a} /\ Distinct(list)
  BY <1>1 DEF ToSet, Distinct
<1>3. S = Below(m, a) /\ S \subseteq Nodes
  <2>1. S = Below(m, a)
    BY <1>2 DEF BelowAll
  <2> QED
    BY <2>1, BelowIn
<1>4. \A e \in S : KidSet(m, e) \cap ToSet(list) = {}
  BY <1>2, <1>3, NoLoop
<1> QED
  BY <1>2, <1>4, SourcesAre

LEMMA SourcesDir ==
  ASSUME NEW m, Held(m), NEW s \in Nodes, m[s].dots, NEW list, list = m[s].kids,
         NEW S, S = BelowAll(m, ToSet(list)), Visited(m, S)
  PROVE  Sources(m, S, list)
<1>1. /\ Distinct(list) /\ ToSet(list) = KidSet(m, s)
      /\ \A a, b \in ToSet(list) : m[a].name = m[b].name => a = b
  BY VisitedIs DEF Held, KidSet
<1>2. list \in Seq(Nodes) /\ ToSet(list) \subseteq Cached(m) \ {Root}
  BY <1>1, HeldKids, CacheIs
<1>3. ASSUME NEW e \in S, NEW x \in KidSet(m, e), x \in ToSet(list) PROVE FALSE
  <2>1. PICK n \in ToSet(list) : e \in Below(m, n)
    BY <1>3 DEF BelowAll
  <2>2. n \in KidSet(m, s) /\ x \in KidSet(m, s)
    BY <1>1, <1>3
  <2>3. e \in Nodes
    <3>1. n \in Cached(m)
      BY <1>2
    <3> QED
      BY <2>1, <3>1, BelowIn
  <2>4. e = s
    BY <1>3, <2>2, <2>3, KidIs DEF Held
  <2> QED
    BY <2>1, <2>2, <2>4, NoLoop
<1> QED
  BY <1>1, <1>2, <1>3, SourcesAre

\* The copies are made, and the last gets another name.
LEMMA CarefulCopies ==
  ASSUME Kinds, NEW m, Ready(m), NEW S, NEW list, list # <<>>, Sources(m, S, list),
         NEW new, Numbered(new, S, Free), NEW d \in Nodes, m[d].dots,
         Len(m[d].kids) + Len(list) <= MaxKids,
         \A n \in ToSet(list) : ~Has(m, d, m[n].name),
         NEW kk, NEW vv, Copying(kk, vv, S, new), NEW nm \in Words,
         NEW x, x = Renamed(Copied(m, new, d, list), new[Last(list)], d, nm)
  PROVE  Tidy(x, kk, vv) /\ x[Root].dots /\ x[cur].dots
<1>1. /\ Held(m) /\ Cache(m) /\ m[Root].dots /\ cur \in Nodes /\ m[cur].dots
      /\ list \in Seq(Nodes) /\ Copiable(m, S, ToSet(list))
  BY HeldKids DEF Ready, Sources
<1>2. /\ Free \subseteq Nodes /\ Root \notin Free /\ d \notin Free /\ cur \notin Free
      /\ d \in Cached(m)
  <2>1. kind[Root] = "dir" /\ kind[d] = "dir" /\ kind[cur] = "dir" /\ d \in Cached(m)
    BY <1>1, VisitedIs DEF Kinds, Held
  <2> QED
    BY <2>1 DEF Free
<1>3. PICK w : w = Copied(m, new, d, list)
  OBVIOUS
<1>4. Doubles(m, w, S, list, new, d)
  BY <1>1, <1>2, <1>3, DoublesIs
<1>5. Added(m, w, Range(new))
  <2>1. Free \in SUBSET (Nodes \ {Root})
    BY <1>2
  <2> QED
    BY <1>1, <1>2, <1>3, <2>1, CopiedIs
<1>6. Tidy(w, kk, vv)
  BY <1>1, <1>4, <1>5, TidyCopied
<1>7. new[Last(list)] \in KidSet(w, d)
  <2>1. Len(list) \in 1 .. Len(list)
    BY <1>1
  <2>2. Last(list) \in ToSet(list)
    BY <1>1, <2>1, InList DEF Last
  <2>3. DoubledKids(m, w, S, list, new, d)
    BY <1>1, <1>4, DoublesSets
  <2> QED
    BY <2>2, <2>3 DEF DoubledKids
<1>8. w[Root].dots /\ w[cur].dots
  <2>1. Root \notin Range(new) /\ cur \notin Range(new) /\ Root \in Nodes
    BY <1>2, OriginalIs, NodesAssumption
  <2> QED
    BY <1>1, <1>4, <2>1 DEF Doubles, Alike
<1>9. PICK y : y = new[Last(list)]
  OBVIOUS
<1>10. x = Renamed(w, y, d, nm)
  BY <1>3, <1>9
<1>11. Tidy(Renamed(w, y, d, nm), kk, vv)
       /\ \A e \in Nodes : Renamed(w, y, d, nm)[e].dots = w[e].dots
  BY <1>6, <1>7, <1>9, TidyRenamed
<1> QED
  BY <1>1, <1>8, <1>10, <1>11, NodesAssumption

LEMMA CarefulCp ==
  ASSUME Inv, CarefulInv, NEW p \in Paths, NEW q \in Paths, Cp(p, q)
  PROVE  CarefulInv'
<1> SUFFICES ASSUME careful' PROVE CarefulInv'
  BY DEF CarefulInv
<1> DEFINE s == Parse(mem, p)
           h == Parse(s.m, DirPart(p))
           d == Parse(h.m, DirPart(q))
           list == IF IsDir(s.at) THEN d.m[s.at].kids ELSE <<s.at>>
           r == ReadEach(d.m, list)
           S == BelowAll(r.m, ToSet(list))
           nm == LastName(q)
<1>1. /\ phase = "up" /\ list # <<>> /\ Len(r.m[d.at].kids) + Len(list) <= MaxKids
      /\ careful /\ IsDir(d.at) /\ Visited(r.m, S)
      /\ \A n \in ToSet(list) : ~Has(r.m, d.at, r.m[n].name)
      /\ UNCHANGED <<phase, rootBlocks, cur, walk, doomed>>
  BY DEF Cp, Idle, BelowAll
<1>2. PICK new \in Injection(S, Free) :
        /\ mem' = Renamed(Copied(r.m, new, d.at, list), new[Last(list)], d.at, nm)
        /\ kind' = [x \in Nodes |-> IF x \in Range(new) THEN kind[Original(new, x)]
                                    ELSE kind[x]]
        /\ dev' = [x \in Nodes |-> IF x \in Range(new) THEN Empty ELSE dev[x]]
  BY DEF Cp, BelowAll
<1>3. Device /\ Kinds /\ Ready(mem)
  BY <1>1, ReadyIs DEF Inv, DiskOK
<1>4. nm \in Words
  BY NamesIs
<1>5. Reached(mem, s) /\ Ready(s.m)
  BY <1>3, ParseReady
<1> HIDE DEF s, nm, S
<1>6. Reached(s.m, h) /\ Ready(h.m)
  BY <1>3, <1>5, ParseReady
<1> HIDE DEF h
<1>7. Reached(h.m, d) /\ Ready(d.m)
  BY <1>3, <1>6, ParseReady
<1> HIDE DEF d, r, list
<1>8. /\ s.at \in Cached(s.m) /\ s.at \in Nodes /\ d.at \in Nodes /\ d.m[d.at].dots
      /\ Grown(s.m, h.m) /\ Grown(h.m, d.m) /\ Keeps(s.m, h.m) /\ Keeps(h.m, d.m)
      /\ IsDir(s.at) => s.m[s.at].dots
  BY <1>1, <1>5, <1>6, <1>7, ReachedIs
<1>9. s.at \in Cached(d.m) /\ (IsDir(s.at) => d.m[s.at].dots)
  BY <1>8 DEF Grown, Keeps
<1>10. Held(d.m) /\ Cache(d.m) /\ d.m[Root].dots
  BY <1>7, HeldKids DEF Ready
<1>11. ~IsDir(s.at) => s.at # Root
  BY <1>3 DEF Kinds, IsDir
<1>12. list \in Seq(Nodes) /\ ToSet(list) \subseteq Cached(d.m) \ {Root}
  <2>1. CASE IsDir(s.at)
    <3>1. list = d.m[s.at].kids
      BY <2>1 DEF list
    <3> QED
      BY <1>8, <1>10, <3>1, CacheIs DEF KidSet
  <2>2. CASE ~IsDir(s.at)
    <3>1. PICK a : a = s.at
      OBVIOUS
    <3>2. a \in Nodes /\ a \in Cached(d.m) \ {Root}
      BY <1>8, <1>9, <1>11, <2>2, <3>1
    <3>3. <<a>> \in Seq(Nodes) /\ ToSet(<<a>>) = {a}
      BY <3>2 DEF ToSet
    <3>4. list = <<a>>
      BY <2>2, <3>1 DEF list
    <3> QED
      BY <3>2, <3>3, <3>4
  <2> QED
    BY <2>1, <2>2
<1>13. Reached(d.m, r) /\ Ready(r.m)
  <2>1. Reached(d.m, r)
    BY <1>3, <1>10, <1>12, ReadEachHeld DEF r
  <2>2. Held(r.m) /\ Keeps(d.m, r.m)
    BY <2>1, ReachedIs
  <2> QED
    BY <1>7, <2>1, <2>2, KeepsReady
<1>14. Held(r.m) /\ Keeps(d.m, r.m) /\ Cached(d.m) \subseteq Cached(r.m)
  BY <1>13, ReachedIs DEF Grown
<1>15. r.m[d.at].dots
  BY <1>8, <1>14 DEF Keeps
<1>16. Sources(r.m, S, list)
  <2>1. S = BelowAll(r.m, ToSet(list))
    BY DEF S
  <2>2. CASE IsDir(s.at)
    <3>1. list = r.m[s.at].kids /\ r.m[s.at].dots
      BY <1>8, <1>9, <1>14, <2>2 DEF Keeps, list
    <3> QED
      BY <1>1, <1>8, <1>14, <2>1, <3>1, SourcesDir
  <2>3. CASE ~IsDir(s.at)
    <3>1. list = <<s.at>> /\ s.at \in Cached(r.m) \ {Root}
      BY <1>9, <1>11, <1>14, <2>3 DEF list
    <3> QED
      BY <1>1, <1>14, <2>1, <3>1, SourcesFile
  <2> QED
    BY <2>2, <2>3
<1>17. Numbered(new, S, Free)
  BY <1>2 DEF Injection, IsInjective, Numbered
<1>18. PICK kk : kk = kind'
  OBVIOUS
<1>19. PICK vv : vv = dev'
  OBVIOUS
<1>20. PICK x : x = mem'
  OBVIOUS
<1>21. Copying(kk, vv, S, new)
  <2>1. \A n \in S : Original(new, new[n]) = n /\ new[n] \in Range(new)
    BY <1>17, OriginalIs
  <2>2. Range(new) \subseteq Nodes
    BY <1>17, OriginalIs DEF Free
  <2> QED
    BY <1>2, <1>18, <1>19, <2>1, <2>2 DEF Copying
<1>22. Tidy(x, kk, vv) /\ x[Root].dots /\ x[cur].dots
  <2>1. x = Renamed(Copied(r.m, new, d.at, list), new[Last(list)], d.at, nm)
    BY <1>2, <1>20
  <2> QED
    BY <1>1, <1>3, <1>4, <1>8, <1>13, <1>15, <1>16, <1>17, <1>21, <2>1, CarefulCopies
<1>23. Tidy(mem, kind, dev)' /\ mem'[Root].dots /\ mem'[cur].dots
  BY <1>18, <1>19, <1>20, <1>22
<1>24. cur \in Nodes /\ rootBlocks = 1
  BY <1>1, <1>3 DEF Ready, CarefulInv
<1> QED
  BY <1>1, <1>23, <1>24 DEF CarefulInv, Standing, Leaving

LEMMA CarefulCpCrash ==
  ASSUME NEW p \in Paths, NEW q \in Paths, CpCrash(p, q)
  PROVE  CarefulInv'
BY DEF CpCrash, CarefulInv

----------------------------------------------------------------------------
(* The end of the program, its start, and formatting.                      *)

\* Entries that leave room in one block are all in it.
LEMMA OneBlock ==
  ASSUME NEW z \in Nat, NEW p \in Nat \ {0}, z % p # 0,
         (z \div p) + (IF z % p = 0 THEN 0 ELSE 1) <= 1
  PROVE  z % p = z /\ (z \div p) + (IF z % p = 0 THEN 0 ELSE 1) = 1
<1> DEFINE q == z \div p
           r == z % p
<1>1. q \in Nat /\ r \in Nat /\ z = q * p + r
  BY Z3
<1>2. r # 0 /\ q + 1 <= 1
  BY <1>1
<1> HIDE DEF q, r
<1>3. q = 0
  BY <1>1, <1>2
<1>4. r = z
  BY <1>1, <1>3
<1> QED
  BY <1>2, <1>3, <1>4 DEF q, r

\* A directory whose entries leave room in its only block is written as it is.
LEMMA WrittenWhole ==
  ASSUME NEW m, Held(m), NEW d \in Nodes, m[d].dots, Size(m, d) % PerBlock # 0,
         Blocks(m, d) <= 1
  PROVE  StoredWell(Written(m, d, 1)) /\ StoredKids(Written(m, d, 1)) = KidSet(m, d)
<1> DEFINE s == m[d].kids
           l == Len(s)
           u == [i \in 1 .. l |-> [name |-> m[s[i]].name, node |-> s[i]]]
<1>1. Cache(m) /\ s \in Seq(Nodes) /\ l \in Nat /\ DOMAIN s = 1 .. l
  BY HeldKids, CacheIs
<1>2. Size(m, d) = l + 2
  BY <1>1, SizeIs
<1> HIDE DEF s, l
<1>3. Kept(m, d, 1) = l + 2
  <2> DEFINE z == Size(m, d)
  <2>5. /\ z % PerBlock # 0
        /\ (z \div PerBlock) + (IF z % PerBlock = 0 THEN 0 ELSE 1) <= 1
    BY DEF Blocks
  <2>6. z = l + 2
    BY <1>2
  <2> HIDE DEF z
  <2>1. /\ z \in Nat /\ PerBlock \in Nat \ {0} /\ z % PerBlock # 0
        /\ (z \div PerBlock) + (IF z % PerBlock = 0 THEN 0 ELSE 1) <= 1
    BY <1>1, <2>5, <2>6, PerBlockAssumption
  <2>2. z % PerBlock = z
    BY <2>1, OneBlock
  <2>3. Kept(m, d, 1) = (1 - 1) * PerBlock + (z % PerBlock)
    BY DEF Kept, z
  <2>4. (1 - 1) * PerBlock = 0
    BY <2>1
  <2> QED
    BY <1>1, <2>2, <2>3, <2>4, <2>6
<1>4. KeptKids(m, d, 1) = s
  <2>1. KeptKids(m, d, 1) = SubSeq(s, 1, (l + 2) - 2)
    BY <1>3 DEF KeptKids, s
  <2>2. (l + 2) - 2 = l
    BY <1>1
  <2>3. SubSeq(s, 1, l) = s
    BY <1>1 DEF l
  <2> QED
    BY <2>1, <2>2, <2>3
<1>5. Written(m, d, 1).kids = u /\ Written(m, d, 1).dots
  <2>1. Size(m, d) # 0 /\ Kept(m, d, 1) > 0
    BY <1>1, <1>2, <1>3
  <2>2. Written(m, d, 1) =
          [kids |-> [i \in DOMAIN KeptKids(m, d, 1) |->
                       [name |-> m[m[d].kids[i]].name, node |-> m[d].kids[i]]],
           dots |-> m[d].dots /\ Kept(m, d, 1) > 0]
    BY <2>1 DEF Written
  <2>3. Written(m, d, 1) = [kids |-> u, dots |-> m[d].dots /\ Kept(m, d, 1) > 0]
    BY <1>1, <1>4, <2>2 DEF s
  <2>4. PICK b : b = (m[d].dots /\ Kept(m, d, 1) > 0)
    OBVIOUS
  <2>5. b
    BY <2>1, <2>4
  <2>6. Written(m, d, 1) = [kids |-> u, dots |-> b]
    BY <2>3, <2>4
  <2> HIDE DEF u
  <2>7. [kids |-> u, dots |-> b].kids = u /\ [kids |-> u, dots |-> b].dots = b
    OBVIOUS
  <2> QED
    BY <2>5, <2>6, <2>7
<1>6. Len(u) = l /\ DOMAIN u = 1 .. l
  <2>1. u = [i \in 1 .. l |-> u[i]]
    OBVIOUS
  <2> HIDE DEF u
  <2> QED
    BY <1>1, <2>1
<1>7. \A i \in 1 .. l : u[i].name = m[s[i]].name /\ u[i].node = s[i]
  OBVIOUS
<1>8. PICK x : x = Written(m, d, 1)
  OBVIOUS
<1> HIDE DEF u
<1>9. x.kids = u /\ x.dots
  BY <1>5, <1>8
<1>10. /\ Distinct(s)
       /\ \A n \in KidSet(m, d) : Proper(m[n].name)
       /\ \A a, b \in KidSet(m, d) : m[a].name = m[b].name => a = b
  BY VisitedIs DEF Held, s
<1>11. KidSet(m, d) = {s[i] : i \in 1 .. l}
  BY <1>1 DEF KidSet, ToSet, s
<1>12. \A i \in 1 .. l : Proper(u[i].name)
  BY <1>7, <1>10, <1>11
<1>13. ASSUME NEW i \in 1 .. l, NEW j \in 1 .. l, u[i].node = u[j].node \/ u[i].name = u[j].name
       PROVE  i = j
  <2>1. s[i] \in KidSet(m, d) /\ s[j] \in KidSet(m, d)
    BY <1>11
  <2>2. s[i] = s[j]
    BY <1>7, <1>10, <1>13, <2>1
  <2> QED
    BY <1>10, <2>2 DEF Distinct, l
<1>14. StoredWell(x)
  BY <1>6, <1>9, <1>12, <1>13 DEF StoredWell
<1>15. StoredKids(x) = KidSet(m, d)
  <2>1. ToSet(u) = {u[i] : i \in 1 .. l}
    BY <1>6 DEF ToSet
  <2>2. StoredKids(x) = {e.node : e \in ToSet(u)}
    BY <1>9 DEF StoredKids
  <2>3. {e.node : e \in ToSet(u)} = {s[i] : i \in 1 .. l}
    BY <1>7, <2>1
  <2> QED
    BY <1>11, <2>2, <2>3
<1> QED
  BY <1>8, <1>14, <1>15

\* The device holds what the cache held.
Saved(m, v) ==
  \A n \in Nodes :
    /\ n \in Cached(m) /\ IsDir(n) => StoredWell(v[n]) /\ StoredKids(v[n]) = KidSet(m, n)
    /\ ~(n \in Cached(m) /\ IsDir(n)) => v[n] = dev[n]

\* An empty cache is tidy when the device holds the tree.
LEMMA TidySaved ==
  ASSUME NEW m, Held(m), \A n \in Cached(m) : IsDir(n) => m[n].dots,
         NEW v, Saved(m, v), NEW w, w = [n \in Nodes |-> Blank], kind[Root] = "dir"
  PROVE  Tidy(w, kind, v)
<1>1. /\ Cache(w) /\ Root \in Nodes /\ Cached(w) = {Root}
      /\ \A n \in Nodes : w[n].parent = NoNode /\ w[n].kids = <<>> /\ ~w[n].dots
  <2>1. Cache(w) /\ Root \in Nodes
    BY BlankRoot, NodesAssumption
  <2>2. \A n \in Nodes : w[n].parent = NoNode /\ w[n].kids = <<>> /\ ~w[n].dots
    BY DEF Blank
  <2> QED
    BY <2>1, <2>2 DEF Cached
<1>2. Tree(Holds(m, kind, dev), Real(kind))
  BY DEF Held, Tidy
<1>3. ASSUME NEW n \in Nodes, kind[n] = "dir"
      PROVE  StoredWell(v[n]) /\ StoredKids(v[n]) = Holds(m, kind, dev)[n]
  <2>1. CASE n \in Cached(m)
    <3>1. m[n].dots /\ IsDir(n)
      BY <1>3, <2>1 DEF IsDir
    <3>2. Holds(m, kind, dev)[n] = KidSet(m, n)
      BY <3>1, VisitedIs DEF Held
    <3> QED
      BY <2>1, <3>1, <3>2 DEF Saved
  <2>2. CASE n \notin Cached(m)
    <3>1. ~m[n].dots
      BY <2>2, VisitedIs DEF Held
    <3>2. StoredWell(dev[n]) /\ Holds(m, kind, dev)[n] = StoredKids(dev[n])
      BY <1>3, <3>1, UnvisitedIs DEF Held
    <3>3. v[n] = dev[n]
      BY <2>2 DEF Saved
    <3> QED
      BY <3>2, <3>3
  <2> QED
    BY <2>1, <2>2
<1>4. Holds(w, kind, v) = Holds(m, kind, dev)
  <2>1. ASSUME NEW n \in Nodes PROVE Holds(w, kind, v)[n] = Holds(m, kind, dev)[n]
    <3>1. CASE kind[n] = "dir"
      BY <1>1, <1>3, <3>1, HoldsIs
    <3>2. CASE kind[n] # "dir"
      <4>1. Holds(w, kind, v)[n] = {}
        BY <3>2, HoldsIs
      <4>2. Holds(m, kind, dev)[n] = {}
        BY <3>2, HoldsIs
      <4> QED
        BY <4>1, <4>2
    <3> QED
      BY <3>1, <3>2
  <2> QED
    BY <2>1 DEF Holds
<1>5. ASSUME NEW n \in Nodes, kind[n] = "dir" PROVE StoredKids(v[n]) \cap Cached(w) = {}
  <2>1. Holds(m, kind, dev)[n] \subseteq Real(kind) \ {Root}
    BY <1>2 DEF Tree
  <2> QED
    BY <1>1, <1>3, <1>5, <2>1
<1>6. Cached(w) \subseteq Real(kind)
  BY <1>1 DEF Real
<1> QED
  BY <1>1, <1>2, <1>3, <1>4, <1>5, <1>6 DEF Tidy

\* In careful hands every cached directory is left with the one block it has.
LEMMA CarefulEndings ==
  ASSUME Cache(mem), Kinds, rootBlocks = 1, NEW got \in Endings,
         NEW d \in CachedDirs, Size(mem, d) % PerBlock # 0, Blocks(mem, d) <= Had(d)
  PROVE  got[d] = 1 /\ Clipped(got[d]) = 1 /\ Blocks(mem, d) <= 1
<1>1. d \in Nodes /\ got[d] \in Nat /\ got[d] <= Blocks(mem, d)
  BY EndingsIs
<1>2. Size(mem, d) \in Nat /\ Blocks(mem, d) \in Nat
  BY <1>1, SizeNat
<1>3. Had(d) \in Nat /\ Had(d) <= 1
  BY DEF Had
<1>4. Blocks(mem, d) <= 1
  BY <1>2, <1>3
<1>5. Blocks(mem, d) = 1
  <2> DEFINE z == Size(mem, d)
  <2>1. /\ z \in Nat /\ PerBlock \in Nat \ {0} /\ z % PerBlock # 0
        /\ (z \div PerBlock) + (IF z % PerBlock = 0 THEN 0 ELSE 1) <= 1
    BY <1>2, <1>4, PerBlockAssumption DEF Blocks
  <2> HIDE DEF z
  <2>2. (z \div PerBlock) + (IF z % PerBlock = 0 THEN 0 ELSE 1) = 1
    BY <2>1, OneBlock
  <2> QED
    BY <2>2 DEF Blocks, z
<1>6. got[d] < Blocks(mem, d) => got[d] >= Had(d)
  BY DEF Endings
<1>7. got[d] = 1
  BY <1>1, <1>3, <1>5, <1>6
<1> QED
  BY <1>4, <1>7, PerBlockAssumption DEF Clipped

LEMMA CarefulExit ==
  ASSUME Inv, CarefulInv, Exit
  PROVE  CarefulInv'
<1> SUFFICES ASSUME careful' PROVE CarefulInv'
  BY DEF CarefulInv
<1>1. /\ phase = "up" /\ UNCHANGED <<kind, walk, doomed>>
      /\ careful /\ Visited(mem, CachedDirs)
      /\ \A d \in CachedDirs : Size(mem, d) % PerBlock # 0 /\ Blocks(mem, d) <= Had(d)
  BY DEF Exit, Idle
<1>2. Device /\ Kinds /\ Ready(mem) /\ rootBlocks = 1
  BY <1>1, ReadyIs DEF Inv, DiskOK, CarefulInv
<1>3. Held(mem) /\ Cache(mem) /\ Root \in Cached(mem)
  BY <1>2, HeldKids, VisitedIs, NodesAssumption DEF Ready, Held
<1>4. IsTree(mem, Root)
  BY <1>3, IsTreeAt
<1>14. PICK got \in Endings :
         IF IsTree(mem, Root) /\ ~Overrun(got)
         THEN /\ phase' = "off"
              /\ dev' = [n \in Nodes |-> IF n \in CachedDirs
                                         THEN Written(mem, n, Clipped(got[n])) ELSE dev[n]]
              /\ filled' = filled \cup FilledAtEnd(got)
              /\ rootBlocks' = Max({rootBlocks, Clipped(got[Root])})
              /\ mem' = [n \in Nodes |-> Blank]
              /\ cur' = Root
         ELSE phase' = "astray" /\ UNCHANGED <<dev, filled, rootBlocks, mem, cur>>
  BY DEF Exit
<1>15. \A d \in CachedDirs : got[d] = 1 /\ Clipped(got[d]) = 1 /\ Blocks(mem, d) <= 1
  BY <1>1, <1>2, <1>3, CarefulEndings
<1>16. Root \in CachedDirs
  BY <1>2, <1>3, EndingsIs
<1>17. ~Overrun(got)
  BY <1>15, PerBlockAssumption DEF Overrun
<1>5. /\ phase' = "off"
      /\ dev' = [n \in Nodes |-> IF n \in CachedDirs THEN Written(mem, n, 1) ELSE dev[n]]
      /\ rootBlocks' = Max({rootBlocks, Clipped(got[Root])})
      /\ mem' = [n \in Nodes |-> Blank]
  BY <1>4, <1>14, <1>15, <1>17
<1>6. \A n : n \in CachedDirs <=> n \in Cached(mem) /\ IsDir(n)
  BY <1>3, AllBelowRoot DEF CachedDirs
<1>7. ASSUME NEW n \in Cached(mem), IsDir(n) PROVE mem[n].dots
  <2>1. n \in Nodes /\ Size(mem, n) > 0
    BY <1>1, <1>6, <1>7 DEF Visited, Cached
  <2>2. ~Unread(mem, n)
    BY <2>1 DEF Unread
  <2> QED
    BY <1>3, <1>7, <2>1, <2>2, UnreadHeld
<1>8. PICK v : v = dev'
  OBVIOUS
<1>9. PICK w : w = mem'
  OBVIOUS
<1>10. Saved(mem, v)
  <2> SUFFICES ASSUME NEW n \in Nodes
               PROVE  /\ n \in Cached(mem) /\ IsDir(n) =>
                           StoredWell(v[n]) /\ StoredKids(v[n]) = KidSet(mem, n)
                      /\ ~(n \in Cached(mem) /\ IsDir(n)) => v[n] = dev[n]
    BY DEF Saved
  <2>1. v[n] = IF n \in CachedDirs THEN Written(mem, n, 1) ELSE dev[n]
    BY <1>5, <1>8
  <2>2. CASE n \in CachedDirs
    <3>1. /\ n \in Cached(mem) /\ IsDir(n) /\ mem[n].dots /\ Size(mem, n) % PerBlock # 0
          /\ Blocks(mem, n) <= 1
      BY <1>1, <1>6, <1>7, <1>15, <2>2
    <3>2. StoredWell(Written(mem, n, 1)) /\ StoredKids(Written(mem, n, 1)) = KidSet(mem, n)
      BY <1>3, <3>1, WrittenWhole
    <3> QED
      BY <2>1, <2>2, <3>1, <3>2
  <2>3. CASE n \notin CachedDirs
    BY <1>6, <2>1, <2>3
  <2> QED
    BY <2>2, <2>3
<1>11. Tidy(w, kind, v)
  <2>1. w = [n \in Nodes |-> Blank] /\ kind[Root] = "dir"
    BY <1>2, <1>5, <1>9 DEF Kinds
  <2> QED
    BY <1>3, <1>7, <1>10, <2>1, TidySaved
<1>12. Tidy(mem, kind, dev)'
  BY <1>1, <1>8, <1>9, <1>11
<1>13. rootBlocks' = 1
  <2>1. rootBlocks' = Max({1, 1})
    BY <1>2, <1>5, <1>15, <1>16
  <2> QED
    BY <2>1, MaxIs
<1> QED
  BY <1>5, <1>12, <1>13 DEF CarefulInv, Leaving

\* Making the first two entries of the root "." and ".." changes nothing.
LEMMA MountedHeld ==
  ASSUME Device, Kinds, NEW b, b = [n \in Nodes |-> Blank], Held(b)
  PROVE  Held(Mounted) /\ Mounted[Root].dots
<1>1. Root \in Cached(b) /\ Root \in Nodes /\ Cache(b) /\ ~b[Root].dots
  BY HeldKids, NodesAssumption DEF Cached, Blank
<1>2. Unread(b, Root)
  BY <1>1, UnreadHeld DEF Kinds, IsDir
<1>3. PICK w : w = Read(b, Root)
  OBVIOUS
<1>4. Held(w) /\ w[Root].dots
  BY <1>1, <1>2, <1>3, ReadHeld
<1>5. Mounted = [w EXCEPT ![Root].dots = TRUE]
  BY <1>3 DEF Mounted
<1>6. w \in [Nodes -> Rec]
  BY <1>4, HeldKids DEF Cache
<1>7. PICK x : x = w[Root]
  OBVIOUS
<1>8. x \in Rec /\ x.dots
  BY <1>1, <1>4, <1>6, <1>7
<1>9. [x EXCEPT !.dots = TRUE] = x
  <2>1. x.dots = TRUE
    BY <1>8, RecIs
  <2> QED
    BY <1>8, <2>1 DEF Rec
<1>10. Mounted = [w EXCEPT ![Root] = x]
  BY <1>5, <1>7, <1>9
<1>11. [w EXCEPT ![Root] = x] = w
  BY <1>1, <1>6, <1>7
<1> QED
  BY <1>4, <1>10, <1>11

LEMMA CarefulStart ==
  ASSUME Inv, CarefulInv, Start
  PROVE  CarefulInv'
<1> SUFFICES ASSUME careful' PROVE CarefulInv'
  BY DEF CarefulInv
<1>1. phase = "off" /\ careful /\ cur' = Root /\ UNCHANGED <<kind, dev, rootBlocks>>
  BY DEF Start, disk
<1>2. rootBlocks = 1 /\ mem = [n \in Nodes |-> Blank] /\ Held(mem)
  BY <1>1 DEF CarefulInv, Held
<1>3. phase' = "up" /\ mem' = Mounted
  <2>1. rootBlocks <= MountBlocks
    BY <1>2, PerBlockAssumption
  <2> QED
    BY <2>1 DEF Start
<1>4. Device /\ Kinds
  BY DEF Inv, DiskOK
<1>5. Held(Mounted) /\ Mounted[Root].dots
  BY <1>2, <1>4, MountedHeld
<1>6. Tidy(mem, kind, dev)' /\ mem'[Root].dots
  <2>1. PICK w : w = Mounted
    OBVIOUS
  <2>2. Tidy(w, kind, dev) /\ w[Root].dots /\ mem' = w
    BY <1>3, <1>5, <2>1 DEF Held
  <2> QED
    BY <1>1, <2>2
<1> QED
  BY <1>1, <1>2, <1>3, <1>6, NodesAssumption DEF CarefulInv, Standing, Leaving

\* A formatted file system.
LEMMA TidyFresh ==
  ASSUME NEW w, w = [n \in Nodes |-> [Blank EXCEPT !.dots = (n = Root)]],
         NEW k, k = [n \in Nodes |-> IF n = Root THEN "dir" ELSE "free"], NEW v
  PROVE  Tidy(w, k, v) /\ w[Root].dots
<1>1. Cache(w) /\ Root \in Nodes
  BY BlankRoot, NodesAssumption
<1>2. ASSUME NEW n \in Nodes
      PROVE  w[n].parent = NoNode /\ w[n].kids = <<>> /\ (w[n].dots <=> n = Root)
  <2>1. PICK b : b = (n = Root)
    OBVIOUS
  <2>2. w[n] = [Blank EXCEPT !.dots = b] /\ b \in BOOLEAN
    BY <2>1
  <2>3. w[n].parent = NoNode /\ w[n].kids = <<>> /\ w[n].dots = b
    BY <2>2 DEF Blank
  <2> QED
    BY <2>1, <2>3
<1>3. Real(k) = {Root} /\ k[Root] = "dir" /\ \A n \in Nodes : k[n] = "dir" => n = Root
  BY <1>1 DEF Real
<1>4. Cached(w) = {Root}
  BY <1>1, <1>2 DEF Cached
<1>5. \A n \in Nodes : KidSet(w, n) = {}
  BY <1>2 DEF KidSet, ToSet
<1>6. ReadWell(w, Root)
  <2>1. w[Root].kids = <<>> /\ KidSet(w, Root) = {}
    BY <1>1, <1>2, <1>5
  <2> QED
    BY <2>1 DEF ReadWell, Distinct
<1>7. Tree(Holds(w, k, v), Real(k))
  <2>1. ASSUME NEW n \in Nodes PROVE Holds(w, k, v)[n] = {}
    BY <1>2, <1>3, <1>5, HoldsIs
  <2> HIDE DEF Holds
  <2>2. \A X : Whole(Holds(w, k, v), X) => Root \in X
    BY DEF Whole
  <2> QED
    BY <1>3, <2>1, <2>2 DEF Tree
<1> QED
  BY <1>1, <1>2, <1>3, <1>4, <1>6, <1>7 DEF Tidy

LEMMA CarefulFormat ==
  ASSUME Inv, CarefulInv, NEW bottom \in BOOLEAN, Format(bottom)
  PROVE  CarefulInv'
<1> SUFFICES ASSUME careful' PROVE CarefulInv'
  BY DEF CarefulInv
<1>1. /\ phase = "up" /\ careful /\ UNCHANGED rootBlocks
      /\ bottom \/ \A d \in CachedDirs : Blocks(mem, d) <= MaxBlocks + 1
  BY DEF Format
<1>2. Device /\ Kinds /\ Ready(mem) /\ rootBlocks = 1
  BY <1>1, ReadyIs DEF Inv, DiskOK, CarefulInv
<1>3. Held(mem) /\ Cache(mem) /\ Root \in Nodes /\ Root \in Cached(mem)
  BY <1>2, HeldKids, VisitedIs, NodesAssumption DEF Ready, Held
<1>4. IsTree(mem, Root)
  BY <1>3, IsTreeAt
<1>5. \A n \in KidSet(mem, Root) : mem[n].name # Nameless
  BY <1>3, KidIs DEF Held, Proper
<1>8. ASSUME NEW got \in Endings, ~bottom PROVE ~Overrun(got)
  <2> SUFFICES ASSUME NEW d \in CachedDirs PROVE ~(got[d] > MaxBlocks + 1)
    BY DEF Overrun
  <2>1. d \in Nodes /\ got[d] \in Nat /\ got[d] <= Blocks(mem, d)
    BY <1>2, <1>3, EndingsIs
  <2>2. Blocks(mem, d) \in Nat
    BY <1>3, <2>1, SizeNat
  <2> QED
    BY <1>1, <1>8, <2>1, <2>2, PerBlockAssumption
<1>9. \A got \in Endings : Emptied(bottom, got)
  BY <1>5, <1>8 DEF Emptied
<1>6. /\ phase' = "up" /\ cur' = Root
      /\ kind' = [n \in Nodes |-> IF n = Root THEN "dir" ELSE "free"]
      /\ mem' = [n \in Nodes |-> [Blank EXCEPT !.dots = (n = Root)]]
  BY <1>4, <1>9, Zenon DEF Format
<1>7. Tidy(mem, kind, dev)' /\ mem'[Root].dots
  BY <1>6, TidyFresh
<1> QED
  BY <1>1, <1>2, <1>3, <1>6, <1>7 DEF CarefulInv, Standing, Leaving

LEMMA CarefulInit ==
  ASSUME Init
  PROVE  CarefulInv
<1>1. /\ phase = "up" /\ cur = Root /\ rootBlocks = 1
      /\ kind = [n \in Nodes |-> IF n = Root THEN "dir" ELSE "free"]
      /\ mem = [n \in Nodes |-> [Blank EXCEPT !.dots = (n = Root)]]
  BY DEF Init
<1>2. Tidy(mem, kind, dev) /\ mem[Root].dots
  BY <1>1, TidyFresh
<1> QED
  BY <1>1, <1>2, NodesAssumption DEF CarefulInv, Standing, Leaving

LEMMA CarefulStutter ==
  ASSUME CarefulInv, UNCHANGED vars
  PROVE  CarefulInv'
<1>1. UNCHANGED <<phase, kind, mem, dev, rootBlocks, cur, doomed, careful>>
  BY DEF vars
<1>2. Below(mem, doomed)' = Below(mem, doomed)
  <2>1. Below(mem, doomed)' = Below(mem', doomed')
    BY <1>1, BelowNext
  <2> QED
    BY <1>1, <2>1
<1>3. Leaving <=> Leaving'
  BY <1>1, <1>2 DEF Leaving, Visited, IsDir
<1> QED
  BY <1>1, <1>3 DEF CarefulInv, Standing

LEMMA CarefulNext ==
  ASSUME Inv, CarefulInv, [Next]_vars
  PROVE  CarefulInv'
<1>1. CASE \E p \in Paths : Ls(p) \/ Cd(p) \/ RmFile(p) \/ RmDir(p) \/ Rmdir(p)
  <2>1. PICK p \in Paths : Ls(p) \/ Cd(p) \/ RmFile(p) \/ RmDir(p) \/ Rmdir(p)
    BY <1>1
  <2> QED
    BY <2>1, CarefulLs, CarefulCd, CarefulRmFile, CarefulRmDir, CarefulRmdir
<1>2. CASE \E p \in Paths, k \in {"file", "dir"}, n \in Nodes : Make(p, k, n)
  BY <1>2, CarefulMake
<1>3. CASE \E p, q \in Paths : Mv(p, q) \/ Cp(p, q) \/ CpCrash(p, q)
  <2>1. PICK p \in Paths, q \in Paths : Mv(p, q) \/ Cp(p, q) \/ CpCrash(p, q)
    BY <1>3
  <2> QED
    BY <2>1, CarefulMv, CarefulCp, CarefulCpCrash
<1>4. CASE WalkDown
  BY <1>4, CarefulWalkDown
<1>5. CASE WalkPop
  BY <1>5, CarefulWalkPop
<1>6. CASE WalkDone
  BY <1>6, CarefulWalkDone
<1>7. CASE Exit
  BY <1>7, CarefulExit
<1>8. CASE Start
  BY <1>8, CarefulStart
<1>9. CASE \E bottom \in BOOLEAN : Format(bottom)
  BY <1>9, CarefulFormat
<1>10. CASE UNCHANGED vars
  BY <1>10, CarefulStutter
<1> QED
  BY <1>1, <1>2, <1>3, <1>4, <1>5, <1>6, <1>7, <1>8, <1>9, <1>10 DEF Next

LEMMA CarefulAlways == Spec => [](Inv /\ CarefulInv)
<1>1. Init => Inv /\ CarefulInv
  BY InvInit, CarefulInit
<1>2. (Inv /\ CarefulInv) /\ [Next]_vars => (Inv /\ CarefulInv)'
  BY InvNext, CarefulNext
<1> QED
  BY <1>1, <1>2, PTL DEF Spec

----------------------------------------------------------------------------
(* The tree of paths.                                                      *)

\* The cache as it would be with all directories read: lists only.
Seen ==
  [d \in Nodes |->
     [kids |-> IF Size(mem, d) > 0 THEN mem[d].kids
               ELSE [i \in DOMAIN dev[d].kids |-> dev[d].kids[i].node]]]

\* The entries of a directory are what it holds; they have names of their own.
Listable(d) ==
  /\ {e.node : e \in EntriesOf(d)} = Holds(mem, kind, dev)[d]
  /\ KidSet(Seen, d) = Holds(mem, kind, dev)[d]
  /\ \A a, b \in EntriesOf(d) : a.name = b.name => a.node = b.node
  /\ \A a \in EntriesOf(d) : a.name \in Words /\ a.node \in Nodes

LEMMA EntriesAre ==
  ASSUME Device, Held(mem), NEW d \in Nodes, IsDir(d)
  PROVE  Listable(d)
<1>1. Cache(mem) /\ kind[d] = "dir"
  BY HeldKids DEF IsDir
<1>2. Seen[d].kids = IF Size(mem, d) > 0 THEN mem[d].kids
                     ELSE [i \in DOMAIN dev[d].kids |-> dev[d].kids[i].node]
  BY DEF Seen
<1>3. CASE mem[d].dots
  <2>1. Size(mem, d) > 0
    <3>1. Len(mem[d].kids) \in Nat /\ Size(mem, d) = Len(mem[d].kids) + 2
      BY <1>1, <1>3, SizeIs
    <3> QED
      BY <3>1
  <2>2. EntriesOf(d) = {[name |-> mem[n].name, node |-> n] : n \in KidSet(mem, d)}
    BY <2>1 DEF EntriesOf
  <2>3. /\ Holds(mem, kind, dev)[d] = KidSet(mem, d)
        /\ \A a, b \in KidSet(mem, d) : mem[a].name = mem[b].name => a = b
    BY <1>3, VisitedIs DEF Held
  <2>4. {e.node : e \in EntriesOf(d)} = KidSet(mem, d)
    <3>1. ASSUME NEW e \in EntriesOf(d) PROVE e.node \in KidSet(mem, d)
      <4>1. PICK n \in KidSet(mem, d) : e = [name |-> mem[n].name, node |-> n]
        BY <2>2, <3>1
      <4> QED
        BY <4>1
    <3>2. ASSUME NEW n \in KidSet(mem, d) PROVE \E e \in EntriesOf(d) : n = e.node
      <4>1. PICK e : e = [name |-> mem[n].name, node |-> n]
        OBVIOUS
      <4>2. e \in EntriesOf(d)
        BY <2>2, <4>1
      <4> QED
        BY <4>1, <4>2
    <3> QED
      BY <3>1, <3>2
  <2>5. KidSet(Seen, d) = KidSet(mem, d)
    BY <1>2, <2>1 DEF KidSet
  <2>6. ASSUME NEW a \in EntriesOf(d), NEW b \in EntriesOf(d), a.name = b.name
        PROVE  a.node = b.node
    <3>1. PICK x \in KidSet(mem, d) : a = [name |-> mem[x].name, node |-> x]
      BY <2>2, <2>6
    <3>2. PICK y \in KidSet(mem, d) : b = [name |-> mem[y].name, node |-> y]
      BY <2>2, <2>6
    <3>3. mem[x].name = mem[y].name
      BY <2>6, <3>1, <3>2
    <3> QED
      BY <2>3, <3>1, <3>2, <3>3
  <2>7. ASSUME NEW a \in EntriesOf(d) PROVE a.name \in Words /\ a.node \in Nodes
    <3>1. PICK x \in KidSet(mem, d) : a = [name |-> mem[x].name, node |-> x]
      BY <2>2, <2>7
    <3>2. x \in Nodes
      BY HeldKids
    <3>3. mem[x].name \in Words
      BY <1>1, <3>2, CacheIs, RecIs
    <3> QED
      BY <3>1, <3>2, <3>3
  <2> QED
    BY <2>3, <2>4, <2>5, <2>6, <2>7 DEF Listable
<1>4. CASE ~mem[d].dots
  <2>1. mem[d].kids = <<>> /\ StoredWell(dev[d]) /\ Holds(mem, kind, dev)[d] = StoredKids(dev[d])
    BY <1>1, <1>4, UnvisitedIs DEF Held
  <2>2. ~(Size(mem, d) > 0)
    BY <1>1, <1>4, <2>1, SizeIs
  <2>3. EntriesOf(d) = ToSet(dev[d].kids)
    BY <2>2 DEF EntriesOf
  <2>4. {e.node : e \in EntriesOf(d)} = StoredKids(dev[d])
    BY <2>3 DEF StoredKids
  <2>5. KidSet(Seen, d) = StoredKids(dev[d])
    <3>1. KidSet(Seen, d) = ToSet([i \in DOMAIN dev[d].kids |-> dev[d].kids[i].node])
      BY <1>2, <2>2 DEF KidSet
    <3>2. ToSet([i \in DOMAIN dev[d].kids |-> dev[d].kids[i].node]) = Entries(d)
      BY EntriesIs
    <3> QED
      BY <3>1, <3>2 DEF Entries, StoredKids
  <2> DEFINE s == dev[d].kids
             l == Len(s)
  <2>6. s \in Seq(Entry) /\ l \in Nat
    BY DEF Device, Listing
  <2>7. ToSet(s) = {s[i] : i \in 1 .. l} /\ ToSet(s) \subseteq Entry
    BY <2>6, ToSetIs
  <2>8. ASSUME NEW a \in EntriesOf(d), NEW b \in EntriesOf(d), a.name = b.name
        PROVE  a.node = b.node
    <3>1. PICK i \in 1 .. l : a = s[i]
      BY <2>3, <2>7, <2>8
    <3>2. PICK j \in 1 .. l : b = s[j]
      BY <2>3, <2>7, <2>8
    <3>3. i = j
      BY <2>1, <2>8, <3>1, <3>2 DEF StoredWell
    <3> QED
      BY <3>1, <3>2, <3>3
  <2>9. ASSUME NEW a \in EntriesOf(d) PROVE a.name \in Words /\ a.node \in Nodes
    BY <2>3, <2>7, <2>9 DEF Entry
  <2> QED
    BY <2>1, <2>4, <2>5, <2>8, <2>9 DEF Listable
<1> QED
  BY <1>3, <1>4

\* One entry more at the end of the paths of X.
Top == [path |-> <<>>, node |-> Root]
Longer(X) ==
  UNION {{[path |-> Append(x.path, e.name), node |-> e.node] : e \in EntriesOf(x.node)}
           : x \in {x \in X : IsDir(x.node)}}

\* w is what the rounds of TreeNow find.
Rounded(w) ==
  /\ TreeNow = w[Cardinality(Nodes)]
  /\ w[0] = {Top}
  /\ \A k \in 1 .. Cardinality(Nodes) : w[k] = w[k - 1] \cup Longer(w[k - 1])

LEMMA TreeRun == \E w : Rounded(w)
<1> DEFINE R == Cardinality(Nodes)
           Next1(x, k) == x \cup Longer(x)
           start == {Top}
           Is(g, c) == g = [k \in 0 .. c |-> IF k = 0 THEN start ELSE Next1(g[k - 1], k)]
           D == {c \in 0 .. R : \E g : Is(g, c)}
           w == CHOOSE g : Is(g, R)
<1>n. R \in Nat
  BY NodesAssumption, FS_CardinalityType
<1>0. TreeNow = w[R]
  <2>1. w = CHOOSE g : g = [k \in 0 .. Cardinality(Nodes) |->
                              IF k = 0 THEN {Top} ELSE g[k - 1] \cup Longer(g[k - 1])]
    OBVIOUS
  <2> HIDE DEF w
  <2> QED
    BY <2>1 DEF TreeNow, Longer, Top
<1> HIDE DEF w, Next1, start, R
<1>1. 0 \in D
  <2> DEFINE g == [k \in 0 .. 0 |-> start]
  <2>1. Is(g, 0)
    OBVIOUS
  <2> HIDE DEF g
  <2>2. \E x : Is(x, 0)
    BY <2>1
  <2> QED
    BY <1>n, <2>2
<1>2. ASSUME NEW c \in 1 .. R, c - 1 \in D PROVE c \in D
  <2>1. PICK g : Is(g, c - 1)
    BY <1>2
  <2> DEFINE h == [k \in 0 .. c |-> IF k <= c - 1 THEN g[k] ELSE Next1(g[c - 1], c)]
  <2>2. \A k \in 0 .. c - 1 : h[k] = g[k]
    OBVIOUS
  <2>3. h[0] = start
    BY <2>1, <2>2
  <2>4. ASSUME NEW k \in 1 .. c PROVE h[k] = Next1(h[k - 1], k)
    <3>1. h[k - 1] = g[k - 1]
      BY <2>2
    <3>2. CASE k = c
      BY <3>1, <3>2
    <3>3. CASE k # c
      <4>1. k \in 0 .. c - 1 /\ k # 0
        BY <3>3
      <4>2. g[k] = Next1(g[k - 1], k)
        BY <2>1, <4>1
      <4> QED
        BY <2>2, <3>1, <4>1, <4>2
    <3> QED
      BY <3>2, <3>3
  <2>5. Is(h, c)
    <3>1. h = [k \in 0 .. c |-> h[k]]
      OBVIOUS
    <3> HIDE DEF h
    <3>2. \A k \in 0 .. c : h[k] = IF k = 0 THEN start ELSE Next1(h[k - 1], k)
      BY <2>3, <2>4
    <3>3. [k \in 0 .. c |-> h[k]] = [k \in 0 .. c |-> IF k = 0 THEN start ELSE Next1(h[k - 1], k)]
      BY <3>2, Zenon
    <3> QED
      BY <3>1, <3>3
  <2> HIDE DEF h
  <2> QED
    BY <2>5
<1>3. R \in D
  <2> HIDE DEF D
  <2>1. 0 .. R \subseteq D
    BY <1>n, <1>1, <1>2, Climb
  <2> QED
    BY <1>n, <2>1
<1>4. Is(w, R)
  <2>1. \E g : Is(g, R)
    BY <1>3
  <2> HIDE DEF Is
  <2> QED
    BY <2>1 DEF w
<1>5. w[0] = start /\ \A k \in 1 .. R : w[k] = Next1(w[k - 1], k)
  <2>1. w[0] = start
    BY <1>n, <1>4
  <2>2. ASSUME NEW k \in 1 .. R PROVE w[k] = Next1(w[k - 1], k)
    BY <1>n, <1>4, <2>2
  <2> QED
    BY <2>1, <2>2
<1> QED
  BY <1>0, <1>5 DEF Next1, start, R, Rounded

NodesOf(X) == {x.node : x \in X}

\* An element of Longer(X), by what it comes from.
LEMMA LongerIs ==
  ASSUME NEW X, NEW y
  PROVE  y \in Longer(X) <=>
           \E x \in X : /\ IsDir(x.node)
                        /\ \E e \in EntriesOf(x.node) :
                             y = [path |-> Append(x.path, e.name), node |-> e.node]
BY DEF Longer

LEMMA LongerNodes ==
  ASSUME Device, Held(mem), NEW X, NodesOf(X) \subseteq Nodes
  PROVE  NodesOf(X \cup Longer(X)) = NodesOf(X) \cup KidsOf(Seen, NodesOf(X))
<1>1. ASSUME NEW x \in X, IsDir(x.node)
      PROVE  {e.node : e \in EntriesOf(x.node)} = KidSet(Seen, x.node)
  <2>1. x.node \in Nodes
    BY DEF NodesOf
  <2>2. Listable(x.node)
    BY <1>1, <2>1, EntriesAre
  <2> QED
    BY <2>2 DEF Listable
<1>2. ASSUME NEW y \in Longer(X) PROVE y.node \in KidsOf(Seen, NodesOf(X))
  <2>1. PICK x \in X : /\ IsDir(x.node)
                       /\ \E e \in EntriesOf(x.node) :
                            y = [path |-> Append(x.path, e.name), node |-> e.node]
    BY <1>2, LongerIs
  <2>2. PICK e \in EntriesOf(x.node) : y = [path |-> Append(x.path, e.name), node |-> e.node]
    BY <2>1
  <2>3. y.node = e.node
    BY <2>2
  <2>4. y.node \in KidSet(Seen, x.node)
    BY <1>1, <2>1, <2>3
  <2>5. x.node \in NodesOf(X)
    BY DEF NodesOf
  <2> QED
    BY <2>1, <2>4, <2>5 DEF KidsOf
<1>3. ASSUME NEW z \in KidsOf(Seen, NodesOf(X)) PROVE z \in NodesOf(Longer(X))
  <2>1. PICK d \in NodesOf(X) : IsDir(d) /\ z \in KidSet(Seen, d)
    BY <1>3 DEF KidsOf
  <2>2. PICK x \in X : d = x.node
    BY DEF NodesOf
  <2>3. PICK e \in EntriesOf(x.node) : z = e.node
    BY <1>1, <2>1, <2>2
  <2>4. PICK y : y = [path |-> Append(x.path, e.name), node |-> e.node]
    OBVIOUS
  <2>5. y \in Longer(X)
    BY <2>1, <2>2, <2>4, LongerIs
  <2>6. y.node = z
    BY <2>3, <2>4
  <2> QED
    BY <2>5, <2>6 DEF NodesOf
<1>4. NodesOf(X \cup Longer(X)) = NodesOf(X) \cup NodesOf(Longer(X))
  BY DEF NodesOf
<1>5. NodesOf(Longer(X)) \subseteq KidsOf(Seen, NodesOf(X))
  BY <1>2 DEF NodesOf
<1> QED
  BY <1>3, <1>4, <1>5

\* The lists of all directories.
LEMMA SeenIs ==
  ASSUME Device, Held(mem)
  PROVE  \A d \in Nodes : KidSet(Seen, d) \subseteq Nodes
<1> SUFFICES ASSUME NEW d \in Nodes PROVE KidSet(Seen, d) \subseteq Nodes
  OBVIOUS
<1>1. Seen[d].kids = IF Size(mem, d) > 0 THEN mem[d].kids
                     ELSE [i \in DOMAIN dev[d].kids |-> dev[d].kids[i].node]
  BY DEF Seen
<1>2. CASE Size(mem, d) > 0
  BY <1>1, <1>2, HeldKids DEF KidSet
<1>3. CASE ~(Size(mem, d) > 0)
  <2>1. KidSet(Seen, d) = ToSet([i \in DOMAIN dev[d].kids |-> dev[d].kids[i].node])
    BY <1>1, <1>3 DEF KidSet
  <2> QED
    BY <2>1, EntriesIs
<1> QED
  BY <1>2, <1>3

\* Paths lead to the nodes below the root, no others.
LEMMA TreeNodes ==
  ASSUME Device, Held(mem)
  PROVE  NodesOf(TreeNow) = Below(Seen, Root)
<1> DEFINE R == Cardinality(Nodes)
<1>1. R \in Nat
  BY NodesAssumption, FS_CardinalityType
<1>2. PICK w : Rounded(w)
  BY TreeRun
<1>3. PICK u : Rounds(Seen, Root, u)
  BY BelowRun
<1>4. /\ TreeNow = w[R] /\ w[0] = {Top}
      /\ \A k \in 1 .. R : w[k] = w[k - 1] \cup Longer(w[k - 1])
  BY <1>2 DEF Rounded
<1>5. /\ Below(Seen, Root) = u[R] /\ u[0] = {Root}
      /\ \A k \in 1 .. R : u[k] = u[k - 1] \cup KidsOf(Seen, u[k - 1])
  BY <1>3 DEF Rounds
<1> HIDE DEF R
<1> DEFINE D == {k \in 0 .. R : NodesOf(w[k]) = u[k] /\ u[k] \subseteq Nodes}
<1>6. 0 \in D
  <2>1. NodesOf({Top}) = {Root}
    BY DEF NodesOf, Top
  <2>2. NodesOf(w[0]) = u[0] /\ u[0] \subseteq Nodes
    <3>1. NodesOf(w[0]) = NodesOf({Top})
      BY <1>4
    <3> QED
      BY <1>5, <2>1, <3>1, NodesAssumption
  <2>3. 0 \in 0 .. R
    BY <1>1
  <2> QED
    BY <2>2, <2>3
<1>7. ASSUME NEW k \in 1 .. R, k - 1 \in D PROVE k \in D
  <2>1. NodesOf(w[k - 1]) = u[k - 1] /\ u[k - 1] \subseteq Nodes /\ k \in 0 .. R
    BY <1>1, <1>7
  <2>2. NodesOf(w[k]) = u[k]
    <3>1. NodesOf(w[k - 1] \cup Longer(w[k - 1]))
            = NodesOf(w[k - 1]) \cup KidsOf(Seen, NodesOf(w[k - 1]))
      BY <2>1, LongerNodes
    <3> QED
      BY <1>4, <1>5, <2>1, <3>1
  <2>3. KidsOf(Seen, u[k - 1]) \subseteq Nodes
    BY <2>1, SeenIs DEF KidsOf
  <2>4. u[k] \subseteq Nodes
    BY <1>5, <2>1, <2>3
  <2> QED
    BY <2>1, <2>2, <2>4
<1>8. R \in D
  <2> HIDE DEF D
  <2>1. 0 .. R \subseteq D
    BY <1>1, <1>6, <1>7, Climb
  <2> QED
    BY <1>1, <2>1
<1> QED
  BY <1>4, <1>5, <1>8

LEMMA ReachAll ==
  ASSUME Device, Kinds, Held(mem)
  PROVE  NodesOf(TreeNow) = Real(kind)
<1> DEFINE B == Below(Seen, Root)
           V == Holds(mem, kind, dev)
<1>1. Root \in B /\ B \subseteq Nodes /\ Closed(Seen, B)
  BY SeenIs, BelowClosed, NodesAssumption
<1>2. Tree(V, Real(kind)) /\ Root \in Real(kind)
  BY NodesAssumption DEF Held, Tidy, Kinds, Real
<1>3. ASSUME NEW d \in Nodes, IsDir(d) PROVE KidSet(Seen, d) = V[d]
  <2>1. Listable(d)
    BY <1>3, EntriesAre
  <2> QED
    BY <2>1 DEF Listable
<1> HIDE DEF B
<1>4. Real(kind) \subseteq B
  <2>1. ASSUME NEW d \in B PROVE V[d] \subseteq B
    <3>1. CASE IsDir(d)
      BY <1>1, <1>3, <2>1, <3>1 DEF Closed
    <3>2. CASE ~IsDir(d)
      <4>1. V[d] = {}
        BY <1>1, <3>2, HoldsIs DEF IsDir
      <4> QED
        BY <4>1
    <3> QED
      BY <3>1, <3>2
  <2>2. Whole(V, B)
    BY <1>1, <2>1 DEF Whole
  <2> QED
    BY <1>2, <2>2, TreeIs
<1>5. B \subseteq Real(kind)
  <2>1. Closed(Seen, Real(kind))
    <3>1. ASSUME NEW d \in Real(kind), IsDir(d) PROVE KidSet(Seen, d) \subseteq Real(kind)
      <4>1. d \in Nodes
        BY DEF Real
      <4>2. KidSet(Seen, d) = V[d] /\ V[d] \subseteq Real(kind)
        BY <1>2, <1>3, <3>1, <4>1 DEF Tree
      <4> QED
        BY <4>2
    <3> QED
      BY <3>1 DEF Closed
  <2> QED
    BY <1>2, <2>1, BelowLeast DEF B
<1> QED
  BY <1>4, <1>5, TreeNodes DEF B

\* A list and its last element, from the list with that element appended.
LEMMA AppendOnce ==
  ASSUME NEW X, NEW s \in Seq(X), NEW t \in Seq(X), NEW a \in X, NEW b \in X,
         Append(s, a) = Append(t, b)
  PROVE  s = t /\ a = b
<1>1. Len(Append(s, a)) = Len(s) + 1 /\ Len(Append(t, b)) = Len(t) + 1
  OBVIOUS
<1>2. Len(s) \in Nat /\ Len(t) \in Nat
  OBVIOUS
<1>3. Len(s) = Len(t)
  BY <1>1, <1>2
<1>4. Append(s, a)[Len(s) + 1] = a /\ Append(t, b)[Len(t) + 1] = b
  OBVIOUS
<1>5. \A i \in 1 .. Len(s) : Append(s, a)[i] = s[i]
  OBVIOUS
<1>6. \A i \in 1 .. Len(t) : Append(t, b)[i] = t[i]
  OBVIOUS
<1>7. \A i \in 1 .. Len(s) : s[i] = t[i]
  BY <1>3, <1>5, <1>6
<1> QED
  BY <1>3, <1>4, <1>7

\* The paths of X lead to one node each, all by way of the directories of X.
Leads(X, x) ==
  /\ x.path \in Seq(Words) /\ x.node \in Nodes
  /\ \/ x.path = <<>> /\ x.node = Root
     \/ \E z \in X : /\ IsDir(z.node)
                     /\ \E e \in EntriesOf(z.node) : x.path = Append(z.path, e.name) /\ x.node = e.node
Single(X) ==
  /\ \A x \in X : Leads(X, x)
  /\ \A x, y \in X : x.path = y.path => x.node = y.node

LEMMA LongerSingle ==
  ASSUME Device, Held(mem), NEW X, Single(X), NEW Y, Y = X \cup Longer(X)
  PROVE  Single(Y)
<1>1. /\ \A x \in X : Leads(X, x)
      /\ \A x, y \in X : x.path = y.path => x.node = y.node
  BY DEF Single
<1>2. ASSUME NEW z \in X, IsDir(z.node)
      PROVE  /\ z.path \in Seq(Words)
             /\ \A e \in EntriesOf(z.node) : e.name \in Words /\ e.node \in Nodes
             /\ \A a, b \in EntriesOf(z.node) : a.name = b.name => a.node = b.node
  <2>1. z.path \in Seq(Words) /\ z.node \in Nodes
    BY <1>1 DEF Leads
  <2>2. Listable(z.node)
    BY <1>2, <2>1, EntriesAre
  <2> QED
    BY <2>1, <2>2 DEF Listable
<1>3. ASSUME NEW x \in Y PROVE Leads(X, x)
  <2>1. CASE x \in X
    BY <1>1, <2>1
  <2>2. CASE x \in Longer(X)
    <3>1. PICK z \in X : /\ IsDir(z.node)
                         /\ \E e \in EntriesOf(z.node) :
                              x = [path |-> Append(z.path, e.name), node |-> e.node]
      BY <2>2, LongerIs
    <3>2. PICK e \in EntriesOf(z.node) : x = [path |-> Append(z.path, e.name), node |-> e.node]
      BY <3>1
    <3>3. x.path = Append(z.path, e.name) /\ x.node = e.node
      BY <3>2
    <3>4. z.path \in Seq(Words) /\ e.name \in Words /\ e.node \in Nodes
      BY <1>2, <3>1
    <3>5. Append(z.path, e.name) \in Seq(Words)
      BY <3>4
    <3> QED
      BY <3>1, <3>3, <3>4, <3>5 DEF Leads
  <2> QED
    BY <1>3, <2>1, <2>2
<1>4. \A x \in Y : Leads(Y, x)
  <2> SUFFICES ASSUME NEW x \in Y PROVE Leads(Y, x)
    OBVIOUS
  <2>1. Leads(X, x) /\ X \subseteq Y
    BY <1>3
  <2> QED
    BY <2>1 DEF Leads
<1>5. ASSUME NEW x \in Y, NEW y \in Y, x.path = y.path PROVE x.node = y.node
  <2>1. Leads(X, x) /\ Leads(X, y)
    BY <1>3
  <2>2. ASSUME NEW z \in X, IsDir(z.node), NEW e \in EntriesOf(z.node)
        PROVE  Append(z.path, e.name) # <<>>
    <3>1. z.path \in Seq(Words) /\ e.name \in Words
      BY <1>2, <2>2
    <3> QED
      BY <3>1
  <2>3. CASE x.path = <<>>
    <3>1. x.node = Root
      BY <2>1, <2>2, <2>3 DEF Leads
    <3>2. y.node = Root
      BY <1>5, <2>1, <2>2, <2>3 DEF Leads
    <3> QED
      BY <3>1, <3>2
  <2>4. CASE x.path # <<>>
    <3>1. PICK z \in X : /\ IsDir(z.node)
                         /\ \E e \in EntriesOf(z.node) : x.path = Append(z.path, e.name) /\ x.node = e.node
      BY <2>1, <2>4 DEF Leads
    <3>2. PICK a \in EntriesOf(z.node) : x.path = Append(z.path, a.name) /\ x.node = a.node
      BY <3>1
    <3>3. PICK t \in X : /\ IsDir(t.node)
                         /\ \E e \in EntriesOf(t.node) : y.path = Append(t.path, e.name) /\ y.node = e.node
      BY <1>5, <2>1, <2>4 DEF Leads
    <3>4. PICK b \in EntriesOf(t.node) : y.path = Append(t.path, b.name) /\ y.node = b.node
      BY <3>3
    <3>5. z.path \in Seq(Words) /\ t.path \in Seq(Words) /\ a.name \in Words /\ b.name \in Words
      BY <1>2, <3>1, <3>3
    <3>6. Append(z.path, a.name) = Append(t.path, b.name)
      BY <1>5, <3>2, <3>4
    <3>7. z.path = t.path /\ a.name = b.name
      BY <3>5, <3>6, AppendOnce
    <3>8. z.node = t.node
      BY <1>1, <3>7
    <3>9. a.node = b.node
      BY <1>2, <3>1, <3>7, <3>8
    <3> QED
      BY <3>2, <3>4, <3>9
  <2> QED
    BY <2>3, <2>4
<1> QED
  BY <1>4, <1>5 DEF Single

LEMMA TreeSingle ==
  ASSUME Device, Held(mem)
  PROVE  Single(TreeNow)
<1> DEFINE R == Cardinality(Nodes)
<1>1. R \in Nat
  BY NodesAssumption, FS_CardinalityType
<1>2. PICK w : Rounded(w)
  BY TreeRun
<1>3. /\ TreeNow = w[R] /\ w[0] = {Top}
      /\ \A k \in 1 .. R : w[k] = w[k - 1] \cup Longer(w[k - 1])
  BY <1>2 DEF Rounded
<1> HIDE DEF R
<1> DEFINE D == {k \in 0 .. R : Single(w[k])}
<1>4. 0 \in D
  <2>1. Top.path = <<>> /\ Top.node = Root /\ Root \in Nodes /\ <<>> \in Seq(Words)
    BY NodesAssumption DEF Top
  <2>2. \A x \in {Top} : Leads({Top}, x)
    BY <2>1 DEF Leads
  <2>3. Single({Top})
    BY <2>2 DEF Single
  <2>4. Single(w[0])
    BY <1>3, <2>3
  <2> QED
    BY <1>1, <2>4
<1>5. ASSUME NEW k \in 1 .. R, k - 1 \in D PROVE k \in D
  <2>1. Single(w[k - 1]) /\ k \in 0 .. R
    BY <1>1, <1>5
  <2>2. w[k] = w[k - 1] \cup Longer(w[k - 1])
    BY <1>3
  <2>3. Single(w[k])
    BY <2>1, <2>2, LongerSingle
  <2> QED
    BY <2>1, <2>3
<1>6. R \in D
  <2> HIDE DEF D
  <2>1. 0 .. R \subseteq D
    BY <1>1, <1>4, <1>5, Climb
  <2> QED
    BY <1>1, <2>1
<1> QED
  BY <1>3, <1>6

----------------------------------------------------------------------------
(* The theorems.                                                           *)

LEMMA CarefulFacts ==
  ASSUME Inv, CarefulInv, careful
  PROVE  Device /\ Kinds /\ Held(mem) /\ phase # "astray"
BY DEF Inv, DiskOK, CarefulInv, Held

\* As long as the user gives no command the tree suffers from, no command makes the
\* program follow a pointer to a freed tree node, see one file as two, or end.
THEOREM CarefulOnCourse == Spec => []CarefulStaysOnCourse
<1>1. Inv /\ CarefulInv => CarefulStaysOnCourse
  BY DEF CarefulInv, CarefulStaysOnCourse
<1> QED
  BY <1>1, CarefulAlways, PTL

\* As long as the user gives careful commands the Dtree_Nodes are a tree below the
\* root, parents and lists agree, and cur_dir is one of its directories.
THEOREM CarefulTree == Spec => []CarefulCacheIsTree
<1>1. Inv /\ CarefulInv => CarefulCacheIsTree
  <2> SUFFICES ASSUME Inv, CarefulInv, careful, phase \in {"up", "walking", "popping"}
               PROVE  /\ IsTree(mem, Root)
                      /\ \A d \in Below(mem, Root) :
                           \A n \in KidSet(mem, d) : IsDir(d) /\ mem[n].parent = d
                      /\ cur \in CachedDirs
    BY DEF CarefulCacheIsTree
  <2>1. Ready(mem) /\ Held(mem) /\ Root \in Cached(mem)
    BY ReadyIs, NodesAssumption DEF Ready, Cached
  <2>2. IsTree(mem, Root)
    BY <2>1, IsTreeAt
  <2>3. Below(mem, Root) = Cached(mem) /\ Cached(mem) \subseteq Nodes
    BY <2>1, AllBelowRoot DEF Cached
  <2>4. ASSUME NEW d \in Below(mem, Root), NEW n \in KidSet(mem, d)
        PROVE  IsDir(d) /\ mem[n].parent = d
    BY <2>1, <2>3, KidIs DEF Held, IsDir
  <2>5. cur \in CachedDirs
    <3>1. cur \in Cached(mem) /\ kind[cur] = "dir"
      BY <2>1, VisitedIs DEF Ready, Held
    <3> QED
      BY <2>3, <3>1 DEF CachedDirs, IsDir
  <2> QED
    BY <2>2, <2>4, <2>5
<1> QED
  BY <1>1, CarefulAlways, PTL

\* As long as the user gives careful commands the index nodes in use are the ones that
\* paths lead to, also right after the program ended or started.
THEOREM CarefulReachable == Spec => []CarefulFilesAreReachable
<1>1. Inv /\ CarefulInv => CarefulFilesAreReachable
  <2> SUFFICES ASSUME Inv, CarefulInv, careful
               PROVE  {x.node : x \in TreeNow} = {n \in Nodes : kind[n] # "free"}
    BY DEF CarefulFilesAreReachable
  <2>1. NodesOf(TreeNow) = Real(kind)
    BY CarefulFacts, ReachAll
  <2> QED
    BY <2>1 DEF NodesOf, Real
<1> QED
  BY <1>1, CarefulAlways, PTL

\* As long as the user gives careful commands a path leads to one file, whether its
\* directories are in the cache or on the device.
THEOREM CarefulNames == Spec => []CarefulNamesAreUnique
<1>1. Inv /\ CarefulInv => CarefulNamesAreUnique
  <2> SUFFICES ASSUME Inv, CarefulInv, careful
               PROVE  \A x, y \in TreeNow : x.path = y.path => x.node = y.node
    BY DEF CarefulNamesAreUnique
  <2>1. Single(TreeNow)
    BY CarefulFacts, TreeSingle
  <2> QED
    BY <2>1 DEF Single
<1> QED
  BY <1>1, CarefulAlways, PTL

===========================================================================
