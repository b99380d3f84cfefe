--------------------------- MODULE DirTreeProofs ---------------------------
(***************************************************************************)
(* Theorems about the directory tree, for any number of files, paths of    *)
(* any length and directories of any size, whatever commands were given.   *)
(***************************************************************************)
EXTENDS DirTree, FiniteSetTheorems, WellFoundedInduction, TLAPS

----------------------------------------------------------------------------
(* Numbers and sequences.                                                  *)

\* A set of numbers has a smallest one.
LEMMA LeastIs ==
  ASSUME NEW T \in SUBSET Nat, T # {}
  PROVE  \E x \in T : \A y \in T : x <= y
<1> DEFINE R == OpToRel(<, Nat)
<1>1. IsWellFoundedOn(R, Nat)
  BY NatLessThanWellFounded
<1>2. R = {ss \in Nat \X Nat : ss[1] < ss[2]}
  BY DEF OpToRel
<1> HIDE DEF R
<1>3. PICK x \in T : \A y \in T : ~(<<y, x>> \in R)
  BY <1>1, WFMin
<1>4. \A y \in T : ~(y < x)
  BY <1>2, <1>3
<1> QED
  BY <1>4

\* What holds of 0 and passes from each number to the next holds up to n.
LEMMA Climb ==
  ASSUME NEW n \in Nat, NEW D, 0 \in D, \A m \in 1 .. n : m - 1 \in D => m \in D
  PROVE  0 .. n \subseteq D
<1> SUFFICES ASSUME NEW m \in 0 .. n, m \notin D PROVE FALSE
  OBVIOUS
<1> DEFINE T == (0 .. n) \ D
<1>1. PICK l \in T : \A y \in T : l <= y
  <2>1. T \in SUBSET Nat /\ T # {}
    OBVIOUS
  <2> HIDE DEF T
  <2> QED
    BY <2>1, LeastIs
<1>2. l # 0
  OBVIOUS
<1>3. l \in 1 .. n /\ l - 1 \in 0 .. n
  BY <1>2
<1>4. l - 1 \in D
  BY <1>1, <1>3
<1> QED
  BY <1>1, <1>3, <1>4

LEMMA MaxIs ==
  ASSUME NEW a \in Int, NEW b \in Int
  PROVE  Max({a, b}) = IF a >= b THEN a ELSE b
BY DEF Max

\* The first place of a list where a test holds: with a set for the test.
LEMMA FirstPlace ==
  ASSUME NEW I \in SUBSET Nat, I # {}
  PROVE  Min(I) \in I /\ \A i \in I : Min(I) <= i
<1>1. PICK x \in I : \A y \in I : x <= y
  BY LeastIs
<1> QED
  BY <1>1 DEF Min

\* A list's elements, when one is appended, another list is appended, or the
\* list is reversed or cut.
LEMMA ToSetIs ==
  ASSUME NEW S, NEW s \in Seq(S)
  PROVE  /\ ToSet(s) = {s[i] : i \in 1 .. Len(s)}
         /\ ToSet(s) \subseteq S
         /\ Len(s) \in Nat
BY DEF ToSet

LEMMA InList ==
  ASSUME NEW S, NEW s \in Seq(S), NEW i \in 1 .. Len(s)
  PROVE  s[i] \in ToSet(s) /\ s[i] \in S
BY DEF ToSet

\* A function on 1 .. n is a list.
UpTo(w, n) == w = [i \in 1 .. n |-> w[i]]

LEMMA ListIs ==
  ASSUME NEW S, NEW n \in Nat, NEW w, UpTo(w, n), \A i \in 1 .. n : w[i] \in S
  PROVE  w \in Seq(S) /\ Len(w) = n
<1>1. w \in [1 .. n -> S] /\ DOMAIN w = 1 .. n
  BY DEF UpTo
<1> QED
  BY <1>1

LEMMA AppendIs ==
  ASSUME NEW S, NEW s \in Seq(S), NEW e \in S
  PROVE  /\ Append(s, e) \in Seq(S)
         /\ Len(Append(s, e)) = Len(s) + 1
         /\ ToSet(Append(s, e)) = ToSet(s) \cup {e}
<1> DEFINE w == Append(s, e)
<1>1. w \in Seq(S) /\ Len(w) = Len(s) + 1 /\ Len(s) \in Nat
  OBVIOUS
<1>2. \A i \in 1 .. Len(s) + 1 : w[i] = IF i = Len(s) + 1 THEN e ELSE s[i]
  OBVIOUS
<1> HIDE DEF w
<1>3. ToSet(w) = {w[i] : i \in 1 .. Len(s) + 1} /\ ToSet(s) = {s[i] : i \in 1 .. Len(s)}
  <2>1. ToSet(w) = {w[i] : i \in 1 .. Len(w)}
    BY <1>1, ToSetIs
  <2> QED
    BY <1>1, <2>1, ToSetIs
<1>4. ASSUME NEW i \in 1 .. Len(s) PROVE i \in 1 .. Len(s) + 1 /\ w[i] = s[i]
  BY <1>1, <1>2
<1>5. Len(s) + 1 \in 1 .. Len(s) + 1 /\ w[Len(s) + 1] = e
  BY <1>1, <1>2
<1>6. ASSUME NEW i \in 1 .. Len(s) + 1 PROVE w[i] = e \/ \E j \in 1 .. Len(s) : w[i] = s[j]
  <2>1. CASE i = Len(s) + 1
    BY <1>5, <2>1
  <2>2. CASE i # Len(s) + 1
    <3>1. i \in 1 .. Len(s)
      BY <1>1, <2>2
    <3> QED
      BY <1>4, <3>1
  <2> QED
    BY <2>1, <2>2
<1> DEFINE A == ToSet(s)
           B == ToSet(w)
<1>7. B = A \cup {e}
  <2> HIDE DEF A, B
  <2>1. \A x \in A : x \in B
    BY <1>3, <1>4 DEF A, B
  <2>2. e \in B
    BY <1>3, <1>5 DEF B
  <2>3. \A x \in B : x \in A \cup {e}
    BY <1>3, <1>6 DEF A, B
  <2> QED
    BY <2>1, <2>2, <2>3
<1> QED
  BY <1>1, <1>7 DEF w

LEMMA ConcatIs ==
  ASSUME NEW S, NEW s \in Seq(S), NEW t \in Seq(S)
  PROVE  /\ s \o t \in Seq(S)
         /\ Len(s \o t) = Len(s) + Len(t)
         /\ ToSet(s \o t) = ToSet(s) \cup ToSet(t)
<1> DEFINE w == s \o t
<1>1. w \in Seq(S) /\ Len(w) = Len(s) + Len(t) /\ Len(s) \in Nat /\ Len(t) \in Nat
  OBVIOUS
<1>2. \A i \in 1 .. Len(s) + Len(t) : w[i] = IF i <= Len(s) THEN s[i] ELSE t[i - Len(s)]
  OBVIOUS
<1> HIDE DEF w
<1>3. /\ ToSet(w) = {w[i] : i \in 1 .. Len(s) + Len(t)}
      /\ ToSet(s) = {s[i] : i \in 1 .. Len(s)}
      /\ ToSet(t) = {t[i] : i \in 1 .. Len(t)}
  <2>1. ToSet(w) = {w[i] : i \in 1 .. Len(w)}
    BY <1>1, ToSetIs
  <2> QED
    BY <1>1, <2>1, ToSetIs
<1>4. ASSUME NEW i \in 1 .. Len(s) PROVE i \in 1 .. Len(s) + Len(t) /\ w[i] = s[i]
  BY <1>1, <1>2
<1>5. ASSUME NEW i \in 1 .. Len(t)
      PROVE  i + Len(s) \in 1 .. Len(s) + Len(t) /\ w[i + Len(s)] = t[i]
  <2>1. i + Len(s) \in 1 .. Len(s) + Len(t) /\ ~(i + Len(s) <= Len(s))
          /\ (i + Len(s)) - Len(s) = i
    BY <1>1
  <2>2. w[i + Len(s)] = t[(i + Len(s)) - Len(s)]
    BY <1>2, <2>1
  <2> QED
    BY <2>1, <2>2
<1>6. ASSUME NEW i \in 1 .. Len(s) + Len(t)
      PROVE  (\E j \in 1 .. Len(t) : w[i] = t[j]) \/ \E j \in 1 .. Len(s) : w[i] = s[j]
  <2>1. CASE i <= Len(s)
    <3>1. i \in 1 .. Len(s)
      BY <1>1, <2>1
    <3> QED
      BY <1>4, <3>1
  <2>2. CASE ~(i <= Len(s))
    <3>1. i - Len(s) \in 1 .. Len(t) /\ w[i] = t[i - Len(s)]
      BY <1>1, <1>2, <2>2
    <3> QED
      BY <3>1
  <2> QED
    BY <2>1, <2>2
<1> DEFINE A == ToSet(s)
           B == ToSet(w)
           C == ToSet(t)
<1>7. B = A \cup C
  <2> HIDE DEF A, B, C
  <2>1. \A x \in A : x \in B
    BY <1>3, <1>4 DEF A, B
  <2>2. \A x \in C : x \in B
    BY <1>3, <1>5 DEF C, B
  <2>3. \A x \in B : x \in A \cup C
    BY <1>3, <1>6 DEF A, B, C
  <2> QED
    BY <2>1, <2>2, <2>3
<1> QED
  BY <1>1, <1>7 DEF w

\* A piece of a list.
LEMMA PieceIs ==
  ASSUME NEW S, NEW s \in Seq(S), NEW a \in Nat, NEW b \in Int, 1 <= a, b <= Len(s)
  PROVE  /\ SubSeq(s, a, b) \in Seq(S)
         /\ Len(SubSeq(s, a, b)) = IF a <= b THEN b - a + 1 ELSE 0
         /\ ToSet(SubSeq(s, a, b)) \subseteq ToSet(s)
<1> DEFINE w == SubSeq(s, a, b)
           l == IF a <= b THEN b - a + 1 ELSE 0
<1>1. l \in Nat /\ w = [i \in 1 .. l |-> s[a + i - 1]]
  OBVIOUS
<1>2. \A i \in 1 .. l : a + i - 1 \in 1 .. Len(s)
  OBVIOUS
<1> HIDE DEF w, l
<1>3. \A i \in 1 .. l : w[i] \in ToSet(s) /\ w[i] \in S
  BY <1>1, <1>2, InList
<1>4. UpTo(w, l)
  BY <1>1 DEF UpTo
<1>5. w \in Seq(S) /\ Len(w) = l
  BY <1>1, <1>3, <1>4, ListIs
<1>6. ToSet(w) \subseteq ToSet(s)
  <2>1. ToSet(w) = {w[i] : i \in 1 .. Len(w)}
    BY <1>5, ToSetIs
  <2> QED
    BY <1>3, <1>5, <2>1
<1> QED
  BY <1>5, <1>6 DEF w, l

LEMMA ReverseIs ==
  ASSUME NEW S, NEW s \in Seq(S)
  PROVE  Reverse(s) \in Seq(S) /\ Len(Reverse(s)) = Len(s) /\ ToSet(Reverse(s)) \subseteq ToSet(s)
<1> DEFINE w == Reverse(s)
           l == Len(s)
<1>1. l \in Nat /\ w = [i \in 1 .. l |-> s[(Len(s) - i) + 1]]
  BY DEF Reverse
<1>2. \A i \in 1 .. l : (Len(s) - i) + 1 \in 1 .. Len(s)
  OBVIOUS
<1> HIDE DEF w, l
<1>3. \A i \in 1 .. l : w[i] \in ToSet(s) /\ w[i] \in S
  BY <1>1, <1>2, InList
<1>4. UpTo(w, l)
  BY <1>1 DEF UpTo
<1>5. w \in Seq(S) /\ Len(w) = l
  BY <1>1, <1>3, <1>4, ListIs
<1>6. ToSet(w) \subseteq ToSet(s)
  <2>1. ToSet(w) = {w[i] : i \in 1 .. Len(w)}
    BY <1>5, ToSetIs
  <2> QED
    BY <1>3, <1>5, <2>1
<1> QED
  BY <1>5, <1>6 DEF w, l

LEMMA RemoveFirstIs ==
  ASSUME NEW S, NEW s \in Seq(S), NEW e
  PROVE  /\ RemoveFirst(s, e) \in Seq(S)
         /\ Len(RemoveFirst(s, e)) <= Len(s)
         /\ ToSet(RemoveFirst(s, e)) \subseteq ToSet(s)
<1>1. CASE ~\E i \in 1 .. Len(s) : s[i] = e
  BY <1>1 DEF RemoveFirst
<1>2. CASE \E i \in 1 .. Len(s) : s[i] = e
  <2> DEFINE I == {i \in 1 .. Len(s) : s[i] = e}
             x == Min(I)
             u == SubSeq(s, 1, x - 1)
             v == SubSeq(s, x + 1, Len(s))
  <2>1. RemoveFirst(s, e) = u \o v
    BY <1>2 DEF RemoveFirst, RemoveAt, SelectInSeq
  <2>2. I \in SUBSET Nat /\ I # {}
    BY <1>2
  <2>3. x \in 1 .. Len(s) /\ Len(s) \in Nat
    <3>1. x \in I
      <4> HIDE DEF I
      <4> QED
        BY <2>2, FirstPlace
    <3> QED
      BY <3>1
  <2> HIDE DEF x
  <2>4. /\ u \in Seq(S) /\ Len(u) = x - 1 /\ ToSet(u) \subseteq ToSet(s)
    <3>1. /\ u \in Seq(S) /\ Len(u) = (IF 1 <= x - 1 THEN x - 1 - 1 + 1 ELSE 0)
          /\ ToSet(u) \subseteq ToSet(s)
      <4>1. 1 \in Nat /\ x - 1 \in Int /\ 1 <= 1 /\ x - 1 <= Len(s)
        BY <2>3
      <4> QED
        BY <4>1, PieceIs
    <3> QED
      BY <2>3, <3>1
  <2>5. /\ v \in Seq(S) /\ Len(v) = Len(s) - x /\ ToSet(v) \subseteq ToSet(s)
    <3>1. /\ v \in Seq(S)
          /\ Len(v) = (IF x + 1 <= Len(s) THEN Len(s) - (x + 1) + 1 ELSE 0)
          /\ ToSet(v) \subseteq ToSet(s)
      <4>1. x + 1 \in Nat /\ Len(s) \in Int /\ 1 <= x + 1 /\ Len(s) <= Len(s)
        BY <2>3
      <4> QED
        BY <4>1, PieceIs
    <3> QED
      BY <2>3, <3>1
  <2> HIDE DEF u, v
  <2>6. u \o v \in Seq(S) /\ Len(u \o v) = Len(u) + Len(v) /\ ToSet(u \o v) = ToSet(u) \cup ToSet(v)
    BY <2>4, <2>5, ConcatIs
  <2> QED
    BY <2>1, <2>3, <2>4, <2>5, <2>6
<1> QED
  BY <1>1, <1>2

\* What stays of a list: only elements of the set.
LEMMA OnlyRun ==
  ASSUME NEW s, NEW A, Len(s) \in Nat
  PROVE  \E w : /\ Only(s, A) = w[Len(s)]
                /\ w[0] = <<>>
                /\ \A i \in 1 .. Len(s) :
                     w[i] = IF s[i] \in A THEN Append(w[i - 1], s[i]) ELSE w[i - 1]
<1> DEFINE R == Len(s)
           Next1(x, i) == IF s[i] \in A THEN Append(x, s[i]) ELSE x
           start == <<>>
           Is(g, n) == g = [i \in 0 .. n |-> IF i = 0 THEN start ELSE Next1(g[i - 1], i)]
           D == {n \in 0 .. R : \E g : Is(g, n)}
           w == CHOOSE g : Is(g, R)
<1>0. Only(s, A) = w[R]
  <2>1. w = CHOOSE g : g = [i \in 0 .. Len(s) |->
                              IF i = 0 THEN <<>>
                              ELSE IF s[i] \in A THEN Append(g[i - 1], s[i]) ELSE g[i - 1]]
    OBVIOUS
  <2> HIDE DEF w
  <2> QED
    BY <2>1 DEF Only
<1> HIDE DEF w, Next1, start
<1>1. 0 \in D
  <2> DEFINE g == [i \in 0 .. 0 |-> start]
  <2>1. Is(g, 0)
    OBVIOUS
  <2> HIDE DEF g
  <2>2. \E x : Is(x, 0)
    BY <2>1
  <2> QED
    BY <2>2
<1>2. ASSUME NEW n \in 1 .. R, n - 1 \in D PROVE n \in D
  <2>1. PICK g : Is(g, n - 1)
    BY <1>2
  <2> DEFINE h == [i \in 0 .. n |-> IF i <= n - 1 THEN g[i] ELSE Next1(g[n - 1], n)]
  <2>2. \A i \in 0 .. n - 1 : h[i] = g[i]
    OBVIOUS
  <2>3. h[0] = start
    BY <2>1, <2>2
  <2>4. ASSUME NEW i \in 1 .. n PROVE h[i] = Next1(h[i - 1], i)
    <3>1. h[i - 1] = g[i - 1]
      BY <2>2
    <3>2. CASE i = n
      BY <3>1, <3>2
    <3>3. CASE i # n
      <4>1. i \in 0 .. n - 1 /\ i # 0
        BY <3>3
      <4>2. g[i] = Next1(g[i - 1], i)
        BY <2>1, <4>1
      <4> QED
        BY <2>2, <3>1, <4>1, <4>2
    <3> QED
      BY <3>2, <3>3
  <2>5. Is(h, n)
    <3>1. h = [i \in 0 .. n |-> h[i]]
      OBVIOUS
    <3> HIDE DEF h
    <3>2. \A i \in 0 .. n : h[i] = IF i = 0 THEN start ELSE Next1(h[i - 1], i)
      BY <2>3, <2>4
    <3>3. [i \in 0 .. n |-> h[i]] = [i \in 0 .. n |-> IF i = 0 THEN start ELSE Next1(h[i - 1], i)]
      BY <3>2, Zenon
    <3> QED
      BY <3>1, <3>3
  <2> HIDE DEF h
  <2> QED
    BY <2>5
<1>3. R \in D
  <2> HIDE DEF D
  <2>1. 0 .. R \subseteq D
    BY <1>1, <1>2, Climb
  <2> QED
    BY <2>1
<1>4. Is(w, R)
  <2>1. \E g : Is(g, R)
    BY <1>3
  <2> HIDE DEF Is
  <2> QED
    BY <2>1 DEF w
<1>5. w[0] = start /\ \A i \in 1 .. R : w[i] = Next1(w[i - 1], i)
  <2>1. w[0] = start
    BY <1>4
  <2>2. ASSUME NEW i \in 1 .. R PROVE w[i] = Next1(w[i - 1], i)
    BY <1>4, <2>2
  <2> QED
    BY <2>1, <2>2
<1> QED
  BY <1>0, <1>5 DEF Next1, start

LEMMA OnlyIs ==
  ASSUME NEW S, NEW s \in Seq(S), NEW A
  PROVE  /\ Only(s, A) \in Seq(S)
         /\ Len(Only(s, A)) <= Len(s)
         /\ ToSet(Only(s, A)) \subseteq ToSet(s) \cap A
<1> DEFINE R == Len(s)
           Part(u, i) == u \in Seq(S) /\ Len(u) <= i /\ ToSet(u) \subseteq ToSet(s) \cap A
<1>1. R \in Nat
  OBVIOUS
<1>2. PICK w : /\ Only(s, A) = w[Len(s)]
               /\ w[0] = <<>>
               /\ \A i \in 1 .. Len(s) :
                    w[i] = IF s[i] \in A THEN Append(w[i - 1], s[i]) ELSE w[i - 1]
  BY OnlyRun
<1> DEFINE D == {i \in 0 .. R : Part(w[i], i)}
<1>3. 0 \in D
  <2>1. <<>> \in Seq(S) /\ Len(<<>>) = 0 /\ ToSet(<<>>) = {}
    BY DEF ToSet
  <2> QED
    <3>1. Part(w[0], 0)
      BY <1>2, <2>1
    <3> QED
      BY <1>1, <3>1
<1>4. ASSUME NEW i \in 1 .. R, i - 1 \in D PROVE i \in D
  <2> DEFINE u == w[i - 1]
  <2>1. u \in Seq(S) /\ Len(u) <= i - 1 /\ ToSet(u) \subseteq ToSet(s) \cap A /\ Len(u) \in Nat
    BY <1>4
  <2>2. w[i] = (IF s[i] \in A THEN Append(u, s[i]) ELSE u) /\ s[i] \in S /\ s[i] \in ToSet(s)
    BY <1>2, InList
  <2> HIDE DEF u
  <2>3. CASE s[i] \in A
    <3>1. /\ w[i] \in Seq(S) /\ Len(w[i]) = Len(u) + 1 /\ ToSet(w[i]) = ToSet(u) \cup {s[i]}
      BY <2>1, <2>2, <2>3, AppendIs
    <3>2. ToSet(w[i]) \subseteq ToSet(s) \cap A
      BY <2>1, <2>2, <2>3, <3>1
    <3>3. Len(w[i]) <= i
      BY <2>1, <3>1
    <3> QED
      BY <1>1, <3>1, <3>2, <3>3
  <2>4. CASE s[i] \notin A
    BY <1>1, <2>1, <2>2, <2>4
  <2> QED
    BY <2>3, <2>4
<1>5. R \in D
  <2> HIDE DEF D
  <2>1. 0 .. R \subseteq D
    BY <1>1, <1>3, <1>4, Climb
  <2> QED
    BY <1>1, <2>1
<1> QED
  BY <1>2, <1>5

----------------------------------------------------------------------------
(* What lies below a node.                                                 *)

\* The entries of the directories of X.
KidsOf(m, X) == UNION {KidSet(m, d) : d \in {x \in X : IsDir(x)}}

\* X is closed: what its directories list is in it.
Closed(m, X) == \A d \in X : IsDir(d) => KidSet(m, d) \subseteq X

\* w is what the rounds of Below find.
Rounds(m, n, w) ==
  /\ Below(m, n) = w[Cardinality(Nodes)]
  /\ w[0] = {n}
  /\ \A k \in 1 .. Cardinality(Nodes) : w[k] = w[k - 1] \cup KidsOf(m, w[k - 1])

LEMMA BelowRun ==
  ASSUME NEW m, NEW n
  PROVE  \E w : Rounds(m, n, w)
<1> DEFINE R == Cardinality(Nodes)
           Next1(x, k) == x \cup KidsOf(m, x)
           start == {n}
           Is(g, c) == g = [k \in 0 .. c |-> IF k = 0 THEN start ELSE Next1(g[k - 1], k)]
           D == {c \in 0 .. R : \E g : Is(g, c)}
           w == CHOOSE g : Is(g, R)
<1>n. R \in Nat
  BY NodesAssumption, FS_CardinalityType
<1>0. Below(m, n) = w[R]
  <2>1. w = CHOOSE g : g = [k \in 0 .. Cardinality(Nodes) |->
                              IF k = 0 THEN {n} ELSE g[k - 1] \cup KidsOf(m, g[k - 1])]
    OBVIOUS
  <2> HIDE DEF w
  <2> QED
    BY <2>1 DEF Below, KidsOf
<1> HIDE DEF w, Next1, start, R
<1>1. 0 \in D
  <2> DEFINE g == [k \in 0 .. 0 |-> start]
  <2>1. Is(g, 0)
    OBVIOUS
  <2> HIDE DEF g
  <2>2. \E x : Is(x, 0)
    BY <2>1
  <2> QED
    BY <1>n, <2>2
<1>2. ASSUME NEW c \in 1 .. R, c - 1 \in D PROVE c \in D
  <2>1. PICK g : Is(g, c - 1)
    BY <1>2
  <2> DEFINE h == [k \in 0 .. c |-> IF k <= c - 1 THEN g[k] ELSE Next1(g[c - 1], c)]
  <2>2. \A k \in 0 .. c - 1 : h[k] = g[k]
    OBVIOUS
  <2>3. h[0] = start
    BY <2>1, <2>2
  <2>4. ASSUME NEW k \in 1 .. c PROVE h[k] = Next1(h[k - 1], k)
    <3>1. h[k - 1] = g[k - 1]
      BY <2>2
    <3>2. CASE k = c
      BY <3>1, <3>2
    <3>3. CASE k # c
      <4>1. k \in 0 .. c - 1 /\ k # 0
        BY <3>3
      <4>2. g[k] = Next1(g[k - 1], k)
        BY <2>1, <4>1
      <4> QED
        BY <2>2, <3>1, <4>1, <4>2
    <3> QED
      BY <3>2, <3>3
  <2>5. Is(h, c)
    <3>1. h = [k \in 0 .. c |-> h[k]]
      OBVIOUS
    <3> HIDE DEF h
    <3>2. \A k \in 0 .. c : h[k] = IF k = 0 THEN start ELSE Next1(h[k - 1], k)
      BY <2>3, <2>4
    <3>3. [k \in 0 .. c |-> h[k]] = [k \in 0 .. c |-> IF k = 0 THEN start ELSE Next1(h[k - 1], k)]
      BY <3>2, Zenon
    <3> QED
      BY <3>1, <3>3
  <2> HIDE DEF h
  <2> QED
    BY <2>5
<1>3. R \in D
  <2> HIDE DEF D
  <2>1. 0 .. R \subseteq D
    BY <1>n, <1>1, <1>2, Climb
  <2> QED
    BY <1>n, <2>1
<1>4. Is(w, R)
  <2>1. \E g : Is(g, R)
    BY <1>3
  <2> HIDE DEF Is
  <2> QED
    BY <2>1 DEF w
<1>5. w[0] = start /\ \A k \in 1 .. R : w[k] = Next1(w[k - 1], k)
  <2>1. w[0] = start
    BY <1>n, <1>4
  <2>2. ASSUME NEW k \in 1 .. R PROVE w[k] = Next1(w[k - 1], k)
    BY <1>n, <1>4, <2>2
  <2> QED
    BY <2>1, <2>2
<1> QED
  BY <1>0, <1>5 DEF Next1, start, R, Rounds


\* Below(m, n) is the least closed set with n in it ...
LEMMA BelowLeast ==
  ASSUME NEW m, NEW n, NEW X, n \in X, Closed(m, X)
  PROVE  Below(m, n) \subseteq X
<1> DEFINE R == Cardinality(Nodes)
<1>1. R \in Nat
  BY NodesAssumption, FS_CardinalityType
<1>0. PICK w : Rounds(m, n, w)
  BY BelowRun
<1>2. /\ Below(m, n) = w[Cardinality(Nodes)]
      /\ w[0] = {n}
      /\ \A k \in 1 .. Cardinality(Nodes) : w[k] = w[k - 1] \cup KidsOf(m, w[k - 1])
  BY <1>0 DEF Rounds
<1> DEFINE D == {k \in 0 .. R : w[k] \subseteq X}
<1> HIDE DEF R
<1>3. 0 \in D
  BY <1>1, <1>2
<1>4. ASSUME NEW k \in 1 .. R, k - 1 \in D PROVE k \in D
  <2>1. w[k - 1] \subseteq X /\ k \in 0 .. R
    BY <1>1, <1>4
  <2>2. KidsOf(m, w[k - 1]) \subseteq X
    BY <2>1 DEF KidsOf, Closed
  <2>3. w[k] = w[k - 1] \cup KidsOf(m, w[k - 1])
    BY <1>2 DEF R
  <2> QED
    BY <2>1, <2>2, <2>3
<1>5. R \in D
  <2> HIDE DEF D
  <2>1. 0 .. R \subseteq D
    BY <1>1, <1>3, <1>4, Climb
  <2> QED
    BY <1>1, <2>1
<1> QED
  BY <1>2, <1>5 DEF R

\* ... because as many rounds as there are nodes are enough.
LEMMA BelowClosed ==
  ASSUME NEW m, NEW n \in Nodes, \A d \in Nodes : KidSet(m, d) \subseteq Nodes
  PROVE  n \in Below(m, n) /\ Below(m, n) \subseteq Nodes /\ Closed(m, Below(m, n))
<1> DEFINE R == Cardinality(Nodes)
<1>1. R \in Nat /\ IsFiniteSet(Nodes)
  BY NodesAssumption, FS_CardinalityType
<1>0. PICK w : Rounds(m, n, w)
  BY BelowRun
<1>2. /\ Below(m, n) = w[Cardinality(Nodes)]
      /\ w[0] = {n}
      /\ \A k \in 1 .. Cardinality(Nodes) : w[k] = w[k - 1] \cup KidsOf(m, w[k - 1])
  BY <1>0 DEF Rounds
<1> DEFINE Part(k) == /\ n \in w[k] /\ w[k] \subseteq Nodes
                      /\ KidsOf(m, w[k]) \subseteq w[k] \/ Cardinality(w[k]) >= k + 1
           D == {k \in 0 .. R : Part(k)}
<1> HIDE DEF R
<1>3. 0 \in D
  <2>1. Cardinality({n}) = 1
    BY FS_Singleton
  <2>2. Part(0)
    BY <1>2, <2>1
  <2> QED
    BY <1>1, <2>2
<1>4. ASSUME NEW k \in 1 .. R, k - 1 \in D PROVE k \in D
  <2> DEFINE V == w[k - 1]
             W == w[k]
  <2>1. /\ n \in V /\ V \subseteq Nodes
        /\ KidsOf(m, V) \subseteq V \/ Cardinality(V) >= (k - 1) + 1
    BY <1>4
  <2>2. W = V \cup KidsOf(m, V)
    BY <1>2 DEF R
  <2> HIDE DEF V, W
  <2>3. n \in W /\ W \subseteq Nodes
    <3>1. KidsOf(m, V) \subseteq Nodes
      BY <2>1 DEF KidsOf
    <3> QED
      BY <2>1, <2>2, <3>1
  <2>4. KidsOf(m, W) \subseteq W \/ Cardinality(W) >= k + 1
    <3>1. CASE KidsOf(m, V) \subseteq V
      <4>1. W = V
        BY <2>2, <3>1
      <4> QED
        BY <3>1, <4>1
    <3>2. CASE ~(KidsOf(m, V) \subseteq V)
      <4>1. PICK x \in KidsOf(m, V) : x \notin V
        BY <3>2
      <4>2. IsFiniteSet(V) /\ IsFiniteSet(W)
        BY <1>1, <2>1, <2>3, FS_Subset
      <4>3. /\ IsFiniteSet(V \cup {x})
            /\ Cardinality(V \cup {x}) = Cardinality(V) + 1
        BY <4>1, <4>2, FS_AddElement
      <4>4. V \cup {x} \in SUBSET W
        BY <2>2, <4>1
      <4>5. Cardinality(V \cup {x}) <= Cardinality(W)
        BY <4>2, <4>4, FS_Subset
      <4>6. Cardinality(V) \in Nat /\ Cardinality(W) \in Nat
        BY <4>2, FS_CardinalityType
      <4> QED
        BY <2>1, <3>2, <4>3, <4>5, <4>6
    <3> QED
      BY <3>1, <3>2
  <2> QED
    <3>1. k \in 0 .. R
      BY <1>1
    <3> QED
      BY <2>3, <2>4, <3>1 DEF W
<1>5. Part(R)
  <2>1. R \in D
    <3> HIDE DEF D
    <3>1. 0 .. R \subseteq D
      BY <1>1, <1>3, <1>4, Climb
    <3> QED
      BY <1>1, <3>1
  <2> QED
    BY <2>1
<1> DEFINE W == w[R]
<1>6. n \in W /\ W \subseteq Nodes /\ (KidsOf(m, W) \subseteq W \/ Cardinality(W) >= R + 1)
  BY <1>5
<1>7. W = Below(m, n)
  BY <1>2 DEF R
<1> HIDE DEF W
<1>8. Cardinality(W) <= R /\ Cardinality(W) \in Nat
  BY <1>1, <1>6, FS_Subset, FS_CardinalityType DEF R
<1>9. KidsOf(m, W) \subseteq W
  BY <1>1, <1>6, <1>8
<1>10. Closed(m, W)
  BY <1>9 DEF Closed, KidsOf
<1> QED
  BY <1>6, <1>7, <1>10

\* Every node below n but n itself is listed by a directory below n.
LEMMA BelowListed ==
  ASSUME NEW m, NEW n \in Nodes, \A d \in Nodes : KidSet(m, d) \subseteq Nodes,
         NEW x \in Below(m, n), x # n
  PROVE  \E d \in Below(m, n) : IsDir(d) /\ x \in KidSet(m, d)
<1> DEFINE B == Below(m, n)
           X == {y \in B : y = n \/ \E d \in B : IsDir(d) /\ y \in KidSet(m, d)}
<1>1. n \in B /\ Closed(m, B)
  BY BelowClosed
<1> HIDE DEF B
<1>2. n \in X
  BY <1>1
<1>3. Closed(m, X)
  BY <1>1 DEF Closed
<1> HIDE DEF X
<1>4. B \subseteq X
  BY <1>2, <1>3, BelowLeast DEF B
<1> QED
  BY <1>4 DEF B, X

\* Where lists only grow, what lies below a node does too.
LEMMA BelowGrows ==
  ASSUME NEW m, NEW w, NEW n \in Nodes,
         \A d \in Nodes : KidSet(m, d) \subseteq KidSet(w, d) /\ KidSet(w, d) \subseteq Nodes
  PROVE  Below(m, n) \subseteq Below(w, n)
<1> DEFINE X == Below(w, n)
<1>1. n \in X /\ X \subseteq Nodes /\ Closed(w, X)
  BY BelowClosed
<1> HIDE DEF X
<1>2. Closed(m, X)
  BY <1>1 DEF Closed
<1> QED
  BY <1>1, <1>2, BelowLeast DEF X

----------------------------------------------------------------------------
(* The cache and the device.                                               *)

\* The empty name is a string, which the provers do not know of a literal.
Words == STRING \cup {Nameless}
Rec == [name : Words, parent : Nodes \cup {NoNode, Freed}, kids : Seq(Nodes), dots : BOOLEAN]
Entry == [name : Words, node : Nodes \ {Root}]
Listing == [kids : Seq(Entry), dots : BOOLEAN]

\* The nodes in the cache: those with a parent, be it a freed one.
Cached(m) == {n \in Nodes : n = Root \/ m[n].parent # NoNode}

\* What holds of the record of node n, when K is cached: its entries are cached,
\* its parent was, and a node that is not cached has no entries.
Tied(x, n, K) ==
  /\ Len(x.kids) <= MaxKids
  /\ ToSet(x.kids) \subseteq K \ {Root}
  /\ x.parent \in K \cup {NoNode, Freed}
  /\ n \notin K => x.kids = <<>>

Cache(m) == m \in [Nodes -> Rec] /\ \A n \in Nodes : Tied(m[n], n, Cached(m))

Device == dev \in [Nodes -> Listing] /\ \A d \in Nodes : Len(dev[d].kids) <= MaxKids

Kinds == kind \in [Nodes -> {"free", "file", "dir"}] /\ kind[Root] = "dir"

\* w shows all that m shows.
Grown(m, w) ==
  Cached(m) \subseteq Cached(w) /\ \A n \in Nodes : KidSet(m, n) \subseteq KidSet(w, n)

LEMMA RecIs ==
  ASSUME NEW x \in Rec
  PROVE  /\ x.name \in Words /\ x.parent \in Nodes \cup {NoNode, Freed}
         /\ x.kids \in Seq(Nodes) /\ Len(x.kids) \in Nat /\ x.dots \in BOOLEAN
         /\ ToSet(x.kids) \subseteq Nodes
<1>1. /\ x.name \in Words /\ x.parent \in Nodes \cup {NoNode, Freed}
      /\ x.kids \in Seq(Nodes) /\ x.dots \in BOOLEAN
  BY DEF Rec
<1> QED
  BY <1>1, ToSetIs

\* The record with another list, another parent, another name.
LEMMA SetKids ==
  ASSUME NEW x \in Rec, NEW s \in Seq(Nodes)
  PROVE  /\ [x EXCEPT !.kids = s] \in Rec
         /\ [x EXCEPT !.kids = s].kids = s
         /\ [x EXCEPT !.kids = s].parent = x.parent
         /\ [x EXCEPT !.kids = s].name = x.name
         /\ [x EXCEPT !.kids = s].dots = x.dots
BY DEF Rec

LEMMA SetParent ==
  ASSUME NEW x \in Rec, NEW p \in Nodes \cup {NoNode, Freed}
  PROVE  /\ [x EXCEPT !.parent = p] \in Rec
         /\ [x EXCEPT !.parent = p].parent = p
         /\ [x EXCEPT !.parent = p].kids = x.kids
         /\ [x EXCEPT !.parent = p].name = x.name
         /\ [x EXCEPT !.parent = p].dots = x.dots
BY DEF Rec

LEMMA SetName ==
  ASSUME NEW x \in Rec, NEW nm \in Words
  PROVE  /\ [x EXCEPT !.name = nm] \in Rec
         /\ [x EXCEPT !.name = nm].parent = x.parent
         /\ [x EXCEPT !.name = nm].kids = x.kids
BY DEF Rec

LEMMA SetDots ==
  ASSUME NEW x \in Rec, NEW b \in BOOLEAN
  PROVE  /\ [x EXCEPT !.dots = b] \in Rec
         /\ [x EXCEPT !.dots = b].parent = x.parent
         /\ [x EXCEPT !.dots = b].kids = x.kids
BY DEF Rec

LEMMA BlankIs ==
  Blank \in Rec /\ Blank.parent = NoNode /\ Blank.kids = <<>> /\ ToSet(Blank.kids) = {}
    /\ Len(Blank.kids) = 0
<1>1. <<>> \in Seq(Nodes) /\ ToSet(<<>>) = {} /\ Len(<<>>) = 0
  BY DEF ToSet
<1>2. Blank \in Rec /\ Blank.parent = NoNode /\ Blank.kids = <<>>
  <2>1. Nameless \in Words
    BY DEF Words
  <2> QED
    BY <1>1, <2>1 DEF Blank, Rec
<1> QED
  BY <1>1, <1>2

LEMMA CacheIs ==
  ASSUME NEW m, Cache(m), NEW n \in Nodes
  PROVE  /\ m[n] \in Rec
         /\ KidSet(m, n) \subseteq Nodes
         /\ KidSet(m, n) \subseteq Cached(m) \ {Root}
         /\ m[n].parent \in Cached(m) \cup {NoNode, Freed}
         /\ Len(m[n].kids) \in Nat /\ Len(m[n].kids) <= MaxKids
         /\ m[n].kids \in Seq(Nodes)
<1>1. m[n] \in Rec /\ Tied(m[n], n, Cached(m))
  BY DEF Cache
<1>2. m[n].kids \in Seq(Nodes) /\ Len(m[n].kids) \in Nat
  BY <1>1, RecIs
<1> QED
  BY <1>1, <1>2 DEF Tied, KidSet, Cached

LEMMA GrownTrans ==
  ASSUME NEW l, NEW m, NEW w, Grown(l, m), Grown(m, w)
  PROVE  Grown(l, w)
BY DEF Grown

LEMMA GrownSame ==
  ASSUME NEW m
  PROVE  Grown(m, m)
BY DEF Grown

\* The list a directory gets when it is read.
LEMMA EntriesIs ==
  ASSUME Device, NEW d \in Nodes
  PROVE  /\ [i \in DOMAIN dev[d].kids |-> dev[d].kids[i].node] \in Seq(Nodes)
         /\ Len([i \in DOMAIN dev[d].kids |-> dev[d].kids[i].node]) <= MaxKids
         /\ ToSet([i \in DOMAIN dev[d].kids |-> dev[d].kids[i].node]) = Entries(d)
         /\ Entries(d) \subseteq Nodes \ {Root}
<1> DEFINE s == dev[d].kids
           w == [i \in DOMAIN dev[d].kids |-> dev[d].kids[i].node]
           l == Len(s)
<1>1. s \in Seq(Entry) /\ l <= MaxKids
  BY DEF Device, Listing
<1>2. l \in Nat /\ DOMAIN s = 1 .. l
  BY <1>1
<1>3. w = [i \in 1 .. l |-> s[i].node]
  BY <1>2
<1> HIDE DEF w, l
<1>4. ASSUME NEW i \in 1 .. l PROVE s[i] \in Entry
  BY <1>1, InList DEF l
<1>5. \A i \in 1 .. l : w[i] = s[i].node /\ w[i] \in Nodes /\ w[i] # Root
  BY <1>3, <1>4 DEF Entry
<1>6. UpTo(w, l)
  BY <1>3, <1>5 DEF UpTo
<1>7. w \in Seq(Nodes) /\ Len(w) = l
  BY <1>2, <1>5, <1>6, ListIs
<1>8. ToSet(w) = {w[i] : i \in 1 .. l}
  BY <1>7, ToSetIs
<1>9. Entries(d) = {w[i] : i \in 1 .. l}
  <2>1. ToSet(s) = {s[i] : i \in 1 .. l}
    BY <1>1, ToSetIs DEF l
  <2>2. Entries(d) = {e.node : e \in {s[i] : i \in 1 .. l}}
    BY <2>1 DEF Entries
  <2> QED
    BY <1>5, <2>2
<1>10. Entries(d) \subseteq Nodes \ {Root}
  BY <1>5, <1>9
<1> QED
  BY <1>1, <1>7, <1>8, <1>9, <1>10 DEF w

----------------------------------------------------------------------------
(* Reading a directory and following a path.                               *)

\* A record in the cache after a directory is read.
LEMMA ReadNode ==
  ASSUME Device, NEW m, Cache(m), NEW d \in Cached(m), NEW n \in Nodes,
         \A e \in Entries(d) : m[e].parent = NoNode
  PROVE  /\ Read(m, d)[n] \in Rec
         /\ n = d => /\ Read(m, d)[n].parent = m[d].parent
                     /\ Len(Read(m, d)[n].kids) <= MaxKids
                     /\ ToSet(Read(m, d)[n].kids) = Entries(d)
         /\ n # d /\ n \in Entries(d) =>
              Read(m, d)[n].parent = d /\ Read(m, d)[n].kids = <<>>
         /\ n # d /\ n \notin Entries(d) => Read(m, d)[n] = m[n]
<1> DEFINE s == [i \in DOMAIN dev[d].kids |-> dev[d].kids[i].node]
           nm == (CHOOSE e \in ToSet(dev[d].kids) : e.node = n).name
           r == [m[d] EXCEPT !.kids = s, !.dots = dev[d].dots]
           b == [Blank EXCEPT !.parent = d, !.name = nm]
           x == Read(m, d)[n]
<1>1. d \in Nodes /\ m[d] \in Rec /\ m[n] \in Rec
  BY CacheIs DEF Cached
<1>2. /\ s \in Seq(Nodes) /\ Len(s) <= MaxKids /\ ToSet(s) = Entries(d)
      /\ Entries(d) \subseteq Nodes \ {Root}
  BY <1>1, EntriesIs
<1>3. x = IF n = d THEN r ELSE IF n \in Entries(d) THEN b ELSE m[n]
  BY DEF Read
<1>4. dev[d].dots \in BOOLEAN /\ dev[d].kids \in Seq(Entry)
  BY <1>1 DEF Device, Listing
<1> HIDE DEF s, x
<1>5. r \in Rec /\ r.parent = m[d].parent /\ r.kids = s
  <2> DEFINE y == [m[d] EXCEPT !.kids = s]
  <2>1. y \in Rec /\ y.parent = m[d].parent /\ y.kids = s
    BY <1>1, <1>2, SetKids
  <2>2. r = [y EXCEPT !.dots = dev[d].dots]
    OBVIOUS
  <2> HIDE DEF y, r
  <2> QED
    BY <1>4, <2>1, <2>2, SetDots
<1>6. n \in Entries(d) => b \in Rec /\ b.parent = d /\ b.kids = <<>>
  <2> SUFFICES ASSUME n \in Entries(d) PROVE b \in Rec /\ b.parent = d /\ b.kids = <<>>
    OBVIOUS
  <2>1. \E e \in ToSet(dev[d].kids) : e.node = n
    BY DEF Entries
  <2>2. ToSet(dev[d].kids) \subseteq Entry
    BY <1>4, ToSetIs
  <2>3. nm \in Words
    BY <2>1, <2>2 DEF Entry
  <2> HIDE DEF nm
  <2> DEFINE y == [Blank EXCEPT !.parent = d]
  <2>4. y \in Rec /\ y.parent = d /\ y.kids = <<>>
    BY <1>1, BlankIs, SetParent
  <2>5. b = [y EXCEPT !.name = nm]
    OBVIOUS
  <2> HIDE DEF y, b
  <2> QED
    BY <2>3, <2>4, <2>5, SetName
<1> HIDE DEF r, b
<1> QED
  BY <1>1, <1>2, <1>3, <1>5, <1>6 DEF x

LEMMA ReadIs ==
  ASSUME Device, NEW m, Cache(m), NEW d \in Cached(m), m[d].kids = <<>>,
         \A e \in Entries(d) : m[e].parent = NoNode
  PROVE  Cache(Read(m, d)) /\ Grown(m, Read(m, d)) /\ d \in Cached(Read(m, d))
<1> DEFINE w == Read(m, d)
           E == Entries(d)
<1>1. d \in Nodes /\ E \subseteq Nodes \ {Root}
  BY EntriesIs DEF Cached
<1>2. \A n \in Nodes :
         /\ w[n] \in Rec
         /\ n = d => /\ w[n].parent = m[d].parent
                     /\ Len(w[n].kids) <= MaxKids
                     /\ ToSet(w[n].kids) = E
         /\ n # d /\ n \in E => w[n].parent = d /\ w[n].kids = <<>>
         /\ n # d /\ n \notin E => w[n] = m[n]
  BY ReadNode
<1>3. w \in [Nodes -> Rec]
  <2>1. w = [n \in Nodes |-> w[n]]
    BY DEF Read
  <2> HIDE DEF w
  <2> QED
    BY <1>2, <2>1
<1>m. \A e \in E : m[e].parent = NoNode
  OBVIOUS
<1> HIDE DEF w, E
<1>4. Cached(w) = Cached(m) \cup E
  <2> SUFFICES ASSUME NEW n \in Nodes PROVE n \in Cached(w) <=> n \in Cached(m) \cup E
    BY <1>1 DEF Cached
  <2>1. CASE n = d
    BY <1>1, <1>2, <2>1 DEF Cached
  <2>2. CASE n # d /\ n \in E
    BY <1>1, <1>2, <2>2, NodesAssumption DEF Cached
  <2>3. CASE n # d /\ n \notin E
    BY <1>1, <1>2, <2>3 DEF Cached
  <2> QED
    BY <2>1, <2>2, <2>3
<1>5. ToSet(<<>>) = {} /\ Len(<<>>) = 0 /\ MaxKids \in Nat
  BY BoundAssumption DEF ToSet
<1>6. ASSUME NEW n \in Nodes PROVE Tied(w[n], n, Cached(w))
  <2>1. Tied(m[n], n, Cached(m)) /\ Tied(m[d], d, Cached(m))
    BY <1>1 DEF Cache
  <2>2. CASE n = d
    BY <1>1, <1>2, <1>4, <2>1, <2>2 DEF Tied
  <2>3. CASE n # d /\ n \in E
    BY <1>1, <1>2, <1>4, <1>5, <2>3 DEF Tied
  <2>4. CASE n # d /\ n \notin E
    BY <1>1, <1>2, <1>4, <2>1, <2>4 DEF Tied
  <2> QED
    BY <2>2, <2>3, <2>4
<1>7. ASSUME NEW n \in Nodes PROVE KidSet(m, n) \subseteq KidSet(w, n)
  <2>1. CASE n = d
    BY <1>5, <2>1 DEF KidSet
  <2>2. CASE n # d /\ n \in E
    <3>1. n \notin Cached(m)
      BY <1>1, <1>m, <2>2 DEF Cached
    <3>2. m[n].kids = <<>>
      BY <3>1 DEF Cache, Tied
    <3> QED
      BY <1>5, <3>2 DEF KidSet
  <2>3. CASE n # d /\ n \notin E
    BY <1>2, <2>3 DEF KidSet
  <2> QED
    BY <2>1, <2>2, <2>3
<1>8. Cache(w)
  BY <1>3, <1>6 DEF Cache
<1>9. Grown(m, w) /\ d \in Cached(w)
  BY <1>4, <1>7 DEF Grown
<1> QED
  BY <1>8, <1>9 DEF w

\* The first entry of a name is an entry.
LEMMA FirstNamedIs ==
  ASSUME NEW m, Cache(m), NEW d \in Nodes, NEW nm, \E n \in KidSet(m, d) : m[n].name = nm
  PROVE  FirstNamed(m, d, nm) \in KidSet(m, d)
<1> DEFINE s == m[d].kids
           I == {i \in 1 .. Len(s) : m[s[i]].name = nm}
<1>1. s \in Seq(Nodes) /\ Len(s) \in Nat
  BY CacheIs
<1>2. I # {} /\ I \in SUBSET Nat
  <2>1. PICK n \in ToSet(s) : m[n].name = nm
    BY DEF KidSet
  <2>2. PICK i \in 1 .. Len(s) : n = s[i]
    BY <1>1, ToSetIs
  <2> QED
    BY <2>1, <2>2
<1>3. Min(I) \in I
  <2> HIDE DEF I
  <2> QED
    BY <1>2, FirstPlace
<1>4. FirstNamed(m, d, nm) = s[Min(I)]
  BY <1>2 DEF FirstNamed, SelectInSeq
<1>5. Min(I) \in 1 .. Len(s)
  BY <1>3
<1> QED
  BY <1>1, <1>4, <1>5, InList DEF KidSet

\* Where a path leads, from a cache m that its reading may only extend.
Found(m, r) ==
  /\ r = [at |-> r.at, m |-> r.m, out |-> r.out]
  /\ r.out \in {"ok", "none", "astray"}
  /\ Cache(r.m) /\ Grown(m, r.m) /\ r.at \in Cached(r.m)

\* A directory that is not read yet, and whose files are not in the cache.
LEMMA UnreadIs ==
  ASSUME NEW m, Cache(m), NEW n \in Nodes, Unread(m, n)
  PROVE  m[n].kids = <<>>
<1>1. m[n].kids \in Seq(Nodes) /\ Len(m[n].kids) \in Nat
  BY CacheIs
<1> DEFINE l == Len(m[n].kids)
<1>2. l = 0
  <2>1. l + (IF m[n].dots THEN 2 ELSE 0) = 0
    BY DEF Unread, Size
  <2> HIDE DEF l
  <2>2. CASE m[n].dots
    BY <1>1, <2>1, <2>2 DEF l
  <2>3. CASE ~m[n].dots
    BY <2>1, <2>3, <1>1 DEF l
  <2> QED
    BY <2>2, <2>3
<1> QED
  BY <1>1, <1>2

LEMMA StepIs ==
  ASSUME Device, NEW l, NEW r, Found(l, r), NEW nm, NEW isLast
  PROVE  Found(l, Step(r, nm, isLast))
<1> DEFINE m == r.m
           d == r.at
           child == FirstNamed(r.m, d, nm)
           s == Step(r, nm, isLast)
<1>0. /\ r.out \in {"ok", "none", "astray"} /\ r = [at |-> r.at, m |-> r.m, out |-> r.out]
      /\ Cache(m) /\ Grown(l, m) /\ d \in Cached(m)
  BY DEF Found
<1>1. d \in Nodes /\ m[d].parent \in Cached(m) \cup {NoNode, Freed}
  BY <1>0, CacheIs DEF Cached
<1>2. CASE s = r
  BY <1>2
<1>3. CASE s = [r EXCEPT !.out = "none"] \/ s = [r EXCEPT !.out = "astray"]
  <2>1. /\ s = [at |-> s.at, m |-> s.m, out |-> s.out] /\ s.at = d /\ s.m = m
        /\ s.out \in {"none", "astray"}
    <3> HIDE DEF s
    <3> QED
      BY <1>0, <1>3
  <2> QED
    BY <1>0, <2>1 DEF Found
<1>4. CASE s = [r EXCEPT !.at = r.m[d].parent] /\ d # Root /\ r.m[d].parent # Freed
  <2>1. m[d].parent \in Cached(m)
    BY <1>0, <1>1, <1>4 DEF Cached
  <2> QED
    BY <1>0, <1>4, <2>1 DEF Found
<1>5. CASE /\ Has(m, d, nm) /\ nm # Here /\ nm # Up
           /\ \/ s = [r EXCEPT !.at = child]
              \/ /\ Unread(m, child) /\ ~Twins(m, child)
                 /\ s = [at |-> child, m |-> Read(m, child), out |-> "ok"]
  <2>1. child \in KidSet(m, d)
    BY <1>0, <1>1, <1>5, FirstNamedIs DEF Has
  <2>2. child \in Cached(m) /\ child \in Nodes
    BY <1>0, <1>1, <2>1, CacheIs
  <2>3. CASE s = [r EXCEPT !.at = child]
    BY <1>0, <2>2, <2>3 DEF Found
  <2>4. CASE /\ Unread(m, child) /\ ~Twins(m, child)
             /\ s = [at |-> child, m |-> Read(m, child), out |-> "ok"]
    <3>1. m[child].kids = <<>> /\ \A e \in Entries(child) : m[e].parent = NoNode
      BY <1>0, <2>2, <2>4, UnreadIs DEF Twins
    <3>2. /\ Cache(Read(m, child)) /\ Grown(m, Read(m, child))
          /\ child \in Cached(Read(m, child))
      BY <1>0, <2>2, <3>1, ReadIs
    <3>3. Grown(l, Read(m, child))
      BY <1>0, <3>2, GrownTrans
    <3> QED
      BY <2>4, <3>2, <3>3 DEF Found
  <2> QED
    BY <1>5, <2>3, <2>4
<1>6. \/ s = r
      \/ s = [r EXCEPT !.out = "none"] \/ s = [r EXCEPT !.out = "astray"]
      \/ s = [r EXCEPT !.at = r.m[d].parent] /\ d # Root /\ r.m[d].parent # Freed
      \/ /\ Has(m, d, nm) /\ nm # Here /\ nm # Up
         /\ \/ s = [r EXCEPT !.at = child]
            \/ /\ Unread(m, child) /\ ~Twins(m, child)
               /\ s = [at |-> child, m |-> Read(m, child), out |-> "ok"]
  <2> HIDE DEF child
  <2> QED
    BY Zenon DEF Step, child
<1> HIDE DEF s
<1> QED
  BY <1>2, <1>3, <1>4, <1>5, <1>6 DEF s

----------------------------------------------------------------------------
(* The loops over the names of a path and over the files to copy.          *)

\* w is what the loop of ParseFrom finds after each name.
Steps(m, start, names, w) ==
  /\ ParseFrom(m, start, names) = w[Len(names)]
  /\ w[0] = [at |-> start, m |-> m, out |-> "ok"]
  /\ \A i \in 1 .. Len(names) : w[i] = Step(w[i - 1], names[i], i = Len(names))

LEMMA ParseRun ==
  ASSUME NEW m, NEW at, at # Freed, NEW names, Len(names) \in Nat
  PROVE  \E w : Steps(m, at, names, w)
<1> DEFINE R == Len(names)
           Next1(x, k) == Step(x, names[k], k = Len(names))
           start == [at |-> at, m |-> m, out |-> "ok"]
           Is(g, c) == g = [k \in 0 .. c |-> IF k = 0 THEN start ELSE Next1(g[k - 1], k)]
           D == {c \in 0 .. R : \E g : Is(g, c)}
           w == CHOOSE g : Is(g, R)
<1>n. R \in Nat
  OBVIOUS
<1>0. ParseFrom(m, at, names) = w[R]
  <2>1. w = CHOOSE g : g = [i \in 0 .. Len(names) |->
                              IF i = 0 THEN [at |-> at, m |-> m, out |-> "ok"]
                              ELSE Step(g[i - 1], names[i], i = Len(names))]
    OBVIOUS
  <2> HIDE DEF w
  <2> QED
    BY <2>1 DEF ParseFrom
<1> HIDE DEF w, Next1, start, R
<1>1. 0 \in D
  <2> DEFINE g == [k \in 0 .. 0 |-> start]
  <2>1. Is(g, 0)
    OBVIOUS
  <2> HIDE DEF g
  <2>2. \E x : Is(x, 0)
    BY <2>1
  <2> QED
    BY <1>n, <2>2
<1>2. ASSUME NEW c \in 1 .. R, c - 1 \in D PROVE c \in D
  <2>1. PICK g : Is(g, c - 1)
    BY <1>2
  <2> DEFINE h == [k \in 0 .. c |-> IF k <= c - 1 THEN g[k] ELSE Next1(g[c - 1], c)]
  <2>2. \A k \in 0 .. c - 1 : h[k] = g[k]
    OBVIOUS
  <2>3. h[0] = start
    BY <2>1, <2>2
  <2>4. ASSUME NEW k \in 1 .. c PROVE h[k] = Next1(h[k - 1], k)
    <3>1. h[k - 1] = g[k - 1]
      BY <2>2
    <3>2. CASE k = c
      BY <3>1, <3>2
    <3>3. CASE k # c
      <4>1. k \in 0 .. c - 1 /\ k # 0
        BY <3>3
      <4>2. g[k] = Next1(g[k - 1], k)
        BY <2>1, <4>1
      <4> QED
        BY <2>2, <3>1, <4>1, <4>2
    <3> QED
      BY <3>2, <3>3
  <2>5. Is(h, c)
    <3>1. h = [k \in 0 .. c |-> h[k]]
      OBVIOUS
    <3> HIDE DEF h
    <3>2. \A k \in 0 .. c : h[k] = IF k = 0 THEN start ELSE Next1(h[k - 1], k)
      BY <2>3, <2>4
    <3>3. [k \in 0 .. c |-> h[k]] = [k \in 0 .. c |-> IF k = 0 THEN start ELSE Next1(h[k - 1], k)]
      BY <3>2, Zenon
    <3> QED
      BY <3>1, <3>3
  <2> HIDE DEF h
  <2> QED
    BY <2>5
<1>3. R \in D
  <2> HIDE DEF D
  <2>1. 0 .. R \subseteq D
    BY <1>n, <1>1, <1>2, Climb
  <2> QED
    BY <1>n, <2>1
<1>4. Is(w, R)
  <2>1. \E g : Is(g, R)
    BY <1>3
  <2> HIDE DEF Is
  <2> QED
    BY <2>1 DEF w
<1>5. w[0] = start /\ \A k \in 1 .. R : w[k] = Next1(w[k - 1], k)
  <2>1. w[0] = start
    BY <1>n, <1>4
  <2>2. ASSUME NEW k \in 1 .. R PROVE w[k] = Next1(w[k - 1], k)
    BY <1>n, <1>4, <2>2
  <2> QED
    BY <2>1, <2>2
<1> QED
  BY <1>0, <1>5 DEF Next1, start, R, Steps


\* w is what the loop of ReadEach finds after each file.
Reads(m, list, w) ==
  /\ ReadEach(m, list) = w[Len(list)]
  /\ w[0] = [at |-> Root, m |-> m, out |-> "ok"]
  /\ \A i \in 1 .. Len(list) : w[i] = ReadKid(w[i - 1], list[i])

LEMMA ReadEachRun ==
  ASSUME NEW m, NEW list, Len(list) \in Nat
  PROVE  \E w : Reads(m, list, w)
<1> DEFINE R == Len(list)
           Next1(x, k) == ReadKid(x, list[k])
           start == [at |-> Root, m |-> m, out |-> "ok"]
           Is(g, c) == g = [k \in 0 .. c |-> IF k = 0 THEN start ELSE Next1(g[k - 1], k)]
           D == {c \in 0 .. R : \E g : Is(g, c)}
           w == CHOOSE g : Is(g, R)
<1>n. R \in Nat
  OBVIOUS
<1>0. ReadEach(m, list) = w[R]
  <2>1. w = CHOOSE g : g = [i \in 0 .. Len(list) |->
                              IF i = 0 THEN [at |-> Root, m |-> m, out |-> "ok"]
                              ELSE ReadKid(g[i - 1], list[i])]
    OBVIOUS
  <2> HIDE DEF w
  <2> QED
    BY <2>1 DEF ReadEach
<1> HIDE DEF w, Next1, start, R
<1>1. 0 \in D
  <2> DEFINE g == [k \in 0 .. 0 |-> start]
  <2>1. Is(g, 0)
    OBVIOUS
  <2> HIDE DEF g
  <2>2. \E x : Is(x, 0)
    BY <2>1
  <2> QED
    BY <1>n, <2>2
<1>2. ASSUME NEW c \in 1 .. R, c - 1 \in D PROVE c \in D
  <2>1. PICK g : Is(g, c - 1)
    BY <1>2
  <2> DEFINE h == [k \in 0 .. c |-> IF k <= c - 1 THEN g[k] ELSE Next1(g[c - 1], c)]
  <2>2. \A k \in 0 .. c - 1 : h[k] = g[k]
    OBVIOUS
  <2>3. h[0] = start
    BY <2>1, <2>2
  <2>4. ASSUME NEW k \in 1 .. c PROVE h[k] = Next1(h[k - 1], k)
    <3>1. h[k - 1] = g[k - 1]
      BY <2>2
    <3>2. CASE k = c
      BY <3>1, <3>2
    <3>3. CASE k # c
      <4>1. k \in 0 .. c - 1 /\ k # 0
        BY <3>3
      <4>2. g[k] = Next1(g[k - 1], k)
        BY <2>1, <4>1
      <4> QED
        BY <2>2, <3>1, <4>1, <4>2
    <3> QED
      BY <3>2, <3>3
  <2>5. Is(h, c)
    <3>1. h = [k \in 0 .. c |-> h[k]]
      OBVIOUS
    <3> HIDE DEF h
    <3>2. \A k \in 0 .. c : h[k] = IF k = 0 THEN start ELSE Next1(h[k - 1], k)
      BY <2>3, <2>4
    <3>3. [k \in 0 .. c |-> h[k]] = [k \in 0 .. c |-> IF k = 0 THEN start ELSE Next1(h[k - 1], k)]
      BY <3>2, Zenon
    <3> QED
      BY <3>1, <3>3
  <2> HIDE DEF h
  <2> QED
    BY <2>5
<1>3. R \in D
  <2> HIDE DEF D
  <2>1. 0 .. R \subseteq D
    BY <1>n, <1>1, <1>2, Climb
  <2> QED
    BY <1>n, <2>1
<1>4. Is(w, R)
  <2>1. \E g : Is(g, R)
    BY <1>3
  <2> HIDE DEF Is
  <2> QED
    BY <2>1 DEF w
<1>5. w[0] = start /\ \A k \in 1 .. R : w[k] = Next1(w[k - 1], k)
  <2>1. w[0] = start
    BY <1>n, <1>4
  <2>2. ASSUME NEW k \in 1 .. R PROVE w[k] = Next1(w[k - 1], k)
    BY <1>n, <1>4, <2>2
  <2> QED
    BY <2>1, <2>2
<1> QED
  BY <1>0, <1>5 DEF Next1, start, R, Reads


\* A path leads to a node of the cache, and reading it only extends the cache.
LEMMA ParseFromIs ==
  ASSUME Device, NEW m, Cache(m), NEW at \in Cached(m) \cup {Freed}, NEW names,
         Len(names) \in Nat
  PROVE  Found(m, ParseFrom(m, at, names))
<1>1. CASE at = Freed
  <2>1. ParseFrom(m, at, names) = [at |-> Root, m |-> m, out |-> "astray"]
    BY <1>1 DEF ParseFrom
  <2>2. Root \in Cached(m) /\ Grown(m, m)
    BY NodesAssumption, GrownSame DEF Cached
  <2> QED
    BY <2>1, <2>2 DEF Found
<1>2. CASE at # Freed
  <2> DEFINE R == Len(names)
  <2>1. PICK w : Steps(m, at, names, w)
    BY <1>2, ParseRun
  <2>2. /\ ParseFrom(m, at, names) = w[R]
        /\ w[0] = [at |-> at, m |-> m, out |-> "ok"]
        /\ \A i \in 1 .. R : w[i] = Step(w[i - 1], names[i], i = R)
    BY <2>1 DEF Steps
  <2> HIDE DEF R
  <2>3. R \in Nat
    BY DEF R
  <2> DEFINE D == {i \in 0 .. R : Found(m, w[i])}
  <2>4. 0 \in D
    <3>1. Found(m, w[0])
      BY <1>2, <2>2, GrownSame DEF Found
    <3> QED
      BY <2>3, <3>1
  <2>5. ASSUME NEW i \in 1 .. R, i - 1 \in D PROVE i \in D
    <3>1. Found(m, w[i - 1]) /\ i \in 0 .. R
      BY <2>3, <2>5
    <3>2. Found(m, Step(w[i - 1], names[i], i = R))
      BY <3>1, StepIs
    <3>3. w[i] = Step(w[i - 1], names[i], i = R)
      BY <2>2
    <3> QED
      BY <3>1, <3>2, <3>3
  <2>6. R \in D
    <3> HIDE DEF D
    <3>1. 0 .. R \subseteq D
      BY <2>3, <2>4, <2>5, Climb
    <3> QED
      BY <2>3, <3>1
  <2> QED
    BY <2>2, <2>6
<1> QED
  BY <1>1, <1>2

\* The parent of a cached node but the root is where ParseFrom can start.
LEMMA ParentIs ==
  ASSUME NEW m, Cache(m), NEW n \in Cached(m), n # Root
  PROVE  m[n].parent \in Cached(m) \cup {Freed}
BY CacheIs DEF Cached

LEMMA ReadEachIs ==
  ASSUME Device, NEW m, Cache(m), NEW list \in Seq(Nodes), ToSet(list) \subseteq Cached(m) \ {Root}
  PROVE  Found(m, ReadEach(m, list))
<1> DEFINE R == Len(list)
<1>1. R \in Nat
  OBVIOUS
<1>2. PICK w : Reads(m, list, w)
  BY <1>1, ReadEachRun
<1>3. /\ ReadEach(m, list) = w[R]
      /\ w[0] = [at |-> Root, m |-> m, out |-> "ok"]
      /\ \A i \in 1 .. R : w[i] = ReadKid(w[i - 1], list[i])
  BY <1>2 DEF Reads
<1>4. \A i \in 1 .. R : list[i] \in Cached(m) \ {Root}
  BY InList
<1> HIDE DEF R
<1> DEFINE D == {i \in 0 .. R : Found(m, w[i])}
<1>5. 0 \in D
  <2>1. Found(m, w[0])
    BY <1>3, GrownSame, NodesAssumption DEF Found, Cached
  <2> QED
    BY <1>1, <2>1
<1>6. ASSUME NEW i \in 1 .. R, i - 1 \in D PROVE i \in D
  <2> DEFINE r == w[i - 1]
             n == list[i]
             nms == <<r.m[n].name>>
             q == ParseFrom(r.m, r.m[n].parent, nms)
  <2>1. Found(m, r) /\ i \in 0 .. R
    BY <1>1, <1>6
  <2>2. n \in Cached(m) \ {Root}
    BY <1>4
  <2>3. w[i] = r \/ w[i] = q
    <3>1. w[i] = ReadKid(r, n)
      BY <1>3
    <3> HIDE DEF r, n
    <3> QED
      BY <3>1 DEF ReadKid
  <2>4. Len(nms) \in Nat
    OBVIOUS
  <2> HIDE DEF r, n, nms
  <2>5. Cache(r.m) /\ Grown(m, r.m) /\ n \in Cached(r.m)
    BY <2>1, <2>2 DEF Found, Grown
  <2>6. r.m[n].parent \in Cached(r.m) \cup {Freed}
    BY <2>2, <2>5, ParentIs
  <2>7. Found(r.m, q)
    BY <2>4, <2>5, <2>6, ParseFromIs
  <2>8. Found(m, q)
    <3> HIDE DEF q
    <3> QED
      BY <2>5, <2>7, GrownTrans DEF Found
  <2> QED
    BY <2>1, <2>3, <2>8 DEF r
<1>7. R \in D
  <2> HIDE DEF D
  <2>1. 0 .. R \subseteq D
    BY <1>1, <1>5, <1>6, Climb
  <2> QED
    BY <1>1, <2>1
<1> QED
  BY <1>3, <1>7

----------------------------------------------------------------------------
(* The inductive invariant.                                                *)

DiskOK ==
  /\ Kinds
  /\ Device
  /\ filled \subseteq {n \in Nodes : kind[n] # "free"} \ {Root}
  /\ rootBlocks \in Nat

CacheOK == Cache(mem) /\ cur \in Cached(mem) \cup {Freed}

\* Between commands nothing is doomed; during rm the walk has directories only,
\* all of them below the doomed one.
Quiet == doomed = NoNode /\ walk = <<>>
OnTheWay ==
  /\ doomed \in Cached(mem) \ {Root} /\ IsDir(doomed)
  /\ walk \in Seq(Nodes) /\ Len(walk) <= MaxWalk
  /\ \A n \in ToSet(walk) : IsDir(n) /\ n \in Below(mem, doomed)
WalkOK ==
  \/ phase \in {"up", "off", "astray"} /\ Quiet
  \/ phase = "popping" /\ walk # <<>> /\ OnTheWay
  \/ phase \in {"walking", "astray"} /\ OnTheWay

Inv == DiskOK /\ CacheOK /\ WalkOK /\ careful \in BOOLEAN

\* The names of a path, and of its directory part, make a list.
LEMMA NamesIs ==
  ASSUME NEW p \in Paths
  PROVE  Len(p.names) \in Nat /\ Len(DirPart(p).names) \in Nat /\ LastName(p) \in Words
<1>1. /\ p \in [abs : BOOLEAN, names : Seq(STRING), slash : BOOLEAN]
      /\ p.names = <<>> => p.slash
  BY PathsAssumption
<1> DEFINE s == p.names
<1>2. s \in Seq(STRING) /\ Len(s) \in Nat
  BY <1>1
<1>3. CASE p.slash
  <2>1. DirPart(p).names = s
    BY <1>1, <1>3 DEF DirPart
  <2>2. LastName(p) \in Words
    BY <1>3 DEF LastName, Words
  <2> QED
    BY <1>2, <2>1, <2>2
<1>4. CASE ~p.slash
  <2>1. Len(s) >= 1
    BY <1>1, <1>2, <1>4
  <2>2. DirPart(p).names = SubSeq(s, 1, Len(s) - 1)
    BY <1>1, <1>4 DEF DirPart, Front
  <2>3. LastName(p) = s[Len(s)]
    BY <1>4 DEF LastName, Last
  <2> HIDE DEF s
  <2>4. LastName(p) \in Words
    <3>1. s[Len(s)] \in STRING
      BY <1>2, <2>1, InList
    <3> QED
      BY <2>3, <3>1 DEF Words
  <2>5. 1 \in Nat /\ Len(s) - 1 \in Int /\ 1 <= 1 /\ Len(s) - 1 <= Len(s)
    BY <1>2
  <2>6. SubSeq(s, 1, Len(s) - 1) \in Seq(STRING)
    BY <1>2, <2>5, PieceIs
  <2>7. Len(SubSeq(s, 1, Len(s) - 1)) \in Nat
    BY <2>6
  <2> QED
    BY <1>2, <2>2, <2>4, <2>7 DEF s
<1> QED
  BY <1>3, <1>4

LEMMA ParseIs ==
  ASSUME Device, NEW m, Cache(m), cur \in Cached(m) \cup {Freed}, NEW p \in Paths
  PROVE  Found(m, Parse(m, p)) /\ Found(m, Parse(m, DirPart(p))) /\ Found(m, ParentOf(m, p))
<1>1. \A q : Len(q.names) \in Nat => Found(m, Parse(m, q))
  <2> SUFFICES ASSUME NEW q, Len(q.names) \in Nat PROVE Found(m, Parse(m, q))
    OBVIOUS
  <2> DEFINE at == IF q.abs \/ q.names = <<>> THEN Root ELSE cur
  <2>1. at \in Cached(m) \cup {Freed}
    BY NodesAssumption DEF Cached
  <2> HIDE DEF at
  <2>2. Found(m, ParseFrom(m, at, q.names))
    BY <2>1, ParseFromIs
  <2> QED
    BY <2>2 DEF Parse, at
<1>2. Found(m, Parse(m, p)) /\ Found(m, Parse(m, DirPart(p)))
  BY <1>1, NamesIs
<1>3. Len(<<>>) \in Nat
  OBVIOUS
<1>4. Found(m, ParseFrom(m, cur, <<>>))
  BY <1>3, ParseFromIs
<1> QED
  BY <1>2, <1>4, Zenon DEF ParentOf

\* What a found path gives, from the invariant's cache.
LEMMA FoundIs ==
  ASSUME NEW m, NEW r, Found(m, r)
  PROVE  /\ Cache(r.m) /\ r.at \in Cached(r.m) /\ r.at \in Nodes
         /\ Cached(m) \subseteq Cached(r.m)
BY DEF Found, Grown, Cached

\* A step that leaves the disk alone.
LEMMA DiskSame ==
  ASSUME DiskOK, UNCHANGED disk
  PROVE  DiskOK'
BY DEF DiskOK, Kinds, Device, disk

LEMMA InvLs ==
  ASSUME Inv, NEW p \in Paths, Ls(p)
  PROVE  Inv'
<1> DEFINE r == Parse(mem, p)
<1>1. Found(mem, r)
  BY ParseIs DEF Inv, DiskOK, CacheOK
<1> HIDE DEF r
<1>2. /\ phase = "up" /\ phase' = (IF r.out = "astray" THEN "astray" ELSE "up") /\ mem' = r.m
      /\ UNCHANGED disk /\ UNCHANGED <<cur, careful, walk, doomed>>
  BY DEF Ls, r, Idle
<1>3. DiskOK'
  BY <1>2, DiskSame DEF Inv
<1>4. CacheOK'
  BY <1>1, <1>2, FoundIs DEF Inv, CacheOK
<1>5. WalkOK'
  BY <1>2 DEF Inv, WalkOK, Quiet
<1> QED
  BY <1>2, <1>3, <1>4, <1>5 DEF Inv

LEMMA InvCd ==
  ASSUME Inv, NEW p \in Paths, Cd(p)
  PROVE  Inv'
<1> DEFINE r == Parse(mem, p)
<1>1. Found(mem, r)
  BY ParseIs DEF Inv, DiskOK, CacheOK
<1> HIDE DEF r
<1>2. /\ phase = "up" /\ mem' = r.m /\ cur' = r.at
      /\ UNCHANGED disk /\ UNCHANGED <<phase, careful, walk, doomed>>
  BY DEF Cd, r, Idle
<1>3. DiskOK'
  BY <1>2, DiskSame DEF Inv
<1>4. CacheOK'
  BY <1>1, <1>2, FoundIs DEF Inv, CacheOK
<1>5. WalkOK'
  BY <1>2 DEF Inv, WalkOK, Quiet
<1> QED
  BY <1>2, <1>3, <1>4, <1>5 DEF Inv

----------------------------------------------------------------------------
(* rm of a directory: its beginning and its walk.                          *)

\* What the doomed directory has below it, in the next state.
LEMMA BelowNext ==
  ASSUME UNCHANGED kind
  PROVE  Below(mem, doomed)' = Below(mem', doomed')
BY DEF Below, IsDir

LEMMA InvRmDir ==
  ASSUME Inv, NEW p \in Paths, RmDir(p)
  PROVE  Inv'
<1> DEFINE r == Parse(mem, p)
<1>1. Found(mem, r)
  BY ParseIs DEF Inv, DiskOK, CacheOK
<1> HIDE DEF r
<1>2. /\ IsDir(r.at) /\ r.at # Root /\ mem' = r.m /\ walk' = <<r.at>> /\ doomed' = r.at
      /\ phase' = "walking" /\ UNCHANGED disk /\ UNCHANGED cur
      /\ careful' = (careful /\ Visited(r.m, Below(r.m, r.at)) /\ cur \notin Below(r.m, r.at))
  BY DEF RmDir, r
<1>3. DiskOK'
  BY <1>2, DiskSame DEF Inv
<1>4. CacheOK'
  BY <1>1, <1>2, FoundIs DEF Inv, CacheOK
<1>5. /\ Cache(r.m) /\ r.at \in Cached(r.m) /\ r.at \in Nodes
  BY <1>1, FoundIs
<1>6. r.at \in Below(r.m, r.at)
  BY <1>5, BelowClosed, CacheIs
<1>7. OnTheWay'
  <2>1. doomed' \in Cached(mem') \ {Root} /\ IsDir(doomed)'
    BY <1>2, <1>5 DEF disk, IsDir
  <2>2. walk' \in Seq(Nodes) /\ Len(walk') = 1 /\ ToSet(walk') = {r.at}
    <3>1. <<r.at>> \in Seq(Nodes) /\ Len(<<r.at>>) = 1
      BY <1>5
    <3>2. ToSet(<<r.at>>) = {r.at}
      BY DEF ToSet
    <3> QED
      BY <1>2, <3>1, <3>2
  <2>3. Below(mem, doomed)' = Below(r.m, r.at)
    BY <1>2, BelowNext DEF disk
  <2>4. 1 <= MaxWalk
    BY BoundAssumption
  <2>5. (ToSet(walk))' = ToSet(walk')
    BY DEF ToSet
  <2> QED
    BY <1>2, <1>6, <2>1, <2>2, <2>3, <2>4, <2>5 DEF OnTheWay, disk, IsDir
<1>8. WalkOK'
  BY <1>2, <1>7 DEF WalkOK
<1>9. (careful \in BOOLEAN)'
  BY <1>2, Zenon
<1> QED
  BY <1>3, <1>4, <1>8, <1>9 DEF Inv

LEMMA InvWalkPop ==
  ASSUME Inv, WalkPop
  PROVE  Inv'
<1>1. /\ phase = "popping" /\ phase' = "walking" /\ walk' = Tail(walk)
      /\ UNCHANGED disk /\ UNCHANGED <<mem, cur, doomed, careful>>
  BY DEF WalkPop
<1>2. OnTheWay /\ walk # <<>>
  BY <1>1 DEF Inv, WalkOK
<1>3. DiskOK'
  BY <1>1, DiskSame DEF Inv
<1>4. CacheOK'
  BY <1>1 DEF Inv, CacheOK
<1>5. /\ walk' \in Seq(Nodes) /\ Len(walk') <= MaxWalk /\ ToSet(walk') \subseteq ToSet(walk)
  <2>1. walk \in Seq(Nodes) /\ Len(walk) \in Nat /\ Len(walk) >= 1 /\ Len(walk) <= MaxWalk
    BY <1>2 DEF OnTheWay
  <2>2. Tail(walk) = SubSeq(walk, 2, Len(walk))
    BY <2>1
  <2>3. 2 \in Nat /\ Len(walk) \in Int /\ 1 <= 2 /\ Len(walk) <= Len(walk)
    BY <2>1
  <2>4. /\ SubSeq(walk, 2, Len(walk)) \in Seq(Nodes)
        /\ Len(SubSeq(walk, 2, Len(walk))) = (IF 2 <= Len(walk) THEN Len(walk) - 2 + 1 ELSE 0)
        /\ ToSet(SubSeq(walk, 2, Len(walk))) \subseteq ToSet(walk)
    BY <2>1, <2>3, PieceIs
  <2>5. Len(walk') <= MaxWalk
    BY <1>1, <2>1, <2>2, <2>4, BoundAssumption
  <2> QED
    BY <1>1, <2>2, <2>4, <2>5
<1>6. OnTheWay'
  <2>1. Below(mem, doomed)' = Below(mem, doomed)
    BY <1>1, BelowNext DEF disk
  <2>2. \A n : IsDir(n)' <=> IsDir(n)
    BY <1>1 DEF IsDir, disk
  <2> QED
    BY <1>1, <1>2, <1>5, <2>1, <2>2 DEF OnTheWay
<1>7. WalkOK'
  BY <1>1, <1>6 DEF WalkOK
<1> QED
  BY <1>1, <1>3, <1>4, <1>7 DEF Inv

\* Below a cached node, not the root, are cached nodes, not the root.
LEMMA BelowCached ==
  ASSUME NEW m, Cache(m), NEW n \in Cached(m) \ {Root}
  PROVE  Below(m, n) \subseteq Cached(m) \ {Root}
<1> DEFINE X == Cached(m) \ {Root}
<1>1. Closed(m, X)
  BY CacheIs DEF Closed, Cached
<1> HIDE DEF X
<1>2. n \in X
  BY DEF X
<1> QED
  BY <1>1, <1>2, BelowLeast DEF X

LEMMA QueueIs ==
  ASSUME NEW m, Cache(m), NEW d \in Nodes
  PROVE  /\ Queue(m, d) \in Seq(Nodes) /\ Len(Queue(m, d)) \in Nat
         /\ \A n \in ToSet(Queue(m, d)) : n \in KidSet(m, d) /\ IsDir(n)
<1> DEFINE s == m[d].kids
           A == {n \in KidSet(m, d) : IsDir(n) /\ Size(m, n) >= 2}
           u == Only(s, A)
<1>1. s \in Seq(Nodes)
  BY CacheIs
<1>2. u \in Seq(Nodes) /\ ToSet(u) \subseteq ToSet(s) \cap A
  <2> HIDE DEF A, s
  <2> QED
    BY <1>1, OnlyIs
<1>3. Queue(m, d) = Reverse(u)
  BY DEF Queue
<1>4. \A n \in A : n \in KidSet(m, d) /\ IsDir(n)
  OBVIOUS
<1> HIDE DEF u, A
<1>5. Reverse(u) \in Seq(Nodes) /\ ToSet(Reverse(u)) \subseteq ToSet(u)
  BY <1>2, ReverseIs
<1> QED
  BY <1>2, <1>3, <1>4, <1>5

LEMMA InvWalkDown ==
  ASSUME Inv, WalkDown
  PROVE  Inv'
<1> DEFINE d == Head(walk)
           r == ParseFrom(mem, mem[d].parent, <<mem[d].name>>)
           longer == walk \o Queue(r.m, d)
<1>1. /\ phase = "walking" /\ walk # <<>>
      /\ phase' = (IF r.out = "astray" THEN "astray" ELSE "popping")
      /\ Len(longer) <= MaxWalk /\ walk' = longer /\ mem' = r.m
      /\ UNCHANGED disk /\ UNCHANGED <<cur, doomed, careful>>
  BY DEF WalkDown
<1>2. OnTheWay /\ Cache(mem) /\ Device
  BY <1>1 DEF Inv, WalkOK, CacheOK, DiskOK
<1>3. walk \in Seq(Nodes) /\ doomed \in Cached(mem) \ {Root} /\ doomed \in Nodes
  BY <1>2 DEF OnTheWay, Cached
<1>4. d \in ToSet(walk)
  <2>1. Len(walk) \in Nat /\ Len(walk) >= 1 /\ d = walk[1]
    BY <1>1, <1>3
  <2>2. 1 \in 1 .. Len(walk)
    BY <2>1
  <2> QED
    BY <1>3, <2>1, <2>2, InList
<1>5. IsDir(d) /\ d \in Below(mem, doomed)
  BY <1>2, <1>4 DEF OnTheWay
<1> DEFINE nms == <<mem[d].name>>
<1>6. Len(nms) \in Nat
  OBVIOUS
<1>7. r = ParseFrom(mem, mem[d].parent, nms)
  OBVIOUS
<1> HIDE DEF d, r, longer, nms
<1>8. d \in Cached(mem) \ {Root} /\ d \in Nodes
  BY <1>2, <1>3, <1>5, BelowCached DEF Cached
<1>9. mem[d].parent \in Cached(mem) \cup {Freed}
  BY <1>2, <1>8, ParentIs
<1>10. Found(mem, r)
  BY <1>2, <1>6, <1>7, <1>9, ParseFromIs
<1>11. DiskOK'
  BY <1>1, DiskSame DEF Inv
<1>12. CacheOK'
  BY <1>1, <1>10, FoundIs DEF Inv, CacheOK
<1>13. Cache(r.m) /\ Cached(mem) \subseteq Cached(r.m)
  BY <1>10, FoundIs
<1>14. /\ longer \in Seq(Nodes)
       /\ \A n \in ToSet(longer) : n \in ToSet(walk) \/ (n \in KidSet(r.m, d) /\ IsDir(n))
  <2> DEFINE q == Queue(r.m, d)
  <2>1. q \in Seq(Nodes) /\ \A n \in ToSet(q) : n \in KidSet(r.m, d) /\ IsDir(n)
    BY <1>8, <1>13, QueueIs
  <2>2. longer = walk \o q
    BY DEF longer
  <2> HIDE DEF q
  <2>3. longer \in Seq(Nodes) /\ ToSet(longer) = ToSet(walk) \cup ToSet(q)
    BY <1>3, <2>1, <2>2, ConcatIs
  <2>4. ASSUME NEW n \in ToSet(longer)
        PROVE  n \in ToSet(walk) \/ (n \in KidSet(r.m, d) /\ IsDir(n))
    <3>1. n \in ToSet(walk) \/ n \in ToSet(q)
      BY <2>3
    <3> QED
      BY <2>1, <3>1
  <2> QED
    BY <2>3, <2>4
<1>15. \A e \in Nodes : KidSet(mem, e) \subseteq KidSet(r.m, e) /\ KidSet(r.m, e) \subseteq Nodes
  BY <1>10, <1>13, CacheIs DEF Found, Grown
<1>16. Below(mem, doomed) \subseteq Below(r.m, doomed)
  BY <1>3, <1>15, BelowGrows
<1>17. Closed(r.m, Below(r.m, doomed))
  BY <1>3, <1>15, BelowClosed
<1>18. KidSet(r.m, d) \subseteq Below(r.m, doomed)
  BY <1>5, <1>16, <1>17 DEF Closed
<1>19. \A n \in ToSet(longer) : IsDir(n) /\ n \in Below(r.m, doomed)
  BY <1>2, <1>14, <1>16, <1>18 DEF OnTheWay
<1>20. walk' # <<>>
  <2>1. longer # <<>>
    <3>1. Len(walk) \in Nat /\ Len(walk) >= 1
      BY <1>1, <1>3
    <3> DEFINE q == Queue(r.m, d)
    <3>2. q \in Seq(Nodes)
      BY <1>8, <1>13, QueueIs
    <3>3. longer = walk \o q
      BY DEF longer
    <3> HIDE DEF q
    <3>4. Len(longer) = Len(walk) + Len(q) /\ Len(q) \in Nat
      BY <1>3, <3>2, <3>3, ConcatIs
    <3> QED
      BY <3>1, <3>4
  <2> QED
    BY <1>1, <2>1
<1>21. OnTheWay'
  <2>1. Below(mem, doomed)' = Below(r.m, doomed)
    BY <1>1, BelowNext DEF disk
  <2>2. \A n : IsDir(n)' <=> IsDir(n)
    BY <1>1 DEF IsDir, disk
  <2>3. doomed \in Cached(r.m) \ {Root} /\ IsDir(doomed)
    BY <1>2, <1>3, <1>13 DEF OnTheWay
  <2>4. (ToSet(walk))' = ToSet(longer)
    BY <1>1
  <2> QED
    BY <1>1, <1>14, <1>19, <2>1, <2>2, <2>3, <2>4 DEF OnTheWay
<1>22. WalkOK'
  BY <1>1, <1>20, <1>21 DEF WalkOK
<1> QED
  BY <1>1, <1>11, <1>12, <1>22 DEF Inv

----------------------------------------------------------------------------
(* mkdir and touch.                                                        *)

\* A cached node listing one more node.
LEMMA EmptyIs == Empty \in Listing /\ Len(Empty.kids) = 0
<1>1. <<>> \in Seq(Entry) /\ Len(<<>>) = 0
  OBVIOUS
<1> QED
  BY <1>1 DEF Empty, Listing

\* A new node n in the directory d.
LEMMA MadeIs ==
  ASSUME NEW m, Cache(m), NEW d \in Cached(m), NEW n \in Nodes \ {Root}, NEW x \in Rec,
         x.parent = d, x.kids = <<>>, Len(m[d].kids) < MaxKids, NEW w,
         w = [m EXCEPT ![d].kids = Append(@, n), ![n] = x]
  PROVE  Cache(w) /\ Cached(m) \subseteq Cached(w)
<1> DEFINE s == m[d].kids
           y == [m[d] EXCEPT !.kids = Append(s, n)]
           l == [m EXCEPT ![d] = y]
<1>1. d \in Nodes /\ m \in [Nodes -> Rec] /\ s \in Seq(Nodes) /\ Len(s) \in Nat
        /\ m[d] \in Rec
  BY CacheIs DEF Cached, Cache
<1>2. w = [l EXCEPT ![n] = x]
  OBVIOUS
<1>e. Len(<<>>) = 0 /\ ToSet(<<>>) = {}
  BY DEF ToSet
<1>5. Append(s, n) \in Seq(Nodes) /\ Len(Append(s, n)) = Len(s) + 1
        /\ ToSet(Append(s, n)) = ToSet(s) \cup {n}
  <2> HIDE DEF s
  <2> QED
    BY <1>1, AppendIs
<1>6. y \in Rec /\ y.kids = Append(s, n) /\ y.parent = m[d].parent
  BY <1>1, <1>5, SetKids
<1>7. l \in [Nodes -> Rec] /\ l[d] = y /\ \A e \in Nodes \ {d} : l[e] = m[e]
  <2> HIDE DEF y
  <2> QED
    BY <1>1, <1>6
<1> HIDE DEF y, l
<1>8. w \in [Nodes -> Rec] /\ w[n] = x /\ \A e \in Nodes \ {n} : w[e] = l[e]
  BY <1>2, <1>7
<1>9. Cached(w) = Cached(m) \cup {n}
  <2> SUFFICES ASSUME NEW e \in Nodes PROVE e \in Cached(w) <=> e \in Cached(m) \cup {n}
    BY DEF Cached
  <2>1. l[e].parent = m[e].parent
    BY <1>6, <1>7
  <2>2. CASE e = n
    BY <1>1, <1>8, <2>2, NodesAssumption DEF Cached
  <2>3. CASE e # n
    BY <1>8, <2>1, <2>3 DEF Cached
  <2> QED
    BY <2>2, <2>3
<1>10. ASSUME NEW e \in Nodes PROVE Tied(w[e], e, Cached(w))
  <2>1. Tied(m[e], e, Cached(m))
    BY DEF Cache
  <2>2. CASE e = n
    <3>1. w[e].kids = <<>> /\ w[e].parent = d /\ d \in Cached(w)
      BY <1>8, <1>9, <2>2
    <3>2. Len(<<>>) <= MaxKids
      BY <1>e, BoundAssumption
    <3> QED
      BY <1>e, <3>1, <3>2 DEF Tied
  <2>3. CASE e # n /\ e = d
    <3>1. w[e] = y
      BY <1>7, <1>8, <2>3
    <3>2. Len(y.kids) <= MaxKids
      BY <1>1, <1>5, <1>6, BoundAssumption DEF s
    <3> QED
      BY <1>5, <1>6, <1>9, <2>1, <2>3, <3>1, <3>2 DEF Tied, s
  <2>4. CASE e # n /\ e # d
    <3>1. w[e] = m[e]
      BY <1>7, <1>8, <2>4
    <3> QED
      BY <1>9, <2>1, <2>4, <3>1 DEF Tied
  <2> QED
    BY <2>2, <2>3, <2>4
<1> QED
  BY <1>8, <1>9, <1>10 DEF Cache

LEMMA InvMake ==
  ASSUME Inv, NEW p \in Paths, NEW k \in {"file", "dir"}, NEW n \in Nodes, Make(p, k, n)
  PROVE  Inv'
<1> DEFINE r == ParentOf(mem, p)
           d == r.at
           nm == LastName(p)
           x == [name |-> nm, parent |-> d, kids |-> <<>>, dots |-> (k = "dir")]
<1>1. Found(mem, r)
  BY ParseIs DEF Inv, DiskOK, CacheOK
<1>2. /\ phase = "up" /\ n \in Free /\ Len(r.m[d].kids) < MaxKids
      /\ mem' = [r.m EXCEPT ![d].kids = Append(@, n), ![n] = x]
      /\ careful' = (careful /\ IsDir(d) /\ nm # Nameless)
      /\ kind' = [kind EXCEPT ![n] = k]
      /\ filled' = filled \cup {n}
      /\ dev' = [dev EXCEPT ![n] = Empty]
      /\ UNCHANGED <<phase, rootBlocks, cur, walk, doomed>>
  BY DEF Make, Idle
<1>3. n # Root /\ kind[n] = "free"
  BY <1>2 DEF Free, Inv, DiskOK, Kinds
<1>4. nm \in Words
  BY NamesIs
<1> HIDE DEF r, nm
<1>5. Cache(r.m) /\ d \in Cached(r.m) /\ d \in Nodes /\ Cached(mem) \subseteq Cached(r.m)
  BY <1>1, FoundIs
<1>6. x \in Rec /\ x.parent = d /\ x.kids = <<>>
  BY <1>4, <1>5 DEF Rec
<1> HIDE DEF x, d
<1>7. Cache(mem') /\ Cached(r.m) \subseteq Cached(mem')
  <2>1. n \in Nodes \ {Root}
    BY <1>3
  <2> QED
    BY <1>2, <1>5, <1>6, <2>1, MadeIs
<1>8. CacheOK'
  BY <1>2, <1>5, <1>7 DEF Inv, CacheOK
<1>9. DiskOK'
  <2>1. Kinds'
    BY <1>2, <1>3 DEF Inv, DiskOK, Kinds
  <2>2. Device'
    <3>1. dev' \in [Nodes -> Listing]
      BY <1>2, EmptyIs DEF Inv, DiskOK, Device
    <3>2. ASSUME NEW e \in Nodes PROVE Len(dev'[e].kids) <= MaxKids
      <4>1. CASE e = n
        BY <1>2, <4>1, EmptyIs, BoundAssumption DEF Inv, DiskOK, Device
      <4>2. CASE e # n
        BY <1>2, <4>2 DEF Inv, DiskOK, Device
      <4> QED
        BY <4>1, <4>2
    <3> QED
      BY <3>1, <3>2 DEF Device
  <2>3. (filled \subseteq {e \in Nodes : kind[e] # "free"} \ {Root})'
    BY <1>2, <1>3 DEF Inv, DiskOK, Kinds
  <2> QED
    BY <1>2, <2>1, <2>2, <2>3 DEF Inv, DiskOK
<1>10. WalkOK'
  BY <1>2 DEF Inv, WalkOK, Quiet
<1>11. (careful \in BOOLEAN)'
  BY <1>2, Zenon
<1> QED
  BY <1>8, <1>9, <1>10, <1>11 DEF Inv

----------------------------------------------------------------------------
(* rm and rmdir: deleting nodes.                                           *)

\* w is the cache without the nodes S.
Cut(m, w, S) == Cache(w) /\ Cached(w) = Cached(m) \ S

LEMMA WithoutIs ==
  ASSUME NEW m, Cache(m), NEW S \in SUBSET (Nodes \ {Root}), NEW h \in Cached(m),
         NEW list \in Seq(Nodes), Len(list) <= Len(m[h].kids), ToSet(list) \subseteq KidSet(m, h),
         ~Dangling(Without(m, S, h, list), S)
  PROVE  Cut(m, Without(m, S, h, list), S)
<1> DEFINE w == Without(m, S, h, list)
<1>1. ASSUME NEW n \in S PROVE w[n] = Blank
  BY <1>1 DEF Without
<1> DEFINE K(n) == IF n = h THEN list ELSE m[n].kids
           P(n) == IF m[n].parent \in S THEN Freed ELSE m[n].parent
<1>2. ASSUME NEW n \in Nodes \ S
      PROVE  w[n] \in Rec /\ w[n].kids = K(n) /\ w[n].parent = P(n)
  <2>1. m[n] \in Rec /\ K(n) \in Seq(Nodes) /\ P(n) \in Nodes \cup {NoNode, Freed}
    BY CacheIs, RecIs
  <2>2. w[n] = [m[n] EXCEPT !.kids = K(n), !.parent = P(n)]
    BY DEF Without
  <2> DEFINE y == [m[n] EXCEPT !.kids = K(n)]
  <2>3. w[n] = [y EXCEPT !.parent = P(n)]
    BY <2>2
  <2> HIDE DEF K, P
  <2>4. y \in Rec /\ y.kids = K(n) /\ y.parent = m[n].parent
    BY <2>1, SetKids
  <2> HIDE DEF y
  <2> QED
    BY <2>1, <2>3, <2>4, SetParent
<1>3. w \in [Nodes -> Rec]
  <2>1. w = [n \in Nodes |-> w[n]]
    BY DEF Without
  <2>2. \A n \in Nodes : w[n] \in Rec
    BY <1>1, <1>2, BlankIs
  <2> QED
    BY <2>1, <2>2
<1>d. \A n \in Nodes \ S : KidSet(w, n) \cap S = {}
  BY DEF Dangling
<1>4. Cached(w) = Cached(m) \ S
  <2> SUFFICES ASSUME NEW n \in Nodes PROVE n \in Cached(w) <=> n \in Cached(m) \ S
    BY DEF Cached
  <2>1. CASE n \in S
    BY <1>1, <2>1, BlankIs DEF Cached
  <2>2. CASE n \notin S
    <3>1. w[n].parent = P(n)
      BY <1>2, <2>2
    <3>2. P(n) = NoNode <=> m[n].parent = NoNode
      BY NodesAssumption
    <3> QED
      BY <2>2, <3>1, <3>2 DEF Cached
  <2> QED
    BY <2>1, <2>2
<1>5. ASSUME NEW n \in Nodes PROVE Tied(w[n], n, Cached(w))
  <2>1. CASE n \in S
    <3>1. w[n] = Blank
      BY <1>1, <2>1
    <3> QED
      BY <3>1, BlankIs, BoundAssumption DEF Tied
  <2>2. CASE n \notin S
    <3>1. Tied(m[n], n, Cached(m)) /\ Tied(m[h], h, Cached(m)) /\ h \in Nodes
      BY DEF Cache, Cached
    <3>2. w[n].kids = K(n) /\ w[n].parent = P(n)
      BY <1>2, <2>2
    <3>3. Len(K(n)) <= MaxKids /\ ToSet(K(n)) \subseteq Cached(m) \ {Root}
      <4>1. CASE n = h
        <5>1. Len(list) \in Nat /\ Len(m[h].kids) \in Nat /\ Len(m[h].kids) <= MaxKids
          BY <3>1, CacheIs
        <5>2. ToSet(list) \subseteq Cached(m) \ {Root}
          BY <3>1 DEF Tied, KidSet
        <5> QED
          BY <4>1, <5>1, <5>2, BoundAssumption
      <4>2. CASE n # h
        BY <3>1, <4>2 DEF Tied
      <4> QED
        BY <4>1, <4>2
    <3>4. ToSet(w[n].kids) \cap S = {}
      BY <1>d, <2>2 DEF KidSet
    <3>5. P(n) \in (Cached(m) \ S) \cup {NoNode, Freed}
      BY <3>1 DEF Tied
    <3>6. n \notin Cached(m) => K(n) = <<>>
      BY <3>1 DEF Tied
    <3> HIDE DEF K, P
    <3> QED
      BY <1>4, <2>2, <3>2, <3>3, <3>4, <3>5, <3>6 DEF Tied
  <2> QED
    BY <2>1, <2>2
<1> QED
  BY <1>3, <1>4, <1>5 DEF Cache, Cut

LEMMA DeleteIs ==
  ASSUME DiskOK, CacheOK, NEW m, Cache(m), Cached(mem) \subseteq Cached(m),
         NEW S \in SUBSET (Nodes \ {Root}), NEW freed \in SUBSET S,
         NEW h \in Cached(m) \cup {Freed}, NEW list,
         h # Freed => /\ list \in Seq(Nodes) /\ Len(list) <= Len(m[h].kids)
                      /\ ToSet(list) \subseteq KidSet(m, h),
         Delete(m, S, h, list, freed)
  PROVE  DiskOK' /\ CacheOK' /\ phase' \in {"up", "astray"}
<1> DEFINE w == Without(m, S, h, list)
<1>1. CASE h = Freed \/ Dangling(w, S)
  <2>1. phase' = "astray" /\ UNCHANGED disk /\ UNCHANGED <<mem, cur>>
    BY <1>1 DEF Delete
  <2> QED
    BY <2>1, DiskSame DEF CacheOK
<1>2. CASE ~(h = Freed \/ Dangling(w, S))
  <2>1. /\ phase' = "up" /\ mem' = w
        /\ kind' = [n \in Nodes |-> IF n \in freed THEN "free" ELSE kind[n]]
        /\ filled' = filled \ freed
        /\ dev' = [n \in Nodes |-> IF n \in freed THEN Empty ELSE dev[n]]
        /\ cur' = IF cur \in S THEN Freed ELSE cur
        /\ UNCHANGED rootBlocks
    BY <1>2 DEF Delete
  <2>2. Cache(w) /\ Cached(w) = Cached(m) \ S
    <3>1. h \in Cached(m) /\ list \in Seq(Nodes) /\ Len(list) <= Len(m[h].kids)
            /\ ToSet(list) \subseteq KidSet(m, h) /\ ~Dangling(w, S)
      BY <1>2
    <3>2. S \in SUBSET (Nodes \ {Root}) /\ Cache(m)
      OBVIOUS
    <3>3. Cut(m, w, S)
      BY <3>1, <3>2, WithoutIs
    <3> QED
      BY <3>3 DEF Cut
  <2> HIDE DEF w
  <2>3. CacheOK'
    BY <2>1, <2>2 DEF CacheOK
  <2>4. Kinds'
    <3>1. kind' \in [Nodes -> {"free", "file", "dir"}]
      BY <2>1 DEF DiskOK, Kinds
    <3>2. kind'[Root] = "dir"
      BY <2>1, NodesAssumption DEF DiskOK, Kinds
    <3> QED
      BY <3>1, <3>2 DEF Kinds
  <2>5. Device'
    <3>1. dev' \in [Nodes -> Listing]
      BY <2>1, EmptyIs DEF DiskOK, Device
    <3>2. ASSUME NEW e \in Nodes PROVE Len(dev'[e].kids) <= MaxKids
      <4>1. CASE e \in freed
        BY <2>1, <4>1, EmptyIs, BoundAssumption DEF DiskOK, Device
      <4>2. CASE e \notin freed
        BY <2>1, <4>2 DEF DiskOK, Device
      <4> QED
        BY <4>1, <4>2
    <3> QED
      BY <3>1, <3>2 DEF Device
  <2>6. (filled \subseteq {e \in Nodes : kind[e] # "free"} \ {Root})'
    BY <2>1 DEF DiskOK, Kinds
  <2>7. (rootBlocks \in Nat)'
    BY <2>1 DEF DiskOK
  <2> QED
    BY <2>1, <2>3, <2>4, <2>5, <2>6, <2>7 DEF DiskOK
<1> QED
  BY <1>1, <1>2

\* A list without a node, for Delete.
LEMMA DroppedIs ==
  ASSUME NEW m, Cache(m), NEW h \in Cached(m), NEW n
  PROVE  /\ Dropped(m[h].kids, n) \in Seq(Nodes)
         /\ Len(Dropped(m[h].kids, n)) <= Len(m[h].kids)
         /\ ToSet(Dropped(m[h].kids, n)) \subseteq KidSet(m, h)
<1> DEFINE s == m[h].kids
<1>1. s \in Seq(Nodes)
  BY CacheIs DEF Cached
<1> HIDE DEF s
<1>2. /\ Only(s, ToSet(s) \ {n}) \in Seq(Nodes)
      /\ Len(Only(s, ToSet(s) \ {n})) <= Len(s)
      /\ ToSet(Only(s, ToSet(s) \ {n})) \subseteq ToSet(s) \cap (ToSet(s) \ {n})
  BY <1>1, OnlyIs
<1> QED
  BY <1>2 DEF Dropped, KidSet, s

LEMMA InvRmFile ==
  ASSUME Inv, NEW p \in Paths, RmFile(p)
  PROVE  Inv'
<1> DEFINE r == Parse(mem, p)
           h == r.m[r.at].parent
           list == Dropped(r.m[h].kids, r.at)
<1>1. Found(mem, r)
  BY ParseIs DEF Inv, DiskOK, CacheOK
<1>2. /\ phase = "up" /\ ~IsDir(r.at) /\ Delete(r.m, {r.at}, h, list, {r.at})
      /\ UNCHANGED <<careful, walk, doomed>>
  BY DEF RmFile, Idle
<1> HIDE DEF r
<1>3. Cache(r.m) /\ r.at \in Cached(r.m) /\ r.at \in Nodes /\ Cached(mem) \subseteq Cached(r.m)
  BY <1>1, FoundIs
<1>4. r.at # Root
  BY <1>2 DEF Inv, DiskOK, Kinds, IsDir
<1>5. h \in Cached(r.m) \cup {Freed}
  BY <1>3, <1>4, ParentIs
<1> HIDE DEF h
<1>6. h # Freed => /\ list \in Seq(Nodes) /\ Len(list) <= Len(r.m[h].kids)
                   /\ ToSet(list) \subseteq KidSet(r.m, h)
  BY <1>3, <1>5, DroppedIs
<1> HIDE DEF list
<1>7. {r.at} \in SUBSET (Nodes \ {Root}) /\ {r.at} \in SUBSET {r.at}
  BY <1>3, <1>4
<1>8. DiskOK' /\ CacheOK' /\ phase' \in {"up", "astray"}
  BY <1>2, <1>3, <1>5, <1>6, <1>7, DeleteIs DEF Inv
<1>9. WalkOK'
  BY <1>2, <1>8 DEF Inv, WalkOK, Quiet
<1> QED
  BY <1>2, <1>8, <1>9 DEF Inv

LEMMA InvRmdir ==
  ASSUME Inv, NEW p \in Paths, Rmdir(p)
  PROVE  Inv'
<1> DEFINE r == Parse(mem, p)
           d == r.at
           h == r.m[d].parent
           list == IF h = Freed THEN <<>> ELSE Dropped(r.m[h].kids, d)
           S == {d} \cup KidSet(r.m, d)
<1>1. Found(mem, r)
  BY ParseIs DEF Inv, DiskOK, CacheOK
<1>2. /\ phase = "up" /\ d \in filled /\ Delete(r.m, S, h, list, {d})
      /\ careful' = (careful /\ cur # d) /\ UNCHANGED <<walk, doomed>>
  BY DEF Rmdir, Idle
<1> HIDE DEF r
<1>3. Cache(r.m) /\ d \in Cached(r.m) /\ d \in Nodes /\ Cached(mem) \subseteq Cached(r.m)
  BY <1>1, FoundIs
<1> HIDE DEF d
<1>4. d # Root
  BY <1>2 DEF Inv, DiskOK
<1>5. h \in Cached(r.m) \cup {Freed}
  BY <1>3, <1>4, ParentIs
<1> HIDE DEF h
<1>6. h # Freed => /\ list \in Seq(Nodes) /\ Len(list) <= Len(r.m[h].kids)
                   /\ ToSet(list) \subseteq KidSet(r.m, h)
  <2> SUFFICES ASSUME h # Freed
               PROVE  /\ list \in Seq(Nodes) /\ Len(list) <= Len(r.m[h].kids)
                      /\ ToSet(list) \subseteq KidSet(r.m, h)
    OBVIOUS
  <2>1. list = Dropped(r.m[h].kids, d) /\ h \in Cached(r.m)
    BY <1>5
  <2> QED
    BY <1>3, <2>1, DroppedIs
<1>7. S \in SUBSET (Nodes \ {Root}) /\ {d} \in SUBSET S
  BY <1>3, <1>4, CacheIs
<1> HIDE DEF list, S
<1>8. DiskOK' /\ CacheOK' /\ phase' \in {"up", "astray"}
  BY <1>2, <1>3, <1>5, <1>6, <1>7, DeleteIs DEF Inv
<1>9. WalkOK'
  BY <1>2, <1>8 DEF Inv, WalkOK, Quiet
<1>10. (careful \in BOOLEAN)'
  BY <1>2, Zenon
<1> QED
  BY <1>8, <1>9, <1>10 DEF Inv

LEMMA InvWalkDone ==
  ASSUME Inv, WalkDone
  PROVE  Inv'
<1> DEFINE S == Below(mem, doomed)
           h == mem[doomed].parent
           list == RemoveFirst(mem[h].kids, doomed)
<1>1. /\ phase = "walking" /\ walk = <<>> /\ doomed' = NoNode /\ UNCHANGED <<walk, careful>>
      /\ IF IsTree(mem, doomed) /\ h # Freed
         THEN Delete(mem, S, h, list, S)
         ELSE phase' = "astray" /\ UNCHANGED <<disk, mem, cur>>
  BY DEF WalkDone
<1>2. OnTheWay /\ Cache(mem)
  BY <1>1 DEF Inv, WalkOK, CacheOK
<1>3. doomed \in Cached(mem) \ {Root} /\ doomed \in Nodes
  BY <1>2 DEF OnTheWay, Cached
<1>4. S \in SUBSET (Nodes \ {Root}) /\ S \in SUBSET S
  BY <1>2, <1>3, BelowCached DEF Cached
<1>5. h \in Cached(mem) \cup {Freed}
  BY <1>2, <1>3, ParentIs
<1> HIDE DEF h, S
<1>6. h # Freed => /\ list \in Seq(Nodes) /\ Len(list) <= Len(mem[h].kids)
                   /\ ToSet(list) \subseteq KidSet(mem, h)
  <2> SUFFICES ASSUME h # Freed
               PROVE  /\ list \in Seq(Nodes) /\ Len(list) <= Len(mem[h].kids)
                      /\ ToSet(list) \subseteq KidSet(mem, h)
    OBVIOUS
  <2>1. mem[h].kids \in Seq(Nodes)
    BY <1>2, <1>5, CacheIs DEF Cached
  <2> QED
    BY <2>1, RemoveFirstIs DEF KidSet
<1> HIDE DEF list
<1>7. DiskOK' /\ CacheOK' /\ phase' \in {"up", "astray"}
  <2>1. CASE IsTree(mem, doomed) /\ h # Freed
    <3>1. Delete(mem, S, h, list, S) /\ Cached(mem) \subseteq Cached(mem)
      BY <1>1, <2>1
    <3> QED
      BY <1>2, <1>4, <1>5, <1>6, <3>1, DeleteIs DEF Inv
  <2>2. CASE ~(IsTree(mem, doomed) /\ h # Freed)
    <3>1. phase' = "astray" /\ UNCHANGED disk /\ UNCHANGED <<mem, cur>>
      BY <1>1, <2>2
    <3> QED
      BY <3>1, DiskSame DEF Inv, CacheOK
  <2> QED
    BY <2>1, <2>2
<1>8. WalkOK'
  BY <1>1, <1>7 DEF WalkOK, Quiet
<1> QED
  BY <1>1, <1>7, <1>8 DEF Inv

----------------------------------------------------------------------------
(* mv.                                                                     *)

\* w has the nodes of m in the cache.
SameNodes(m, w) == Cache(w) /\ Cached(w) = Cached(m)

\* Another record for a cached node.
LEMMA PutIs ==
  ASSUME NEW m, Cache(m), NEW n \in Cached(m), NEW x \in Rec, n = Root \/ x.parent # NoNode,
         Tied(x, n, Cached(m))
  PROVE  SameNodes(m, [m EXCEPT ![n] = x])
<1> DEFINE w == [m EXCEPT ![n] = x]
<1>1. n \in Nodes /\ m \in [Nodes -> Rec]
  BY DEF Cached, Cache
<1>2. w \in [Nodes -> Rec] /\ w[n] = x /\ \A e \in Nodes \ {n} : w[e] = m[e]
  BY <1>1
<1> HIDE DEF w
<1>3. Cached(w) = Cached(m)
  <2> SUFFICES ASSUME NEW e \in Nodes PROVE e \in Cached(w) <=> e \in Cached(m)
    BY DEF Cached
  <2>1. CASE e = n
    BY <1>2, <2>1 DEF Cached
  <2>2. CASE e # n
    BY <1>2, <2>2 DEF Cached
  <2> QED
    BY <2>1, <2>2
<1>4. ASSUME NEW e \in Nodes PROVE Tied(w[e], e, Cached(w))
  <2>1. CASE e = n
    BY <1>2, <1>3, <2>1
  <2>2. CASE e # n
    BY <1>2, <1>3, <2>2 DEF Cache
  <2> QED
    BY <2>1, <2>2
<1>5. SameNodes(m, w)
  BY <1>2, <1>3, <1>4 DEF Cache, SameNodes
<1> QED
  BY <1>5 DEF w

\* Another list for a cached node.
LEMMA RelistedIs ==
  ASSUME NEW m, Cache(m), NEW n \in Cached(m), NEW list \in Seq(Nodes), Len(list) <= MaxKids,
         ToSet(list) \subseteq Cached(m) \ {Root}
  PROVE  SameNodes(m, [m EXCEPT ![n].kids = list])
<1> DEFINE x == [m[n] EXCEPT !.kids = list]
<1>1. n \in Nodes /\ m[n] \in Rec /\ Tied(m[n], n, Cached(m))
  BY DEF Cached, Cache
<1>2. x \in Rec /\ x.kids = list /\ x.parent = m[n].parent
  BY <1>1, SetKids
<1>3. [m EXCEPT ![n].kids = list] = [m EXCEPT ![n] = x]
  OBVIOUS
<1> HIDE DEF x
<1>4. Tied(x, n, Cached(m))
  BY <1>1, <1>2 DEF Tied
<1>5. n = Root \/ x.parent # NoNode
  BY <1>2 DEF Cached
<1>6. SameNodes(m, [m EXCEPT ![n] = x])
  BY <1>2, <1>4, <1>5, PutIs
<1> QED
  BY <1>3, <1>6

\* Another parent.
LEMMA ReparentedIs ==
  ASSUME NEW m, Cache(m), NEW n \in Cached(m), NEW p \in Cached(m)
  PROVE  SameNodes(m, [m EXCEPT ![n].parent = p])
<1> DEFINE x == [m[n] EXCEPT !.parent = p]
<1>1. n \in Nodes /\ m[n] \in Rec /\ Tied(m[n], n, Cached(m)) /\ p \in Nodes
  BY DEF Cached, Cache
<1>2. x \in Rec /\ x.kids = m[n].kids /\ x.parent = p
  BY <1>1, SetParent
<1>3. [m EXCEPT ![n].parent = p] = [m EXCEPT ![n] = x]
  OBVIOUS
<1> HIDE DEF x
<1>4. Tied(x, n, Cached(m))
  BY <1>1, <1>2 DEF Tied
<1>5. x.parent # NoNode
  BY <1>1, <1>2, NodesAssumption
<1>6. SameNodes(m, [m EXCEPT ![n] = x])
  BY <1>2, <1>4, <1>5, PutIs
<1> QED
  BY <1>3, <1>6

\* Another name.
LEMMA RenamedIs ==
  ASSUME NEW m, Cache(m), NEW n \in Cached(m), NEW d, NEW nm \in Words
  PROVE  SameNodes(m, Renamed(m, n, d, nm))
<1> DEFINE x == [m[n] EXCEPT !.name = nm]
           w == [m EXCEPT ![n].name = nm]
<1>1. n \in Nodes /\ m[n] \in Rec /\ Tied(m[n], n, Cached(m))
  BY DEF Cached, Cache
<1>2. x \in Rec /\ x.kids = m[n].kids /\ x.parent = m[n].parent
  BY <1>1, SetName
<1>3. w = [m EXCEPT ![n] = x]
  OBVIOUS
<1> HIDE DEF x
<1>4. Tied(x, n, Cached(m))
  BY <1>1, <1>2 DEF Tied
<1>5. n = Root \/ x.parent # NoNode
  BY <1>2 DEF Cached
<1>6. SameNodes(m, [m EXCEPT ![n] = x])
  BY <1>2, <1>4, <1>5, PutIs
<1>7. SameNodes(m, w) /\ SameNodes(m, m)
  BY <1>3, <1>6 DEF SameNodes
<1>8. Renamed(m, n, d, nm) = m \/ Renamed(m, n, d, nm) = w
  BY DEF Renamed
<1> QED
  BY <1>7, <1>8

LEMMA HangIs ==
  ASSUME NEW m, Cache(m), NEW s \in Cached(m) \ {Root}, NEW from \in Cached(m),
         NEW to \in Cached(m), Len(m[to].kids) < MaxKids
  PROVE  SameNodes(m, Hang(m, s, from, to))
<1> DEFINE less == Dropped(m[from].kids, s)
           taken == [m EXCEPT ![from].kids = less]
           more == Append(taken[to].kids, s)
           given == [taken EXCEPT ![to].kids = more]
           w == [given EXCEPT ![s].parent = to]
<1>1. Hang(m, s, from, to) = w
  BY DEF Hang
<1>2. /\ from \in Nodes /\ to \in Nodes /\ s \in Nodes /\ m \in [Nodes -> Rec]
      /\ m[from] \in Rec /\ Len(m[from].kids) \in Nat /\ Len(m[from].kids) <= MaxKids
      /\ KidSet(m, from) \subseteq Cached(m) \ {Root}
      /\ Len(m[to].kids) \in Nat
  BY CacheIs DEF Cached, Cache
<1>3. /\ less \in Seq(Nodes) /\ Len(less) <= Len(m[from].kids)
      /\ ToSet(less) \subseteq KidSet(m, from)
  BY DroppedIs
<1> HIDE DEF less
<1>4. Len(less) \in Nat /\ Len(less) <= MaxKids /\ ToSet(less) \subseteq Cached(m) \ {Root}
  BY <1>2, <1>3, BoundAssumption
<1>5. SameNodes(m, taken)
  BY <1>3, <1>4, RelistedIs
<1>6. Len(taken[to].kids) < MaxKids
  <2>1. CASE to = from
    <3>1. taken[to].kids = less
      <4>1. taken[to] = [m[from] EXCEPT !.kids = less]
        BY <1>2, <2>1
      <4> HIDE DEF taken
      <4> QED
        BY <1>2, <1>3, <4>1, SetKids
    <3> HIDE DEF taken
    <3> QED
      BY <1>2, <1>3, <1>4, <2>1, <3>1, BoundAssumption
  <2>2. CASE to # from
    BY <1>2, <2>2
  <2> QED
    BY <2>1, <2>2
<1> HIDE DEF taken
<1>7. Cache(taken) /\ Cached(taken) = Cached(m)
  BY <1>5 DEF SameNodes
<1>8. /\ taken[to].kids \in Seq(Nodes) /\ Len(taken[to].kids) \in Nat
      /\ ToSet(taken[to].kids) \subseteq Cached(m) \ {Root}
  BY <1>2, <1>7, CacheIs DEF KidSet
<1> DEFINE old == taken[to].kids
<1>9. /\ more \in Seq(Nodes) /\ Len(more) = Len(old) + 1 /\ ToSet(more) = ToSet(old) \cup {s}
  <2> HIDE DEF old
  <2>1. more = Append(old, s)
    BY DEF old
  <2>2. old \in Seq(Nodes)
    BY <1>8 DEF old
  <2> HIDE DEF more
  <2> QED
    BY <1>2, <2>1, <2>2, AppendIs
<1> HIDE DEF more
<1>10. Len(more) <= MaxKids /\ ToSet(more) \subseteq Cached(taken) \ {Root}
  BY <1>6, <1>7, <1>8, <1>9, BoundAssumption
<1>11. SameNodes(taken, given)
  BY <1>7, <1>9, <1>10, RelistedIs
<1> HIDE DEF given
<1>12. Cache(given) /\ Cached(given) = Cached(m)
  BY <1>7, <1>11 DEF SameNodes
<1>13. SameNodes(given, w)
  BY <1>12, ReparentedIs
<1> HIDE DEF w
<1> QED
  BY <1>1, <1>12, <1>13 DEF SameNodes

LEMMA InvMv ==
  ASSUME Inv, NEW p \in Paths, NEW q \in Paths, Mv(p, q)
  PROVE  Inv'
<1> DEFINE s == Parse(mem, p)
           h == Parse(s.m, DirPart(p))
           d == Parse(h.m, q)
           moved == IF d.at = h.at THEN d.m ELSE Hang(d.m, s.at, h.at, d.at)
           nm == LastName(q)
           w == Renamed(moved, s.at, d.at, nm)
<1>1. /\ phase = "up" /\ (d.at = h.at \/ Len(d.m[d.at].kids) < MaxKids)
      /\ IF s.at = Root /\ d.at # h.at
         THEN phase' = "astray" /\ mem' = d.m
         ELSE phase' = "up" /\ mem' = w
      /\ careful' = (careful /\ d.m[s.at].parent = h.at
                       /\ (d.at # h.at => /\ IsDir(d.at)
                                          /\ d.at \notin Below(d.m, s.at)
                                          /\ ~Has(d.m, d.at, d.m[s.at].name)))
      /\ UNCHANGED disk /\ UNCHANGED <<cur, walk, doomed>>
  BY DEF Mv, Idle
<1>2. Device /\ Cache(mem) /\ cur \in Cached(mem) \cup {Freed}
  BY DEF Inv, DiskOK, CacheOK
<1>3. nm \in Words
  BY NamesIs
<1>4. Found(mem, s)
  BY <1>2, ParseIs
<1> HIDE DEF s, nm
<1>5. Cache(s.m) /\ s.at \in Cached(s.m) /\ Cached(mem) \subseteq Cached(s.m)
  BY <1>4, FoundIs
<1>6. Found(s.m, h)
  BY <1>2, <1>5, ParseIs
<1> HIDE DEF h
<1>7. Cache(h.m) /\ h.at \in Cached(h.m) /\ Cached(s.m) \subseteq Cached(h.m)
  BY <1>6, FoundIs
<1>8. Found(h.m, d)
  BY <1>2, <1>5, <1>7, ParseIs
<1> HIDE DEF d
<1>9. Cache(d.m) /\ d.at \in Cached(d.m) /\ Cached(h.m) \subseteq Cached(d.m)
  BY <1>8, FoundIs
<1>10. /\ s.at \in Cached(d.m) /\ h.at \in Cached(d.m) /\ cur \in Cached(d.m) \cup {Freed}
  BY <1>2, <1>5, <1>7, <1>9
<1>11. Cache(mem') /\ Cached(mem') = Cached(d.m)
  <2>1. CASE s.at = Root /\ d.at # h.at
    BY <1>1, <1>9, <2>1
  <2>2. CASE ~(s.at = Root /\ d.at # h.at)
    <3>1. SameNodes(d.m, moved)
      <4>1. CASE d.at = h.at
        BY <1>9, <4>1 DEF SameNodes
      <4>2. CASE d.at # h.at
        <5>1. s.at \in Cached(d.m) \ {Root} /\ Len(d.m[d.at].kids) < MaxKids
          BY <1>1, <1>10, <2>2, <4>2
        <5>2. SameNodes(d.m, Hang(d.m, s.at, h.at, d.at))
          BY <1>9, <1>10, <5>1, HangIs
        <5> QED
          BY <4>2, <5>2
      <4> QED
        BY <4>1, <4>2
    <3> HIDE DEF moved
    <3>2. Cache(moved) /\ Cached(moved) = Cached(d.m)
      BY <3>1 DEF SameNodes
    <3>3. SameNodes(moved, w)
      BY <1>3, <1>10, <3>2, RenamedIs
    <3>4. mem' = w
      BY <1>1, <2>2
    <3> HIDE DEF w
    <3> QED
      BY <3>2, <3>3, <3>4 DEF SameNodes
  <2> QED
    BY <2>1, <2>2
<1>12. phase' \in {"up", "astray"}
  BY <1>1
<1>13. (careful \in BOOLEAN)'
  BY <1>1, Zenon
<1> HIDE DEF w, moved
<1>14. DiskOK'
  BY <1>1, DiskSame DEF Inv
<1>15. CacheOK'
  BY <1>1, <1>10, <1>11 DEF CacheOK
<1>16. WalkOK'
  BY <1>1, <1>12 DEF Inv, WalkOK, Quiet
<1> QED
  BY <1>13, <1>14, <1>15, <1>16 DEF Inv


----------------------------------------------------------------------------
(* cp.                                                                     *)

\* w is the list s with f applied to each of its elements.
MapOf(w, f, s) == w = [i \in DOMAIN s |-> f[s[i]]]
Into(f, A, X) == \A e \in A : f[e] \in X

LEMMA MapIs ==
  ASSUME NEW T, NEW s \in Seq(T), NEW X, NEW f, NEW w, MapOf(w, f, s),
         Into(f, ToSet(s), X)
  PROVE  w \in Seq(X) /\ Len(w) = Len(s) /\ Len(w) \in Nat /\ ToSet(w) \subseteq X
<1> DEFINE l == Len(s)
<1>1. l \in Nat /\ DOMAIN s = 1 .. l
  OBVIOUS
<1>2. \A i \in 1 .. l : s[i] \in ToSet(s)
  BY InList
<1>3. w = [i \in 1 .. l |-> f[s[i]]]
  BY <1>1 DEF MapOf
<1> HIDE DEF l
<1>4. \A i \in 1 .. l : w[i] = f[s[i]] /\ w[i] \in X
  BY <1>2, <1>3 DEF Into
<1>5. UpTo(w, l)
  BY <1>3, <1>4 DEF UpTo
<1>6. w \in Seq(X) /\ Len(w) = l
  BY <1>1, <1>4, <1>5, ListIs
<1> QED
  BY <1>1, <1>6, ToSetIs DEF l

\* The nodes S have numbers of their own for their copies.
Numbered(new, S, X) ==
  /\ new \in [S -> X]
  /\ \A a \in S : \A b \in S : new[a] = new[b] => a = b

LEMMA OriginalIs ==
  ASSUME NEW S, NEW X, NEW new, Numbered(new, S, X)
  PROVE  /\ \A n \in S : Original(new, new[n]) = n
         /\ Range(new) \subseteq X
         /\ \A n \in S : new[n] \in Range(new)
         /\ \A x \in Range(new) : Original(new, x) \in S /\ new[Original(new, x)] = x
<1>1. DOMAIN new = S /\ Range(new) = {new[n] : n \in S}
  BY DEF Numbered, Range
<1>2. ASSUME NEW n \in S PROVE Original(new, new[n]) = n
  <2>1. Original(new, new[n]) \in S /\ new[Original(new, new[n])] = new[n]
    BY <1>1 DEF Original
  <2> QED
    BY <2>1 DEF Numbered
<1>3. ASSUME NEW x \in Range(new)
      PROVE  Original(new, x) \in S /\ new[Original(new, x)] = x
  BY <1>1 DEF Original
<1> QED
  BY <1>1, <1>2, <1>3 DEF Numbered

\* A list of S is the list of a directory's copy, or of the nodes copied; every
\* other node of S is in the list of a directory of S.
Copiable(m, S, tops) ==
  /\ S \subseteq Nodes
  /\ Closed(m, S)
  /\ tops \subseteq S
  /\ \A n \in S \ tops : \E e \in S : IsDir(e) /\ n \in KidSet(m, e)

LEMMA CopyIs ==
  ASSUME NEW m, Cache(m), NEW S, NEW tops, Copiable(m, S, tops),
         NEW X \in SUBSET Nodes, NEW new, Numbered(new, S, X), NEW d \in Nodes,
         NEW x \in Range(new)
  PROVE  /\ Copies(m, new, d, tops, x) \in Rec
         /\ Copies(m, new, d, tops, x).parent \in Range(new) \cup {d}
         /\ Len(Copies(m, new, d, tops, x).kids) <= MaxKids
         /\ ToSet(Copies(m, new, d, tops, x).kids) \subseteq Range(new)
<1> DEFINE n == Original(new, x)
           e == Lister(m, DOMAIN new, n)
           list == [i \in DOMAIN m[n].kids |-> new[m[n].kids[i]]]
           kids == IF IsDir(n) THEN list ELSE <<>>
           p == IF n \in tops THEN d ELSE new[e]
<1>1. Copies(m, new, d, tops, x) = [name |-> m[n].name, parent |-> p, kids |-> kids,
                                    dots |-> m[n].dots]
  BY DEF Copies
<1>2. n \in S /\ \A y \in S : new[y] \in Range(new)
  BY OriginalIs
<1>3. Range(new) \subseteq Nodes /\ DOMAIN new = S
  BY OriginalIs DEF Numbered
<1> HIDE DEF n
<1>4. n \in Nodes /\ m[n] \in Rec /\ m[n].kids \in Seq(Nodes) /\ Len(m[n].kids) <= MaxKids
  BY <1>2, CacheIs DEF Copiable
<1>5. m[n].name \in Words /\ m[n].dots \in BOOLEAN
  BY <1>4, RecIs
<1>6. p \in Range(new) \cup {d}
  <2>1. CASE n \in tops
    BY <2>1
  <2>2. CASE n \notin tops
    <3>1. \E y \in S : IsDir(y) /\ n \in KidSet(m, y)
      BY <1>2, <2>2 DEF Copiable
    <3>2. e \in S
      BY <1>3, <3>1 DEF Lister
    <3> HIDE DEF e
    <3> QED
      BY <1>2, <2>2, <3>2
  <2> QED
    BY <2>1, <2>2
<1> HIDE DEF p
<1>7. kids \in Seq(Nodes) /\ Len(kids) <= MaxKids /\ ToSet(kids) \subseteq Range(new)
  <2>1. CASE IsDir(n)
    <3>1. \A y \in ToSet(m[n].kids) : new[y] \in Range(new)
      BY <1>2, <2>1 DEF Copiable, Closed, KidSet
    <3>2. MapOf(list, new, m[n].kids)
      BY DEF MapOf
    <3> DEFINE t == m[n].kids
               Y == Range(new)
    <3>t. t \in Seq(Nodes) /\ MapOf(list, new, t) /\ Into(new, ToSet(t), Y)
      BY <1>4, <3>1, <3>2 DEF Into
    <3> HIDE DEF list, t, Y, kids, e
    <3>3. list \in Seq(Y) /\ Len(list) = Len(t) /\ ToSet(list) \subseteq Y
      BY <3>t, MapIs
    <3>4. list \in Seq(Nodes)
      BY <1>3, <3>3 DEF Y
    <3> QED
      BY <1>4, <2>1, <3>3, <3>4 DEF t, Y, kids
  <2>2. CASE ~IsDir(n)
    <3>1. <<>> \in Seq(Nodes) /\ Len(<<>>) = 0 /\ ToSet(<<>>) = {}
      BY DEF ToSet
    <3> QED
      BY <2>2, <3>1, BoundAssumption
  <2> QED
    BY <2>1, <2>2
<1> HIDE DEF kids
<1> DEFINE r == [name |-> m[n].name, parent |-> p, kids |-> kids, dots |-> m[n].dots]
<1>8. r \in Rec /\ r.parent = p /\ r.kids = kids
  BY <1>3, <1>5, <1>6, <1>7 DEF Rec
<1> HIDE DEF r
<1>9. Copies(m, new, d, tops, x) = r
  BY <1>1 DEF r
<1> QED
  BY <1>6, <1>7, <1>8, <1>9

\* w is the cache with the nodes of X added.
Added(m, w, X) == Cache(w) /\ Cached(w) = Cached(m) \cup X

LEMMA CopiedIs ==
  ASSUME NEW m, Cache(m), NEW S, NEW list \in Seq(Nodes), Copiable(m, S, ToSet(list)),
         NEW X \in SUBSET (Nodes \ {Root}), NEW new, Numbered(new, S, X), NEW d \in Cached(m),
         Len(m[d].kids) + Len(list) <= MaxKids
  PROVE  Added(m, Copied(m, new, d, list), Range(new))
<1> DEFINE w == Copied(m, new, d, list)
           R == Range(new)
           more == [i \in DOMAIN list |-> new[list[i]]]
           s == m[d].kids
           both == s \o more
           y == [m[d] EXCEPT !.kids = both]
           C(x) == Copies(m, new, d, ToSet(list), x)
           K == Cached(m) \cup R
<1>1. d \in Nodes /\ m[d] \in Rec /\ s \in Seq(Nodes) /\ Len(s) \in Nat
        /\ ToSet(s) \subseteq Cached(m) \ {Root}
  BY CacheIs DEF Cached, KidSet
<1>2. R \subseteq Nodes \ {Root} /\ \A n \in S : new[n] \in R
  BY OriginalIs
<1>3. \A x \in Nodes : w[x] = IF x \in R THEN C(x) ELSE IF x = d THEN y ELSE m[x]
  BY DEF Copied
<1>4. w = [x \in Nodes |-> w[x]]
  BY DEF Copied
<1>5. \A x \in R : C(x) \in Rec /\ C(x).parent \in R \cup {d} /\ Len(C(x).kids) <= MaxKids
                   /\ ToSet(C(x).kids) \subseteq R
  <2>1. X \in SUBSET Nodes
    OBVIOUS
  <2> QED
    BY <1>1, <2>1, CopyIs
<1> HIDE DEF C, w, R
<1>6. /\ more \in Seq(R) /\ Len(more) = Len(list) /\ Len(more) \in Nat /\ ToSet(more) \subseteq R
  <2>1. Into(new, ToSet(list), R)
    BY <1>2 DEF Copiable, Into
  <2>2. MapOf(more, new, list)
    BY DEF MapOf
  <2> HIDE DEF more
  <2> QED
    BY <2>1, <2>2, MapIs
<1> HIDE DEF more, s
<1>7. both \in Seq(Nodes) /\ Len(both) = Len(s) + Len(list) /\ ToSet(both) = ToSet(s) \cup ToSet(more)
  <2>1. more \in Seq(Nodes)
    BY <1>2, <1>6
  <2> QED
    BY <1>1, <1>6, <2>1, ConcatIs
<1> HIDE DEF both
<1>8. y \in Rec /\ y.kids = both /\ y.parent = m[d].parent
  BY <1>1, <1>7, SetKids
<1> HIDE DEF y
<1>9. Len(both) <= MaxKids /\ ToSet(both) \subseteq K \ {Root}
  BY <1>1, <1>2, <1>6, <1>7 DEF s
<1>10. w \in [Nodes -> Rec]
  <2>1. \A x \in Nodes : w[x] \in Rec
    BY <1>3, <1>5, <1>8, CacheIs
  <2> QED
    BY <1>4, <2>1
<1>11. Cached(w) = K
  <2> SUFFICES ASSUME NEW x \in Nodes PROVE x \in Cached(w) <=> x \in K
    BY <1>2 DEF Cached
  <2>1. CASE x \in R
    <3>1. w[x].parent \in Nodes
      BY <1>1, <1>2, <1>3, <1>5, <2>1
    <3> QED
      BY <2>1, <3>1, NodesAssumption DEF Cached
  <2>2. CASE x \notin R
    <3>1. w[x].parent = m[x].parent
      BY <1>3, <1>8, <2>2
    <3> QED
      BY <2>2, <3>1 DEF Cached
  <2> QED
    BY <2>1, <2>2
<1>12. ASSUME NEW x \in Nodes PROVE Tied(w[x], x, K)
  <2>1. CASE x \in R
    BY <1>2, <1>3, <1>5, <2>1 DEF Tied
  <2>2. CASE x \notin R
    <3>1. Tied(m[x], x, Cached(m))
      BY DEF Cache
    <3>2. CASE x = d
      BY <1>3, <1>8, <1>9, <2>2, <3>1, <3>2 DEF Tied
    <3>3. CASE x # d
      BY <1>3, <2>2, <3>1, <3>3 DEF Tied
    <3> QED
      BY <3>2, <3>3
  <2> QED
    BY <2>1, <2>2
<1> HIDE DEF K
<1>13. Cache(w) /\ Cached(w) = K
  BY <1>10, <1>11, <1>12 DEF Cache
<1> QED
  BY <1>13 DEF Added, w, K, R

LEMMA InvCpCrash ==
  ASSUME Inv, NEW p \in Paths, NEW q \in Paths, CpCrash(p, q)
  PROVE  Inv'
<1>1. /\ phase = "up" /\ phase' = "astray" /\ careful' = FALSE
      /\ UNCHANGED disk /\ UNCHANGED <<mem, cur, walk, doomed>>
  BY DEF CpCrash, Idle
<1>2. DiskOK'
  BY <1>1, DiskSame DEF Inv
<1>3. CacheOK'
  BY <1>1 DEF Inv, CacheOK
<1>4. WalkOK'
  BY <1>1 DEF Inv, WalkOK, Quiet
<1> QED
  BY <1>1, <1>2, <1>3, <1>4 DEF Inv

\* What lies below the nodes A.
BelowAll(m, A) == UNION {Below(m, n) : n \in A}

LEMMA BelowAllIs ==
  ASSUME NEW m, Cache(m), NEW A \in SUBSET (Cached(m) \ {Root})
  PROVE  Copiable(m, BelowAll(m, A), A)
<1> DEFINE S == BelowAll(m, A)
<1>1. \A n \in Nodes : KidSet(m, n) \subseteq Nodes
  BY CacheIs
<1>2. A \subseteq Nodes
  BY DEF Cached
<1>3. \A n \in A : n \in Below(m, n) /\ Below(m, n) \subseteq Nodes /\ Closed(m, Below(m, n))
  BY <1>1, <1>2, BelowClosed
<1>4. S \subseteq Nodes /\ A \subseteq S
  BY <1>3 DEF BelowAll
<1>5. Closed(m, S)
  BY <1>3 DEF BelowAll, Closed
<1>6. ASSUME NEW x \in S \ A PROVE \E e \in S : IsDir(e) /\ x \in KidSet(m, e)
  <2>1. PICK n \in A : x \in Below(m, n)
    BY DEF BelowAll
  <2>2. x # n /\ n \in Nodes
    BY <1>2, <2>1
  <2>3. PICK e \in Below(m, n) : IsDir(e) /\ x \in KidSet(m, e)
    BY <1>1, <2>1, <2>2, BelowListed
  <2>4. e \in S
    BY <2>1, <2>3 DEF BelowAll
  <2> HIDE DEF S
  <2> QED
    BY <2>3, <2>4
<1> HIDE DEF S
<1>7. Copiable(m, S, A)
  BY <1>4, <1>5, <1>6 DEF Copiable
<1> QED
  BY <1>7 DEF S

LEMMA InvCp ==
  ASSUME Inv, NEW p \in Paths, NEW q \in Paths, Cp(p, q)
  PROVE  Inv'
<1> DEFINE s == Parse(mem, p)
           h == Parse(s.m, DirPart(p))
           d == Parse(h.m, DirPart(q))
           list == IF IsDir(s.at) THEN d.m[s.at].kids ELSE <<s.at>>
           r == ReadEach(d.m, list)
           S == BelowAll(r.m, ToSet(list))
           nm == LastName(q)
<1>1. /\ phase = "up" /\ list # <<>> /\ Len(r.m[d.at].kids) + Len(list) <= MaxKids
      /\ careful' = (careful /\ IsDir(d.at) /\ Visited(r.m, S)
                       /\ (IsDir(s.at) => nm = Nameless)
                       /\ \A n \in ToSet(list) : ~Has(r.m, d.at, r.m[n].name))
      /\ UNCHANGED <<phase, rootBlocks, cur, walk, doomed>>
  BY DEF Cp, Idle, BelowAll
<1>2. PICK new \in Injection(S, Free) :
        /\ mem' = Renamed(Copied(r.m, new, d.at, list), new[Last(list)], d.at, nm)
        /\ kind' = [x \in Nodes |-> IF x \in Range(new) THEN kind[Original(new, x)]
                                    ELSE kind[x]]
        /\ filled' = filled \cup {new[n] : n \in {n \in S \cap filled : ~IsDir(n)}}
        /\ dev' = [x \in Nodes |-> IF x \in Range(new) THEN Empty ELSE dev[x]]
  BY DEF Cp, BelowAll
<1>3. Device /\ Cache(mem) /\ cur \in Cached(mem) \cup {Freed} /\ Kinds
  BY DEF Inv, DiskOK, CacheOK
<1>4. nm \in Words
  BY NamesIs
<1>5. (careful \in BOOLEAN)'
  BY <1>1, Zenon
<1>6. Found(mem, s)
  BY <1>3, ParseIs
<1> HIDE DEF s, nm, S
<1>7. Cache(s.m) /\ s.at \in Cached(s.m) /\ Cached(mem) \subseteq Cached(s.m)
  BY <1>6, FoundIs
<1>8. Found(s.m, h)
  BY <1>3, <1>7, ParseIs
<1> HIDE DEF h
<1>9. Cache(h.m) /\ h.at \in Cached(h.m) /\ Cached(s.m) \subseteq Cached(h.m)
  BY <1>8, FoundIs
<1>10. Found(h.m, d)
  BY <1>3, <1>7, <1>9, ParseIs
<1> HIDE DEF d, r
<1>11. Cache(d.m) /\ d.at \in Cached(d.m) /\ Cached(h.m) \subseteq Cached(d.m)
  BY <1>10, FoundIs
<1>12. s.at \in Cached(d.m) /\ s.at \in Nodes /\ cur \in Cached(d.m) \cup {Freed}
  BY <1>3, <1>7, <1>9, <1>11 DEF Cached
<1>13. list \in Seq(Nodes) /\ ToSet(list) \subseteq Cached(d.m) \ {Root}
  <2>1. CASE IsDir(s.at)
    BY <1>11, <1>12, <2>1, CacheIs DEF KidSet
  <2>2. CASE ~IsDir(s.at)
    <3>1. s.at # Root
      BY <1>3, <2>2 DEF Kinds, IsDir
    <3>2. list = <<s.at>>
      BY <2>2
    <3> DEFINE a == s.at
    <3>3. a \in Nodes /\ a \in Cached(d.m) \ {Root}
      BY <1>12, <3>1
    <3> HIDE DEF a, list
    <3>4. <<a>> \in Seq(Nodes) /\ ToSet(<<a>>) = {a}
      BY <3>3 DEF ToSet
    <3>5. list = <<a>>
      BY <3>2 DEF a
    <3> QED
      BY <3>3, <3>4, <3>5
  <2> QED
    BY <2>1, <2>2
<1> HIDE DEF list
<1>14. Found(d.m, r)
  BY <1>3, <1>11, <1>13, ReadEachIs DEF r
<1>15. Cache(r.m) /\ Cached(d.m) \subseteq Cached(r.m)
  BY <1>14, FoundIs
<1>16. d.at \in Cached(r.m) /\ d.at \in Nodes /\ cur \in Cached(r.m) \cup {Freed}
         /\ ToSet(list) \subseteq Cached(r.m) \ {Root}
  BY <1>11, <1>12, <1>13, <1>15 DEF Cached
<1>17. Copiable(r.m, S, ToSet(list))
  BY <1>15, <1>16, BelowAllIs DEF S
<1>18. Numbered(new, S, Free)
  BY <1>2 DEF Injection, IsInjective, Numbered
<1>19. Free \in SUBSET (Nodes \ {Root}) /\ \A n \in Free : kind[n] = "free"
  BY <1>3 DEF Free, Kinds
<1> DEFINE w == Copied(r.m, new, d.at, list)
           R == Range(new)
           last == Last(list)
<1>20. /\ R \subseteq Free /\ \A n \in S : new[n] \in R /\ Original(new, new[n]) = n
       /\ \A x \in R : Original(new, x) \in S
  BY <1>18, OriginalIs
<1>21. Cache(w) /\ Cached(w) = Cached(r.m) \cup R
  <2>1. Added(r.m, w, R)
    BY <1>1, <1>13, <1>15, <1>16, <1>17, <1>18, <1>19, CopiedIs
  <2> QED
    BY <2>1 DEF Added
<1>22. new[last] \in R
  <2>1. Len(list) \in 1 .. Len(list)
    BY <1>1, <1>13
  <2>2. last \in ToSet(list)
    BY <1>13, <2>1, InList DEF Last
  <2> HIDE DEF last
  <2> QED
    BY <1>17, <1>20, <2>2 DEF Copiable
<1> HIDE DEF last
<1>23. SameNodes(w, mem')
  <2>1. new[last] \in Cached(w) /\ mem' = Renamed(w, new[last], d.at, nm)
    BY <1>2, <1>21, <1>22 DEF last
  <2> HIDE DEF w
  <2> QED
    BY <1>4, <1>21, <2>1, RenamedIs
<1> HIDE DEF w, R
<1>24. CacheOK'
  BY <1>1, <1>16, <1>21, <1>23 DEF CacheOK, SameNodes
<1>k. kind' = [x \in Nodes |-> IF x \in R THEN kind[Original(new, x)] ELSE kind[x]]
      /\ dev' = [x \in Nodes |-> IF x \in R THEN Empty ELSE dev[x]]
  BY <1>2 DEF R
<1>25. Kinds'
  <2>1. \A x \in Nodes : kind'[x] \in {"free", "file", "dir"}
    <3>1. ASSUME NEW x \in Nodes PROVE kind'[x] \in {"free", "file", "dir"}
      <4>1. CASE x \in R
        <5>1. Original(new, x) \in Nodes /\ kind'[x] = kind[Original(new, x)]
          BY <1>17, <1>20, <1>k, <4>1 DEF Copiable
        <5> QED
          BY <1>3, <5>1 DEF Kinds
      <4>2. CASE x \notin R
        BY <1>3, <1>k, <4>2 DEF Kinds
      <4> QED
        BY <4>1, <4>2
    <3> QED
      BY <3>1
  <2>2. kind' \in [Nodes -> {"free", "file", "dir"}]
    BY <1>k, <2>1
  <2>3. kind'[Root] = "dir"
    BY <1>3, <1>19, <1>20, <1>k, NodesAssumption DEF Kinds
  <2> QED
    BY <2>2, <2>3 DEF Kinds
<1>26. Device'
  <2>1. dev' \in [Nodes -> Listing]
    BY <1>3, <1>k, EmptyIs DEF Device
  <2>2. ASSUME NEW e \in Nodes PROVE Len(dev'[e].kids) <= MaxKids
    <3>1. CASE e \in R
      BY <1>k, <3>1, EmptyIs, BoundAssumption
    <3>2. CASE e \notin R
      BY <1>3, <1>k, <3>2 DEF Device
    <3> QED
      BY <3>1, <3>2
  <2> QED
    BY <2>1, <2>2 DEF Device
<1>27. (filled \subseteq {e \in Nodes : kind[e] # "free"} \ {Root})'
  <2> SUFFICES ASSUME NEW e \in filled' PROVE e \in Nodes \ {Root} /\ kind'[e] # "free"
    OBVIOUS
  <2>1. filled \subseteq {x \in Nodes : kind[x] # "free"} \ {Root}
    BY DEF Inv, DiskOK
  <2>2. CASE e \in filled
    <3>1. e \notin R
      BY <1>19, <1>20, <2>1, <2>2
    <3> QED
      BY <1>k, <2>1, <2>2, <3>1
  <2>3. CASE e \notin filled
    <3>1. PICK n \in S \cap filled : e = new[n]
      BY <1>2, <2>3
    <3>2. e \in R /\ e \in Nodes \ {Root} /\ Original(new, e) = n
      BY <1>19, <1>20, <3>1
    <3> QED
      BY <1>k, <2>1, <3>1, <3>2
  <2> QED
    BY <2>2, <2>3
<1>28. DiskOK'
  BY <1>1, <1>25, <1>26, <1>27 DEF Inv, DiskOK
<1>29. WalkOK'
  BY <1>1 DEF Inv, WalkOK, Quiet
<1> QED
  BY <1>5, <1>24, <1>28, <1>29 DEF Inv

----------------------------------------------------------------------------
(* The end of the program, its start, and formatting.                      *)

\* No node in the cache, or the root with nothing in it.
LEMMA AllBlank ==
  ASSUME NEW w \in [Nodes -> Rec],
         \A n \in Nodes : w[n].parent = NoNode /\ w[n].kids = <<>>
  PROVE  Cache(w)
<1>1. ToSet(<<>>) = {} /\ Len(<<>>) = 0
  BY DEF ToSet
<1>2. \A n \in Nodes : Tied(w[n], n, Cached(w))
  BY <1>1, BoundAssumption DEF Tied
<1> QED
  BY <1>2 DEF Cache

LEMMA BlankRoot ==
  Cache([n \in Nodes |-> Blank]) /\ Cache([n \in Nodes |-> [Blank EXCEPT !.dots = (n = Root)]])
<1>1. Cache([n \in Nodes |-> Blank])
  <2> DEFINE w == [n \in Nodes |-> Blank]
  <2>1. w \in [Nodes -> Rec] /\ \A n \in Nodes : w[n].parent = NoNode /\ w[n].kids = <<>>
    BY BlankIs
  <2> HIDE DEF w
  <2>2. Cache(w)
    BY <2>1, AllBlank
  <2> QED
    BY <2>2 DEF w
<1>2. Cache([n \in Nodes |-> [Blank EXCEPT !.dots = (n = Root)]])
  <2> DEFINE w == [n \in Nodes |-> [Blank EXCEPT !.dots = (n = Root)]]
  <2>1. ASSUME NEW n \in Nodes
        PROVE  w[n] \in Rec /\ w[n].parent = NoNode /\ w[n].kids = <<>>
    <3> DEFINE b == (n = Root)
    <3>1. w[n] = [Blank EXCEPT !.dots = b]
      OBVIOUS
    <3>2. b \in BOOLEAN
      OBVIOUS
    <3> HIDE DEF w, b
    <3> QED
      BY <3>1, <3>2, BlankIs, SetDots
  <2>2. w \in [Nodes -> Rec]
    <3>1. w = [n \in Nodes |-> w[n]]
      OBVIOUS
    <3> HIDE DEF w
    <3> QED
      BY <2>1, <3>1
  <2> HIDE DEF w
  <2>3. Cache(w)
    BY <2>1, <2>2, AllBlank
  <2> QED
    BY <2>3 DEF w
<1> QED
  BY <1>1, <1>2

LEMMA TimesMonotone ==
  ASSUME NEW p \in Nat, NEW a \in Int, NEW b \in Int, a <= b
  PROVE  a * p <= b * p
<1>1. (b - a) * p >= 0
  BY Z3
<1>2. (b - a) * p = b * p - a * p
  BY Z3
<1> QED
  BY <1>1, <1>2

\* The blocks that take z entries, and what is kept of the entries when fewer are
\* to be had.
LEMMA BlocksKeep ==
  ASSUME NEW z \in Nat, NEW p \in Nat \ {0},
         NEW k \in Nat, k <= (z \div p) + IF z % p = 0 THEN 0 ELSE 1
  PROVE  (k - 1) * p + (z % p) \in Int /\ (k - 1) * p + (z % p) <= z
<1> DEFINE q == z \div p
           r == z % p
<1>1. q \in Nat /\ r \in Nat /\ r < p /\ z = q * p + r
  BY Z3
<1> HIDE DEF q, r
<1>2. (k - 1) * p \in Int /\ (k - 1) * p + r \in Int
  BY <1>1
<1>3. CASE r = 0
  <2>1. k <= q
    BY <1>3 DEF q, r
  <2>2. k * p <= q * p
    BY <1>1, <2>1, TimesMonotone
  <2>3. (k - 1) * p <= k * p
    BY TimesMonotone
  <2> QED
    BY <1>1, <1>2, <1>3, <2>2, <2>3
<1>4. CASE r # 0
  <2>1. k - 1 <= q
    BY <1>1, <1>4 DEF q, r
  <2>2. (k - 1) * p <= q * p
    BY <1>1, <2>1, TimesMonotone
  <2> QED
    BY <1>1, <1>2, <2>2
<1> QED
  BY <1>2, <1>3, <1>4 DEF r

LEMMA SizeNat ==
  ASSUME NEW m, Cache(m), NEW d \in Nodes
  PROVE  Size(m, d) \in Nat /\ Blocks(m, d) \in Nat
<1>1. Len(m[d].kids) \in Nat
  BY CacheIs
<1>2. Size(m, d) \in Nat
  <2> DEFINE t == IF m[d].dots THEN 2 ELSE 0
             l == Len(m[d].kids)
  <2>1. Size(m, d) = l + t /\ t \in Nat
    BY DEF Size
  <2> HIDE DEF t, l
  <2>2. l \in Nat
    BY <1>1 DEF l
  <2> QED
    BY <2>1, <2>2
<1> DEFINE z == Size(m, d)
<1>3. z \in Nat /\ PerBlock \in Nat \ {0}
  BY <1>2, PerBlockAssumption
<1> HIDE DEF z
<1>4. z \div PerBlock \in Nat
  BY <1>3, Z3
<1>5. (z \div PerBlock) + (IF z % PerBlock = 0 THEN 0 ELSE 1) \in Nat
  BY <1>4
<1> QED
  BY <1>2, <1>5 DEF Blocks, z

\* What the end of the program writes for a directory.
LEMMA WrittenIs ==
  ASSUME NEW m, Cache(m), NEW d \in Nodes, NEW blocks \in Nat, blocks <= Blocks(m, d)
  PROVE  Written(m, d, blocks) \in Listing /\ Len(Written(m, d, blocks).kids) <= MaxKids
<1>1. CASE blocks = 0
  BY <1>1, EmptyIs, BoundAssumption DEF Written
<1>2. CASE blocks # 0
  <2> DEFINE s == m[d].kids
             k == KeptKids(m, d, blocks)
             b == Kept(m, d, blocks) - IF m[d].dots THEN 2 ELSE 0
             list == [i \in DOMAIN k |-> [name |-> m[k[i]].name, node |-> k[i]]]
             l == Len(k)
             dots == m[d].dots /\ Kept(m, d, blocks) > 0
  <2>1. s \in Seq(Nodes) /\ Len(s) \in Nat /\ Len(s) <= MaxKids /\ ToSet(s) \subseteq Nodes \ {Root}
    BY CacheIs DEF KidSet
  <2>2. b \in Int /\ b <= Len(s)
    <3> DEFINE z == Size(m, d)
               t == IF m[d].dots THEN 2 ELSE 0
    <3>1. z = Len(s) + t /\ t \in Nat
      BY DEF Size
    <3> HIDE DEF t
    <3>2. PerBlock \in Nat \ {0} /\ Kept(m, d, blocks) = (blocks - 1) * PerBlock + (z % PerBlock)
      BY PerBlockAssumption DEF Kept
    <3>3. z \in Nat /\ blocks <= (z \div PerBlock) + IF z % PerBlock = 0 THEN 0 ELSE 1
      BY SizeNat DEF Blocks
    <3> HIDE DEF z, s
    <3>5. Kept(m, d, blocks) \in Int /\ Kept(m, d, blocks) <= z
      BY <3>2, <3>3, BlocksKeep
    <3>4. b = Kept(m, d, blocks) - t
      BY DEF t
    <3> QED
      BY <2>1, <3>1, <3>3, <3>4, <3>5
  <2>3. k = SubSeq(s, 1, b)
    BY DEF KeptKids
  <2> HIDE DEF b, s
  <2>4. k \in Seq(Nodes) /\ ToSet(k) \subseteq ToSet(s) /\ l = IF 1 <= b THEN b - 1 + 1 ELSE 0
    <3>1. 1 \in Nat /\ 1 <= 1
      OBVIOUS
    <3> HIDE DEF k
    <3> QED
      BY <2>1, <2>2, <2>3, <3>1, PieceIs
  <2>5. l \in Nat /\ l <= MaxKids /\ DOMAIN k = 1 .. l
    BY <2>1, <2>2, <2>4, BoundAssumption
  <2>6. \A i \in 1 .. l : k[i] \in Nodes \ {Root} /\ m[k[i]].name \in Words
    <3> SUFFICES ASSUME NEW i \in 1 .. l
                 PROVE  k[i] \in Nodes \ {Root} /\ m[k[i]].name \in Words
      OBVIOUS
    <3>1. k[i] \in ToSet(k)
      <4> HIDE DEF k
      <4> QED
        BY <2>4, InList
    <3>2. k[i] \in Nodes \ {Root}
      BY <2>1, <2>4, <3>1
    <3> HIDE DEF k
    <3>3. m[k[i]] \in Rec
      BY <3>2, CacheIs
    <3> QED
      BY <3>2, <3>3, RecIs
  <2>7. Written(m, d, blocks) = [kids |-> list, dots |-> dots]
    <3>1. Written(m, d, blocks) =
            [kids |-> [i \in DOMAIN KeptKids(m, d, blocks) |->
                         [name |-> m[m[d].kids[i]].name, node |-> m[d].kids[i]]],
             dots |-> m[d].dots /\ Kept(m, d, blocks) > 0]
      BY <1>2 DEF Written
    <3>2. ASSUME NEW i \in 1 .. l PROVE k[i] = m[d].kids[i]
      <4>1. i \in 1 .. b /\ b \in Int
        BY <2>2, <2>4
      <4>2. SubSeq(s, 1, b)[i] = s[1 + i - 1]
        BY <2>2, <4>1
      <4>3. 1 + i - 1 = i
        OBVIOUS
      <4> HIDE DEF k
      <4> QED
        BY <2>3, <4>2, <4>3 DEF s
    <3>3. [i \in 1 .. l |-> [name |-> m[m[d].kids[i]].name, node |-> m[d].kids[i]]]
            = [i \in 1 .. l |-> [name |-> m[k[i]].name, node |-> k[i]]]
      BY <3>2, Zenon
    <3>4. [i \in DOMAIN KeptKids(m, d, blocks) |->
             [name |-> m[m[d].kids[i]].name, node |-> m[d].kids[i]]] = list
      BY <2>5, <3>3, Zenon
    <3> HIDE DEF k, list
    <3> QED
      BY <3>1, <3>4
  <2>8. list \in Seq(Entry) /\ Len(list) = l
    <3>1. \A i \in 1 .. l : list[i] = [name |-> m[k[i]].name, node |-> k[i]]
      BY <2>5
    <3>2. \A i \in 1 .. l : list[i] \in Entry
      <4> SUFFICES ASSUME NEW i \in 1 .. l PROVE list[i] \in Entry
        OBVIOUS
      <4>1. list[i] = [name |-> m[k[i]].name, node |-> k[i]]
        BY <3>1
      <4>2. k[i] \in Nodes \ {Root} /\ m[k[i]].name \in Words
        BY <2>6
      <4> HIDE DEF list, k, l
      <4> QED
        BY <4>1, <4>2 DEF Entry
    <3>3. list = [i \in 1 .. l |-> [name |-> m[k[i]].name, node |-> k[i]]]
      BY <2>5
    <3> HIDE DEF list, k
    <3>4. UpTo(list, l)
      BY <3>1, <3>3, Zenon DEF UpTo
    <3> QED
      BY <2>5, <3>2, <3>4, ListIs
  <2>9. dots \in BOOLEAN
    BY Zenon
  <2> HIDE DEF list, dots, l
  <2> QED
    BY <2>5, <2>7, <2>8, <2>9 DEF Listing
<1> QED
  BY <1>1, <1>2

\* The blocks of the directories in the end are numbers, and no more than the
\* entries take.
LEMMA EndingsIs ==
  ASSUME Cache(mem), Kinds, NEW got \in Endings
  PROVE  /\ CachedDirs \subseteq Nodes /\ Root \in CachedDirs
         /\ \A d \in CachedDirs : kind[d] = "dir" /\ got[d] \in Nat /\ got[d] <= Blocks(mem, d)
                                /\ Clipped(got[d]) \in Nat /\ Clipped(got[d]) <= Blocks(mem, d)
<1>1. Root \in Below(mem, Root) /\ Below(mem, Root) \subseteq Nodes
  BY NodesAssumption, CacheIs, BelowClosed
<1>2. CachedDirs \subseteq Nodes /\ Root \in CachedDirs /\ \A d \in CachedDirs : kind[d] = "dir"
  BY <1>1 DEF CachedDirs, IsDir, Kinds
<1>3. ASSUME NEW d \in CachedDirs
      PROVE  /\ got[d] \in Nat /\ got[d] <= Blocks(mem, d)
             /\ Clipped(got[d]) \in Nat /\ Clipped(got[d]) <= Blocks(mem, d)
  <2> DEFINE most == Max({Blocks(mem, e) : e \in CachedDirs})
  <2>1. got \in [CachedDirs -> 0 .. most] /\ got[d] <= Blocks(mem, d)
    BY DEF Endings
  <2> HIDE DEF most
  <2>2. got[d] \in Nat
    BY <2>1
  <2>3. Blocks(mem, d) \in Nat
    BY <1>2, SizeNat
  <2> QED
    BY <2>1, <2>2, <2>3, PerBlockAssumption DEF Clipped
<1> QED
  BY <1>2, <1>3

\* The end of the program writes the cached directories and empties the cache.
LEMMA InvExit ==
  ASSUME Inv, Exit
  PROVE  Inv'
<1> DEFINE D == CachedDirs
<1>1. PICK got \in Endings :
        IF IsTree(mem, Root) /\ ~Overrun(got)
        THEN /\ phase' = "off"
             /\ dev' = [n \in Nodes |-> IF n \in D THEN Written(mem, n, Clipped(got[n])) ELSE dev[n]]
             /\ filled' = filled \cup FilledAtEnd(got)
             /\ rootBlocks' = Max({rootBlocks, Clipped(got[Root])})
             /\ mem' = [n \in Nodes |-> Blank]
             /\ cur' = Root
        ELSE phase' = "astray" /\ UNCHANGED <<dev, filled, rootBlocks, mem, cur>>
  BY DEF Exit
<1>7. /\ phase = "up" /\ UNCHANGED <<kind, walk, doomed>>
      /\ careful' = (careful /\ Visited(mem, CachedDirs)
                       /\ \A d \in CachedDirs : /\ Size(mem, d) % PerBlock # 0
                                                 /\ Blocks(mem, d) <= Had(d))
  BY DEF Exit, Idle
<1>2. Device /\ Cache(mem) /\ Kinds /\ rootBlocks \in Nat
  BY DEF Inv, DiskOK, CacheOK
<1>3. /\ D \subseteq Nodes /\ Root \in D
      /\ \A d \in D : kind[d] = "dir" /\ Clipped(got[d]) \in Nat /\ Clipped(got[d]) <= Blocks(mem, d)
  BY <1>2, EndingsIs
<1>4. (careful \in BOOLEAN)'
  BY <1>7, Zenon
<1> HIDE DEF D
<1>5. CASE ~(IsTree(mem, Root) /\ ~Overrun(got))
  <2>1. /\ phase' = "astray" /\ UNCHANGED <<mem, cur, walk, doomed>>
        /\ UNCHANGED disk
    BY <1>1, <1>5, <1>7 DEF disk
  <2>2. DiskOK'
    BY <2>1, DiskSame DEF Inv
  <2>3. CacheOK'
    BY <2>1 DEF Inv, CacheOK
  <2>4. WalkOK'
    BY <1>7, <2>1 DEF Inv, WalkOK, Quiet
  <2> QED
    BY <1>4, <2>2, <2>3, <2>4 DEF Inv
<1>6. CASE IsTree(mem, Root) /\ ~Overrun(got)
  <2>1. /\ phase' = "off"
        /\ dev' = [n \in Nodes |-> IF n \in D THEN Written(mem, n, Clipped(got[n])) ELSE dev[n]]
        /\ filled' = filled \cup FilledAtEnd(got)
        /\ rootBlocks' = Max({rootBlocks, Clipped(got[Root])})
        /\ mem' = [n \in Nodes |-> Blank]
        /\ cur' = Root
    BY <1>1, <1>6
  <2>2. CacheOK'
    BY <1>2, <2>1, BlankRoot, NodesAssumption DEF CacheOK, Cached
  <2>3. Kinds'
    BY <1>2, <1>7 DEF Kinds
  <2>4. Device'
    <3>1. \A n \in D : /\ Written(mem, n, Clipped(got[n])) \in Listing
                       /\ Len(Written(mem, n, Clipped(got[n])).kids) <= MaxKids
      BY <1>2, <1>3, WrittenIs
    <3>2. dev' \in [Nodes -> Listing]
      BY <1>2, <2>1, <3>1 DEF Device
    <3>3. \A n \in Nodes : Len(dev'[n].kids) <= MaxKids
      BY <1>2, <2>1, <3>1 DEF Device
    <3> QED
      BY <3>2, <3>3 DEF Device
  <2>5. rootBlocks' \in Nat
    <3> DEFINE b == Clipped(got[Root])
    <3>1. b \in Nat /\ rootBlocks' = Max({rootBlocks, b})
      BY <1>3, <2>1
    <3> HIDE DEF b
    <3>2. Max({rootBlocks, b}) = (IF rootBlocks >= b THEN rootBlocks ELSE b)
      BY <1>2, <3>1, MaxIs
    <3> QED
      BY <1>2, <3>1, <3>2
  <2>6. (filled \subseteq {e \in Nodes : kind[e] # "free"} \ {Root})'
    BY <1>3, <1>7, <2>1 DEF Inv, DiskOK, FilledAtEnd, D
  <2>7. DiskOK'
    BY <2>3, <2>4, <2>5, <2>6 DEF DiskOK
  <2>8. WalkOK'
    BY <1>7, <2>1 DEF Inv, WalkOK, Quiet
  <2> QED
    BY <1>4, <2>2, <2>7, <2>8 DEF Inv
<1> QED
  BY <1>5, <1>6

\* What mount brings into the cache.
LEMMA MountedIs ==
  ASSUME Device
  PROVE  Cache(Mounted)
<1> DEFINE b == [n \in Nodes |-> Blank]
           w == Read(b, Root)
           x == [w[Root] EXCEPT !.dots = TRUE]
<1>1. Cache(b) /\ Root \in Nodes /\ Root \in Cached(b)
  BY BlankRoot, NodesAssumption DEF Cached
<1>2. b[Root].kids = <<>> /\ \A e \in Entries(Root) : b[e].parent = NoNode
  BY <1>1, EntriesIs, BlankIs
<1> HIDE DEF b
<1>3. Cache(w) /\ Root \in Cached(w)
  BY <1>1, <1>2, ReadIs
<1>4. Mounted = [w EXCEPT ![Root] = x]
  BY DEF Mounted, b
<1> HIDE DEF w
<1>5. w[Root] \in Rec /\ Tied(w[Root], Root, Cached(w))
  BY <1>1, <1>3 DEF Cache
<1>6. x \in Rec /\ x.parent = w[Root].parent /\ x.kids = w[Root].kids
  BY <1>5, SetDots
<1> HIDE DEF x
<1>7. Tied(x, Root, Cached(w))
  BY <1>5, <1>6 DEF Tied
<1>8. SameNodes(w, [w EXCEPT ![Root] = x])
  BY <1>3, <1>6, <1>7, PutIs
<1> QED
  BY <1>4, <1>8 DEF SameNodes

LEMMA InvStart ==
  ASSUME Inv, Start
  PROVE  Inv'
<1>1. /\ phase = "off" /\ phase' \in {"up", "astray"} /\ (mem' = Mounted \/ mem' = mem)
      /\ cur' = Root /\ UNCHANGED disk /\ UNCHANGED <<careful, walk, doomed>>
  BY DEF Start, Idle
<1>2. Device /\ Cache(mem)
  BY DEF Inv, DiskOK, CacheOK
<1>3. DiskOK'
  BY <1>1, DiskSame DEF Inv
<1>4. CacheOK'
  BY <1>1, <1>2, MountedIs, NodesAssumption DEF CacheOK, Cached
<1>5. WalkOK'
  BY <1>1 DEF Inv, WalkOK, Quiet
<1> QED
  BY <1>1, <1>3, <1>4, <1>5 DEF Inv

LEMMA InvFormat ==
  ASSUME Inv, NEW bottom \in BOOLEAN, Format(bottom)
  PROVE  Inv'
<1>1. /\ phase = "up" /\ UNCHANGED <<rootBlocks, walk, doomed>>
      /\ \/ /\ phase' = "up"
            /\ kind' = [n \in Nodes |-> IF n = Root THEN "dir" ELSE "free"]
            /\ filled' = {}
            /\ dev' = [n \in Nodes |-> Empty]
            /\ mem' = [n \in Nodes |-> [Blank EXCEPT !.dots = (n = Root)]]
            /\ cur' = Root
         \/ phase' = "astray" /\ UNCHANGED <<kind, filled, dev, mem, cur>>
  BY Zenon DEF Format, Idle
<1>2. WalkOK' /\ (careful \in BOOLEAN)'
  <2>1. careful' = (careful /\ (bottom \/ \A d \in CachedDirs : Blocks(mem, d) <= MaxBlocks + 1))
    BY DEF Format
  <2>2. (careful \in BOOLEAN)'
    BY <2>1, Zenon
  <2> QED
    BY <1>1, <2>2 DEF Inv, WalkOK, Quiet
<1>3. CASE phase' = "astray" /\ UNCHANGED <<kind, filled, dev, mem, cur>>
  <2>1. UNCHANGED disk /\ UNCHANGED <<mem, cur>>
    BY <1>1, <1>3 DEF disk
  <2>2. DiskOK'
    BY <2>1, DiskSame DEF Inv
  <2>3. CacheOK'
    BY <2>1 DEF Inv, CacheOK
  <2> QED
    BY <1>2, <2>1, <2>2, <2>3 DEF Inv
<1>4. CASE /\ phase' = "up"
           /\ kind' = [n \in Nodes |-> IF n = Root THEN "dir" ELSE "free"]
           /\ filled' = {}
           /\ dev' = [n \in Nodes |-> Empty]
           /\ mem' = [n \in Nodes |-> [Blank EXCEPT !.dots = (n = Root)]]
           /\ cur' = Root
  <2>1. CacheOK'
    BY <1>4, BlankRoot, NodesAssumption DEF CacheOK, Cached
  <2>2. Kinds'
    BY <1>4, NodesAssumption DEF Kinds
  <2>3. Device'
    BY <1>4, EmptyIs, BoundAssumption DEF Device
  <2>4. DiskOK'
    BY <1>1, <1>4, <2>2, <2>3 DEF Inv, DiskOK
  <2> QED
    BY <1>1, <1>2, <2>1, <2>4 DEF Inv
<1> QED
  BY <1>1, <1>3, <1>4

LEMMA InvInit ==
  ASSUME Init
  PROVE  Inv
<1>1. /\ kind = [n \in Nodes |-> IF n = Root THEN "dir" ELSE "free"]
      /\ filled = {}
      /\ dev = [n \in Nodes |-> Empty]
      /\ mem = [n \in Nodes |-> [Blank EXCEPT !.dots = (n = Root)]]
      /\ rootBlocks = 1 /\ cur = Root /\ phase = "up" /\ walk = <<>> /\ doomed = NoNode
      /\ careful = TRUE
  BY DEF Init
<1>2. CacheOK
  BY <1>1, BlankRoot, NodesAssumption DEF CacheOK, Cached
<1>3. Kinds
  BY <1>1, NodesAssumption DEF Kinds
<1>4. Device
  BY <1>1, EmptyIs, BoundAssumption DEF Device
<1>5. DiskOK
  BY <1>1, <1>3, <1>4 DEF DiskOK
<1>6. WalkOK
  BY <1>1 DEF WalkOK, Quiet
<1> QED
  BY <1>1, <1>2, <1>5, <1>6 DEF Inv

----------------------------------------------------------------------------
(* The theorems.                                                           *)

\* A step that changes nothing.
LEMMA InvStutter ==
  ASSUME Inv, UNCHANGED vars
  PROVE  Inv'
<1>1. UNCHANGED disk /\ UNCHANGED <<phase, kind, mem, cur, walk, doomed, careful>>
  BY DEF vars, disk
<1>2. DiskOK'
  BY <1>1, DiskSame DEF Inv
<1>3. CacheOK'
  BY <1>1 DEF Inv, CacheOK
<1>4. Below(mem, doomed)' = Below(mem, doomed)
  <2>1. Below(mem, doomed)' = Below(mem', doomed')
    BY <1>1, BelowNext
  <2> QED
    BY <1>1, <2>1
<1>5. WalkOK'
  BY <1>1, <1>4 DEF Inv, WalkOK, Quiet, OnTheWay, IsDir
<1> QED
  BY <1>1, <1>2, <1>3, <1>5 DEF Inv

LEMMA InvNext ==
  ASSUME Inv, [Next]_vars
  PROVE  Inv'
<1>1. CASE \E p \in Paths : Ls(p) \/ Cd(p) \/ RmFile(p) \/ RmDir(p) \/ Rmdir(p)
  <2>1. PICK p \in Paths : Ls(p) \/ Cd(p) \/ RmFile(p) \/ RmDir(p) \/ Rmdir(p)
    BY <1>1
  <2> QED
    BY <2>1, InvLs, InvCd, InvRmFile, InvRmDir, InvRmdir
<1>2. CASE \E p \in Paths, k \in {"file", "dir"}, n \in Nodes : Make(p, k, n)
  BY <1>2, InvMake
<1>3. CASE \E p, q \in Paths : Mv(p, q) \/ Cp(p, q) \/ CpCrash(p, q)
  <2>1. PICK p \in Paths, q \in Paths : Mv(p, q) \/ Cp(p, q) \/ CpCrash(p, q)
    BY <1>3
  <2> QED
    BY <2>1, InvMv, InvCp, InvCpCrash
<1>4. CASE WalkDown
  BY <1>4, InvWalkDown
<1>5. CASE WalkPop
  BY <1>5, InvWalkPop
<1>6. CASE WalkDone
  BY <1>6, InvWalkDone
<1>7. CASE Exit
  BY <1>7, InvExit
<1>8. CASE Start
  BY <1>8, InvStart
<1>9. CASE \E bottom \in BOOLEAN : Format(bottom)
  BY <1>9, InvFormat
<1>10. CASE UNCHANGED vars
  BY <1>10, InvStutter
<1> QED
  BY <1>1, <1>2, <1>3, <1>4, <1>5, <1>6, <1>7, <1>8, <1>9, <1>10 DEF Next

LEMMA InvAlways == Spec => []Inv
<1>1. Init => Inv
  BY InvInit
<1>2. Inv /\ [Next]_vars => Inv'
  BY InvNext
<1> QED
  BY <1>1, <1>2, PTL DEF Spec

\* Whatever the commands, the values of the variables make sense: an entry, in the
\* cache or on the device, is an index node, a parent is one or none or freed, no
\* directory outgrows its bound, and the root is never given back.
THEOREM TypeCorrect == Spec => []TypeOK
<1>1. Inv => TypeOK
  <2> SUFFICES ASSUME Inv PROVE TypeOK
    OBVIOUS
  <2>1. Device /\ Cache(mem) /\ Kinds
    BY DEF Inv, DiskOK, CacheOK
  <2>2. \A n \in Nodes : /\ mem[n].parent \in Nodes \cup {NoNode, Freed}
                         /\ mem[n].kids \in Seq(Nodes) /\ Len(mem[n].kids) <= MaxKids
                         /\ mem[n].dots \in BOOLEAN
    <3> SUFFICES ASSUME NEW n \in Nodes
                 PROVE  /\ mem[n].parent \in Nodes \cup {NoNode, Freed}
                        /\ mem[n].kids \in Seq(Nodes) /\ Len(mem[n].kids) <= MaxKids
                        /\ mem[n].dots \in BOOLEAN
      OBVIOUS
    <3>1. mem[n] \in Rec /\ Len(mem[n].kids) <= MaxKids
      BY <2>1, CacheIs
    <3> QED
      BY <3>1, RecIs
  <2>3. \A n \in Nodes : Entries(n) \subseteq Nodes
    BY <2>1, EntriesIs
  <2>4. walk \in Seq(Nodes) /\ Len(walk) <= MaxWalk /\ doomed \in Nodes \cup {NoNode}
    <3>1. CASE Quiet
      <4>1. walk = <<>> /\ Len(walk) = 0 /\ doomed = NoNode
        BY <3>1 DEF Quiet
      <4> QED
        BY <4>1, BoundAssumption
    <3>2. CASE OnTheWay
      BY <3>2 DEF OnTheWay, Cached
    <3> QED
      BY <3>1, <3>2 DEF Inv, WalkOK
  <2>5. phase \in {"up", "walking", "popping", "off", "astray"}
    BY DEF Inv, WalkOK
  <2>6. cur \in Nodes \cup {Freed}
    BY DEF Inv, CacheOK, Cached
  <2> QED
    BY <2>1, <2>2, <2>3, <2>4, <2>5, <2>6 DEF TypeOK, Inv, DiskOK, Kinds
<1> QED
  BY <1>1, InvAlways, PTL

\* del_dir's walk never leaves the directory that is to be removed, however the
\* cache came to look as it does: what the queue holds lies below it.
THEOREM WalkBelow == Spec => []WalkStaysBelow
<1>1. Inv => WalkStaysBelow
  BY DEF Inv, WalkOK, Quiet, OnTheWay, WalkStaysBelow
<1> QED
  BY <1>1, InvAlways, PTL
=============================================================================
