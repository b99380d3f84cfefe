-------------------------- MODULE OpenFilesProofs --------------------------
(***************************************************************************)
(* Theorems about the tables of open files, for tables and lists of every  *)
(* size: types, what a descriptor holds until the lists of idle slots      *)
(* are topped up for the first time, and with one file open at a time.     *)
(***************************************************************************)
EXTENDS OpenFiles, FiniteSetTheorems, WellFoundedInduction, TLAPS

----------------------------------------------------------------------------
(* Numbers in ascending order.                                             *)

\* A set of numbers has a smallest one.
LEMMA LeastIs ==
  ASSUME NEW T \in SUBSET Nat, T # {}
  PROVE  \E x \in T : \A y \in T : x <= y
<1> DEFINE R == OpToRel(<, Nat)
<1>1. IsWellFoundedOn(R, Nat)
  BY NatLessThanWellFounded
<1>2. R = {ss \in Nat \X Nat : ss[1] < ss[2]}
  BY DEF OpToRel
<1> HIDE DEF R
<1>3. PICK x \in T : \A y \in T : ~(<<y, x>> \in R)
  BY <1>1, WFMin
<1>4. \A y \in T : ~(y < x)
  BY <1>2, <1>3
<1> QED
  BY <1>4

\* ... and, when they are bounded, a largest one.
LEMMA GreatestIs ==
  ASSUME NEW n \in Nat, NEW T \in SUBSET (0 .. n), T # {}
  PROVE  \E x \in T : \A y \in T : y <= x
<1> DEFINE U == {n - y : y \in T}
<1>1. U \in SUBSET Nat /\ U # {}
  <2>1. \A y \in T : y \in 0 .. n /\ n - y \in Nat
    OBVIOUS
  <2> QED
    BY <2>1
<1>2. PICK u \in U : \A v \in U : u <= v
  BY <1>1, LeastIs
<1>3. PICK x \in T : u = n - x
  BY <1>2
<1>4. ASSUME NEW y \in T PROVE y <= x
  <2>1. n - y \in U
    OBVIOUS
  <2> HIDE DEF U
  <2> QED
    BY <1>2, <1>3, <2>1
<1> QED
  BY <1>4

\* A finite set of numbers has a member of every rank below its size.
LEMMA RankIs ==
  ASSUME NEW n \in Nat, NEW S \in SUBSET (0 .. n), NEW k \in Nat, k < Cardinality(S)
  PROVE  \E s \in S : Cardinality({t \in S : t < s}) = k
<1> DEFINE Below(s) == {t \in S : t < s}
           rank(s) == Cardinality(Below(s))
           T == {s \in S : rank(s) >= k}
<1>1. IsFiniteSet(S)
  <2>1. IsFiniteSet(0 .. n)
    BY FS_Interval
  <2> QED
    BY <2>1, FS_Subset
<1>2. \A s \in S : IsFiniteSet(Below(s)) /\ rank(s) \in Nat
  BY <1>1, FS_Subset, FS_CardinalityType
<1>3. S # {}
  BY FS_EmptySet
<1>4. T # {}
  <2>1. PICK s \in S : \A t \in S : t <= s
    BY <1>3, GreatestIs
  <2>2. Below(s) = S \ {s}
    <3>1. \A t \in S : t < s <=> t # s
      BY <2>1
    <3> QED
      BY <3>1
  <2>3. rank(s) = Cardinality(S) - 1
    BY <1>1, <2>2, FS_RemoveElement
  <2>4. Cardinality(S) \in Nat
    BY <1>1, FS_CardinalityType
  <2>5. rank(s) >= k
    BY <2>3, <2>4
  <2> QED
    BY <2>5
<1>5. T \in SUBSET Nat
  <2>1. S \in SUBSET Nat
    OBVIOUS
  <2> QED
    BY <2>1
<1>6. PICK s \in T : \A t \in T : s <= t
  BY <1>4, <1>5, LeastIs
<1>7. CASE rank(s) = k
  BY <1>7
<1>8. CASE rank(s) # k
  <2>1. s \in S /\ rank(s) > k
    BY <1>2, <1>8
  <2>2. Below(s) # {}
    BY <2>1, FS_EmptySet
  <2>3. PICK p \in Below(s) : \A t \in Below(s) : t <= p
    BY <2>2, GreatestIs
  <2>4. p \in S /\ p < s
    BY <2>3
  <2>5. Below(p) = Below(s) \ {p}
    <3>1. \A t \in S : t < p <=> t < s /\ t # p
      BY <2>1, <2>3, <2>4
    <3> QED
      BY <3>1
  <2>6. rank(p) = rank(s) - 1
    <3> HIDE DEF Below
    <3> QED
      BY <1>2, <2>1, <2>3, <2>5, FS_RemoveElement
  <2>7. p \in T
    BY <1>2, <2>1, <2>4, <2>6
  <2> HIDE DEF T
  <2> QED
    BY <1>5, <1>6, <2>4, <2>7
<1> QED
  BY <1>7, <1>8

----------------------------------------------------------------------------
(* The lists of idle slots.                                                *)

USE FilesAssumption, KeepAssumption, TabAssumption, FdsAssumption, LenAssumption

LEMMA SmallestIs ==
  ASSUME NEW N \in Nat, NEW S \in SUBSET (0 .. N), NEW n \in Int, n <= Cardinality(S)
  PROVE  /\ Smallest(S, n) \in Seq(Nat)
         /\ Len(Smallest(S, n)) = IF n >= 0 THEN n ELSE 0
         /\ \A m \in 1 .. n : Smallest(S, n)[m] \in S
<1> DEFINE rank(s) == Cardinality({t \in S : t < s})
           ranked(m) == CHOOSE s \in S : rank(s) = m - 1
<1>1. \A m \in 1 .. n : \E s \in S : rank(s) = m - 1
  <2> SUFFICES ASSUME NEW m \in 1 .. n PROVE \E s \in S : rank(s) = m - 1
    OBVIOUS
  <2>1. IsFiniteSet(0 .. N)
    BY FS_Interval
  <2>2. IsFiniteSet(S)
    BY <2>1, FS_Subset
  <2>3. Cardinality(S) \in Nat
    BY <2>2, FS_CardinalityType
  <2>4. m - 1 \in Nat /\ m - 1 < Cardinality(S)
    BY <2>3
  <2> HIDE DEF rank
  <2>5. \E s \in S : Cardinality({t \in S : t < s}) = m - 1
    BY <2>4, RankIs
  <2> QED
    BY <2>5 DEF rank
<1>2. Smallest(S, n) = [m \in 1 .. n |-> ranked(m)]
  BY DEF Smallest
<1>3. \A m \in 1 .. n : ranked(m) \in S
  <2> HIDE DEF rank
  <2> QED
    BY <1>1
<1> HIDE DEF rank, ranked
<1>4. Smallest(S, n) \in [1 .. n -> Nat]
  <2>1. \A x \in S : x \in Nat
    OBVIOUS
  <2>2. \A m \in 1 .. n : ranked(m) \in Nat
    BY <1>3, <2>1
  <2> QED
    BY <1>2, <2>2
<1>5. \A m \in 1 .. n : Smallest(S, n)[m] \in S
  BY <1>2, <1>3
<1>6. CASE n >= 0
  BY <1>4, <1>5, <1>6
<1>7. CASE n < 0
  <2>1. 1 .. n = 1 .. 0
    BY <1>7
  <2> QED
    BY <1>4, <1>5, <1>7, <2>1
<1> QED
  BY <1>6, <1>7

\* A list without slot s: s is not offered to a new file.
Without(list, s) == \A n \in DOMAIN list : list[n] # s

\* A top-up adds slots that are not in use, and positions past the table's end.
LEMMA TopUpIs ==
  ASSUME NEW list \in Seq(Nat), NEW S \in SUBSET Slots
  PROVE  /\ TopUp(list, S) \in Seq(Nat) /\ TopUp(list, S) # <<>>
         /\ \A s \in Slots \ S : Without(list, s) => Without(TopUp(list, S), s)
<1> DEFINE B == Tab .. Tab + Keep - 1
           U == S \cup B
           n == Keep - Len(list)
<1>1. Tab + Keep \in Nat /\ U \in SUBSET (0 .. Tab + Keep)
  BY DEF Slots
<1>2. IsFiniteSet(0 .. Tab + Keep)
  BY <1>1, FS_Interval
<1>3. IsFiniteSet(U)
  BY <1>1, <1>2, FS_Subset
<1>4. Cardinality(B) = Keep
  <2>1. Tab \in Int /\ Tab + Keep - 1 \in Int
    OBVIOUS
  <2>2. Cardinality(B) = IF Tab > Tab + Keep - 1 THEN 0 ELSE (Tab + Keep - 1) - Tab + 1
    BY <2>1, FS_Interval
  <2> QED
    BY <2>2
<1>5. Cardinality(B) <= Cardinality(U)
  BY <1>3, FS_Subset
<1>6. n \in Int /\ n <= Cardinality(U)
  <2>1. Cardinality(U) \in Nat
    BY <1>3, FS_CardinalityType
  <2> HIDE DEF U, B
  <2> QED
    BY <1>4, <1>5, <2>1
<1>7. /\ Smallest(U, n) \in Seq(Nat)
      /\ Len(Smallest(U, n)) = IF n >= 0 THEN n ELSE 0
      /\ \A m \in 1 .. n : Smallest(U, n)[m] \in U
  <2> HIDE DEF U, n
  <2> QED
    BY <1>1, <1>6, SmallestIs
<1>8. TopUp(list, S) = list \o Smallest(U, n)
  BY DEF TopUp
<1>9. TopUp(list, S) \in Seq(Nat) /\ Len(TopUp(list, S)) = Len(list) + Len(Smallest(U, n))
  <2> HIDE DEF U, n
  <2> QED
    BY <1>7, <1>8
<1>10. Len(TopUp(list, S)) > 0
  <2> HIDE DEF U
  <2> QED
    BY <1>7, <1>9
<1>11. ASSUME NEW s \in Slots \ S, Without(list, s)
       PROVE  Without(TopUp(list, S), s)
  <2>1. s \notin U
    BY DEF Slots
  <2> HIDE DEF U
  <2> DEFINE new == Smallest(U, n)
  <2>2. \A m \in 1 .. Len(new) : new[m] # s
    BY <1>6, <1>7, <2>1
  <2>3. new \in Seq(Nat) /\ TopUp(list, S) = list \o new
    BY <1>7, <1>8
  <2> HIDE DEF new
  <2>4. \A m \in 1 .. Len(list) : list[m] # s
    BY <1>11 DEF Without
  <2> QED
    BY <2>2, <2>3, <2>4 DEF Without
<1> QED
  BY <1>9, <1>10, <1>11

LEMMA RefilledIs ==
  ASSUME NEW L \in [v : Seq(Nat), k : Seq(Nat)]
  PROVE  /\ Refilled(L) \in [v : Seq(Nat), k : Seq(Nat)]
         /\ Refilled(L).v # <<>> /\ Refilled(L).k # <<>>
         /\ \A s \in Slots \ IdleV : Without(L.v, s) => Without(Refilled(L).v, s)
         /\ \A s \in Slots \ IdleK : Without(L.k, s) => Without(Refilled(L).k, s)
<1>1. IdleV \in SUBSET Slots /\ IdleK \in SUBSET Slots
  BY DEF IdleV, IdleK
<1>2. CASE L.v # <<>> /\ L.k # <<>>
  BY <1>2 DEF Refilled
<1>3. CASE ~(L.v # <<>> /\ L.k # <<>>)
  <2>1. Refilled(L) = [v |-> TopUp(L.v, IdleV), k |-> TopUp(L.k, IdleK)]
    BY <1>3 DEF Refilled
  <2> QED
    BY <1>1, <2>1, TopUpIs
<1> QED
  BY <1>2, <1>3

LEMMA TailWithout ==
  ASSUME NEW list \in Seq(Nat), list # <<>>, NEW s \in Nat, Without(list, s)
  PROVE  Tail(list) \in Seq(Nat) /\ Head(list) # s /\ Without(Tail(list), s)
<1>1. Len(list) \in Nat \ {0} /\ DOMAIN list = 1 .. Len(list)
  OBVIOUS
<1>2. Tail(list) \in Seq(Nat) /\ DOMAIN Tail(list) = 1 .. Len(list) - 1
  BY <1>1
<1>3. \A n \in 1 .. Len(list) - 1 : Tail(list)[n] = list[n + 1] /\ n + 1 \in 1 .. Len(list)
  BY <1>1
<1>4. Head(list) = list[1] /\ 1 \in 1 .. Len(list)
  BY <1>1
<1> QED
  BY <1>1, <1>2, <1>3, <1>4 DEF Without

\* A slot in use in both tables that is on no list is not handed out, and comes on
\* no list.
InUse(s) == s \notin IdleV /\ s \notin IdleK
Unlisted(L, s) == Without(L.v, s) /\ Without(L.k, s)

LEMMA RestIs ==
  ASSUME idle \in [v : Seq(Nat), k : Seq(Nat)]
  PROVE  /\ Rest \in [v : Seq(Nat), k : Seq(Nat)]
         /\ \A s \in Slots : InUse(s) /\ Unlisted(idle, s) =>
              NewV # s /\ NewK # s /\ Unlisted(Rest, s)
<1> DEFINE one == First
           mid == [v |-> Tail(one.v), k |-> one.k]
           two == Second
<1>1. one \in [v : Seq(Nat), k : Seq(Nat)] /\ one.v # <<>> /\ one.k # <<>>
  BY RefilledIs DEF First
<1>2. two = Refilled(mid)
  BY DEF Second
<1>3. NewV = Head(one.v) /\ NewK = Head(two.k) /\ Rest = [v |-> two.v, k |-> Tail(two.k)]
  BY DEF NewV, NewK, Rest
<1>4. \A s \in Slots : InUse(s) /\ Unlisted(idle, s) => Unlisted(one, s)
  BY RefilledIs DEF First, InUse, Unlisted
<1> HIDE DEF one, two
<1>5. mid \in [v : Seq(Nat), k : Seq(Nat)]
  BY <1>1
<1>6. two \in [v : Seq(Nat), k : Seq(Nat)] /\ two.v # <<>> /\ two.k # <<>>
  BY <1>2, <1>5, RefilledIs
<1>7. ASSUME NEW s \in Slots, InUse(s), Unlisted(idle, s)
      PROVE  NewV # s /\ NewK # s /\ Unlisted(Rest, s)
  <2>1. Unlisted(one, s) /\ s \in Nat
    BY <1>4, <1>7 DEF Slots
  <2>2. Head(one.v) # s /\ Without(mid.v, s) /\ Without(mid.k, s)
    BY <1>1, <2>1, TailWithout DEF Unlisted
  <2> HIDE DEF mid
  <2>3. Without(two.v, s) /\ Without(two.k, s)
    BY <1>2, <1>5, <1>7, <2>2, RefilledIs DEF InUse
  <2>4. Head(two.k) # s /\ Without(Tail(two.k), s)
    BY <1>6, <2>1, <2>3, TailWithout
  <2> QED
    BY <1>3, <2>2, <2>3, <2>4 DEF Unlisted
<1>8. Rest \in [v : Seq(Nat), k : Seq(Nat)]
  BY <1>3, <1>6
<1> QED
  BY <1>7, <1>8

----------------------------------------------------------------------------
(* Types.                                                                  *)

Lists == [v : Seq(Nat), k : Seq(Nat)]
VNodes == [used : BOOLEAN, i : Slots]
KNodes == [ino : Inos, live : BOOLEAN, len : 0 .. MaxLen, locked : BOOLEAN]
Nodes == [live : BOOLEAN, len : 0 .. MaxLen]
Descs == [v : Slots, off : 0 .. MaxLen, file : Inos]

TypeInv ==
  /\ phase \in {"up", "formatting", "leaving", "off", "hung"}
  /\ idle \in Lists
  /\ vtab \in [Slots -> VNodes]
  /\ ktab \in [Slots -> KNodes]
  /\ open \subseteq Fds
  /\ fds \in [Fds -> Descs]
  /\ inodes \in [Inos -> Nodes]
  /\ names \subseteq Files
  /\ ops \in 0 .. MaxOps
  /\ tidy \in BOOLEAN
  /\ home \in BOOLEAN
  /\ solo \in BOOLEAN
  /\ orphan \subseteq open

LEMMA SlotZero == 0 \in Slots /\ Root \in Inos /\ 0 \in 0 .. MaxLen /\ 1 \in 0 .. MaxLen
BY DEF Slots, Inos

LEMMA Samples ==
  NewRoot \in Nodes /\ NoInode \in Nodes /\ UnusedV \in VNodes /\ Closed \in Descs
BY SlotZero DEF NewRoot, NoInode, UnusedV, Closed, Nodes, VNodes, Descs

LEMMA IdleFdIs == FreeFds # {} => IdleFd \in FreeFds
<1> SUFFICES ASSUME FreeFds # {} PROVE IdleFd \in FreeFds
  OBVIOUS
<1>1. FreeFds \in SUBSET Nat
  BY DEF FreeFds
<1>2. \E d \in FreeFds : \A e \in FreeFds : d <= e
  BY <1>1, LeastIs
<1> QED
  BY <1>2 DEF IdleFd

LEMMA StoredIs ==
  ASSUME TypeInv, NEW s \in Slots
  PROVE  /\ Stored(s) \in Nodes
         /\ ktab[s].ino \in Inos /\ ktab[s].live \in BOOLEAN
         /\ ktab[s].len \in 0 .. MaxLen /\ ktab[s].locked \in BOOLEAN
<1>1. ktab[s] \in KNodes
  BY DEF TypeInv
<1> QED
  BY <1>1 DEF Stored, Nodes, KNodes

LEMMA SlotsOf ==
  ASSUME TypeInv, NEW d \in open
  PROVE  /\ d \in Fds /\ fds[d] \in Descs /\ fds[d].v \in Slots /\ fds[d].file \in Inos
         /\ fds[d].off \in 0 .. MaxLen
         /\ vtab[fds[d].v] \in VNodes /\ Islot(d) \in Slots
<1>1. d \in Fds /\ fds[d] \in Descs
  BY DEF TypeInv
<1>2. fds[d].v \in Slots /\ fds[d].file \in Inos /\ fds[d].off \in 0 .. MaxLen
  BY <1>1 DEF Descs
<1>3. vtab[fds[d].v] \in VNodes
  BY <1>2 DEF TypeInv
<1> QED
  BY <1>1, <1>2, <1>3 DEF Islot, VNodes

LEMMA FreshTypes ==
  ASSUME NEW root \in Nodes
  PROVE  /\ FreshIdle \in Lists /\ FreshV \in [Slots -> VNodes]
         /\ FreshK(root) \in [Slots -> KNodes] /\ FreshFds \in [Fds -> Descs]
<1>1. [n \in 1 .. Keep - 1 |-> n] \in Seq(Nat)
  <2>1. Keep - 1 \in Nat /\ [n \in 1 .. Keep - 1 |-> n] \in [1 .. Keep - 1 -> Nat]
    OBVIOUS
  <2> QED
    BY <2>1
<1>2. FreshIdle \in Lists
  BY <1>1 DEF FreshIdle, Lists
<1>3. FreshV \in [Slots -> VNodes]
  BY SlotZero DEF FreshV, UnusedV, VNodes
<1>4. FreshK(root) \in [Slots -> KNodes]
  BY SlotZero DEF FreshK, UnusedK, KNodes, Nodes
<1>5. FreshFds \in [Fds -> Descs]
  BY Samples DEF FreshFds
<1> QED
  BY <1>2, <1>3, <1>4, <1>5

\* Several fields of a kernel index node set one after another are one update.
LEMMA NodeIs ==
  ASSUME NEW t \in [Slots -> KNodes], NEW s \in Slots
  PROVE  /\ DOMAIN t = Slots
         /\ t[s] = [ino |-> t[s].ino, live |-> t[s].live, len |-> t[s].len,
                    locked |-> t[s].locked]
<1>1. t[s] \in KNodes
  OBVIOUS
<1> QED
  BY <1>1 DEF KNodes

LEMMA SetFile ==
  ASSUME NEW t \in [Slots -> KNodes], NEW s \in Slots, NEW a, NEW b \in BOOLEAN
  PROVE  [t EXCEPT ![s].ino = a, ![s].live = b] =
           [t EXCEPT ![s] = [ino |-> a, live |-> b, len |-> t[s].len, locked |-> t[s].locked]]
<1> DEFINE x == t[s]
           y == [x EXCEPT !.ino = a]
<1>0. x = [ino |-> x.ino, live |-> x.live, len |-> x.len, locked |-> x.locked]
  BY NodeIs
<1>1. y = [ino |-> a, live |-> x.live, len |-> x.len, locked |-> x.locked]
  BY <1>0
<1> HIDE DEF y
<1>2. [y EXCEPT !.live = b] = [ino |-> a, live |-> b, len |-> x.len, locked |-> x.locked]
  BY <1>1
<1> QED
  BY <1>2, NodeIs DEF y

LEMMA SetLen ==
  ASSUME NEW t \in [Slots -> KNodes], NEW s \in Slots, NEW c
  PROVE  [t EXCEPT ![s].len = c] =
           [t EXCEPT ![s] = [ino |-> t[s].ino, live |-> t[s].live, len |-> c,
                             locked |-> t[s].locked]]
<1> DEFINE x == t[s]
<1>0. x = [ino |-> x.ino, live |-> x.live, len |-> x.len, locked |-> x.locked]
  BY NodeIs
<1>1. [x EXCEPT !.len = c] = [ino |-> x.ino, live |-> x.live, len |-> c, locked |-> x.locked]
  BY <1>0
<1> QED
  BY <1>1, NodeIs

Node(t, s, a, b, c) == [t EXCEPT ![s].ino = a, ![s].live = b, ![s].len = c]

LEMMA SetNode ==
  ASSUME NEW t \in [Slots -> KNodes], NEW s \in Slots, NEW a, NEW b, NEW c
  PROVE  Node(t, s, a, b, c) =
           [t EXCEPT ![s] = [ino |-> a, live |-> b, len |-> c, locked |-> t[s].locked]]
<1> DEFINE x == t[s]
           y == [x EXCEPT !.ino = a]
           z == [y EXCEPT !.live = b]
<1>0. x = [ino |-> x.ino, live |-> x.live, len |-> x.len, locked |-> x.locked]
  BY NodeIs
<1>1. y = [ino |-> a, live |-> x.live, len |-> x.len, locked |-> x.locked]
  BY <1>0
<1> HIDE DEF y
<1>2. z = [ino |-> a, live |-> b, len |-> x.len, locked |-> x.locked]
  BY <1>1
<1> HIDE DEF z
<1>3. [z EXCEPT !.len = c] = [ino |-> a, live |-> b, len |-> c, locked |-> x.locked]
  BY <1>2
<1> QED
  BY <1>3, NodeIs DEF y, z, Node

LEMMA TypeInit == Init => TypeInv
<1> SUFFICES ASSUME Init PROVE TypeInv
  OBVIOUS
<1>1. inodes \in [Inos -> Nodes]
  BY Samples DEF Init
<1>2. 0 \in 0 .. MaxOps
  OBVIOUS
<1> QED
  BY <1>1, <1>2, Samples, FreshTypes DEF Init, TypeInv

\* A command: the session goes on, and is counted.
LEMMA TypeOp ==
  ASSUME TypeInv, Op
  PROVE  phase = "up" /\ ops' \in 0 .. MaxOps
BY DEF TypeInv, Op

LEMMA TypeMount == TypeInv /\ Mount => TypeInv'
<1> SUFFICES ASSUME TypeInv, Mount PROVE TypeInv'
  OBVIOUS
<1>1. inodes[Root] \in Nodes /\ inodes[Root].live \in BOOLEAN
  BY SlotZero DEF TypeInv, Nodes
<1>2. ops' \in 0 .. MaxOps
  BY DEF Mount, TypeInv
<1> QED
  BY <1>1, <1>2, FreshTypes DEF Mount, TypeInv

LEMMA TypeSlots ==
  ASSUME TypeInv, TakesSlots
  PROVE  /\ idle' \in Lists /\ NewV \in Slots /\ NewK \in Slots
         /\ tidy' \in BOOLEAN /\ home' \in BOOLEAN /\ solo' \in BOOLEAN
<1>1. idle' \in Lists
  BY RestIs DEF TypeInv, TakesSlots, Lists
<1>2. NewV \in Slots /\ NewK \in Slots
  BY DEF TakesSlots, InTable
<1> QED
  BY <1>1, <1>2 DEF TypeInv, TakesSlots

LEMMA TypeTouch == ASSUME TypeInv, NEW f \in Files, Touch(f) PROVE TypeInv'
<1>1. /\ idle' \in Lists /\ NewV \in Slots /\ NewK \in Slots
      /\ tidy' \in BOOLEAN /\ home' \in BOOLEAN /\ solo' \in BOOLEAN
  BY TypeSlots DEF Touch
<1>2. f \in Inos /\ [live |-> TRUE, len |-> 0] \in Nodes
  BY SlotZero DEF Inos, Nodes
<1>3. inodes' \in [Inos -> Nodes] /\ names' \subseteq Files
  BY <1>2 DEF Touch, TypeInv
<1>4. vtab' \in [Slots -> VNodes]
  BY Samples DEF Touch, TypeInv
<1>5. ktab' = [ktab EXCEPT ![NewK] = [ino |-> Root, live |-> FALSE, len |-> 0,
                                      locked |-> ktab[NewK].locked]]
  <2>1. ktab \in [Slots -> KNodes]
    BY DEF TypeInv
  <2> DEFINE no == FALSE
             zero == 0
  <2>2. ktab' = Node(ktab, NewK, Root, no, zero)
    BY DEF Touch, Node
  <2> HIDE DEF no, zero
  <2>3. ktab' = [ktab EXCEPT ![NewK] = [ino |-> Root, live |-> no, len |-> zero,
                                        locked |-> ktab[NewK].locked]]
    BY <1>1, <2>1, <2>2, SetNode
  <2> QED
    BY <2>3 DEF no, zero
<1>6. [ino |-> Root, live |-> FALSE, len |-> 0, locked |-> ktab[NewK].locked] \in KNodes
  BY <1>1, SlotZero, StoredIs DEF KNodes
<1>7. ktab' \in [Slots -> KNodes]
  BY <1>5, <1>6 DEF TypeInv
<1>8. phase = "up" /\ ops' \in 0 .. MaxOps
  BY TypeOp DEF Touch
<1> QED
  BY <1>1, <1>3, <1>4, <1>7, <1>8 DEF Touch, TypeInv

LEMMA TypeFailsToOpen == TypeInv /\ FailsToOpen => TypeInv'
<1> SUFFICES ASSUME TypeInv, FailsToOpen PROVE TypeInv'
  OBVIOUS
<1>1. idle' \in Lists /\ tidy' \in BOOLEAN /\ home' \in BOOLEAN /\ solo' \in BOOLEAN
  BY TypeSlots DEF FailsToOpen
<1>2. phase = "up" /\ ops' \in 0 .. MaxOps
  BY TypeOp DEF FailsToOpen
<1> QED
  BY <1>1, <1>2 DEF FailsToOpen, TypeInv, tables

LEMMA OpenNode ==
  ASSUME TypeInv, NEW f \in Inos, Open(f)
  PROVE  ktab' = [ktab EXCEPT ![NewK] = [ino |-> f, live |-> TRUE, len |-> inodes[f].len,
                                         locked |-> ktab[NewK].locked]]
<1>1. ktab \in [Slots -> KNodes] /\ NewK \in Slots
  BY TypeSlots DEF Open, TypeInv
<1>2. ktab' = Node(ktab, NewK, f, TRUE, inodes[f].len)
  BY DEF Open, Node
<1> QED
  BY <1>1, <1>2, SetNode

LEMMA TypeOpen == ASSUME TypeInv, NEW f \in Inos, Open(f) PROVE TypeInv'
<1>1. /\ idle' \in Lists /\ NewV \in Slots /\ NewK \in Slots
      /\ tidy' \in BOOLEAN /\ home' \in BOOLEAN /\ solo' \in BOOLEAN
  BY TypeSlots DEF Open
<1>2. IdleFd \in Fds
  BY IdleFdIs DEF Open, FreeFds
<1>3. inodes[f].live \in BOOLEAN /\ inodes[f].len \in 0 .. MaxLen
  BY DEF TypeInv, Nodes
<1>4. vtab' \in [Slots -> VNodes]
  <2>1. [used |-> TRUE, i |-> NewK] \in VNodes
    BY <1>1 DEF VNodes
  <2> QED
    BY <2>1 DEF Open, TypeInv
<1>5. ktab' = [ktab EXCEPT ![NewK] = [ino |-> f, live |-> TRUE, len |-> inodes[f].len,
                                      locked |-> ktab[NewK].locked]]
  BY OpenNode
<1>6. [ino |-> f, live |-> TRUE, len |-> inodes[f].len, locked |-> ktab[NewK].locked] \in KNodes
  BY <1>1, <1>3, StoredIs DEF KNodes
<1>7. ktab' \in [Slots -> KNodes]
  BY <1>5, <1>6 DEF TypeInv
<1>8. fds' \in [Fds -> Descs]
  <2>1. PICK off \in {0, inodes[f].len} :
          fds' = [fds EXCEPT ![IdleFd] = [v |-> NewV, off |-> off, file |-> f]]
    BY DEF Open
  <2>2. [v |-> NewV, off |-> off, file |-> f] \in Descs
    BY <1>1, <1>3, SlotZero DEF Descs
  <2> QED
    BY <2>1, <2>2 DEF TypeInv
<1>9. phase = "up" /\ ops' \in 0 .. MaxOps
  BY TypeOp DEF Open
<1> QED
  BY <1>1, <1>2, <1>4, <1>7, <1>8, <1>9 DEF Open, TypeInv

LEMMA TypeCloses ==
  ASSUME TypeInv, NEW d \in open, Closes(d)
  PROVE  /\ inodes' \in [Inos -> Nodes] /\ vtab' \in [Slots -> VNodes]
         /\ ktab' = [ktab EXCEPT ![Islot(d)] = [ino |-> Root, live |-> FALSE,
                       len |-> ktab[Islot(d)].len, locked |-> ktab[Islot(d)].locked]]
         /\ ktab' \in [Slots -> KNodes] /\ fds' \in [Fds -> Descs]
         /\ open' \subseteq Fds /\ orphan' \subseteq open' /\ home' \in BOOLEAN
<1>1. Islot(d) \in Slots
  BY SlotsOf
<1>2. inodes' \in [Inos -> Nodes]
  BY <1>1, StoredIs DEF TypeInv, Closes
<1>3. vtab' \in [Slots -> VNodes] /\ fds' \in [Fds -> Descs]
  BY Samples DEF TypeInv, Closes
<1>4. ktab' = [ktab EXCEPT ![Islot(d)] = [ino |-> Root, live |-> FALSE,
                 len |-> ktab[Islot(d)].len, locked |-> ktab[Islot(d)].locked]]
  <2>1. ktab \in [Slots -> KNodes]
    BY DEF TypeInv
  <2>2. ktab' = [ktab EXCEPT ![Islot(d)].ino = Root, ![Islot(d)].live = FALSE]
    BY DEF Closes
  <2> QED
    BY <1>1, <2>1, <2>2, SetFile
<1>5. [ino |-> Root, live |-> FALSE, len |-> ktab[Islot(d)].len,
       locked |-> ktab[Islot(d)].locked] \in KNodes
  BY <1>1, SlotZero, StoredIs DEF KNodes
<1>6. ktab' \in [Slots -> KNodes]
  BY <1>4, <1>5 DEF TypeInv
<1>7. open' \subseteq Fds /\ orphan' \subseteq open'
  BY DEF TypeInv, Closes
<1>8. home' \in BOOLEAN
  BY DEF TypeInv, Closes
<1> QED
  BY <1>2, <1>3, <1>4, <1>6, <1>7, <1>8

LEMMA TypeClose == ASSUME TypeInv, NEW d \in Fds, Close(d) PROVE TypeInv'
<1>1. phase = "up" /\ ops' \in 0 .. MaxOps
  BY TypeOp DEF Close
<1>2. /\ inodes' \in [Inos -> Nodes] /\ vtab' \in [Slots -> VNodes]
      /\ ktab' \in [Slots -> KNodes] /\ fds' \in [Fds -> Descs]
      /\ open' \subseteq Fds /\ orphan' \subseteq open' /\ home' \in BOOLEAN
  BY TypeCloses DEF Close
<1> QED
  BY <1>1, <1>2 DEF Close, TypeInv

LEMMA TypeCloseNext == TypeInv /\ CloseNext => TypeInv'
<1> SUFFICES ASSUME TypeInv, CloseNext PROVE TypeInv'
  OBVIOUS
<1>1. PICK d \in ToClose : Closes(d)
  BY DEF CloseNext
<1>2. d \in open
  BY DEF ToClose
<1>3. /\ inodes' \in [Inos -> Nodes] /\ vtab' \in [Slots -> VNodes]
      /\ ktab' \in [Slots -> KNodes] /\ fds' \in [Fds -> Descs]
      /\ open' \subseteq Fds /\ orphan' \subseteq open' /\ home' \in BOOLEAN
  BY <1>1, <1>2, TypeCloses
<1> QED
  BY <1>3 DEF CloseNext, TypeInv

\* A new length of a kernel index node, stored in the file system as well.
LEMMA TypeLen ==
  ASSUME TypeInv, NEW s \in Slots, NEW len \in 0 .. MaxLen,
         ktab' = [ktab EXCEPT ![s].len = len],
         inodes' = [inodes EXCEPT ![ktab[s].ino] = [live |-> ktab[s].live, len |-> len]]
  PROVE  /\ ktab' = [ktab EXCEPT ![s] = [ino |-> ktab[s].ino, live |-> ktab[s].live,
                                         len |-> len, locked |-> ktab[s].locked]]
         /\ ktab' \in [Slots -> KNodes] /\ inodes' \in [Inos -> Nodes]
<1>1. ktab \in [Slots -> KNodes]
  BY DEF TypeInv
<1>2. ktab' = [ktab EXCEPT ![s] = [ino |-> ktab[s].ino, live |-> ktab[s].live,
                                   len |-> len, locked |-> ktab[s].locked]]
  BY <1>1, SetLen
<1>3. [ino |-> ktab[s].ino, live |-> ktab[s].live, len |-> len,
       locked |-> ktab[s].locked] \in KNodes
  BY StoredIs DEF KNodes
<1>4. [live |-> ktab[s].live, len |-> len] \in Nodes
  BY StoredIs DEF Nodes
<1>5. ktab' \in [Slots -> KNodes]
  BY <1>1, <1>2, <1>3
<1>6. inodes' \in [Inos -> Nodes]
  BY <1>4 DEF TypeInv
<1> QED
  BY <1>2, <1>5, <1>6

\* A new offset of a descriptor.
LEMMA TypeOff ==
  ASSUME TypeInv, NEW d \in open, NEW off \in 0 .. MaxLen, fds' = [fds EXCEPT ![d].off = off]
  PROVE  /\ fds' \in [Fds -> Descs]
         /\ \A e \in Fds : fds'[e].v = fds[e].v /\ fds'[e].file = fds[e].file
<1>1. d \in Fds /\ fds \in [Fds -> Descs] /\ fds[d] \in Descs
  BY SlotsOf DEF TypeInv
<1>2. /\ [fds[d] EXCEPT !.off = off] \in Descs
      /\ [fds[d] EXCEPT !.off = off].v = fds[d].v
      /\ [fds[d] EXCEPT !.off = off].file = fds[d].file
  BY <1>1 DEF Descs
<1>3. fds' = [fds EXCEPT ![d] = [fds[d] EXCEPT !.off = off]]
  BY <1>1
<1> QED
  BY <1>1, <1>2, <1>3

LEMMA TypeLseek ==
  ASSUME TypeInv, NEW d \in Fds, NEW off \in 0 .. MaxLen, Lseek(d, off)
  PROVE  TypeInv'
<1>1. d \in open /\ fds[d].v \in Slots
  BY SlotsOf DEF Lseek
<1>2. fds' \in [Fds -> Descs]
  BY <1>1, TypeOff DEF Lseek
<1>3. ktab' \in [Slots -> KNodes] /\ inodes' \in [Inos -> Nodes]
  BY <1>1, TypeLen DEF Lseek, TypeInv
<1>4. phase = "up" /\ ops' \in 0 .. MaxOps
  BY TypeOp DEF Lseek
<1> QED
  BY <1>2, <1>3, <1>4 DEF Lseek, TypeInv

LEMMA TypeRead ==
  ASSUME TypeInv, NEW d \in Fds, NEW n \in 1 .. MaxLen, Read(d, n)
  PROVE  TypeInv'
<1>1. d \in open /\ ktab[Islot(d)].len \in 0 .. MaxLen /\ fds[d].off \in 0 .. MaxLen
  BY SlotsOf, StoredIs DEF Read
<1>2. Shorter(fds[d].off + n, ktab[Islot(d)].len) \in 0 .. MaxLen
  BY <1>1 DEF Shorter
<1>3. fds' \in [Fds -> Descs]
  BY <1>1, <1>2, TypeOff DEF Read
<1>4. phase = "up" /\ ops' \in 0 .. MaxOps
  BY TypeOp DEF Read
<1> QED
  BY <1>3, <1>4 DEF Read, TypeInv

LEMMA TypeWrite ==
  ASSUME TypeInv, NEW d \in Fds, NEW n \in 1 .. MaxLen, Write(d, n)
  PROVE  TypeInv'
<1> DEFINE end == Shorter(fds[d].off + n, MaxLen)
           len == Longer(ktab[Islot(d)].len, end)
<1>1. /\ d \in open /\ Islot(d) \in Slots /\ ktab[Islot(d)].len \in 0 .. MaxLen
      /\ fds[d].off \in 0 .. MaxLen
  BY SlotsOf, StoredIs DEF Write
<1>2. end \in 0 .. MaxLen
  BY <1>1 DEF Shorter
<1>3. len \in 0 .. MaxLen
  <2> HIDE DEF end
  <2> QED
    BY <1>1, <1>2 DEF Longer
<1>4. phase = "up" /\ ops' \in 0 .. MaxOps
  BY TypeOp DEF Write
<1>5. CASE Writes(d, n)
  <2>1. /\ ktab' = [ktab EXCEPT ![Islot(d)].len = len]
        /\ inodes' = [inodes EXCEPT ![ktab[Islot(d)].ino] =
                        [live |-> ktab[Islot(d)].live, len |-> len]]
        /\ fds' = [fds EXCEPT ![d].off = end]
    BY <1>5 DEF Writes
  <2> HIDE DEF end, len
  <2>2. ktab' \in [Slots -> KNodes] /\ inodes' \in [Inos -> Nodes]
    BY <1>1, <1>3, <2>1, TypeLen
  <2>3. fds' \in [Fds -> Descs]
    BY <1>1, <1>2, <2>1, TypeOff
  <2> QED
    BY <1>4, <2>2, <2>3 DEF Write, TypeInv
<1>6. CASE ~Writes(d, n)
  <2>1. ktab' = [ktab EXCEPT ![Islot(d)].locked = TRUE] /\ UNCHANGED <<inodes, fds>>
    BY <1>6 DEF Write
  <2>2. ktab \in [Slots -> KNodes] /\ ktab[Islot(d)] \in KNodes
    BY <1>1 DEF TypeInv
  <2>3. [ktab[Islot(d)] EXCEPT !.locked = TRUE] \in KNodes
    BY <2>2 DEF KNodes
  <2>4. ktab' \in [Slots -> KNodes]
    BY <1>1, <2>1, <2>2, <2>3
  <2> QED
    BY <1>4, <2>1, <2>4 DEF Write, TypeInv
<1> QED
  BY <1>5, <1>6

LEMMA TypeRm == ASSUME TypeInv, NEW f \in Files, Rm(f) PROVE TypeInv'
<1>1. inodes' \in [Inos -> Nodes]
  BY Samples DEF Rm, TypeInv
<1>2. phase = "up" /\ ops' \in 0 .. MaxOps
  BY TypeOp DEF Rm
<1> QED
  BY <1>1, <1>2 DEF Rm, TypeInv, tables

LEMMA TypeOther ==
  ASSUME TypeInv, (\E d \in Fds : WriteHangs(d)) \/ StartFormat \/ Exit
  PROVE  TypeInv'
<1>1. phase = "up" /\ ops' \in 0 .. MaxOps
  BY TypeOp DEF WriteHangs, StartFormat, Exit
<1> QED
  BY <1>1 DEF WriteHangs, StartFormat, Exit, TypeInv, tables

LEMMA TypeFinishFormat == ASSUME TypeInv, NEW kept, FinishFormat(kept) PROVE TypeInv'
<1>1. ktab' \in [Slots -> KNodes]
  <2>1. ktab \in [Slots -> KNodes] /\ ktab[0] \in KNodes
    BY SlotZero DEF TypeInv
  <2>2. [ktab[0] EXCEPT !.len = 1] \in KNodes
    BY <2>1, SlotZero DEF KNodes
  <2> QED
    BY <2>1, <2>2, SlotZero DEF FinishFormat
<1>2. inodes' \in [Inos -> Nodes]
  <2>1. [live |-> ktab[0].live, len |-> 1] \in Nodes
    BY SlotZero, StoredIs DEF Nodes
  <2> QED
    BY <2>1, Samples DEF FinishFormat, TypeInv
<1>3. orphan' \subseteq open
  BY DEF FinishFormat, TypeInv
<1> QED
  BY <1>1, <1>2, <1>3 DEF FinishFormat, TypeInv

LEMMA TypeFinishExit == TypeInv /\ FinishExit => TypeInv'
<1> SUFFICES ASSUME TypeInv, FinishExit PROVE TypeInv'
  OBVIOUS
<1>1. inodes \in [Inos -> Nodes] /\ inodes[Root] \in Nodes
  BY SlotZero DEF TypeInv
<1>2. [inodes[Root] EXCEPT !.len = 1] \in Nodes
  BY <1>1, SlotZero DEF Nodes
<1>3. inodes' \in [Inos -> Nodes]
  BY <1>1, <1>2 DEF FinishExit
<1> QED
  BY <1>3 DEF FinishExit, TypeInv, tables

LEMMA TypeNext == TypeInv /\ [Next]_vars => TypeInv'
<1> SUFFICES ASSUME TypeInv, [Next]_vars PROVE TypeInv'
  OBVIOUS
<1>1. CASE Mount \/ FailsToOpen \/ CloseNext \/ FinishExit
  BY <1>1, TypeMount, TypeFailsToOpen, TypeCloseNext, TypeFinishExit
<1>2. CASE \E f \in Files : Touch(f) \/ Rm(f)
  BY <1>2, TypeTouch, TypeRm
<1>3. CASE \E f \in Inos : Open(f)
  BY <1>3, TypeOpen
<1>4. CASE \E d \in Fds : Close(d) \/ WriteHangs(d)
  BY <1>4, TypeClose, TypeOther
<1>5. CASE \E d \in Fds, off \in 0 .. MaxLen : Lseek(d, off)
  BY <1>5, TypeLseek
<1>6. CASE \E d \in Fds, n \in 1 .. MaxLen : Read(d, n) \/ Write(d, n)
  BY <1>6, TypeRead, TypeWrite
<1>7. CASE StartFormat \/ Exit
  BY <1>7, TypeOther
<1>8. CASE FinishFormat(names) \/ FinishFormat({})
  BY <1>8, TypeFinishFormat
<1>9. CASE UNCHANGED vars
  BY <1>9 DEF vars, TypeInv
<1> QED
  BY <1>1, <1>2, <1>3, <1>4, <1>5, <1>6, <1>7, <1>8, <1>9 DEF Next

LEMMA TypeAlways == Spec => []TypeInv
BY TypeInit, TypeNext, PTL DEF Spec

\* Lists hold numbers, table entries point to slots of the tables, offsets and
\* lengths stay within the longest file and orphans are open, for any size of the
\* tables and of the lists.
THEOREM TypeCorrect == Spec => []TypeOK
<1>1. TypeInv => TypeOK
  BY DEF TypeInv, TypeOK, Lists, VNodes, KNodes, Descs, Nodes
<1> QED
  BY <1>1, TypeAlways, PTL

----------------------------------------------------------------------------
(* Descriptors while the lists have not been topped up.                    *)

\* The lists count upwards, from above every slot in use.
Counts(list, j) == Len(list) = Keep - j /\ \A n \in 1 .. Keep - j : list[n] = n + j - 1
Ordered == \E j \in 1 .. Keep : /\ Counts(idle.v, j) /\ Counts(idle.k, j)
                                /\ \A d \in open : fds[d].v < j

OwnSlots ==
  \A d \in open :
    /\ vtab[fds[d].v] = [used |-> TRUE, i |-> fds[d].v]
    /\ ktab[fds[d].v].ino = fds[d].file
    /\ fds[d].v = 0 => fds[d].file = Root
    /\ \A e \in open \ {d} : fds[e].v # fds[d].v /\ fds[e].file # fds[d].file

Through ==
  \A d \in open \ orphan :
    /\ fds[d].file \in names \cup {Root}
    /\ fds[d].file # Root \/ fds[d].v = 0 => inodes[fds[d].file] = Stored(fds[d].v)

TidyInv == TypeInv /\ (tidy => Ordered /\ OwnSlots /\ Through)

LEMMA TidyIslot ==
  ASSUME OwnSlots, NEW d \in open
  PROVE  Islot(d) = fds[d].v
<1>1. vtab[fds[d].v] = [used |-> TRUE, i |-> fds[d].v]
  BY DEF OwnSlots
<1> QED
  BY <1>1 DEF Islot

LEMMA NotEmpty ==
  ASSUME NEW list \in Seq(Nat), list # <<>>
  PROVE  Len(list) \in Nat \ {0}
OBVIOUS

LEMMA CountsOn ==
  ASSUME NEW list \in Seq(Nat), list # <<>>, NEW j \in 1 .. Keep, Counts(list, j)
  PROVE  Head(list) = j /\ j + 1 \in 1 .. Keep /\ Counts(Tail(list), j + 1)
<1>1. Len(list) \in Nat \ {0} /\ Len(list) = Keep - j
  BY NotEmpty DEF Counts
<1>2. \A n \in 1 .. Keep - j : list[n] = n + j - 1
  BY DEF Counts
<1>3. Head(list) = list[1]
  BY <1>1
<1>4. Head(list) = j /\ j + 1 \in 1 .. Keep
  BY <1>1, <1>2, <1>3
<1>5. Len(Tail(list)) = Keep - (j + 1)
  BY <1>1
<1>6. ASSUME NEW n \in 1 .. Keep - (j + 1) PROVE Tail(list)[n] = n + (j + 1) - 1
  <2>1. n + 1 \in 1 .. Keep - j /\ n \in 1 .. Len(list) - 1
    BY <1>1
  <2>2. Tail(list)[n] = list[n + 1]
    BY <2>1
  <2>3. list[n + 1] = n + 1 + j - 1
    BY <1>2, <2>1
  <2> QED
    BY <2>1, <2>2, <2>3
<1> QED
  BY <1>4, <1>5, <1>6 DEF Counts

\* Both slots of a new file have the next number, and the lists count on.
LEMMA TidySlots ==
  ASSUME TidyInv, TakesSlots, tidy'
  PROVE  /\ tidy
         /\ \E j \in 1 .. Keep : /\ NewV = j /\ NewK = j /\ j + 1 \in 1 .. Keep
                                 /\ Counts(idle'.v, j + 1) /\ Counts(idle'.k, j + 1)
                                 /\ \A d \in open : fds[d].v < j
<1>1. tidy /\ ~ToppedUp /\ idle \in Lists
  BY DEF TakesSlots, TidyInv, TypeInv
<1>2. PICK j \in 1 .. Keep : /\ Counts(idle.v, j) /\ Counts(idle.k, j)
                             /\ \A d \in open : fds[d].v < j
  BY <1>1 DEF TidyInv, Ordered
<1>3. idle.v # <<>> /\ idle.k # <<>> /\ Tail(idle.v) # <<>>
  BY <1>1 DEF ToppedUp
<1>4. idle.v \in Seq(Nat) /\ idle.k \in Seq(Nat)
  BY <1>1 DEF Lists
<1>5. First = idle
  BY <1>3 DEF First, Refilled
<1>6. Second = [v |-> Tail(idle.v), k |-> idle.k]
  BY <1>3, <1>5 DEF Second, Refilled
<1>7. NewV = Head(idle.v) /\ NewK = Head(idle.k)
  BY <1>5, <1>6 DEF NewV, NewK
<1>8. idle' = [v |-> Tail(idle.v), k |-> Tail(idle.k)]
  BY <1>6 DEF TakesSlots, Rest
<1>9. /\ Head(idle.v) = j /\ Counts(Tail(idle.v), j + 1) /\ j + 1 \in 1 .. Keep
      /\ Head(idle.k) = j /\ Counts(Tail(idle.k), j + 1)
  BY <1>2, <1>3, <1>4, CountsOn
<1> QED
  BY <1>1, <1>2, <1>7, <1>8, <1>9

LEMMA FreshCounts == Counts(FreshIdle.v, 1) /\ Counts(FreshIdle.k, 1)
<1> DEFINE list == [n \in 1 .. Keep - 1 |-> n]
<1>1. Keep - 1 \in Nat /\ Len(list) = Keep - 1
  OBVIOUS
<1>2. \A n \in 1 .. Keep - 1 : list[n] = n + 1 - 1
  OBVIOUS
<1>3. FreshIdle = [v |-> list, k |-> list]
  BY DEF FreshIdle
<1> HIDE DEF list
<1> QED
  BY <1>1, <1>2, <1>3 DEF Counts

LEMMA TidyFresh ==
  ASSUME TypeInv', inodes'[Root] \in Nodes,
         idle' = FreshIdle, vtab' = FreshV, ktab' = FreshK(inodes'[Root]),
         open' = {0}, fds' = FreshFds, orphan' = {}
  PROVE  TidyInv'
<1>1. Ordered'
  <2>1. Counts(FreshIdle.v, 1) /\ Counts(FreshIdle.k, 1)
    BY FreshCounts
  <2>2. fds'[0].v = 0 /\ 1 \in 1 .. Keep
    BY DEF FreshFds, Closed
  <2> QED
    BY <2>1, <2>2 DEF Ordered
<1>2. fds'[0] = Closed
  BY DEF FreshFds
<1>3. fds'[0].v = 0 /\ fds'[0].file = Root
  BY <1>2 DEF Closed
<1>4. vtab'[0] = [used |-> TRUE, i |-> 0]
  BY SlotZero DEF FreshV
<1>5. ktab'[0] = [ino |-> Root, live |-> inodes'[Root].live, len |-> inodes'[Root].len,
                  locked |-> FALSE]
  BY SlotZero DEF FreshK
<1>6. OwnSlots'
  <2>1. ktab'[0].ino = Root
    BY <1>5
  <2> QED
    BY <1>3, <1>4, <2>1 DEF OwnSlots
<1>7. Through'
  <2>1. Stored(0)' = inodes'[Root]
    BY <1>5 DEF Stored, Nodes
  <2> QED
    BY <1>3, <2>1 DEF Through
<1> QED
  BY <1>1, <1>6, <1>7 DEF TidyInv

LEMMA TidyInit == Init => TidyInv
<1> SUFFICES ASSUME Init PROVE TidyInv
  OBVIOUS
<1>1. Ordered
  <2>1. Counts(FreshIdle.v, 1) /\ Counts(FreshIdle.k, 1)
    BY FreshCounts
  <2>2. fds[0].v = 0 /\ 1 \in 1 .. Keep
    BY DEF Init, FreshFds, Closed
  <2> QED
    BY <2>1, <2>2 DEF Init, Ordered
<1>2. fds[0].v = 0 /\ fds[0].file = Root
  BY DEF Init, FreshFds, Closed
<1>3. vtab[0] = [used |-> TRUE, i |-> 0]
  BY SlotZero DEF Init, FreshV
<1>4. ktab[0] = [ino |-> Root, live |-> TRUE, len |-> 1, locked |-> FALSE]
  BY SlotZero DEF Init, FreshK, NewRoot
<1>5. OwnSlots
  <2>1. ktab[0].ino = Root /\ open = {0}
    BY <1>4 DEF Init
  <2> QED
    BY <1>2, <1>3, <2>1 DEF OwnSlots
<1>6. Through
  <2>1. Stored(0) = NewRoot
    BY <1>4 DEF Stored, NewRoot
  <2>2. inodes[Root] = NewRoot
    BY SlotZero DEF Init
  <2> QED
    BY <1>2, <2>1, <2>2 DEF Init, Through
<1> QED
  BY <1>1, <1>5, <1>6, TypeInit DEF TidyInv

\* Descriptors that stay as they are, with their slots.
LEMMA OwnKept ==
  ASSUME Ordered, OwnSlots, idle' = idle, open' \subseteq open,
         \A d \in open' : /\ fds'[d].v = fds[d].v /\ fds'[d].file = fds[d].file
                          /\ vtab'[fds[d].v] = vtab[fds[d].v]
                          /\ ktab'[fds[d].v].ino = ktab[fds[d].v].ino
  PROVE  Ordered' /\ OwnSlots'
<1>1. Ordered'
  BY DEF Ordered
<1>2. OwnSlots'
  BY DEF OwnSlots
<1> QED
  BY <1>1, <1>2

\* An index node other than those of the open files is written, and slots other
\* than theirs; the rest of the histories follows.
LEMMA TidyTouch == ASSUME TidyInv, NEW f \in Files, Touch(f), tidy' PROVE TidyInv'
<1>1. TypeInv' /\ tidy /\ OwnSlots /\ Through /\ TypeInv
  BY TypeTouch, TidySlots DEF TidyInv, Touch
<1>2. PICK j \in 1 .. Keep :
        /\ NewV = j /\ NewK = j /\ j + 1 \in 1 .. Keep
        /\ Counts(idle'.v, j + 1) /\ Counts(idle'.k, j + 1)
        /\ \A d \in open : fds[d].v < j
  BY TidySlots DEF Touch
<1>3. open' = open /\ fds' = fds /\ orphan' = orphan /\ names' = names \cup {f}
  BY DEF Touch
<1>4. \A d \in open : fds[d].v \in Slots /\ fds[d].v < j /\ fds[d].file \in Inos
  BY <1>1, <1>2, SlotsOf
<1>5. \A d \in open : vtab'[fds[d].v] = vtab[fds[d].v] /\ ktab'[fds[d].v] = ktab[fds[d].v]
  BY <1>1, <1>2, <1>4 DEF Touch, TypeInv
<1>6. Ordered'
  <2>1. \A d \in open' : fds'[d].v < j + 1
    BY <1>3, <1>4 DEF Slots
  <2> QED
    BY <1>2, <2>1 DEF Ordered
<1>7. OwnSlots'
  BY <1>1, <1>3, <1>5 DEF OwnSlots
<1>8. Through'
  <2> SUFFICES ASSUME NEW d \in open \ orphan
               PROVE  /\ fds[d].file \in names' \cup {Root}
                      /\ fds[d].file # Root \/ fds[d].v = 0 =>
                           inodes'[fds[d].file] = Stored(fds[d].v)'
    BY <1>3 DEF Through
  <2>1. fds[d].file \in names \cup {Root} /\ fds[d].file # f /\ fds[d].file \in Inos
    BY <1>1, <1>4 DEF Through, Touch
  <2>2. inodes'[fds[d].file] = inodes[fds[d].file]
    BY <1>1, <2>1 DEF Touch, TypeInv
  <2>3. Stored(fds[d].v)' = Stored(fds[d].v)
    BY <1>3, <1>5 DEF Stored
  <2> QED
    BY <1>1, <1>3, <2>1, <2>2, <2>3 DEF Through
<1> QED
  BY <1>1, <1>6, <1>7, <1>8 DEF TidyInv

LEMMA TidyFailsToOpen == ASSUME TidyInv, FailsToOpen, tidy' PROVE TidyInv'
<1>1. TypeInv' /\ tidy /\ OwnSlots /\ Through /\ TypeInv
  BY TypeFailsToOpen, TidySlots DEF TidyInv, FailsToOpen
<1>2. PICK j \in 1 .. Keep :
        /\ j + 1 \in 1 .. Keep /\ Counts(idle'.v, j + 1) /\ Counts(idle'.k, j + 1)
        /\ \A d \in open : fds[d].v < j
  BY TidySlots DEF FailsToOpen
<1>3. UNCHANGED <<vtab, ktab, open, fds, inodes, names, orphan>>
  BY DEF FailsToOpen, tables
<1>4. Ordered'
  <2>1. \A d \in open' : fds'[d].v < j + 1
    BY <1>1, <1>2, <1>3, SlotsOf DEF Slots
  <2> QED
    BY <1>2, <2>1 DEF Ordered
<1>5. OwnSlots' /\ Through'
  BY <1>1, <1>3 DEF OwnSlots, Through, Stored
<1> QED
  BY <1>1, <1>4, <1>5 DEF TidyInv

LEMMA TidyOpen == ASSUME TidyInv, NEW f \in Inos, Open(f), tidy' PROVE TidyInv'
<1>1. TypeInv' /\ tidy /\ OwnSlots /\ Through /\ TypeInv
  BY TypeOpen, TidySlots DEF TidyInv, Open
<1>2. PICK j \in 1 .. Keep :
        /\ NewV = j /\ NewK = j /\ j + 1 \in 1 .. Keep
        /\ Counts(idle'.v, j + 1) /\ Counts(idle'.k, j + 1)
        /\ \A d \in open : fds[d].v < j
  BY TidySlots DEF Open
<1>3. IdleFd \in Fds /\ IdleFd \notin open /\ IdleFd \notin orphan
  BY <1>1, IdleFdIs DEF Open, FreeFds, TypeInv
<1>4. j \in Slots /\ j # 0
  BY <1>2 DEF Open, TakesSlots, InTable
<1>5. \A d \in open : /\ d \in Fds /\ fds[d].v \in Slots /\ fds[d].v < j /\ d # IdleFd
                      /\ fds[d].v # j
  <2>1. \A d \in open : d \in Fds /\ fds[d].v \in Slots
    BY <1>1, SlotsOf
  <2> QED
    BY <1>2, <1>3, <2>1 DEF Slots
<1>6. open' = open \cup {IdleFd} /\ orphan' = orphan /\ names' = names /\ inodes' = inodes
  BY DEF Open
<1>7. PICK off \in {0, inodes[f].len} :
        fds' = [fds EXCEPT ![IdleFd] = [v |-> j, off |-> off, file |-> f]]
  BY <1>2 DEF Open
<1>8. \A d \in open : fds'[d] = fds[d]
  BY <1>5, <1>7
<1>9. fds'[IdleFd].v = j /\ fds'[IdleFd].file = f
  BY <1>1, <1>3, <1>7 DEF TypeInv
<1>10. vtab' = [vtab EXCEPT ![j] = [used |-> TRUE, i |-> j]]
  BY <1>2 DEF Open
<1>11. ktab' = [ktab EXCEPT ![j] = [ino |-> f, live |-> TRUE, len |-> inodes[f].len,
                                    locked |-> ktab[j].locked]]
  BY <1>1, <1>2, OpenNode
<1>12. /\ vtab'[j] = [used |-> TRUE, i |-> j]
       /\ ktab'[j] = [ino |-> f, live |-> TRUE, len |-> inodes[f].len,
                      locked |-> ktab[j].locked]
  BY <1>1, <1>4, <1>10, <1>11 DEF TypeInv
<1>13. \A d \in open : vtab'[fds[d].v] = vtab[fds[d].v] /\ ktab'[fds[d].v] = ktab[fds[d].v]
  BY <1>1, <1>5, <1>10, <1>11 DEF TypeInv
<1>14. \A d \in open : fds[d].file # f
  <2>1. \A d \in open : ktab[Islot(d)].ino # f
    BY DEF Open, IsOpen
  <2> QED
    BY <1>1, <2>1, TidyIslot DEF OwnSlots
<1>15. Ordered'
  <2>1. \A d \in open' : fds'[d].v < j + 1
    BY <1>5, <1>6, <1>8, <1>9 DEF Slots
  <2> QED
    BY <1>2, <2>1 DEF Ordered
<1>16. OwnSlots'
  <2>1. ASSUME NEW d \in open
        PROVE  /\ vtab'[fds'[d].v] = [used |-> TRUE, i |-> fds'[d].v]
               /\ ktab'[fds'[d].v].ino = fds'[d].file
               /\ fds'[d].v = 0 => fds'[d].file = Root
    BY <1>1, <1>8, <1>13 DEF OwnSlots
  <2>2. ASSUME NEW d \in open, NEW e \in open' \ {d}
        PROVE  fds'[e].v # fds'[d].v /\ fds'[e].file # fds'[d].file
    <3>1. CASE e = IdleFd
      BY <1>5, <1>8, <1>9, <1>14, <3>1
    <3>2. CASE e \in open \ {d}
      <4>1. fds[e].v # fds[d].v /\ fds[e].file # fds[d].file
        BY <1>1, <3>2 DEF OwnSlots
      <4>2. fds'[e] = fds[e] /\ fds'[d] = fds[d]
        BY <1>8, <3>2
      <4> QED
        BY <4>1, <4>2
    <3> QED
      BY <1>6, <3>1, <3>2
  <2>3. /\ vtab'[fds'[IdleFd].v] = [used |-> TRUE, i |-> fds'[IdleFd].v]
        /\ ktab'[fds'[IdleFd].v].ino = fds'[IdleFd].file
        /\ fds'[IdleFd].v # 0
    BY <1>4, <1>9, <1>12
  <2>4. ASSUME NEW e \in open' \ {IdleFd}
        PROVE  fds'[e].v # fds'[IdleFd].v /\ fds'[e].file # fds'[IdleFd].file
    BY <1>5, <1>6, <1>8, <1>9, <1>14
  <2> QED
    BY <1>6, <2>1, <2>2, <2>3, <2>4 DEF OwnSlots
<1>17. Through'
  <2>1. ASSUME NEW d \in open \ orphan
        PROVE  /\ fds'[d].file \in names' \cup {Root}
               /\ fds'[d].file # Root \/ fds'[d].v = 0 =>
                    inodes'[fds'[d].file] = [live |-> ktab'[fds'[d].v].live,
                                             len |-> ktab'[fds'[d].v].len]
    BY <1>1, <1>6, <1>8, <1>13 DEF Through, Stored
  <2>2. f \in names \cup {Root}
    BY DEF Open
  <2>3. [live |-> ktab'[j].live, len |-> ktab'[j].len] = inodes[f]
    <3>1. inodes[f].live = TRUE /\ inodes[f] \in Nodes
      BY <1>1 DEF Open, TypeInv, Nodes
    <3>2. inodes[f] = [live |-> TRUE, len |-> inodes[f].len]
      BY <3>1 DEF Nodes
    <3> QED
      BY <1>12, <3>2
  <2> QED
    BY <1>3, <1>6, <1>9, <2>1, <2>2, <2>3 DEF Through, Stored
<1> QED
  BY <1>1, <1>15, <1>16, <1>17 DEF TidyInv

LEMMA TidyCloses ==
  ASSUME TidyInv, TypeInv', NEW d \in open, Closes(d), idle' = idle, names' = names, tidy
  PROVE  TidyInv'
<1>1. OwnSlots /\ Through /\ Ordered /\ TypeInv
  BY DEF TidyInv
<1>2. Islot(d) = fds[d].v /\ fds[d].v \in Slots /\ d \in Fds
  BY <1>1, TidyIslot, SlotsOf
<1>3. ktab[fds[d].v].ino = fds[d].file
  BY <1>1 DEF OwnSlots
<1>4. /\ open' = open \ {d} /\ orphan' = orphan \ {d}
      /\ fds' = [fds EXCEPT ![d] = Closed]
      /\ vtab' = [vtab EXCEPT ![fds[d].v] = UnusedV]
      /\ inodes' = [inodes EXCEPT ![fds[d].file] = Stored(fds[d].v)]
  BY <1>2, <1>3 DEF Closes
<1>5. ktab' = [ktab EXCEPT ![fds[d].v] = [ino |-> Root, live |-> FALSE,
                 len |-> ktab[fds[d].v].len, locked |-> ktab[fds[d].v].locked]]
  BY <1>1, <1>2, TypeCloses
<1>6. \A e \in open' : /\ e \in open /\ e # d /\ e \in Fds
                       /\ fds[e].v \in Slots /\ fds[e].file \in Inos
                       /\ fds[e].v # fds[d].v /\ fds[e].file # fds[d].file
  BY <1>1, <1>4, SlotsOf DEF OwnSlots
<1>7. \A e \in open' : /\ fds'[e] = fds[e] /\ vtab'[fds[e].v] = vtab[fds[e].v]
                       /\ ktab'[fds[e].v] = ktab[fds[e].v]
                       /\ inodes'[fds[e].file] = inodes[fds[e].file]
  BY <1>1, <1>4, <1>5, <1>6 DEF TypeInv
<1>8. Ordered' /\ OwnSlots'
  BY <1>1, <1>4, <1>7, OwnKept
<1>9. Through'
  BY <1>1, <1>4, <1>6, <1>7 DEF Through, Stored
<1> QED
  BY <1>8, <1>9 DEF TidyInv

\* my_lseek and my_write: a new length for one file, in the kernel's table and in
\* the file system's.
LEMMA TidyLen ==
  ASSUME TidyInv, TypeInv', tidy, NEW d \in open, NEW len \in 0 .. MaxLen,
         ktab' = [ktab EXCEPT ![fds[d].v].len = len],
         inodes' = [inodes EXCEPT ![ktab[fds[d].v].ino] =
                      [live |-> ktab[fds[d].v].live, len |-> len]],
         \A e \in Fds : fds'[e].v = fds[e].v /\ fds'[e].file = fds[e].file,
         UNCHANGED <<idle, vtab, open, names, orphan>>
  PROVE  TidyInv'
<1> DEFINE s == fds[d].v
<1>1. OwnSlots /\ Through /\ Ordered /\ TypeInv
  BY DEF TidyInv
<1>2. s \in Slots /\ d \in Fds
  BY <1>1, SlotsOf
<1>3. ktab[s].ino = fds[d].file
  BY <1>1 DEF OwnSlots
<1>4. ktab' = [ktab EXCEPT ![s] = [ino |-> ktab[s].ino, live |-> ktab[s].live,
                                   len |-> len, locked |-> ktab[s].locked]]
  BY <1>1, <1>2, TypeLen
<1>5. \A e \in open : e \in Fds /\ fds[e].v \in Slots /\ fds[e].file \in Inos
  BY <1>1, SlotsOf
<1>6. \A e \in open \ {d} : fds[e].v # s /\ fds[e].file # fds[d].file
  BY <1>1 DEF OwnSlots
<1>7. \A e \in open \ {d} : /\ ktab'[fds[e].v] = ktab[fds[e].v]
                            /\ inodes'[fds[e].file] = inodes[fds[e].file]
  BY <1>1, <1>3, <1>4, <1>5, <1>6 DEF TypeInv
<1>8. ktab'[s] = [ino |-> ktab[s].ino, live |-> ktab[s].live, len |-> len,
                  locked |-> ktab[s].locked]
  BY <1>1, <1>2, <1>4 DEF TypeInv
<1>9. inodes'[fds[d].file] = [live |-> ktab[s].live, len |-> len]
  BY <1>1, <1>2, <1>3, <1>5 DEF TypeInv
<1> HIDE DEF s
<1>10. \A e \in open : ktab'[fds[e].v].ino = ktab[fds[e].v].ino
  BY <1>7, <1>8 DEF s
<1>11. Ordered' /\ OwnSlots'
  BY <1>1, <1>5, <1>10, OwnKept
<1>12. Through'
  <2> SUFFICES ASSUME NEW e \in open \ orphan
               PROVE  /\ fds[e].file \in names \cup {Root}
                      /\ fds[e].file # Root \/ fds[e].v = 0 =>
                           inodes'[fds[e].file] = [live |-> ktab'[fds[e].v].live,
                                                   len |-> ktab'[fds[e].v].len]
    BY <1>5 DEF Through, Stored
  <2>1. CASE e = d
    BY <1>1, <1>8, <1>9, <2>1 DEF Through, s
  <2>2. CASE e # d
    BY <1>1, <1>7, <2>2 DEF Through, Stored
  <2> QED
    BY <2>1, <2>2
<1> QED
  BY <1>11, <1>12 DEF TidyInv

\* Steps that leave lengths, numbers and slots alone.
LEMMA TidySame ==
  ASSUME TidyInv, TypeInv', tidy' => tidy, UNCHANGED <<idle, vtab, open, inodes, names, orphan>>,
         \A e \in Fds : fds'[e].v = fds[e].v /\ fds'[e].file = fds[e].file,
         \A s \in Slots : /\ ktab'[s].ino = ktab[s].ino /\ ktab'[s].live = ktab[s].live
                          /\ ktab'[s].len = ktab[s].len
  PROVE  TidyInv'
<1> SUFFICES ASSUME tidy' PROVE Ordered' /\ OwnSlots' /\ Through'
  BY DEF TidyInv
<1>1. OwnSlots /\ Through /\ Ordered /\ TypeInv
  BY DEF TidyInv
<1>2. \A e \in open : e \in Fds /\ fds[e].v \in Slots
  BY <1>1, SlotsOf
<1>3. Ordered' /\ OwnSlots'
  BY <1>1, <1>2, OwnKept
<1>4. Through'
  <2> SUFFICES ASSUME NEW e \in open \ orphan
               PROVE  /\ fds[e].file \in names \cup {Root}
                      /\ fds[e].file # Root \/ fds[e].v = 0 =>
                           inodes[fds[e].file] = [live |-> ktab'[fds[e].v].live,
                                                  len |-> ktab'[fds[e].v].len]
    BY <1>2 DEF Through, Stored
  <2> QED
    BY <1>1, <1>2 DEF Through, Stored
<1> QED
  BY <1>3, <1>4

LEMMA TidyClose ==
  ASSUME TidyInv, tidy', (\E d \in Fds : Close(d)) \/ CloseNext
  PROVE  TidyInv'
<1>1. TypeInv'
  BY TypeClose, TypeCloseNext DEF TidyInv
<1>2. PICK d \in open : Closes(d)
  BY DEF Close, CloseNext, ToClose
<1>3. idle' = idle /\ names' = names /\ tidy
  BY DEF Close, CloseNext
<1> QED
  BY <1>1, <1>2, <1>3, TidyCloses

LEMMA TidyLseek ==
  ASSUME TidyInv, NEW d \in Fds, NEW off \in 0 .. MaxLen, Lseek(d, off), tidy'
  PROVE  TidyInv'
<1>1. TypeInv' /\ TypeInv /\ d \in open /\ tidy
  BY TypeLseek DEF TidyInv, Lseek
<1>2. \A e \in Fds : fds'[e].v = fds[e].v /\ fds'[e].file = fds[e].file
  BY <1>1, TypeOff DEF Lseek
<1>3. UNCHANGED <<idle, vtab, open, names, orphan>>
  BY DEF Lseek
<1>4. CASE /\ ktab' = [ktab EXCEPT ![fds[d].v].len = off]
           /\ inodes' = [inodes EXCEPT ![ktab[fds[d].v].ino] =
                           [live |-> ktab[fds[d].v].live, len |-> off]]
  BY <1>1, <1>2, <1>3, <1>4, TidyLen
<1>5. CASE UNCHANGED <<ktab, inodes>>
  BY <1>1, <1>2, <1>3, <1>5, TidySame
<1> QED
  BY <1>4, <1>5 DEF Lseek

LEMMA TidyRead ==
  ASSUME TidyInv, NEW d \in Fds, NEW n \in 1 .. MaxLen, Read(d, n), tidy'
  PROVE  TidyInv'
<1>1. TypeInv' /\ TypeInv /\ d \in open /\ tidy
  BY TypeRead DEF TidyInv, Read
<1>2. ktab[Islot(d)].len \in 0 .. MaxLen /\ fds[d].off \in 0 .. MaxLen
  BY <1>1, SlotsOf, StoredIs
<1>3. Shorter(fds[d].off + n, ktab[Islot(d)].len) \in 0 .. MaxLen
  BY <1>2 DEF Shorter
<1>4. \A e \in Fds : fds'[e].v = fds[e].v /\ fds'[e].file = fds[e].file
  BY <1>1, <1>3, TypeOff DEF Read
<1> QED
  BY <1>1, <1>4, TidySame DEF Read

LEMMA TidyWrite ==
  ASSUME TidyInv, NEW d \in Fds, NEW n \in 1 .. MaxLen, Write(d, n), tidy'
  PROVE  TidyInv'
<1> DEFINE end == Shorter(fds[d].off + n, MaxLen)
           len == Longer(ktab[Islot(d)].len, end)
<1>1. TypeInv' /\ TypeInv /\ d \in open /\ tidy /\ OwnSlots
  BY TypeWrite DEF TidyInv, Write
<1>2. /\ Islot(d) = fds[d].v /\ Islot(d) \in Slots
      /\ ktab[Islot(d)].len \in 0 .. MaxLen /\ fds[d].off \in 0 .. MaxLen
  BY <1>1, TidyIslot, SlotsOf, StoredIs
<1>3. end \in 0 .. MaxLen
  BY <1>2 DEF Shorter
<1>4. len \in 0 .. MaxLen
  <2> HIDE DEF end
  <2> QED
    BY <1>2, <1>3 DEF Longer
<1>5. UNCHANGED <<idle, vtab, open, names, orphan>>
  BY DEF Write
<1>6. CASE Writes(d, n)
  <2>1. /\ ktab' = [ktab EXCEPT ![Islot(d)].len = len]
        /\ inodes' = [inodes EXCEPT ![ktab[Islot(d)].ino] =
                        [live |-> ktab[Islot(d)].live, len |-> len]]
        /\ fds' = [fds EXCEPT ![d].off = end]
    BY <1>6 DEF Writes
  <2> HIDE DEF end, len
  <2>2. \A e \in Fds : fds'[e].v = fds[e].v /\ fds'[e].file = fds[e].file
    BY <1>1, <1>3, <2>1, TypeOff
  <2> QED
    BY <1>1, <1>2, <1>4, <1>5, <2>1, <2>2, TidyLen
<1>7. CASE ~Writes(d, n)
  <2>1. ktab' = [ktab EXCEPT ![Islot(d)].locked = TRUE] /\ UNCHANGED <<inodes, fds>>
    BY <1>7 DEF Write
  <2>2. \A s \in Slots : /\ ktab'[s].ino = ktab[s].ino /\ ktab'[s].live = ktab[s].live
                         /\ ktab'[s].len = ktab[s].len
    <3>1. ktab \in [Slots -> KNodes] /\ ktab[Islot(d)] \in KNodes
      BY <1>1, <1>2 DEF TypeInv
    <3>2. /\ [ktab[Islot(d)] EXCEPT !.locked = TRUE].ino = ktab[Islot(d)].ino
          /\ [ktab[Islot(d)] EXCEPT !.locked = TRUE].live = ktab[Islot(d)].live
          /\ [ktab[Islot(d)] EXCEPT !.locked = TRUE].len = ktab[Islot(d)].len
      BY <3>1 DEF KNodes
    <3> QED
      BY <2>1, <3>1, <3>2
  <2> QED
    BY <1>1, <1>5, <2>1, <2>2, TidySame
<1> QED
  BY <1>6, <1>7

\* The files of the descriptors left are those that still have a name.
LEMMA TidyRm == ASSUME TidyInv, NEW f \in Files, Rm(f), tidy' PROVE TidyInv'
<1>1. TypeInv' /\ TypeInv /\ tidy /\ OwnSlots /\ Through /\ Ordered
  BY TypeRm DEF TidyInv, Rm
<1>2. /\ idle' = idle /\ UNCHANGED <<vtab, ktab, open, fds>>
      /\ names' = names \ {f} /\ inodes' = [inodes EXCEPT ![f] = NoInode]
      /\ orphan' = orphan \cup {d \in open : fds[d].file = f}
  BY DEF Rm, tables
<1>3. Ordered' /\ OwnSlots'
  BY <1>1, <1>2, OwnKept
<1>4. Through'
  <2> SUFFICES ASSUME NEW d \in open \ orphan, fds[d].file # f
               PROVE  /\ fds[d].file \in names' \cup {Root}
                      /\ fds[d].file # Root \/ fds[d].v = 0 =>
                           inodes'[fds[d].file] = Stored(fds[d].v)
    BY <1>2 DEF Through, Stored
  <2>1. fds[d].file \in Inos /\ inodes'[fds[d].file] = inodes[fds[d].file]
    BY <1>1, <1>2, SlotsOf DEF TypeInv
  <2> QED
    BY <1>1, <1>2, <2>1 DEF Through
<1> QED
  BY <1>3, <1>4, <1>1 DEF TidyInv

LEMMA TidyFinishFormat ==
  ASSUME TidyInv, NEW kept, FinishFormat(kept), tidy'
  PROVE  TidyInv'
<1>1. TypeInv' /\ TypeInv /\ tidy /\ OwnSlots /\ Through /\ Ordered
  BY TypeFinishFormat DEF TidyInv, FinishFormat
<1>2. /\ idle' = idle /\ UNCHANGED <<vtab, open, fds>> /\ names' = {}
      /\ ktab' = [ktab EXCEPT ![0].len = 1]
      /\ orphan' = orphan \cup {d \in open : fds[d].file \in names}
  BY DEF FinishFormat
<1>3. ktab' = [ktab EXCEPT ![0] = [ino |-> ktab[0].ino, live |-> ktab[0].live, len |-> 1,
                                   locked |-> ktab[0].locked]]
  BY <1>1, <1>2, SlotZero, SetLen DEF TypeInv
<1>4. inodes'[Root] = [live |-> ktab[0].live, len |-> 1]
  BY SlotZero DEF FinishFormat
<1>5. /\ ktab'[0].live = ktab[0].live /\ ktab'[0].len = 1
      /\ \A s \in Slots : ktab'[s].ino = ktab[s].ino
  <2>1. ktab \in [Slots -> KNodes]
    BY <1>1 DEF TypeInv
  <2> QED
    BY <1>3, <2>1, SlotZero
<1>6. \A d \in open : fds[d].v \in Slots
  BY <1>1, SlotsOf
<1>7. Ordered' /\ OwnSlots'
  BY <1>1, <1>2, <1>5, <1>6, OwnKept
<1>8. Through'
  <2> SUFFICES ASSUME NEW d \in open \ orphan, fds[d].file \notin names
               PROVE  /\ fds[d].file = Root
                      /\ fds[d].v = 0 =>
                           inodes'[Root] = [live |-> ktab'[fds[d].v].live,
                                            len |-> ktab'[fds[d].v].len]
    BY <1>2 DEF Through, Stored
  <2> QED
    BY <1>1, <1>4, <1>5 DEF Through
<1> QED
  BY <1>1, <1>7, <1>8 DEF TidyInv

LEMMA TidyFinishExit == ASSUME TidyInv, FinishExit, tidy' PROVE TidyInv'
<1>1. TypeInv' /\ tidy /\ Ordered
  BY TypeFinishExit DEF TidyInv, FinishExit
<1>2. open' = {} /\ idle' = idle
  BY DEF FinishExit, tables
<1> QED
  BY <1>1, <1>2 DEF TidyInv, Ordered, OwnSlots, Through

LEMMA TidyNext == TidyInv /\ [Next]_vars => TidyInv'
<1> SUFFICES ASSUME TidyInv, [Next]_vars PROVE TidyInv'
  OBVIOUS
<1>1. TypeInv' /\ TypeInv
  BY TypeNext DEF TidyInv
<1>2. CASE ~tidy'
  BY <1>1, <1>2 DEF TidyInv
<1> SUFFICES ASSUME tidy' PROVE TidyInv'
  BY <1>2
<1>3. CASE Mount
  <2>1. inodes'[Root] \in Nodes
    BY <1>1, SlotZero DEF TypeInv
  <2> QED
    BY <1>1, <1>3, <2>1, TidyFresh DEF Mount
<1>4. CASE \E f \in Files : Touch(f) \/ Rm(f)
  BY <1>4, TidyTouch, TidyRm
<1>5. CASE FailsToOpen \/ FinishExit
  BY <1>5, TidyFailsToOpen, TidyFinishExit
<1>6. CASE \E f \in Inos : Open(f)
  BY <1>6, TidyOpen
<1>7. CASE (\E d \in Fds : Close(d)) \/ CloseNext
  BY <1>7, TidyClose
<1>8. CASE \E d \in Fds, off \in 0 .. MaxLen : Lseek(d, off)
  BY <1>8, TidyLseek
<1>9. CASE \E d \in Fds, n \in 1 .. MaxLen : Read(d, n) \/ Write(d, n)
  BY <1>9, TidyRead, TidyWrite
<1>10. CASE (\E d \in Fds : WriteHangs(d)) \/ StartFormat \/ Exit \/ UNCHANGED vars
  <2>1. UNCHANGED <<idle, vtab, ktab, open, fds, inodes, names, orphan, tidy>>
    BY <1>10 DEF WriteHangs, StartFormat, Exit, vars, tables
  <2> QED
    BY <1>1, <2>1, TidySame
<1>11. CASE FinishFormat(names) \/ FinishFormat({})
  BY <1>11, TidyFinishFormat
<1> QED
  BY <1>3, <1>4, <1>5, <1>6, <1>7, <1>8, <1>9, <1>10, <1>11 DEF Next

LEMMA TidyAlways == Spec => []TidyInv
BY TidyInit, TidyNext, PTL DEF Spec

\* Before the lists of idle slots are topped up, every open descriptor has a v item
\* and a kernel index node of its own, of the same number, with the file it was
\* opened for, and no list offers a slot in use.
THEOREM SlotsCorrect == Spec => []TidySlotsAreOwn
<1>1. TidyInv => TidySlotsAreOwn
  <2> SUFFICES ASSUME TidyInv, tidy, NEW d \in open
               PROVE  /\ vtab[fds[d].v] = [used |-> TRUE, i |-> fds[d].v]
                      /\ Own(d)
                      /\ \A e \in open \ {d} : /\ fds[e].v # fds[d].v
                                              /\ fds[e].file # fds[d].file
                      /\ \A n \in DOMAIN idle.v : /\ idle.v[n] # fds[d].v
                                                  /\ idle.k[n] = idle.v[n]
    BY DEF TidySlotsAreOwn
  <2>1. OwnSlots /\ Ordered /\ TypeInv
    BY DEF TidyInv
  <2>2. Own(d)
    BY <2>1, TidyIslot DEF Own, OwnSlots
  <2>3. PICK j \in 1 .. Keep : /\ Counts(idle.v, j) /\ Counts(idle.k, j)
                               /\ \A e \in open : fds[e].v < j
    BY <2>1 DEF Ordered
  <2>4. idle.v \in Seq(Nat) /\ fds[d].v \in Slots
    BY <2>1, SlotsOf DEF TypeInv, Lists
  <2>5. DOMAIN idle.v = 1 .. Keep - j
    BY <2>3, <2>4 DEF Counts
  <2>6. \A n \in 1 .. Keep - j : idle.v[n] = n + j - 1 /\ idle.k[n] = n + j - 1
    BY <2>3 DEF Counts
  <2>7. \A n \in 1 .. Keep - j : n + j - 1 # fds[d].v
    BY <2>3, <2>4 DEF Slots
  <2>8. \A n \in DOMAIN idle.v : idle.v[n] # fds[d].v /\ idle.k[n] = idle.v[n]
    BY <2>5, <2>6, <2>7
  <2>9. /\ vtab[fds[d].v] = [used |-> TRUE, i |-> fds[d].v]
        /\ \A e \in open \ {d} : fds[e].v # fds[d].v /\ fds[e].file # fds[d].file
    BY <2>1 DEF OwnSlots
  <2> QED
    BY <2>2, <2>8, <2>9
<1> QED
  BY <1>1, TidyAlways, PTL

\* Until then the file system's copy of an index node is what the kernel holds for
\* the descriptor, unless the file was removed under it.
THEOREM ThroughCorrect == Spec => []TidyIsWrittenThrough
<1>1. TidyInv => TidyIsWrittenThrough
  BY TidyIslot DEF TidyInv, TidyIsWrittenThrough, Through
<1> QED
  BY <1>1, TidyAlways, PTL

----------------------------------------------------------------------------
(* One file open at a time, however often the lists are topped up.         *)

\* At most one descriptor besides the root directory's, which login opened.
Alone == \A d, e \in open : d = e \/ (home /\ (d = 0 \/ e = 0))

OwnAll == \A d \in open : Own(d)

\* Descriptor 0 has slot 0 of both tables, which nobody else has or can get.
Home ==
  /\ 0 \in open /\ fds[0].v = 0 /\ fds[0].file = Root
  /\ vtab[0] = [used |-> TRUE, i |-> 0]
  /\ ktab[0].ino = Root /\ ktab[0].live
  /\ Unlisted(idle, 0)
  /\ \A d \in open \ {0} : fds[d].v # 0 /\ Islot(d) # 0

SoloInv == TypeInv /\ (solo => Alone /\ OwnAll /\ (home => Home))

LEMMA FreshWithout == Unlisted(FreshIdle, 0)
<1> DEFINE list == [n \in 1 .. Keep - 1 |-> n]
<1>1. Without(list, 0)
  BY DEF Without
<1> QED
  BY <1>1 DEF FreshIdle, Unlisted

LEMMA SoloInit == Init => SoloInv
<1> SUFFICES ASSUME Init PROVE SoloInv
  OBVIOUS
<1>1. TypeInv
  BY TypeInit
<1>2. open = {0} /\ fds[0].v = 0 /\ fds[0].file = Root
  BY DEF Init, FreshFds, Closed
<1>3. vtab[0] = [used |-> TRUE, i |-> 0]
  BY SlotZero DEF Init, FreshV
<1>4. ktab[0].ino = Root /\ ktab[0].live
  BY SlotZero DEF Init, FreshK, NewRoot
<1>5. Unlisted(idle, 0)
  BY FreshWithout DEF Init
<1>6. OwnAll
  BY <1>2, <1>3, <1>4 DEF OwnAll, Own, Islot
<1> QED
  BY <1>1, <1>2, <1>3, <1>4, <1>5, <1>6 DEF SoloInv, Alone, Home

LEMMA SoloMount == TypeInv /\ Mount => SoloInv'
<1> SUFFICES ASSUME TypeInv, Mount, solo' PROVE SoloInv'
  BY TypeMount DEF SoloInv
<1>1. TypeInv'
  BY TypeMount
<1>2. open' = {0} /\ fds'[0].v = 0 /\ fds'[0].file = Root
  BY DEF Mount, FreshFds, Closed
<1>3. vtab'[0] = [used |-> TRUE, i |-> 0]
  BY SlotZero DEF Mount, FreshV
<1>4. ktab'[0].ino = Root /\ ktab'[0].live
  BY SlotZero DEF Mount, FreshK
<1>5. Unlisted(idle', 0)
  BY FreshWithout DEF Mount
<1>6. OwnAll'
  BY <1>2, <1>3, <1>4 DEF OwnAll, Own, Islot
<1> QED
  BY <1>1, <1>2, <1>3, <1>4, <1>5, <1>6 DEF SoloInv, Alone, Home

\* Steps that leave the lists, the descriptors and the tables' numbers alone.
LEMMA SoloSame ==
  ASSUME SoloInv, TypeInv', solo' => solo, UNCHANGED <<idle, vtab, open, home>>,
         \A e \in Fds : fds'[e].v = fds[e].v /\ fds'[e].file = fds[e].file,
         \A s \in Slots : ktab'[s].ino = ktab[s].ino /\ ktab'[s].live = ktab[s].live
  PROVE  SoloInv'
<1> SUFFICES ASSUME solo' PROVE Alone' /\ OwnAll' /\ (home => Home')
  BY DEF SoloInv
<1>1. TypeInv /\ Alone /\ OwnAll /\ (home => Home)
  BY DEF SoloInv
<1>2. \A d \in open : d \in Fds /\ Islot(d) \in Slots
  BY <1>1, SlotsOf
<1>3. \A d \in open : Islot(d)' = Islot(d)
  BY <1>2 DEF Islot
<1>4. OwnAll'
  BY <1>1, <1>2, <1>3 DEF OwnAll, Own
<1>5. Alone'
  BY <1>1 DEF Alone
<1>6. ASSUME home PROVE Home'
  BY <1>1, <1>2, <1>3, <1>6, SlotZero DEF Home
<1> QED
  BY <1>4, <1>5, <1>6

\* A descriptor is closed: the slots of another one that is open, if there is one,
\* are others.
LEMMA SoloCloses ==
  ASSUME SoloInv, TypeInv', NEW d \in open, Closes(d), idle' = idle, solo' = solo
  PROVE  SoloInv'
<1> SUFFICES ASSUME solo' PROVE Alone' /\ OwnAll' /\ (home' => Home')
  BY DEF SoloInv
<1>1. TypeInv /\ Alone /\ OwnAll /\ (home => Home)
  BY DEF SoloInv
<1>2. /\ open' = open \ {d} /\ home' = (home /\ d # 0)
      /\ fds' = [fds EXCEPT ![d] = Closed]
      /\ vtab' = [vtab EXCEPT ![fds[d].v] = UnusedV]
  BY DEF Closes
<1>3. ktab' = [ktab EXCEPT ![Islot(d)] = [ino |-> Root, live |-> FALSE,
                 len |-> ktab[Islot(d)].len, locked |-> ktab[Islot(d)].locked]]
  BY <1>1, TypeCloses
<1>4. \A e \in open : e \in Fds /\ fds[e].v \in Slots /\ Islot(e) \in Slots
  BY <1>1, SlotsOf
<1>5. CASE home
  <2>1. Home /\ Islot(0) = 0
    BY <1>1, <1>5 DEF Home, Islot
  <2>2. \A e \in open' : /\ e \in open /\ e # d
                         /\ fds[e].v # fds[d].v /\ Islot(e) # Islot(d)
    BY <1>1, <1>2, <2>1 DEF Home, Alone
  <2>3. \A e \in open' : fds'[e] = fds[e] /\ vtab'[fds[e].v] = vtab[fds[e].v]
    BY <1>1, <1>2, <1>4, <2>2 DEF TypeInv
  <2>4. \A e \in open' : Islot(e)' = Islot(e)
    BY <2>3 DEF Islot
  <2>5. \A e \in open' : ktab'[Islot(e)] = ktab[Islot(e)]
    BY <1>1, <1>3, <1>4, <2>2 DEF TypeInv
  <2>6. OwnAll'
    BY <1>1, <2>2, <2>3, <2>4, <2>5 DEF OwnAll, Own
  <2>7. Alone'
    BY <1>1, <1>2, <2>2 DEF Alone
  <2>8. ASSUME d # 0 PROVE Home'
    <3>1. 0 \in open' /\ fds'[0] = fds[0] /\ vtab'[0] = vtab[0] /\ ktab'[0] = ktab[0]
      BY <1>2, <2>1, <2>3, <2>5, <2>8 DEF Home
    <3>2. \A e \in open' \ {0} : fds'[e].v # 0 /\ Islot(e)' # 0
      BY <2>1, <2>2, <2>3, <2>4 DEF Home
    <3> QED
      BY <2>1, <3>1, <3>2 DEF Home
  <2> QED
    BY <1>2, <2>6, <2>7, <2>8
<1>6. CASE ~home
  <2>1. open' = {}
    BY <1>1, <1>2, <1>6 DEF Alone
  <2> QED
    BY <1>2, <1>6, <2>1 DEF Alone, OwnAll
<1> QED
  BY <1>5, <1>6

LEMMA SoloClose == SoloInv /\ ((\E d \in Fds : Close(d)) \/ CloseNext) => SoloInv'
<1> SUFFICES ASSUME SoloInv, (\E d \in Fds : Close(d)) \/ CloseNext PROVE SoloInv'
  OBVIOUS
<1>1. TypeInv'
  BY TypeClose, TypeCloseNext DEF SoloInv
<1>2. PICK d \in open : Closes(d)
  BY DEF Close, CloseNext, ToClose
<1>3. idle' = idle /\ solo' = solo
  BY DEF Close, CloseNext
<1> QED
  BY <1>1, <1>2, <1>3, SoloCloses

\* A new file is set up while at most the root directory is open, and gets neither
\* of its slots.
LEMMA SoloSlots ==
  ASSUME SoloInv, TakesSlots, solo'
  PROVE  /\ Alone /\ OwnAll /\ home' = home /\ NewV \in Slots /\ NewK \in Slots
         /\ ~home => open = {}
         /\ home => /\ Home /\ open = {0}
                    /\ NewV # 0 /\ NewK # 0 /\ Unlisted(idle', 0)
<1>1. TypeInv /\ Alone /\ OwnAll /\ (home => Home)
  BY DEF SoloInv, TakesSlots
<1>2. home' = home /\ NewV \in Slots /\ NewK \in Slots /\ idle' = Rest
  BY DEF TakesSlots, InTable
<1>3. \A d \in open : d = 0 /\ home
  BY DEF TakesSlots
<1>4. ASSUME home PROVE NewV # 0 /\ NewK # 0 /\ Unlisted(Rest, 0)
  <2>1. InUse(0) /\ Unlisted(idle, 0)
    BY <1>1, <1>4 DEF Home, InUse, IdleV, IdleK
  <2> QED
    BY <1>1, <2>1, SlotZero, RestIs DEF TypeInv, Lists
<1>5. home => open = {0}
  BY <1>1, <1>3 DEF Home
<1> QED
  BY <1>1, <1>2, <1>3, <1>4, <1>5

\* With slot 0 as it was, descriptor 0 is as it was.
LEMMA HomeKept ==
  ASSUME Home, Unlisted(idle', 0), 0 \in open', fds'[0] = fds[0], vtab'[0] = vtab[0],
         ktab'[0] = ktab[0], \A d \in open' \ {0} : fds'[d].v # 0 /\ Islot(d)' # 0
  PROVE  Home' /\ Own(0)'
BY DEF Home, Own, Islot

LEMMA SoloFails ==
  ASSUME SoloInv, (\E f \in Files : Touch(f)) \/ FailsToOpen
  PROVE  SoloInv'
<1>1. TypeInv' /\ TypeInv
  BY TypeTouch, TypeFailsToOpen DEF SoloInv
<1> SUFFICES ASSUME solo' PROVE Alone' /\ OwnAll' /\ (home' => Home')
  BY <1>1 DEF SoloInv
<1>2. TakesSlots /\ open' = open /\ fds' = fds
  BY DEF Touch, FailsToOpen, tables
<1>3. /\ home' = home /\ (~home => open = {})
      /\ home => /\ Home /\ open = {0}
                 /\ NewV # 0 /\ NewK # 0 /\ Unlisted(idle', 0)
  BY <1>2, SoloSlots
<1>4. CASE ~home
  BY <1>2, <1>3, <1>4 DEF Alone, OwnAll
<1>5. CASE home
  <2>1. vtab'[0] = vtab[0] /\ ktab'[0] = ktab[0]
    BY <1>1, <1>3, <1>5, SlotZero DEF Touch, FailsToOpen, tables, TypeInv
  <2>2. Home' /\ Own(0)'
    BY <1>2, <1>3, <1>5, <2>1, HomeKept DEF Home
  <2> QED
    BY <1>2, <1>3, <1>5, <2>2 DEF Alone, OwnAll
<1> QED
  BY <1>4, <1>5

LEMMA SoloOpen == ASSUME SoloInv, NEW f \in Inos, Open(f) PROVE SoloInv'
<1>1. TypeInv' /\ TypeInv
  BY TypeOpen DEF SoloInv
<1> SUFFICES ASSUME solo' PROVE Alone' /\ OwnAll' /\ (home' => Home')
  BY <1>1 DEF SoloInv
<1>2. PICK n \in Fds \ open : n = IdleFd /\ TakesSlots /\ open' = open \cup {n}
  BY IdleFdIs DEF Open, FreeFds
<1>3. /\ home' = home /\ (~home => open = {}) /\ NewV \in Slots /\ NewK \in Slots
      /\ home => /\ Home /\ open = {0}
                 /\ NewV # 0 /\ NewK # 0 /\ Unlisted(idle', 0)
  BY <1>2, SoloSlots
<1>4. PICK off \in {0, inodes[f].len} :
        fds' = [fds EXCEPT ![n] = [v |-> NewV, off |-> off, file |-> f]]
  BY <1>2 DEF Open
<1>5. vtab' = [vtab EXCEPT ![NewV] = [used |-> TRUE, i |-> NewK]]
  BY DEF Open
<1>6. ktab' = [ktab EXCEPT ![NewK] = [ino |-> f, live |-> TRUE, len |-> inodes[f].len,
                                      locked |-> ktab[NewK].locked]]
  BY <1>1, OpenNode
<1>7. fds'[n].v = NewV /\ fds'[n].file = f /\ \A d \in open : fds'[d] = fds[d]
  BY <1>1, <1>2, <1>4 DEF TypeInv
<1>8. Islot(n)' = NewK /\ ktab'[NewK].ino = f
  BY <1>1, <1>3, <1>5, <1>6, <1>7 DEF Islot, TypeInv
<1>9. Own(n)'
  BY <1>7, <1>8 DEF Own
<1>10. CASE ~home
  BY <1>2, <1>3, <1>9, <1>10 DEF Alone, OwnAll
<1>11. CASE home
  <2>1. vtab'[0] = vtab[0] /\ ktab'[0] = ktab[0]
    BY <1>1, <1>3, <1>5, <1>6, <1>11, SlotZero DEF TypeInv
  <2>2. open' = {0, n} /\ fds'[0] = fds[0]
    BY <1>2, <1>3, <1>7, <1>11
  <2>3. Home' /\ Own(0)'
    BY <1>3, <1>7, <1>8, <1>11, <2>1, <2>2, HomeKept
  <2> QED
    BY <1>3, <1>9, <1>11, <2>2, <2>3 DEF Alone, OwnAll
<1> QED
  BY <1>10, <1>11

\* The other commands on a descriptor change lengths, offsets and the lock.
LEMMA SoloLseek ==
  ASSUME SoloInv, NEW d \in Fds, NEW off \in 0 .. MaxLen, Lseek(d, off)
  PROVE  SoloInv'
<1>1. TypeInv' /\ TypeInv /\ d \in open /\ fds[d].v \in Slots
  BY TypeLseek, SlotsOf DEF SoloInv, Lseek
<1>2. \A e \in Fds : fds'[e].v = fds[e].v /\ fds'[e].file = fds[e].file
  BY <1>1, TypeOff DEF Lseek
<1>3. \A s \in Slots : ktab'[s].ino = ktab[s].ino /\ ktab'[s].live = ktab[s].live
  <2>1. ktab \in [Slots -> KNodes]
    BY <1>1 DEF TypeInv
  <2>2. UNCHANGED ktab \/ ktab' = [ktab EXCEPT ![fds[d].v].len = off]
    BY DEF Lseek
  <2>3. CASE ktab' = [ktab EXCEPT ![fds[d].v].len = off]
    BY <1>1, <2>1, <2>3, SetLen
  <2> QED
    BY <2>2, <2>3
<1> QED
  BY <1>1, <1>2, <1>3, SoloSame DEF Lseek

LEMMA SoloRead ==
  ASSUME SoloInv, NEW d \in Fds, NEW n \in 1 .. MaxLen, Read(d, n)
  PROVE  SoloInv'
<1>1. TypeInv' /\ TypeInv /\ d \in open
  BY TypeRead DEF SoloInv, Read
<1>2. ktab[Islot(d)].len \in 0 .. MaxLen /\ fds[d].off \in 0 .. MaxLen
  BY <1>1, SlotsOf, StoredIs
<1>3. Shorter(fds[d].off + n, ktab[Islot(d)].len) \in 0 .. MaxLen
  BY <1>2 DEF Shorter
<1>4. \A e \in Fds : fds'[e].v = fds[e].v /\ fds'[e].file = fds[e].file
  BY <1>1, <1>3, TypeOff DEF Read
<1> QED
  BY <1>1, <1>4, SoloSame DEF Read

LEMMA SoloWrite ==
  ASSUME SoloInv, NEW d \in Fds, NEW n \in 1 .. MaxLen, Write(d, n)
  PROVE  SoloInv'
<1> DEFINE end == Shorter(fds[d].off + n, MaxLen)
<1>1. TypeInv' /\ TypeInv /\ d \in open /\ Islot(d) \in Slots /\ fds[d].off \in 0 .. MaxLen
  BY TypeWrite, SlotsOf DEF SoloInv, Write
<1>2. end \in 0 .. MaxLen
  BY <1>1 DEF Shorter
<1>3. UNCHANGED <<idle, vtab, open, home, solo>>
  BY DEF Write
<1>4. \A e \in Fds : fds'[e].v = fds[e].v /\ fds'[e].file = fds[e].file
  <2>1. fds' = fds \/ fds' = [fds EXCEPT ![d].off = end]
    BY DEF Write, Writes
  <2> HIDE DEF end
  <2> QED
    BY <1>1, <1>2, <2>1, TypeOff
<1>5. \A s \in Slots : ktab'[s].ino = ktab[s].ino /\ ktab'[s].live = ktab[s].live
  <2>1. ktab \in [Slots -> KNodes] /\ ktab[Islot(d)] \in KNodes
    BY <1>1 DEF TypeInv
  <2>2. \/ ktab' = [ktab EXCEPT ![Islot(d)].locked = TRUE]
        \/ \E y : ktab' = [ktab EXCEPT ![Islot(d)].len = y]
    BY DEF Write, Writes
  <2>3. /\ [ktab[Islot(d)] EXCEPT !.locked = TRUE].ino = ktab[Islot(d)].ino
        /\ [ktab[Islot(d)] EXCEPT !.locked = TRUE].live = ktab[Islot(d)].live
    BY <2>1 DEF KNodes
  <2>4. CASE ktab' = [ktab EXCEPT ![Islot(d)].locked = TRUE]
    BY <2>1, <2>3, <2>4
  <2>5. ASSUME NEW y, ktab' = [ktab EXCEPT ![Islot(d)].len = y]
        PROVE  \A s \in Slots : ktab'[s].ino = ktab[s].ino /\ ktab'[s].live = ktab[s].live
    BY <1>1, <2>1, <2>5, SetLen
  <2> QED
    BY <2>2, <2>4, <2>5
<1> QED
  BY <1>1, <1>3, <1>4, <1>5, SoloSame

LEMMA SoloOther ==
  ASSUME SoloInv, TypeInv',
         \/ \E d \in Fds : WriteHangs(d)
         \/ \E f \in Files : Rm(f)
         \/ StartFormat \/ Exit \/ FinishExit
         \/ UNCHANGED vars
  PROVE  SoloInv'
<1>1. UNCHANGED <<idle, vtab, ktab, open, fds, home, solo>>
  BY DEF WriteHangs, Rm, StartFormat, Exit, FinishExit, vars, tables
<1> QED
  BY <1>1, SoloSame

LEMMA SoloFinishFormat == ASSUME SoloInv, NEW kept, FinishFormat(kept) PROVE SoloInv'
<1>1. TypeInv' /\ TypeInv
  BY TypeFinishFormat DEF SoloInv
<1>2. UNCHANGED <<idle, vtab, open, fds, home, solo>> /\ ktab' = [ktab EXCEPT ![0].len = 1]
  BY DEF FinishFormat
<1>3. \A s \in Slots : ktab'[s].ino = ktab[s].ino /\ ktab'[s].live = ktab[s].live
  BY <1>1, <1>2, SlotZero, SetLen DEF TypeInv
<1> QED
  BY <1>1, <1>2, <1>3, SoloSame

LEMMA SoloNext == SoloInv /\ [Next]_vars => SoloInv'
<1> SUFFICES ASSUME SoloInv, [Next]_vars PROVE SoloInv'
  OBVIOUS
<1>1. TypeInv' /\ TypeInv
  BY TypeNext DEF SoloInv
<1>2. CASE Mount
  BY <1>1, <1>2, SoloMount
<1>3. CASE (\E f \in Files : Touch(f)) \/ FailsToOpen
  BY <1>3, SoloFails
<1>4. CASE \E f \in Inos : Open(f)
  BY <1>4, SoloOpen
<1>5. CASE (\E d \in Fds : Close(d)) \/ CloseNext
  BY <1>5, SoloClose
<1>6. CASE \E d \in Fds, off \in 0 .. MaxLen : Lseek(d, off)
  BY <1>6, SoloLseek
<1>7. CASE \E d \in Fds, n \in 1 .. MaxLen : Read(d, n) \/ Write(d, n)
  BY <1>7, SoloRead, SoloWrite
<1>8. CASE \/ \E d \in Fds : WriteHangs(d)
           \/ \E f \in Files : Rm(f)
           \/ StartFormat \/ Exit \/ FinishExit
           \/ UNCHANGED vars
  BY <1>1, <1>8, SoloOther
<1>9. CASE FinishFormat(names) \/ FinishFormat({})
  BY <1>9, SoloFinishFormat
<1> QED
  BY <1>2, <1>3, <1>4, <1>5, <1>6, <1>7, <1>8, <1>9 DEF Next

\* With one file open at a time a descriptor holds the file it was opened for,
\* however often the lists of idle slots are topped up and out of step: get_a_idleloc
\* never hands out the slots of an open file.
THEOREM SoloOwn == Spec => []SoloIsOwn
<1>1. SoloInv => SoloIsOwn
  BY DEF SoloInv, SoloIsOwn, OwnAll
<1>2. Spec => []SoloInv
  BY SoloInit, SoloNext, PTL DEF Spec
<1> QED
  BY <1>1, <1>2, PTL
=============================================================================
