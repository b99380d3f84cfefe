---------------------------- MODULE FileIOProofs ----------------------------
(***************************************************************************)
(* Theorems about reading and writing files, for blocks, files and disks   *)
(* of every size and any number of descriptors.                            *)
(***************************************************************************)
EXTENDS FileIO, FiniteSetTheorems, WellFoundedInduction, TLAPS

USE SizeAssumption, FilesAssumption, BlocksAssumption, BytesAssumption, TextsAssumption,
    BoundAssumption

----------------------------------------------------------------------------
(* Numbers.                                                                *)

\* The larger and the smaller of two numbers.
LEMMA MaxIs ==
  ASSUME NEW a \in Int, NEW b \in Int
  PROVE  Max({a, b}) = IF a >= b THEN a ELSE b
BY DEF Max

LEMMA MinIs ==
  ASSUME NEW a \in Int, NEW b \in Int
  PROVE  Min({a, b}) = IF a <= b THEN a ELSE b
BY DEF Min

\* A set of numbers has a smallest one.
LEMMA LeastIs ==
  ASSUME NEW T \in SUBSET Nat, T # {}
  PROVE  \E x \in T : \A y \in T : x <= y
<1> DEFINE R == OpToRel(<, Nat)
<1>1. IsWellFoundedOn(R, Nat)
  BY NatLessThanWellFounded
<1>2. R = {ss \in Nat \X Nat : ss[1] < ss[2]}
  BY DEF OpToRel
<1> HIDE DEF R
<1>3. PICK x \in T : \A y \in T : ~(<<y, x>> \in R)
  BY <1>1, WFMin
<1>4. \A y \in T : ~(y < x)
  BY <1>2, <1>3
<1> QED
  BY <1>4

\* Induction up to n, over a set instead of a predicate.
LEMMA Climb ==
  ASSUME NEW n \in Nat, NEW D, 0 \in D, \A m \in 1 .. n : m - 1 \in D => m \in D
  PROVE  0 .. n \subseteq D
<1> SUFFICES ASSUME NEW m \in 0 .. n, m \notin D PROVE FALSE
  OBVIOUS
<1> DEFINE T == (0 .. n) \ D
<1>1. PICK l \in T : \A y \in T : l <= y
  <2>1. T \in SUBSET Nat /\ T # {}
    OBVIOUS
  <2> HIDE DEF T
  <2> QED
    BY <2>1, LeastIs
<1>2. l # 0
  OBVIOUS
<1>3. l \in 1 .. n /\ l - 1 \in 0 .. n
  BY <1>2
<1>4. l - 1 \in D
  BY <1>1, <1>3
<1> QED
  BY <1>1, <1>3, <1>4

\* A product grows with its first factor.
LEMMA TimesMonotone ==
  ASSUME NEW a \in Nat, NEW b \in Nat, NEW c \in Nat, a <= b
  PROVE  a * c <= b * c /\ a * c \in Nat /\ b * c \in Nat
<1>1. \A d \in Nat : d * c \in Nat
  OBVIOUS
<1>2. b = a + (b - a) /\ b - a \in Nat
  OBVIOUS
<1>3. b * c = a * c + (b - a) * c
  BY <1>2
<1> QED
  BY <1>1, <1>2, <1>3

\* A place in a file is a block and a place in the block.
LEMMA PlaceIs ==
  ASSUME NEW p \in Nat
  PROVE  /\ p \div BlockSize \in Nat
         /\ p % BlockSize \in Offsets
         /\ p = (p \div BlockSize) * BlockSize + (p % BlockSize)
BY DEF Offsets

\* ... and no other.
LEMMA PlaceFrom ==
  ASSUME NEW i \in Nat, NEW j \in Offsets
  PROVE  /\ i * BlockSize + j \in Nat
         /\ (i * BlockSize + j) \div BlockSize = i
         /\ (i * BlockSize + j) % BlockSize = j
<1>1. i * BlockSize \in Nat /\ j \in Nat /\ j < BlockSize
  BY TimesMonotone DEF Offsets
<1> DEFINE p == i * BlockSize + j
           q == p \div BlockSize
           r == p % BlockSize
<1>2. p \in Nat
  BY <1>1
<1> HIDE DEF p
<1>3. q \in Nat /\ r \in Nat /\ r < BlockSize /\ p = q * BlockSize + r
  BY <1>2, PlaceIs DEF Offsets
<1> HIDE DEF q, r
<1>4. ~(q + 1 <= i)
  <2> SUFFICES ASSUME q + 1 <= i PROVE FALSE
    OBVIOUS
  <2>1. (q + 1) * BlockSize <= i * BlockSize
    BY <1>3, TimesMonotone
  <2>2. (q + 1) * BlockSize = q * BlockSize + BlockSize /\ q * BlockSize \in Nat
    BY <1>3, TimesMonotone
  <2> QED
    BY <1>1, <1>3, <2>1, <2>2 DEF p
<1>5. ~(i + 1 <= q)
  <2> SUFFICES ASSUME i + 1 <= q PROVE FALSE
    OBVIOUS
  <2>1. (i + 1) * BlockSize <= q * BlockSize /\ q * BlockSize \in Nat
    BY <1>3, TimesMonotone
  <2>2. (i + 1) * BlockSize = i * BlockSize + BlockSize
    OBVIOUS
  <2> QED
    BY <1>1, <1>3, <2>1, <2>2 DEF p
<1>6. q = i
  BY <1>3, <1>4, <1>5
<1> QED
  BY <1>1, <1>2, <1>3, <1>6 DEF p, q, r

\* The block of a later place is not an earlier one.
LEMMA BlockMonotone ==
  ASSUME NEW p \in Nat, NEW q \in Nat, p <= q
  PROVE  p \div BlockSize <= q \div BlockSize
<1> DEFINE a == p \div BlockSize
           b == q \div BlockSize
           r == p % BlockSize
           s == q % BlockSize
<1>1. a \in Nat /\ b \in Nat /\ r \in Nat /\ s \in Nat /\ s < BlockSize
        /\ p = a * BlockSize + r /\ q = b * BlockSize + s
  BY PlaceIs DEF Offsets
<1> HIDE DEF a, b, r, s
<1> SUFFICES ASSUME b + 1 <= a PROVE FALSE
  BY <1>1 DEF a, b
<1>2. (b + 1) * BlockSize <= a * BlockSize /\ b * BlockSize \in Nat /\ a * BlockSize \in Nat
  BY <1>1, TimesMonotone
<1>3. (b + 1) * BlockSize = b * BlockSize + BlockSize
  BY <1>1
<1> QED
  BY <1>1, <1>2, <1>3

LEMMA MaxLenIs == MaxLen \in Nat /\ BlockSize <= MaxLen
<1>1. 1 * BlockSize <= MaxBlocks * BlockSize /\ MaxBlocks * BlockSize \in Nat
  BY TimesMonotone
<1> QED
  BY <1>1 DEF MaxLen

\* A place below the largest length is in a block a file can have.
LEMMA PlaceInFile ==
  ASSUME NEW p \in Nat, p < MaxLen
  PROVE  p \div BlockSize \in 0 .. MaxBlocks - 1
<1> DEFINE a == p \div BlockSize
           r == p % BlockSize
<1>1. a \in Nat /\ r \in Nat /\ p = a * BlockSize + r
  BY PlaceIs DEF Offsets
<1> HIDE DEF a, r
<1> SUFFICES ASSUME MaxBlocks <= a PROVE FALSE
  BY <1>1 DEF a
<1>2. MaxBlocks * BlockSize <= a * BlockSize /\ a * BlockSize \in Nat
  BY <1>1, TimesMonotone
<1>3. MaxBlocks * BlockSize = MaxLen
  BY DEF MaxLen
<1> QED
  BY <1>1, <1>2, <1>3, MaxLenIs

----------------------------------------------------------------------------
(* The values the variables take, with names for the sets of records.      *)

Idx == DOMAIN NoBlocks
Addrs == [Idx -> Blocks]
Inodes == [len : 0 .. MaxLen, addr : Addrs]
Bufs == [Offsets -> Bytes]
Disks == [Blocks -> Bufs]
KNodes == [file : Files \cup {Root, NoFile}, len : 0 .. MaxLen, addr : Addrs,
           used : 0 .. MaxBlocks - 1, off : 0 .. MaxLen, cur : -1 .. MaxBlocks - 1,
           buf : Bufs, lock : BOOLEAN]

\* A file that has a name, and one that is open, has a first block.
HasFirstBlock ==
  /\ \A f \in names : inodes[f].addr[0] # Zero
  /\ \A d \in Fds : fds[d].file \in Files => fds[d].addr[0] # Zero

TypeInv ==
  /\ names \subseteq Files
  /\ inodes \in [Files \cup {Root} -> Inodes]
  /\ disk \in Disks
  /\ free \subseteq Blocks \ {Zero}
  /\ fds \in [Fds -> KNodes]
  /\ got \in Seq(Bytes)
  /\ exact \in BOOLEAN
  /\ HasFirstBlock

LEMMA IdxIs == Idx = 0 .. MaxBlocks - 1 /\ 0 \in Idx /\ IsFiniteSet(Idx)
<1>1. Idx = 0 .. MaxBlocks - 1
  BY DEF Idx, NoBlocks
<1> QED
  BY <1>1, FS_Interval

LEMMA BlanksAre ==
  /\ Nuls \in Bufs /\ DirBlock \in Bufs /\ NoBlocks \in Addrs
  /\ NoInode \in Inodes /\ 0 \in 0 .. MaxLen /\ BlockSize \in 0 .. MaxLen
  /\ 0 \in Fds
<1>1. Nuls \in Bufs /\ DirBlock \in Bufs
  BY DEF Nuls, DirBlock, Bufs, Bytes
<1>2. NoBlocks \in Addrs
  BY DEF Addrs, Idx, NoBlocks
<1>3. 0 \in 0 .. MaxLen /\ BlockSize \in 0 .. MaxLen
  BY MaxLenIs
<1> QED
  BY <1>1, <1>2, <1>3 DEF NoInode, Inodes, Fds

LEMMA ClosedType ==
  ASSUME NEW addr \in Addrs, NEW lock \in BOOLEAN
  PROVE  Closed(addr, lock) \in KNodes
<1>1. 0 \in 0 .. MaxBlocks - 1 /\ 0 \in -1 .. MaxBlocks - 1
  OBVIOUS
<1> QED
  BY <1>1, BlanksAre DEF Closed, KNodes

\* A kernel index node, with its fields in order, and what becomes of it when one
\* of them is set.
Node(f, l, a, u, o, c, b, lk) ==
  [file |-> f, len |-> l, addr |-> a, used |-> u, off |-> o, cur |-> c, buf |-> b, lock |-> lk]

LEMMA NodeIs ==
  ASSUME NEW k \in KNodes
  PROVE  k = Node(k.file, k.len, k.addr, k.used, k.off, k.cur, k.buf, k.lock)
BY DEF KNodes, Node

LEMMA NodeFields ==
  ASSUME NEW f, NEW l, NEW a, NEW u, NEW o, NEW c, NEW b, NEW lk
  PROVE  LET k == Node(f, l, a, u, o, c, b, lk)
         IN /\ k.file = f /\ k.len = l /\ k.addr = a /\ k.used = u /\ k.off = o /\ k.cur = c
            /\ k.buf = b /\ k.lock = lk
BY DEF Node

LEMMA NodeType ==
  ASSUME NEW f \in Files \cup {Root, NoFile}, NEW l \in 0 .. MaxLen, NEW a \in Addrs,
         NEW u \in 0 .. MaxBlocks - 1, NEW o \in 0 .. MaxLen, NEW c \in -1 .. MaxBlocks - 1,
         NEW b \in Bufs, NEW lk \in BOOLEAN
  PROVE  Node(f, l, a, u, o, c, b, lk) \in KNodes
BY DEF Node, KNodes

LEMMA SetFile ==
  ASSUME NEW f, NEW l, NEW a, NEW u, NEW o, NEW c, NEW b, NEW lk, NEW x
  PROVE  [Node(f, l, a, u, o, c, b, lk) EXCEPT !.file = x] = Node(x, l, a, u, o, c, b, lk)
BY DEF Node

LEMMA SetLen ==
  ASSUME NEW f, NEW l, NEW a, NEW u, NEW o, NEW c, NEW b, NEW lk, NEW x
  PROVE  [Node(f, l, a, u, o, c, b, lk) EXCEPT !.len = x] = Node(f, x, a, u, o, c, b, lk)
BY DEF Node

LEMMA SetAddr ==
  ASSUME NEW f, NEW l, NEW a, NEW u, NEW o, NEW c, NEW b, NEW lk, NEW x
  PROVE  [Node(f, l, a, u, o, c, b, lk) EXCEPT !.addr = x] = Node(f, l, x, u, o, c, b, lk)
BY DEF Node

LEMMA SetUsed ==
  ASSUME NEW f, NEW l, NEW a, NEW u, NEW o, NEW c, NEW b, NEW lk, NEW x
  PROVE  [Node(f, l, a, u, o, c, b, lk) EXCEPT !.used = x] = Node(f, l, a, x, o, c, b, lk)
BY DEF Node

LEMMA SetOff ==
  ASSUME NEW f, NEW l, NEW a, NEW u, NEW o, NEW c, NEW b, NEW lk, NEW x
  PROVE  [Node(f, l, a, u, o, c, b, lk) EXCEPT !.off = x] = Node(f, l, a, u, x, c, b, lk)
BY DEF Node

LEMMA SetCur ==
  ASSUME NEW f, NEW l, NEW a, NEW u, NEW o, NEW c, NEW b, NEW lk, NEW x
  PROVE  [Node(f, l, a, u, o, c, b, lk) EXCEPT !.cur = x] = Node(f, l, a, u, o, x, b, lk)
BY DEF Node

LEMMA SetBuf ==
  ASSUME NEW f, NEW l, NEW a, NEW u, NEW o, NEW c, NEW b, NEW lk, NEW x
  PROVE  [Node(f, l, a, u, o, c, b, lk) EXCEPT !.buf = x] = Node(f, l, a, u, o, c, x, lk)
BY DEF Node

LEMMA SetLock ==
  ASSUME NEW f, NEW l, NEW a, NEW u, NEW o, NEW c, NEW b, NEW lk, NEW x
  PROVE  [Node(f, l, a, u, o, c, b, lk) EXCEPT !.lock = x] = Node(f, l, a, u, o, c, b, x)
BY DEF Node

LEMMA RootFdIs == RootFd = Node(Root, BlockSize, NoBlocks, 0, 0, -1, Nuls, FALSE)
<1> DEFINE no == FALSE
           s == Node(Root, 0, NoBlocks, 0, 0, 0, Nuls, no)
           t == Node(Root, BlockSize, NoBlocks, 0, 0, 0, Nuls, no)
<1>2. Closed(NoBlocks, no) = Node(NoFile, 0, NoBlocks, 0, 0, 0, Nuls, no)
  BY DEF Closed, Node
<1> HIDE DEF no
<1>3. [Closed(NoBlocks, no) EXCEPT !.file = Root] = s
  BY <1>2, SetFile
<1>4. [s EXCEPT !.len = BlockSize] = t
  BY SetLen
<1>5. [t EXCEPT !.cur = -1] = Node(Root, BlockSize, NoBlocks, 0, 0, -1, Nuls, no)
  BY SetCur
<1> HIDE DEF s, t
<1>6. RootFd = Node(Root, BlockSize, NoBlocks, 0, 0, -1, Nuls, no)
  BY <1>3, <1>4, <1>5 DEF RootFd, no
<1> QED
  BY <1>6 DEF no

LEMMA RootFdType == RootFd \in KNodes
<1> DEFINE no == FALSE
<1>1. 0 \in 0 .. MaxBlocks - 1 /\ -1 \in -1 .. MaxBlocks - 1 /\ no \in BOOLEAN
  OBVIOUS
<1>2. RootFd = Node(Root, BlockSize, NoBlocks, 0, 0, -1, Nuls, no)
  BY RootFdIs
<1> HIDE DEF no
<1> QED
  BY <1>1, <1>2, BlanksAre, NodeType

\* The blocks in use are the first ones.
LEMMA UsedIs ==
  ASSUME NEW addr \in Addrs
  PROVE  /\ Cardinality(Used(addr)) \in 0 .. MaxBlocks
         /\ Used(addr) = 0 .. Cardinality(Used(addr)) - 1
         /\ addr[0] # Zero => Cardinality(Used(addr)) - 1 \in 0 .. MaxBlocks - 1
<1> DEFINE T == {i \in 0 .. MaxBlocks - 1 : addr[i] = Zero}
<1>1. PICK n \in 0 .. MaxBlocks : Used(addr) = 0 .. n - 1
  <2>1. CASE T = {}
    <3>1. Used(addr) = 0 .. MaxBlocks - 1
      BY <2>1 DEF Used
    <3> QED
      BY <3>1
  <2>2. CASE T # {}
    <3>1. T \in SUBSET Nat
      OBVIOUS
    <3> HIDE DEF T
    <3>2. PICK t \in T : \A u \in T : t <= u
      BY <2>2, <3>1, LeastIs
    <3>3. t \in 0 .. MaxBlocks - 1 /\ addr[t] = Zero
      BY <3>2 DEF T
    <3>4. \A j \in 0 .. t - 1 : addr[j] # Zero
      BY <3>2, <3>3 DEF T
    <3>5. ASSUME NEW i \in Used(addr) PROVE i \in 0 .. t - 1
      BY <3>3, <3>5 DEF Used
    <3>6. ASSUME NEW i \in 0 .. t - 1 PROVE i \in Used(addr)
      BY <3>3, <3>4 DEF Used
    <3>7. Used(addr) = 0 .. t - 1
      BY <3>5, <3>6
    <3> QED
      BY <3>3, <3>7
  <2> QED
    BY <2>1, <2>2
<1>2. Cardinality(0 .. n - 1) = n
  <2>1. Cardinality(0 .. n - 1) = IF 0 > n - 1 THEN 0 ELSE n - 1 - 0 + 1
    BY FS_Interval
  <2> QED
    BY <2>1
<1>3. Cardinality(Used(addr)) = n
  BY <1>1, <1>2
<1>4. addr[0] # Zero => 0 \in Used(addr)
  BY DEF Used
<1> QED
  BY <1>1, <1>3, <1>4

LEMMA UsedSubset ==
  ASSUME NEW addr \in Addrs
  PROVE  /\ Used(addr) \subseteq Idx /\ IsFiniteSet(Used(addr))
         /\ \A i \in Used(addr) : addr[i] \in Blocks \ {Zero}
         /\ BlocksOf(addr) \subseteq Blocks \ {Zero}
<1>1. Used(addr) \subseteq Idx
  BY IdxIs DEF Used
<1>2. \A i \in Used(addr) : addr[i] \in Blocks \ {Zero}
  <2>1. \A i \in Used(addr) : i \in 0 .. i
    BY IdxIs, <1>1
  <2> QED
    BY <1>1, <2>1 DEF Used, Addrs
<1>3. IsFiniteSet(Used(addr))
  BY <1>1, IdxIs, FS_Subset
<1> QED
  BY <1>1, <1>2, <1>3 DEF BlocksOf

LEMMA WipedType ==
  ASSUME TypeInv, NEW S
  PROVE  Wiped(S) \in Disks
BY BlanksAre DEF Wiped, Disks, TypeInv

LEMMA StoredType ==
  ASSUME NEW k \in KNodes
  PROVE  Stored(k) \in Inodes /\ Stored(k).len = k.len /\ Stored(k).addr = k.addr
BY DEF Stored, KNodes, Inodes

----------------------------------------------------------------------------
(* The loops of my_read and my_write.                                      *)

\* What loading a block leaves of a kernel index node.
Same(k, l) ==
  /\ l.file = k.file /\ l.len = k.len /\ l.addr = k.addr /\ l.used = k.used
  /\ l.off = k.off /\ l.lock = k.lock

LEMMA BufSet ==
  ASSUME NEW k \in KNodes, NEW buf \in Bufs
  PROVE  LET l == [k EXCEPT !.buf = buf]
         IN l \in KNodes /\ Same(k, l) /\ l.cur = k.cur /\ l.buf = buf
<1> DEFINE l == Node(k.file, k.len, k.addr, k.used, k.off, k.cur, buf, k.lock)
<1>1. [k EXCEPT !.buf = buf] = l
  BY NodeIs, SetBuf
<1>2. l \in KNodes
  BY NodeType DEF KNodes
<1> QED
  BY <1>1, <1>2, NodeFields DEF Same

Holding(k, i, buf) == [k EXCEPT !.cur = i, !.buf = buf]

LEMMA HoldingIs ==
  ASSUME NEW k \in KNodes, NEW i \in Idx, NEW buf \in Bufs
  PROVE  LET l == Holding(k, i, buf)
         IN l \in KNodes /\ Same(k, l) /\ l.cur = i /\ l.buf = buf
<1> DEFINE m == Node(k.file, k.len, k.addr, k.used, k.off, i, k.buf, k.lock)
           l == Node(k.file, k.len, k.addr, k.used, k.off, i, buf, k.lock)
<1>1. [k EXCEPT !.cur = i] = m
  BY NodeIs, SetCur
<1>2. [m EXCEPT !.buf = buf] = l
  BY SetBuf
<1> HIDE DEF m
<1>3. Holding(k, i, buf) = l
  BY <1>1, <1>2 DEF Holding
<1>4. i \in -1 .. MaxBlocks - 1
  BY IdxIs
<1>5. l \in KNodes
  BY <1>4, NodeType DEF KNodes
<1> QED
  BY <1>3, <1>5, NodeFields DEF Same

LEMMA LoadedIs ==
  ASSUME NEW k \in KNodes, NEW dsk \in Disks, NEW i \in Idx
  PROVE  LET l == Loaded(k, dsk, i)
         IN /\ l \in KNodes /\ Same(k, l) /\ l.cur = i
            /\ l.buf = IF k.cur = i THEN k.buf ELSE dsk[k.addr[i]]
<1>1. k.addr[i] \in Blocks
  BY DEF KNodes, Addrs
<1> DEFINE buf == dsk[k.addr[i]]
<1>2. buf \in Bufs
  BY <1>1 DEF Disks
<1>3. CASE k.cur = i
  BY <1>3 DEF Loaded, Same
<1>4. CASE k.cur # i
  <2> DEFINE l == Holding(k, i, buf)
  <2>1. Loaded(k, dsk, i) = l
    BY <1>4 DEF Loaded, Holding
  <2> HIDE DEF buf
  <2>2. l \in KNodes /\ Same(k, l) /\ l.cur = i /\ l.buf = buf
    BY <1>2, HoldingIs
  <2> HIDE DEF l
  <2> QED
    BY <1>4, <2>1, <2>2 DEF l, buf
<1> QED
  BY <1>3, <1>4

\* The loops pass through blocks the file can have.
LEMMA RoundsAre ==
  ASSUME NEW k \in KNodes, NEW n \in Nat, k.off + n <= MaxLen
  PROVE  /\ FirstBlock(k) \in Nat /\ LastBlock(k, n) \in Idx /\ Rounds(k, n) \in Nat
         /\ \A m \in 1 .. Rounds(k, n) :
              FirstBlock(k) + m - 1 \in Idx /\ FirstBlock(k) + m - 1 <= LastBlock(k, n)
<1> DEFINE o == k.off
<1>1. o \in Nat /\ MaxLen \in Nat
  BY MaxLenIs DEF KNodes
<1> HIDE DEF o
<1>a. o \div BlockSize \in Nat /\ o % BlockSize \in Offsets
        /\ o = (o \div BlockSize) * BlockSize + (o % BlockSize)
  BY <1>1, PlaceIs
<1> USE DEF o
<1>2. FirstBlock(k) \in Nat /\ k.off % BlockSize \in Nat
        /\ k.off = FirstBlock(k) * BlockSize + (k.off % BlockSize)
  BY <1>1, <1>a DEF FirstBlock, Offsets
<1>3. LastBlock(k, n) \in Idx /\ LastBlock(k, n) >= FirstBlock(k) - 1
  <2>1. CASE k.off + n = 0
    <3>1. 0 \in Offsets
      BY DEF Offsets
    <3>2. 0 \div BlockSize = 0
      BY <3>1, PlaceFrom, 0 * BlockSize + 0 = 0
    <3>3. k.off = 0
      BY <1>1, <2>1
    <3> QED
      BY <2>1, <3>2, <3>3, IdxIs DEF LastBlock, FirstBlock
  <2>2. CASE k.off + n # 0
    <3> DEFINE p == k.off + n - 1
    <3>1. p \in Nat /\ p < MaxLen /\ LastBlock(k, n) = p \div BlockSize
      BY <1>1, <2>2 DEF LastBlock
    <3>2. LastBlock(k, n) \in Idx
      BY <3>1, PlaceInFile, IdxIs
    <3>3. CASE FirstBlock(k) = 0
      BY <3>2, <3>3, IdxIs
    <3>4. CASE FirstBlock(k) # 0
      <4> DEFINE q == FirstBlock(k) - 1
      <4>1. q \in Nat /\ 0 \in Offsets
        BY <1>2, <3>4 DEF Offsets
      <4>2. (q * BlockSize + 0) \div BlockSize = q /\ q * BlockSize + 0 \in Nat
        BY <4>1, PlaceFrom
      <4>3. FirstBlock(k) = q + 1
        BY <1>2
      <4>4. FirstBlock(k) * BlockSize = q * BlockSize + BlockSize
        <5> HIDE DEF q
        <5> QED
          BY <4>1, <4>3
      <4>5. q * BlockSize + 0 <= p
        <5>1. q * BlockSize \in Nat
          BY <4>1, TimesMonotone
        <5> HIDE DEF q
        <5> QED
          BY <1>1, <1>2, <4>4, <5>1
      <4> HIDE DEF q, p
      <4>6. q <= LastBlock(k, n)
        BY <3>1, <4>2, <4>5, BlockMonotone
      <4> QED
        BY <3>2, <4>6 DEF q
    <3> QED
      BY <3>3, <3>4
  <2> QED
    BY <2>1, <2>2
<1> QED
  BY <1>2, <1>3, IdxIs DEF Rounds

\* The loop of my_write is what its recursion says.
LEMMA WriteRun ==
  ASSUME NEW k, NEW dsk, NEW text, Rounds(k, Len(text)) \in Nat
  PROVE  /\ WriteUpTo(k, dsk, text)[0] = [k |-> k, disk |-> dsk]
         /\ \A m \in 1 .. Rounds(k, Len(text)) :
              WriteUpTo(k, dsk, text)[m] =
                WriteBlock(WriteUpTo(k, dsk, text)[m - 1], FirstBlock(k) + m - 1, text)
<1> DEFINE R == Rounds(k, Len(text))
           start == [k |-> k, disk |-> dsk]
           Next1(x, m) == WriteBlock(x, FirstBlock(k) + m - 1, text)
           Is(g, n) == g = [m \in 0 .. n |-> IF m = 0 THEN start ELSE Next1(g[m - 1], m)]
           D == {n \in 0 .. R : \E g : Is(g, n)}
           w == WriteUpTo(k, dsk, text)
<1>0. w = CHOOSE g : Is(g, R)
  BY DEF WriteUpTo
<1> HIDE DEF w, start, Next1
<1>1. 0 \in D
  <2> DEFINE g == [m \in 0 .. 0 |-> start]
  <2>1. Is(g, 0)
    OBVIOUS
  <2> HIDE DEF g
  <2>2. \E x : Is(x, 0)
    BY <2>1
  <2> QED
    BY <2>2
<1>2. ASSUME NEW n \in 1 .. R, n - 1 \in D PROVE n \in D
  <2>1. PICK g : Is(g, n - 1)
    BY <1>2
  <2> DEFINE h == [m \in 0 .. n |-> IF m <= n - 1 THEN g[m] ELSE Next1(g[n - 1], n)]
  <2>2. \A m \in 0 .. n - 1 : h[m] = g[m]
    OBVIOUS
  <2>3. h[0] = start
    BY <2>1, <2>2
  <2>4. ASSUME NEW m \in 1 .. n PROVE h[m] = Next1(h[m - 1], m)
    <3>1. h[m - 1] = g[m - 1]
      BY <2>2
    <3>2. CASE m = n
      BY <3>1, <3>2
    <3>3. CASE m # n
      <4>1. m \in 0 .. n - 1 /\ m # 0
        BY <3>3
      <4>2. g[m] = Next1(g[m - 1], m)
        BY <2>1, <4>1
      <4> QED
        BY <2>2, <3>1, <4>1, <4>2
    <3> QED
      BY <3>2, <3>3
  <2>5. Is(h, n)
    BY <2>3, <2>4
  <2> HIDE DEF h
  <2> QED
    BY <2>5
<1>3. R \in D
  <2>1. R \in Nat
    OBVIOUS
  <2> HIDE DEF R, D
  <2> QED
    BY <1>1, <1>2, <2>1, Climb
<1>4. Is(w, R)
  BY <1>0, <1>3
<1>5. w[0] = start
  BY <1>4
<1>6. \A m \in 1 .. R : w[m] = Next1(w[m - 1], m)
  BY <1>4
<1> QED
  BY <1>5, <1>6 DEF w, start, Next1

\* The loop of my_read is what its recursion says.
LEMMA ReadRun ==
  ASSUME NEW k, NEW n, Rounds(k, n) \in Nat
  PROVE  /\ ReadUpTo(k, n)[0] = [k |-> k, out |-> <<>>, all |-> <<>>]
         /\ \A m \in 1 .. Rounds(k, n) :
              ReadUpTo(k, n)[m] =
                ReadBlock(ReadUpTo(k, n)[m - 1], FirstBlock(k) + m - 1, n)
<1> DEFINE R == Rounds(k, n)
           start == [k |-> k, out |-> <<>>, all |-> <<>>]
           Next1(x, m) == ReadBlock(x, FirstBlock(k) + m - 1, n)
           Is(g, c) == g = [m \in 0 .. c |-> IF m = 0 THEN start ELSE Next1(g[m - 1], m)]
           D == {c \in 0 .. R : \E g : Is(g, c)}
           w == ReadUpTo(k, n)
<1>0. w = CHOOSE g : Is(g, R)
  BY DEF ReadUpTo
<1> HIDE DEF w, start, Next1
<1>1. 0 \in D
  <2> DEFINE g == [m \in 0 .. 0 |-> start]
  <2>1. Is(g, 0)
    OBVIOUS
  <2> HIDE DEF g
  <2>2. \E x : Is(x, 0)
    BY <2>1
  <2> QED
    BY <2>2
<1>2. ASSUME NEW c \in 1 .. R, c - 1 \in D PROVE c \in D
  <2>1. PICK g : Is(g, c - 1)
    BY <1>2
  <2> DEFINE h == [m \in 0 .. c |-> IF m <= c - 1 THEN g[m] ELSE Next1(g[c - 1], c)]
  <2>2. \A m \in 0 .. c - 1 : h[m] = g[m]
    OBVIOUS
  <2>3. h[0] = start
    BY <2>1, <2>2
  <2>4. ASSUME NEW m \in 1 .. c PROVE h[m] = Next1(h[m - 1], m)
    <3>1. h[m - 1] = g[m - 1]
      BY <2>2
    <3>2. CASE m = c
      BY <3>1, <3>2
    <3>3. CASE m # c
      <4>1. m \in 0 .. c - 1 /\ m # 0
        BY <3>3
      <4>2. g[m] = Next1(g[m - 1], m)
        BY <2>1, <4>1
      <4> QED
        BY <2>2, <3>1, <4>1, <4>2
    <3> QED
      BY <3>2, <3>3
  <2>5. Is(h, c)
    BY <2>3, <2>4
  <2> HIDE DEF h
  <2> QED
    BY <2>5
<1>3. R \in D
  <2>1. R \in Nat
    OBVIOUS
  <2> HIDE DEF R, D
  <2> QED
    BY <1>1, <1>2, <2>1, Climb
<1>4. Is(w, R)
  BY <1>0, <1>3
<1>5. w[0] = start
  BY <1>4
<1>6. \A m \in 1 .. R : w[m] = Next1(w[m - 1], m)
  BY <1>4
<1> QED
  BY <1>5, <1>6 DEF w, start, Next1

LEMMA PatchedType ==
  ASSUME NEW k \in KNodes, NEW i, NEW text \in Seq(Letters)
  PROVE  Patched(k, i, text) \in Bufs
<1> SUFFICES ASSUME NEW j \in Offsets
             PROVE  LET p == i * BlockSize + j - k.off + 1
                    IN (IF p \in DOMAIN text THEN text[p] ELSE k.buf[j]) \in Bytes
  BY DEF Patched, Bufs
<1>1. k.buf[j] \in Bytes
  BY DEF KNodes, Bufs
<1>2. \A p \in DOMAIN text : text[p] \in Bytes
  BY DEF Bytes
<1> QED
  BY <1>1, <1>2

\* What one block of my_write does: the kernel index node goes on to the block,
\* its buffer is changed, and the block becomes what the buffer is.
BlockWritten(w, v, i, text) ==
  LET old == IF w.k.cur = i THEN w.k.buf ELSE w.disk[w.k.addr[i]]
  IN /\ v.k \in KNodes /\ Same(w.k, v.k) /\ v.k.cur = i
     /\ v.disk \in Disks
     /\ v.disk = [w.disk EXCEPT ![w.k.addr[i]] = v.k.buf]
     /\ v.k.buf = [j \in Offsets |->
                     LET p == i * BlockSize + j - w.k.off + 1
                     IN IF p \in DOMAIN text THEN text[p] ELSE old[j]]

LEMMA WriteBlockIs ==
  ASSUME NEW w, w.k \in KNodes, w.disk \in Disks, NEW i \in Idx, NEW text \in Seq(Letters)
  PROVE  BlockWritten(w, WriteBlock(w, i, text), i, text)
<1> DEFINE b == Loaded(w.k, w.disk, i)
           buf == Patched(b, i, text)
           l == [b EXCEPT !.buf = buf]
           a == w.k.addr[i]
           dsk == [w.disk EXCEPT ![b.addr[i]] = buf]
           old == IF w.k.cur = i THEN w.k.buf ELSE w.disk[w.k.addr[i]]
<1>1. b \in KNodes /\ Same(w.k, b) /\ b.cur = i /\ b.buf = old
  BY LoadedIs
<1>2. WriteBlock(w, i, text) = [k |-> l, disk |-> dsk]
  BY DEF WriteBlock
<1>3. b.addr[i] = a /\ b.off = w.k.off
  BY <1>1 DEF Same
<1>4. buf = [j \in Offsets |-> LET p == i * BlockSize + j - w.k.off + 1
                              IN IF p \in DOMAIN text THEN text[p] ELSE old[j]]
  BY <1>1, <1>3 DEF Patched
<1> HIDE DEF b, old
<1>5. buf \in Bufs
  BY <1>1, PatchedType
<1> HIDE DEF buf
<1>6. l \in KNodes /\ Same(b, l) /\ l.cur = b.cur /\ l.buf = buf
  BY <1>1, <1>5, BufSet
<1> HIDE DEF l
<1>7. Same(w.k, l)
  BY <1>1, <1>6 DEF Same
<1>8. dsk = [w.disk EXCEPT ![a] = buf]
  BY <1>3
<1>9. dsk \in Disks
  BY <1>5, <1>8 DEF Disks
<1> HIDE DEF dsk, a
<1>10. WriteBlock(w, i, text).k = l /\ WriteBlock(w, i, text).disk = dsk
  BY <1>2
<1> QED
  BY <1>1, <1>4, <1>6, <1>7, <1>8, <1>9, <1>10 DEF a, old, BlockWritten

\* The types along the loop of my_write.
LEMMA WriteUpToType ==
  ASSUME NEW k \in KNodes, NEW dsk \in Disks, NEW text \in Seq(Letters),
         k.off + Len(text) <= MaxLen
  PROVE  \A m \in 0 .. Rounds(k, Len(text)) :
           LET w == WriteUpTo(k, dsk, text)[m]
           IN /\ w.k \in KNodes /\ Same(k, w.k) /\ w.disk \in Disks
              /\ m > 0 => w.k.cur = FirstBlock(k) + m - 1
              /\ m = 0 => w.k = k
<1> DEFINE R == Rounds(k, Len(text))
           w == WriteUpTo(k, dsk, text)
           Good(m) == /\ w[m].k \in KNodes /\ Same(k, w[m].k) /\ w[m].disk \in Disks
                      /\ m > 0 => w[m].k.cur = FirstBlock(k) + m - 1
                      /\ m = 0 => w[m].k = k
           D == {m \in 0 .. R : Good(m)}
<1>1. Len(text) \in Nat
  OBVIOUS
<1>2. R \in Nat /\ \A m \in 1 .. R : FirstBlock(k) + m - 1 \in Idx
  BY <1>1, RoundsAre
<1>3. /\ w[0] = [k |-> k, disk |-> dsk]
      /\ \A m \in 1 .. R : w[m] = WriteBlock(w[m - 1], FirstBlock(k) + m - 1, text)
  BY <1>2, WriteRun
<1> HIDE DEF w, R
<1>4. 0 \in D
  BY <1>2, <1>3 DEF Same
<1>5. ASSUME NEW m \in 1 .. R, m - 1 \in D PROVE m \in D
  <2> DEFINE u == w[m - 1]
             v == w[m]
             i == FirstBlock(k) + m - 1
  <2>1. u.k \in KNodes /\ Same(k, u.k) /\ u.disk \in Disks
    BY <1>5
  <2>2. v = WriteBlock(u, i, text) /\ i \in Idx
    BY <1>2, <1>3
  <2> HIDE DEF u, v, i
  <2>3. v.k \in KNodes /\ Same(u.k, v.k) /\ v.k.cur = i /\ v.disk \in Disks
    <3>1. BlockWritten(u, v, i, text)
      BY <2>1, <2>2, WriteBlockIs
    <3> QED
      BY <3>1 DEF BlockWritten
  <2>4. Same(k, v.k)
    BY <2>1, <2>3 DEF Same
  <2>5. Good(m)
    BY <2>3, <2>4 DEF v, i
  <2> HIDE DEF Good
  <2> QED
    BY <2>5
<1> HIDE DEF Good
<1>6. 0 .. R \subseteq D
  <2> HIDE DEF D
  <2> QED
    BY <1>2, <1>4, <1>5, Climb
<1>7. \A m \in 0 .. R : Good(m)
  BY <1>6
<1> QED
  BY <1>7 DEF Good, w, R

LEMMA ChunkType ==
  ASSUME NEW k \in KNodes, NEW i \in Nat, NEW n \in Nat
  PROVE  Chunk(k, i, n) \in Seq(Bytes)
<1> DEFINE from == Max({k.off, i * BlockSize})
           to == Min({k.off + n, (i + 1) * BlockSize})
<1>1. i * BlockSize \in Nat /\ (i + 1) * BlockSize \in Nat /\ k.off \in Nat
  <2>1. i \in Nat /\ i + 1 \in Nat /\ BlockSize \in Nat
    OBVIOUS
  <2>2. k.off \in Nat
    BY MaxLenIs DEF KNodes
  <2> QED
    BY <2>1, <2>2, TimesMonotone
<1>2. from \in Nat /\ to \in Nat
  <2>1. k.off + n \in Nat
    BY <1>1
  <2> QED
    BY <1>1, <2>1, MaxIs, MinIs
<1>3. Chunk(k, i, n) = [j \in 1 .. to - from |-> k.buf[(from + j - 1) % BlockSize]]
  BY DEF Chunk
<1> HIDE DEF from, to
<1>4. ASSUME NEW j \in 1 .. to - from PROVE k.buf[(from + j - 1) % BlockSize] \in Bytes
  <2>1. from + j - 1 \in Nat
    BY <1>2
  <2>2. (from + j - 1) % BlockSize \in Offsets
    BY <2>1, PlaceIs
  <2> QED
    BY <2>2 DEF KNodes, Bufs
<1>5. CASE to - from >= 0
  BY <1>2, <1>3, <1>4, <1>5
<1>6. CASE to - from < 0
  <2>1. 1 .. to - from = {}
    BY <1>2, <1>6
  <2>2. Chunk(k, i, n) = [j \in 1 .. 0 |-> k.buf[(from + j - 1) % BlockSize]]
    BY <1>3, <2>1
  <2>3. \A j \in 1 .. 0 : k.buf[(from + j - 1) % BlockSize] \in Bytes
    OBVIOUS
  <2> QED
    BY <2>2, <2>3
<1> QED
  BY <1>2, <1>5, <1>6

LEMMA StrncpyType ==
  ASSUME NEW s \in Seq(Bytes)
  PROVE  Strncpy(s) \in Seq(Bytes) /\ Len(Strncpy(s)) = Len(s)
<1> DEFINE t(i) == IF \E j \in 1 .. i : s[j] = Nul THEN Nul ELSE s[i]
<1>1. Strncpy(s) = [i \in 1 .. Len(s) |-> t(i)]
  BY DEF Strncpy
<1>2. \A i \in 1 .. Len(s) : t(i) \in Bytes
  BY DEF Bytes
<1> HIDE DEF t
<1>3. [i \in 1 .. Len(s) |-> t(i)] \in Seq(Bytes) /\ Len([i \in 1 .. Len(s) |-> t(i)]) = Len(s)
  BY <1>2
<1> QED
  BY <1>1, <1>3

BlockRead(r, s, i, n) ==
  /\ s.k \in KNodes /\ Same(r.k, s.k) /\ s.k.cur = i
  /\ s.k.buf = IF r.k.cur = i THEN r.k.buf ELSE disk[r.k.addr[i]]
  /\ s.out = r.out \o Strncpy(Chunk(s.k, i, n))
  /\ s.all = r.all \o Chunk(s.k, i, n)

LEMMA ReadBlockIs ==
  ASSUME NEW r, r.k \in KNodes, disk \in Disks, NEW i \in Idx, NEW n \in Nat
  PROVE  BlockRead(r, ReadBlock(r, i, n), i, n)
<1> DEFINE b == Loaded(r.k, disk, i)
<1>1. b \in KNodes /\ Same(r.k, b) /\ b.cur = i
        /\ b.buf = IF r.k.cur = i THEN r.k.buf ELSE disk[r.k.addr[i]]
  BY LoadedIs
<1>2. ReadBlock(r, i, n) = [k |-> b, out |-> r.out \o Strncpy(Chunk(b, i, n)),
                            all |-> r.all \o Chunk(b, i, n)]
  BY DEF ReadBlock
<1> HIDE DEF b
<1> QED
  BY <1>1, <1>2 DEF BlockRead

\* The types along the loop of my_read.
LEMMA ReadUpToType ==
  ASSUME NEW k \in KNodes, disk \in Disks, NEW n \in Nat, k.off + n <= MaxLen
  PROVE  \A m \in 0 .. Rounds(k, n) :
           LET r == ReadUpTo(k, n)[m]
           IN /\ r.k \in KNodes /\ Same(k, r.k)
              /\ r.out \in Seq(Bytes) /\ r.all \in Seq(Bytes) /\ Len(r.out) = Len(r.all)
              /\ m > 0 => r.k.cur = FirstBlock(k) + m - 1
              /\ m = 0 => r.k = k
<1> DEFINE R == Rounds(k, n)
           r == ReadUpTo(k, n)
           Good(m) == /\ r[m].k \in KNodes /\ Same(k, r[m].k)
                      /\ r[m].out \in Seq(Bytes) /\ r[m].all \in Seq(Bytes)
                      /\ Len(r[m].out) = Len(r[m].all)
                      /\ m > 0 => r[m].k.cur = FirstBlock(k) + m - 1
                      /\ m = 0 => r[m].k = k
           D == {m \in 0 .. R : Good(m)}
<1>2. R \in Nat /\ \A m \in 1 .. R : FirstBlock(k) + m - 1 \in Idx
  BY RoundsAre
<1>3. /\ r[0] = [k |-> k, out |-> <<>>, all |-> <<>>]
      /\ \A m \in 1 .. R : r[m] = ReadBlock(r[m - 1], FirstBlock(k) + m - 1, n)
  BY <1>2, ReadRun
<1> HIDE DEF r, R
<1>4. 0 \in D
  <2> DEFINE no == <<>>
  <2>1. no \in Seq(Bytes) /\ Len(no) = Len(no)
    OBVIOUS
  <2> HIDE DEF no
  <2>2. r[0].k = k /\ r[0].out = no /\ r[0].all = no
    BY <1>3 DEF no
  <2>3. Same(k, k)
    BY DEF Same
  <2>4. Good(0)
    BY <2>1, <2>2, <2>3
  <2> HIDE DEF Good
  <2> QED
    BY <1>2, <2>4
<1>5. ASSUME NEW m \in 1 .. R, m - 1 \in D PROVE m \in D
  <2> DEFINE u == r[m - 1]
             v == r[m]
             i == FirstBlock(k) + m - 1
  <2>1. u.k \in KNodes /\ Same(k, u.k) /\ u.out \in Seq(Bytes) /\ u.all \in Seq(Bytes)
          /\ Len(u.out) = Len(u.all)
    BY <1>5
  <2>2. v = ReadBlock(u, i, n) /\ i \in Idx
    BY <1>2, <1>3
  <2> HIDE DEF u, v, i
  <2>3. BlockRead(u, v, i, n)
    BY <2>1, <2>2, ReadBlockIs
  <2>4. Same(k, v.k) /\ v.k \in KNodes /\ v.k.cur = i
    BY <2>1, <2>3 DEF Same, BlockRead
  <2> DEFINE c == Chunk(v.k, i, n)
             t == Strncpy(c)
  <2>5. c \in Seq(Bytes)
    <3> DEFINE l == v.k
    <3>1. l \in KNodes /\ i \in Nat
      BY <2>2, <2>4, IdxIs
    <3> HIDE DEF l
    <3>2. Chunk(l, i, n) \in Seq(Bytes)
      BY <3>1, ChunkType
    <3> QED
      BY <3>2 DEF l
  <2> HIDE DEF c
  <2>6. t \in Seq(Bytes) /\ Len(t) = Len(c)
    BY <2>5, StrncpyType
  <2>7. v.out = u.out \o t /\ v.all = u.all \o c
    BY <2>3 DEF BlockRead, c
  <2> HIDE DEF t
  <2>8. v.out \in Seq(Bytes) /\ v.all \in Seq(Bytes) /\ Len(v.out) = Len(v.all)
    <3> DEFINE x == u.out
               y == u.all
    <3>1. x \in Seq(Bytes) /\ y \in Seq(Bytes) /\ Len(x) = Len(y)
      BY <2>1
    <3> HIDE DEF x, y
    <3>2. x \o t \in Seq(Bytes) /\ y \o c \in Seq(Bytes) /\ Len(x \o t) = Len(y \o c)
      BY <2>5, <2>6, <3>1
    <3> QED
      BY <2>7, <3>2 DEF x, y
  <2>9. Good(m)
    BY <2>4, <2>8 DEF v, i
  <2> HIDE DEF Good
  <2> QED
    BY <2>9
<1> HIDE DEF Good
<1>6. 0 .. R \subseteq D
  <2> HIDE DEF D
  <2> QED
    BY <1>2, <1>4, <1>5, Climb
<1>7. \A m \in 0 .. R : Good(m)
  BY <1>6
<1> QED
  BY <1>7 DEF Good, r, R

----------------------------------------------------------------------------
(* Every action keeps the types.                                           *)

LEMMA NodeAt ==
  ASSUME TypeInv, NEW d \in Fds
  PROVE  /\ fds[d] \in KNodes /\ fds[d].addr \in Addrs /\ fds[d].lock \in BOOLEAN
         /\ fds[d].used \in 0 .. MaxBlocks - 1 /\ fds[d].off \in 0 .. MaxLen
         /\ fds[d].len \in 0 .. MaxLen /\ fds[d].file \in Files \cup {Root, NoFile}
         /\ fds[d].buf \in Bufs /\ fds[d].cur \in -1 .. MaxBlocks - 1
<1>1. fds[d] \in KNodes
  BY DEF TypeInv
<1> QED
  BY <1>1 DEF KNodes

LEMMA LowestIs ==
  ASSUME NEW S \in SUBSET Fds, S # {}
  PROVE  Lowest(S) \in S
<1>1. S \in SUBSET Nat
  BY DEF Fds
<1>2. \E d \in S : \A e \in S : d <= e
  BY <1>1, LeastIs
<1> QED
  BY <1>2 DEF Lowest

LEMMA TypeInit == Init => TypeInv
<1> SUFFICES ASSUME Init PROVE TypeInv
  OBVIOUS
<1> USE DEF Init
<1>1. inodes \in [Files \cup {Root} -> Inodes]
  <2> SUFFICES ASSUME NEW f \in Files \cup {Root} PROVE inodes[f] \in Inodes
    OBVIOUS
  <2>1. inodes[f] = [len |-> IF f = Root THEN BlockSize ELSE 0, addr |-> NoBlocks]
    BY DEF NoInode
  <2> QED
    BY <2>1, BlanksAre DEF Inodes
<1>2. disk \in Disks
  BY BlanksAre DEF Disks
<1>3. \A d \in Fds : fds[d] \in KNodes /\ fds[d].file \notin Files
  <2> DEFINE no == FALSE
  <2>1. Closed(NoBlocks, no) \in KNodes /\ Closed(NoBlocks, no).file = NoFile
    <3>1. no \in BOOLEAN
      OBVIOUS
    <3> HIDE DEF no
    <3> QED
      BY <3>1, ClosedType, BlanksAre DEF Closed
  <2>2. RootFd \in KNodes /\ RootFd.file = Root
    BY RootFdType DEF RootFd, Closed
  <2> QED
    BY <2>1, <2>2
<1>4. fds \in [Fds -> KNodes]
  BY <1>3
<1>5. got \in Seq(Bytes)
  OBVIOUS
<1> QED
  BY <1>1, <1>2, <1>3, <1>4, <1>5 DEF TypeInv, HasFirstBlock

LEMMA TypeTouch ==
  ASSUME TypeInv, NEW f \in Files, Touch(f)
  PROVE  TypeInv'
<1>1. PICK b \in free, old \in Leftovers :
        /\ inodes' = [inodes EXCEPT ![f] = [len |-> 0, addr |-> [old EXCEPT ![0] = b]]]
        /\ Taken({b})
        /\ exact' = (exact /\ \A i \in 1 .. MaxBlocks - 1 : old[i] = Zero)
  BY DEF Touch
<1>2. old \in Addrs /\ b \in Blocks \ {Zero}
  <2>1. \A d \in IdleFds : fds[d].addr \in Addrs
    BY NodeAt DEF IdleFds
  <2> QED
    BY <2>1, BlanksAre DEF Leftovers, TypeInv
<1> DEFINE new == [old EXCEPT ![0] = b]
           n == [len |-> 0, addr |-> new]
<1>3. new \in Addrs /\ new[0] = b
  BY <1>2, IdxIs DEF Addrs
<1> HIDE DEF new
<1>4. n \in Inodes /\ n.addr = new
  BY <1>3, BlanksAre DEF Inodes
<1> HIDE DEF n
<1>5. inodes' = [inodes EXCEPT ![f] = n]
  BY <1>1 DEF n, new
<1>6. inodes' \in [Files \cup {Root} -> Inodes]
        /\ \A g \in Files : inodes'[g] = IF g = f THEN n ELSE inodes[g]
  BY <1>4, <1>5 DEF TypeInv
<1>7. disk' \in Disks /\ free' \subseteq Blocks \ {Zero}
  BY <1>1, WipedType DEF Taken, TypeInv
<1>8. names' = names \cup {f} /\ fds' = fds /\ got' = got
  BY DEF Touch
<1>9. exact' \in BOOLEAN
  BY <1>1 DEF TypeInv
<1>10. HasFirstBlock'
  BY <1>2, <1>3, <1>4, <1>6, <1>8 DEF TypeInv, HasFirstBlock
<1> QED
  BY <1>6, <1>7, <1>8, <1>9, <1>10 DEF TypeInv

\* What a descriptor is after open.
Opened(d, f, append) ==
  Node(f, inodes[f].len, inodes[f].addr, Cardinality(Used(inodes[f].addr)) - 1,
       IF append THEN inodes[f].len ELSE 0, 0, disk[inodes[f].addr[0]], fds[d].lock)

LEMMA OpenIs ==
  ASSUME TypeInv, NEW f \in Files, NEW append \in BOOLEAN, Open(f, append)
  PROVE  \E d \in IdleFds : /\ fds' = [fds EXCEPT ![d] = Opened(d, f, append)]
                            /\ Opened(d, f, append) \in KNodes
<1> DEFINE d == Lowest(IdleFds)
           i == inodes[f]
           len == i.len
           addr == i.addr
           used == Cardinality(Used(addr)) - 1
           off == IF append THEN len ELSE 0
           buf == disk[addr[0]]
<1>1. d \in IdleFds /\ d \in Fds
  <2>1. IdleFds \in SUBSET Fds /\ IdleFds # {}
    BY DEF IdleFds, Open
  <2> QED
    BY <2>1, LowestIs
<1>2. i \in Inodes /\ addr[0] # Zero
  BY DEF TypeInv, HasFirstBlock, Open
<1>3. len \in 0 .. MaxLen /\ addr \in Addrs
  BY <1>2 DEF Inodes
<1>4. used \in 0 .. MaxBlocks - 1 /\ off \in 0 .. MaxLen
  <2>1. used \in 0 .. MaxBlocks - 1
    <3> HIDE DEF addr
    <3> QED
      BY <1>2, <1>3, UsedIs
  <2>2. off \in 0 .. MaxLen
    BY <1>3, BlanksAre
  <2> QED
    BY <2>1, <2>2
<1>5. buf \in Bufs
  BY <1>3, IdxIs DEF Addrs, Disks, TypeInv
<1>6. fds[d].lock \in BOOLEAN /\ f \in Files \cup {Root, NoFile} /\ 0 \in -1 .. MaxBlocks - 1
  BY <1>1, NodeAt
<1>7. Opened(d, f, append) = Node(f, len, addr, used, off, 0, buf, fds[d].lock)
  BY DEF Opened
<1>8. fds' = [fds EXCEPT ![d] = Opened(d, f, append)]
  BY <1>7 DEF Open, Node
<1> HIDE DEF d, len, addr, used, off, buf
<1>9. Opened(d, f, append) \in KNodes
  BY <1>3, <1>4, <1>5, <1>6, <1>7, NodeType
<1> QED
  BY <1>1, <1>8, <1>9

LEMMA TypeOpen ==
  ASSUME TypeInv, NEW f \in Files, NEW append \in BOOLEAN, Open(f, append)
  PROVE  TypeInv'
<1>1. PICK d \in IdleFds : /\ fds' = [fds EXCEPT ![d] = Opened(d, f, append)]
                           /\ Opened(d, f, append) \in KNodes
  BY OpenIs
<1>2. d \in Fds
  BY DEF IdleFds
<1>3. /\ fds' \in [Fds -> KNodes]
      /\ \A e \in Fds : fds'[e] = IF e = d THEN Opened(d, f, append) ELSE fds[e]
  BY <1>1, <1>2 DEF TypeInv
<1>4. UNCHANGED <<names, inodes, disk, free, got, exact>> /\ f \in names
  BY DEF Open
<1>5. Opened(d, f, append).addr = inodes[f].addr
  BY NodeFields DEF Opened
<1>6. HasFirstBlock'
  BY <1>3, <1>4, <1>5 DEF TypeInv, HasFirstBlock
<1> QED
  BY <1>3, <1>4, <1>6 DEF TypeInv

LEMMA TypeClose ==
  ASSUME TypeInv, NEW d \in Fds, Close(d)
  PROVE  TypeInv'
<1> DEFINE f == fds[d].file
           n == Stored(fds[d])
           c == Closed(fds[d].addr, fds[d].lock)
<1>1. f \in Files \cup {Root} /\ n \in Inodes /\ n.addr = fds[d].addr
  BY NodeAt, StoredType DEF Close
<1>2. c \in KNodes /\ c.file = NoFile
  BY NodeAt, ClosedType DEF Closed
<1>3. inodes' = [inodes EXCEPT ![f] = n] /\ fds' = [fds EXCEPT ![d] = c]
        /\ UNCHANGED <<names, disk, free, got, exact>>
  BY DEF Close
<1> HIDE DEF n, c
<1>4. /\ inodes' \in [Files \cup {Root} -> Inodes]
      /\ \A g \in Files : inodes'[g] = IF g = f THEN n ELSE inodes[g]
  BY <1>1, <1>3 DEF TypeInv
<1>5. /\ fds' \in [Fds -> KNodes]
      /\ \A e \in Fds : fds'[e] = IF e = d THEN c ELSE fds[e]
  BY <1>2, <1>3 DEF TypeInv
<1>6. HasFirstBlock'
  <2>1. ASSUME NEW g \in names PROVE inodes'[g].addr[0] # Zero
    BY <1>1, <1>4 DEF TypeInv, HasFirstBlock
  <2>2. ASSUME NEW e \in Fds, fds'[e].file \in Files PROVE fds'[e].addr[0] # Zero
    BY <1>2, <1>5, <2>2 DEF TypeInv, HasFirstBlock
  <2> QED
    BY <1>3, <2>1, <2>2 DEF HasFirstBlock
<1> QED
  BY <1>3, <1>4, <1>5, <1>6 DEF TypeInv

\* The addresses of a file that gets `need` more blocks.
Longer(addr, used, need, bs) ==
  [i \in DOMAIN addr |-> IF i - used \in 1 .. need THEN bs[i - used] ELSE addr[i]]

LEMMA LongerType ==
  ASSUME NEW addr \in Addrs, NEW used \in Nat, NEW need \in Nat, NEW bs \in [1 .. need -> Blocks]
  PROVE  Longer(addr, used, need, bs) \in Addrs /\ Longer(addr, used, need, bs)[0] = addr[0]
<1>1. DOMAIN addr = Idx /\ \A i \in Idx : addr[i] \in Blocks /\ i \in Nat
  BY IdxIs DEF Addrs
<1>2. \A i \in Idx : (IF i - used \in 1 .. need THEN bs[i - used] ELSE addr[i]) \in Blocks
  BY <1>1
<1>3. ~(0 - used \in 1 .. need)
  OBVIOUS
<1> QED
  BY <1>1, <1>2, <1>3, IdxIs DEF Longer, Addrs

LEMMA InjectionIs ==
  ASSUME NEW S, NEW T, NEW g \in Injection(S, T)
  PROVE  /\ g \in [S -> T] /\ Range(g) \subseteq T
         /\ \A a, b \in S : g[a] = g[b] => a = b
BY DEF Injection, IsInjective, Range

\* What a descriptor is when the file was made longer by my_lseek, and what it is
\* when my_lseek did not get all the blocks.
Sought(k, off, need, bs) ==
  [k EXCEPT !.off = off, !.len = off, !.used = @ + need,
            !.addr = [i \in DOMAIN @ |-> IF i - k.used \in 1 .. need
                                         THEN bs[i - k.used] ELSE @[i]]]

SoughtInVain(k, off, n, bs) ==
  [k EXCEPT !.off = off, !.used = @ + n,
            !.addr = [i \in DOMAIN @ |-> IF i - k.used \in 1 .. n
                                         THEN bs[i - k.used] ELSE @[i]]]

LEMMA SoughtIs ==
  ASSUME NEW k \in KNodes, NEW off, NEW need, NEW bs
  PROVE  Sought(k, off, need, bs) =
           Node(k.file, off, Longer(k.addr, k.used, need, bs), k.used + need, off, k.cur, k.buf,
                k.lock)
<1> DEFINE x == [k EXCEPT !.off = off]
           y == [x EXCEPT !.len = off]
           z == [y EXCEPT !.used = @ + need]
           a == Longer(k.addr, k.used, need, bs)
<1>1. x = Node(k.file, k.len, k.addr, k.used, off, k.cur, k.buf, k.lock)
  BY NodeIs, SetOff
<1> HIDE DEF x
<1>2. y = Node(k.file, off, k.addr, k.used, off, k.cur, k.buf, k.lock)
  BY <1>1, SetLen
<1> HIDE DEF y
<1>3. z = Node(k.file, off, k.addr, k.used + need, off, k.cur, k.buf, k.lock)
  <2>1. y.used = k.used
    BY <1>2, NodeFields
  <2>2. z = [y EXCEPT !.used = k.used + need]
    BY <2>1
  <2> QED
    BY <1>2, <2>2, SetUsed
<1> HIDE DEF z
<1>4. z.addr = k.addr
  BY <1>3, NodeFields
<1>5. Sought(k, off, need, bs) = [z EXCEPT !.addr = a]
  BY <1>4 DEF Sought, x, y, z, Longer
<1> HIDE DEF a
<1>6. [z EXCEPT !.addr = a] =
        Node(k.file, off, a, k.used + need, off, k.cur, k.buf, k.lock)
  BY <1>3, SetAddr
<1> QED
  BY <1>5, <1>6 DEF a

LEMMA SoughtInVainIs ==
  ASSUME NEW k \in KNodes, NEW off, NEW n, NEW bs
  PROVE  SoughtInVain(k, off, n, bs) =
           Node(k.file, k.len, Longer(k.addr, k.used, n, bs), k.used + n, off, k.cur, k.buf,
                k.lock)
<1> DEFINE x == [k EXCEPT !.off = off]
           z == [x EXCEPT !.used = @ + n]
           a == Longer(k.addr, k.used, n, bs)
<1>1. x = Node(k.file, k.len, k.addr, k.used, off, k.cur, k.buf, k.lock)
  BY NodeIs, SetOff
<1> HIDE DEF x
<1>3. z = Node(k.file, k.len, k.addr, k.used + n, off, k.cur, k.buf, k.lock)
  <2>1. x.used = k.used
    BY <1>1, NodeFields
  <2>2. z = [x EXCEPT !.used = k.used + n]
    BY <2>1
  <2> QED
    BY <1>1, <2>2, SetUsed
<1> HIDE DEF z
<1>4. z.addr = k.addr
  BY <1>3, NodeFields
<1>5. SoughtInVain(k, off, n, bs) = [z EXCEPT !.addr = a]
  BY <1>4 DEF SoughtInVain, x, z, Longer
<1> HIDE DEF a
<1>6. [z EXCEPT !.addr = a] =
        Node(k.file, k.len, a, k.used + n, off, k.cur, k.buf, k.lock)
  BY <1>3, SetAddr
<1> QED
  BY <1>5, <1>6 DEF a

\* What a descriptor is when the file was made longer by my_write.
LEMMA GrownIs ==
  ASSUME NEW k \in KNodes, NEW n
  PROVE  Grown(k, n) =
           Node(k.file, k.len, Longer(k.addr, k.used, n, [j \in 1 .. n |-> Zero]), k.used + n,
                k.off, k.cur, k.buf, k.lock)
<1> DEFINE z == [k EXCEPT !.used = @ + n]
           a == [i \in DOMAIN k.addr |-> IF i - k.used \in 1 .. n THEN Zero ELSE k.addr[i]]
<1>1. z = Node(k.file, k.len, k.addr, k.used + n, k.off, k.cur, k.buf, k.lock)
  <2>1. z = [k EXCEPT !.used = k.used + n]
    OBVIOUS
  <2> QED
    BY <2>1, NodeIs, SetUsed
<1> HIDE DEF z
<1>2. z.addr = k.addr
  BY <1>1, NodeFields
<1>3. Grown(k, n) = [z EXCEPT !.addr = a]
  BY <1>2 DEF Grown, z
<1>4. a = Longer(k.addr, k.used, n, [j \in 1 .. n |-> Zero])
  BY DEF Longer
<1> HIDE DEF a
<1>5. [z EXCEPT !.addr = a] = Node(k.file, k.len, a, k.used + n, k.off, k.cur, k.buf, k.lock)
  BY <1>1, SetAddr
<1> QED
  BY <1>3, <1>4, <1>5

\* How far a file grows.
LEMMA BlocksToIs ==
  ASSUME NEW k \in KNodes, NEW off \in 0 .. MaxLen - 1
  PROVE  /\ BlocksTo(k, off) \in Nat
         /\ k.used + BlocksTo(k, off) \in 0 .. MaxBlocks - 1
         /\ off \div BlockSize <= k.used + BlocksTo(k, off)
         /\ BlocksTo(k, off) > 0 => off \div BlockSize = k.used + BlocksTo(k, off)
<1> DEFINE q == off \div BlockSize
           u == k.used
<1>0. off \in Nat /\ off < MaxLen
  BY MaxLenIs
<1>1. q \in 0 .. MaxBlocks - 1
  BY <1>0, PlaceInFile
<1>2. u \in 0 .. MaxBlocks - 1
  BY DEF KNodes
<1>3. BlocksTo(k, off) = Max({0, q - u})
  BY DEF BlocksTo
<1> HIDE DEF q, u
<1>4. BlocksTo(k, off) = IF 0 >= q - u THEN 0 ELSE q - u
  BY <1>1, <1>2, <1>3, MaxIs
<1> QED
  BY <1>1, <1>2, <1>4 DEF q, u

LEMMA GrowthIs ==
  ASSUME NEW k \in KNodes, NEW n \in Nat, k.off + n <= MaxLen
  PROVE  /\ Growth(k, n) \in Nat
         /\ k.used + Growth(k, n) \in 0 .. MaxBlocks - 1
         /\ LastBlock(k, n) <= k.used + Growth(k, n)
<1> DEFINE q == LastBlock(k, n)
           u == k.used
<1>1. q \in 0 .. MaxBlocks - 1
  BY RoundsAre, IdxIs
<1>2. u \in 0 .. MaxBlocks - 1
  BY DEF KNodes
<1>3. Growth(k, n) = Max({0, q - u})
  BY DEF Growth
<1> HIDE DEF q, u
<1>4. Growth(k, n) = IF 0 >= q - u THEN 0 ELSE q - u
  BY <1>1, <1>2, <1>3, MaxIs
<1> QED
  BY <1>1, <1>2, <1>4 DEF q, u

LEMMA ClippedIs ==
  ASSUME NEW k \in KNodes, NEW line \in Texts
  PROVE  LET text == Clipped(k, line)
             n == Len(line)
         IN /\ text \in Seq(Letters) /\ Len(text) \in Nat /\ k.off + Len(text) <= MaxLen
            /\ Len(text) = (IF n <= MaxLen - k.off THEN n ELSE MaxLen - k.off)
            /\ \A p \in 1 .. Len(text) : text[p] = line[p]
<1> DEFINE n == Len(line)
           room == MaxLen - k.off
           c == IF n <= room THEN n ELSE room
<1>1. line \in Seq(Letters) /\ n \in Nat
  OBVIOUS
<1>2. k.off \in 0 .. MaxLen /\ room \in Nat
  BY MaxLenIs DEF KNodes
<1>3. Clipped(k, line) = SubSeq(line, 1, c)
  BY <1>1, <1>2, MinIs DEF Clipped
<1>4. c \in 0 .. n /\ c <= room
  BY <1>1, <1>2
<1> DEFINE t == SubSeq(line, 1, c)
<1>5. t \in Seq(Letters) /\ Len(t) = c /\ \A p \in 1 .. c : t[p] = line[p]
  <2> HIDE DEF c
  <2> QED
    BY <1>1, <1>4
<1> HIDE DEF c, t
<1>6. k.off + c <= MaxLen /\ c \in Nat
  BY <1>1, <1>2, <1>4, MaxLenIs
<1> QED
  BY <1>3, <1>5, <1>6 DEF c, t

LEMMA TypeLseek ==
  ASSUME TypeInv, NEW d \in Fds, NEW off \in 0 .. MaxLen - 1, Lseek(d, off)
  PROVE  TypeInv'
<1> DEFINE k == fds[d]
           need == BlocksTo(k, off)
<1>0. k \in KNodes /\ k.file \in Files \cup {Root} /\ off \in 0 .. MaxLen
        /\ UNCHANGED <<names, got>> /\ exact' \in BOOLEAN
  <2>1. k \in KNodes /\ k.file \in Files \cup {Root} /\ UNCHANGED <<names, got>>
    BY NodeAt DEF Lseek
  <2>2. exact' = (exact /\ k.file # Root)
    BY DEF Lseek
  <2>3. exact' \in BOOLEAN
    BY <2>2 DEF TypeInv
  <2>4. off \in 0 .. MaxLen
    BY MaxLenIs
  <2> QED
    BY <2>1, <2>3, <2>4
<1>1. CASE off < k.len
  <2> DEFINE l == [k EXCEPT !.off = off]
  <2>1. l = Node(k.file, k.len, k.addr, k.used, off, k.cur, k.buf, k.lock)
    BY <1>0, NodeIs, SetOff
  <2>2. l \in KNodes /\ l.file = k.file /\ l.addr = k.addr
    BY <1>0, <2>1, NodeType, NodeAt, NodeFields
  <2>3. fds' = [fds EXCEPT ![d] = l] /\ UNCHANGED <<inodes, disk, free>>
    BY <1>1 DEF Lseek, TypeInv
  <2> HIDE DEF l
  <2>4. fds' \in [Fds -> KNodes] /\ \A e \in Fds : fds'[e] = IF e = d THEN l ELSE fds[e]
    BY <2>2, <2>3 DEF TypeInv
  <2>5. HasFirstBlock'
    BY <1>0, <2>2, <2>3, <2>4 DEF TypeInv, HasFirstBlock
  <2> QED
    BY <1>0, <2>3, <2>4, <2>5 DEF TypeInv
<1>2. CASE ~(off < k.len)
  <2>1. PICK bs \in Injection(1 .. need, free) :
          /\ fds' = [fds EXCEPT ![d] = Sought(k, off, need, bs)]
          /\ inodes' = [inodes EXCEPT ![k.file] = Stored(fds'[d])]
          /\ Taken(Range(bs))
    BY <1>2 DEF Lseek, Sought
  <2> DEFINE l == Sought(k, off, need, bs)
             a == Longer(k.addr, k.used, need, bs)
  <2>2. need \in Nat /\ k.used + need \in 0 .. MaxBlocks - 1 /\ k.used \in Nat /\ k.addr \in Addrs
    BY <1>0, BlocksToIs, NodeAt
  <2>3. bs \in [1 .. need -> Blocks]
    <3>1. free \subseteq Blocks
      BY DEF TypeInv
    <3> HIDE DEF need
    <3>2. bs \in [1 .. need -> free]
      BY DEF Injection
    <3> QED
      BY <3>1, <3>2
  <2>4. a \in Addrs /\ a[0] = k.addr[0]
    <3> HIDE DEF need, k
    <3> QED
      BY <2>2, <2>3, LongerType
  <2>5. l = Node(k.file, off, a, k.used + need, off, k.cur, k.buf, k.lock)
    BY <1>0, SoughtIs
  <2> HIDE DEF a
  <2>6. l \in KNodes /\ l.file = k.file /\ l.addr = a
    <3>1. /\ k.file \in Files \cup {Root, NoFile} /\ k.cur \in -1 .. MaxBlocks - 1
          /\ k.buf \in Bufs /\ k.lock \in BOOLEAN
      BY NodeAt
    <3> HIDE DEF k, need, l
    <3> QED
      BY <1>0, <2>2, <2>4, <2>5, <3>1, NodeType, NodeFields
  <2> HIDE DEF l
  <2>7. fds' \in [Fds -> KNodes] /\ \A e \in Fds : fds'[e] = IF e = d THEN l ELSE fds[e]
    BY <2>1, <2>6 DEF TypeInv, l
  <2>8. Stored(l) \in Inodes /\ Stored(l).addr = a
    BY <2>6, StoredType
  <2>9. /\ inodes' \in [Files \cup {Root} -> Inodes]
        /\ \A g \in Files : inodes'[g] = IF g = k.file THEN Stored(l) ELSE inodes[g]
    BY <1>0, <2>1, <2>7, <2>8 DEF TypeInv
  <2>10. disk' \in Disks /\ free' \subseteq Blocks \ {Zero}
    BY <2>1, WipedType DEF Taken, TypeInv
  <2>11. HasFirstBlock'
    BY <1>0, <2>4, <2>6, <2>7, <2>8, <2>9 DEF TypeInv, HasFirstBlock
  <2> QED
    BY <1>0, <2>7, <2>9, <2>10, <2>11 DEF TypeInv
<1> QED
  BY <1>1, <1>2

LEMMA FreeIs == TypeInv => IsFiniteSet(free) /\ Cardinality(free) \in Nat
<1> SUFFICES ASSUME TypeInv PROVE IsFiniteSet(free) /\ Cardinality(free) \in Nat
  OBVIOUS
<1>1. free \subseteq Blocks
  BY DEF TypeInv
<1> QED
  BY <1>1, FS_Subset, FS_CardinalityType

LEMMA TypeLseekFails ==
  ASSUME TypeInv, NEW d \in Fds, NEW off \in 0 .. MaxLen - 1, LseekFails(d, off)
  PROVE  TypeInv'
<1> DEFINE k == fds[d]
           n == Cardinality(free)
<1>0. k \in KNodes /\ off \in 0 .. MaxLen /\ UNCHANGED <<names, inodes, got>>
        /\ exact' = FALSE /\ n \in Nat
  BY NodeAt, MaxLenIs, FreeIs DEF LseekFails
<1>1. PICK bs \in Injection(1 .. n, free) : fds' = [fds EXCEPT ![d] = SoughtInVain(k, off, n, bs)]
  BY DEF LseekFails, SoughtInVain
<1>2. k.used \in Nat /\ k.addr \in Addrs /\ k.used + n \in 0 .. MaxBlocks - 1
  <2>1. BlocksTo(k, off) > n
    BY DEF LseekFails
  <2>2. k.used \in 0 .. MaxBlocks - 1 /\ k.addr \in Addrs
    BY NodeAt
  <2>3. BlocksTo(k, off) \in Nat /\ k.used + BlocksTo(k, off) \in 0 .. MaxBlocks - 1
    BY <1>0, BlocksToIs
  <2> HIDE DEF k, n
  <2> QED
    BY <1>0, <2>1, <2>2, <2>3
<1> DEFINE l == SoughtInVain(k, off, n, bs)
           a == Longer(k.addr, k.used, n, bs)
<1>3. bs \in [1 .. n -> Blocks]
  <2>1. free \subseteq Blocks
    BY DEF TypeInv
  <2> HIDE DEF n
  <2>2. bs \in [1 .. n -> free]
    BY DEF Injection
  <2> QED
    BY <2>1, <2>2
<1>4. a \in Addrs /\ a[0] = k.addr[0]
  <2> HIDE DEF k, n
  <2> QED
    BY <1>0, <1>2, <1>3, LongerType
<1>5. l = Node(k.file, k.len, a, k.used + n, off, k.cur, k.buf, k.lock)
  BY <1>0, SoughtInVainIs
<1> HIDE DEF a
<1>6. l \in KNodes /\ l.file = k.file /\ l.addr = a
  <2>1. /\ k.file \in Files \cup {Root, NoFile} /\ k.cur \in -1 .. MaxBlocks - 1
        /\ k.buf \in Bufs /\ k.lock \in BOOLEAN /\ k.len \in 0 .. MaxLen
    BY NodeAt
  <2> HIDE DEF k, n, l
  <2>2. l \in KNodes
    BY <1>0, <1>2, <1>4, <1>5, <2>1, NodeType
  <2> QED
    BY <1>5, <2>2, NodeFields
<1> HIDE DEF l
<1>7. fds' \in [Fds -> KNodes] /\ \A e \in Fds : fds'[e] = IF e = d THEN l ELSE fds[e]
  BY <1>1, <1>6 DEF TypeInv, l
<1>8. disk' \in Disks /\ free' \subseteq Blocks \ {Zero}
  BY WipedType DEF LseekFails, Taken, TypeInv
<1>9. HasFirstBlock'
  BY <1>0, <1>4, <1>6, <1>7 DEF TypeInv, HasFirstBlock
<1> QED
  BY <1>0, <1>7, <1>8, <1>9 DEF TypeInv

\* A read does not go behind the end of the file.
LEMMA ReadSize ==
  ASSUME TypeInv, NEW d \in Fds, NEW size \in 1 .. MaxLen, fds[d].off <= fds[d].len
  PROVE  LET n == Min({size, fds[d].len - fds[d].off})
         IN n \in Nat /\ fds[d].off + n <= fds[d].len /\ fds[d].off + n \in 0 .. MaxLen /\ n <= size
<1>1. fds[d].len \in 0 .. MaxLen /\ fds[d].off \in 0 .. MaxLen /\ MaxLen \in Nat
  BY NodeAt, MaxLenIs
<1> DEFINE l == fds[d].len
           o == fds[d].off
<1> HIDE DEF l, o
<1>2. Min({size, l - o}) = IF size <= l - o THEN size ELSE l - o
  BY <1>1, MinIs DEF l, o
<1>3. l \in 0 .. MaxLen /\ o \in 0 .. MaxLen /\ o <= l
  BY <1>1 DEF l, o
<1>4. /\ Min({size, l - o}) \in Nat /\ o + Min({size, l - o}) <= l
      /\ o + Min({size, l - o}) \in 0 .. MaxLen /\ Min({size, l - o}) <= size
  BY <1>1, <1>2, <1>3
<1> QED
  BY <1>4 DEF l, o

LEMMA TypeRead ==
  ASSUME TypeInv, NEW d \in Fds, NEW size \in 1 .. MaxLen, Read(d, size)
  PROVE  TypeInv'
<1> DEFINE k == fds[d]
           n == Min({size, k.len - k.off})
           R == Rounds(k, n)
           r == ReadUpTo(k, n)[R]
           l == [r.k EXCEPT !.off = @ + n]
<1>0. k \in KNodes /\ disk \in Disks /\ k.off <= k.len
  BY NodeAt DEF TypeInv, Read
<1>1. n \in Nat /\ k.off + n <= MaxLen /\ k.off + n \in 0 .. MaxLen
  <2>1. MaxLen \in Nat
    BY MaxLenIs
  <2>2. n \in Nat /\ k.off + n \in 0 .. MaxLen
    BY <1>0, ReadSize
  <2> HIDE DEF n, k
  <2> QED
    BY <2>1, <2>2
<1>2. Reading(k, n) = r
  BY DEF Reading
<1>3. got' = r.out /\ fds' = [fds EXCEPT ![d] = l] /\ UNCHANGED <<names, inodes, disk, free>>
        /\ exact' \in BOOLEAN
  BY <1>2 DEF Read, TypeInv
<1>4. r.k \in KNodes /\ Same(k, r.k) /\ r.out \in Seq(Bytes)
  <2> HIDE DEF n, k
  <2>1. R \in Nat
    BY <1>0, <1>1, RoundsAre
  <2>2. R \in 0 .. R
    BY <2>1
  <2> QED
    BY <1>0, <1>1, <2>2, ReadUpToType
<1> HIDE DEF r, n
<1>5. l \in KNodes /\ l.file = k.file /\ l.addr = k.addr
  <2> DEFINE s == r.k
             o == k.off + n
  <2>1. s \in KNodes /\ Same(k, s) /\ s.off = k.off
    BY <1>4 DEF Same
  <2>2. l = [s EXCEPT !.off = o]
    BY <2>1
  <2> HIDE DEF s, l
  <2>3. l = Node(s.file, s.len, s.addr, s.used, o, s.cur, s.buf, s.lock)
    BY <2>1, <2>2, NodeIs, SetOff
  <2>4. /\ s.file \in Files \cup {Root, NoFile} /\ s.len \in 0 .. MaxLen /\ s.addr \in Addrs
        /\ s.used \in 0 .. MaxBlocks - 1 /\ s.cur \in -1 .. MaxBlocks - 1 /\ s.buf \in Bufs
        /\ s.lock \in BOOLEAN
    BY <2>1 DEF KNodes
  <2>5. o \in 0 .. MaxLen
    BY <1>1
  <2> HIDE DEF o
  <2>6. l \in KNodes
    BY <2>3, <2>4, <2>5, NodeType
  <2>7. l.file = s.file /\ l.addr = s.addr
    BY <2>3, NodeFields
  <2> QED
    BY <2>1, <2>6, <2>7 DEF Same
<1> HIDE DEF l
<1>6. fds' \in [Fds -> KNodes] /\ \A e \in Fds : fds'[e] = IF e = d THEN l ELSE fds[e]
  BY <1>3, <1>5 DEF TypeInv
<1>7. HasFirstBlock'
  BY <1>3, <1>5, <1>6 DEF TypeInv, HasFirstBlock
<1> QED
  BY <1>3, <1>4, <1>6, <1>7 DEF TypeInv

LEMMA GrownType ==
  ASSUME NEW k \in KNodes, NEW n \in Nat, k.used + n \in 0 .. MaxBlocks - 1
  PROVE  LET g == Grown(k, n)
         IN /\ g \in KNodes /\ g.file = k.file /\ g.len = k.len /\ g.used = k.used + n
            /\ g.off = k.off /\ g.cur = k.cur /\ g.buf = k.buf /\ g.lock = k.lock
            /\ g.addr[0] = k.addr[0]
            /\ n = 0 => g.addr = k.addr
<1> DEFINE z == [j \in 1 .. n |-> Zero]
           a == Longer(k.addr, k.used, n, z)
           g == Grown(k, n)
<1>1. /\ k.file \in Files \cup {Root, NoFile} /\ k.cur \in -1 .. MaxBlocks - 1
      /\ k.buf \in Bufs /\ k.lock \in BOOLEAN /\ k.len \in 0 .. MaxLen
      /\ k.addr \in Addrs /\ k.used \in Nat /\ k.off \in 0 .. MaxLen
  BY DEF KNodes
<1>2. z \in [1 .. n -> Blocks]
  OBVIOUS
<1> HIDE DEF z
<1>3. a \in Addrs /\ a[0] = k.addr[0]
  BY <1>1, <1>2, LongerType
<1>4. n = 0 => a = k.addr
  <2>1. DOMAIN k.addr = Idx /\ k.addr = [i \in Idx |-> k.addr[i]]
    BY <1>1 DEF Addrs
  <2>2. n = 0 => \A i : ~(i - k.used \in 1 .. n)
    OBVIOUS
  <2> QED
    BY <2>1, <2>2 DEF Longer
<1>5. g = Node(k.file, k.len, a, k.used + n, k.off, k.cur, k.buf, k.lock)
  BY GrownIs DEF z
<1> HIDE DEF a, g
<1>6. g \in KNodes
  BY <1>1, <1>3, <1>5, NodeType
<1>7. /\ g.file = k.file /\ g.len = k.len /\ g.used = k.used + n
      /\ g.off = k.off /\ g.cur = k.cur /\ g.buf = k.buf /\ g.lock = k.lock /\ g.addr = a
  BY <1>5, NodeFields
<1> QED
  BY <1>3, <1>4, <1>6, <1>7 DEF g

\* What a descriptor is after my_write: the last block in its buffer, the offset
\* behind what was written, and the length as well if that was less.
Advanced(l, n, off) == [l EXCEPT !.off = @ + n, !.len = Max({@, off + n})]

LEMMA AdvancedIs ==
  ASSUME NEW l \in KNodes, NEW n \in Nat, l.off + n <= MaxLen
  PROVE  LET a == Advanced(l, n, l.off)
         IN /\ a \in KNodes /\ a.file = l.file /\ a.addr = l.addr /\ a.used = l.used
            /\ a.off = l.off + n /\ a.cur = l.cur /\ a.buf = l.buf /\ a.lock = l.lock
            /\ a.len = IF l.len >= l.off + n THEN l.len ELSE l.off + n
<1> DEFINE o == l.off + n
           x == [l EXCEPT !.off = o]
           m == Max({l.len, o})
           a == Advanced(l, n, l.off)
<1>1. /\ l.file \in Files \cup {Root, NoFile} /\ l.cur \in -1 .. MaxBlocks - 1
      /\ l.buf \in Bufs /\ l.lock \in BOOLEAN /\ l.len \in 0 .. MaxLen
      /\ l.addr \in Addrs /\ l.used \in 0 .. MaxBlocks - 1 /\ l.off \in 0 .. MaxLen
  BY DEF KNodes
<1>2. o \in 0 .. MaxLen
  BY <1>1, MaxLenIs
<1>3. x = Node(l.file, l.len, l.addr, l.used, o, l.cur, l.buf, l.lock)
  BY NodeIs, SetOff
<1>4. a = [x EXCEPT !.len = m]
  <2>1. x.len = l.len
    BY <1>3, NodeFields
  <2> QED
    BY <2>1 DEF Advanced
<1>5. m = IF l.len >= o THEN l.len ELSE o
  <2>1. l.len \in Int /\ o \in Int
    BY <1>1, <1>2, MaxLenIs
  <2> HIDE DEF o
  <2> QED
    BY <2>1, MaxIs
<1>6. m \in 0 .. MaxLen
  BY <1>1, <1>2, <1>5
<1> HIDE DEF x, o, m, a
<1>7. a = Node(l.file, m, l.addr, l.used, o, l.cur, l.buf, l.lock)
  BY <1>3, <1>4, SetLen
<1>8. a \in KNodes
  BY <1>1, <1>2, <1>6, <1>7, NodeType
<1>9. /\ a.file = l.file /\ a.addr = l.addr /\ a.used = l.used
      /\ a.off = o /\ a.cur = l.cur /\ a.buf = l.buf /\ a.lock = l.lock /\ a.len = m
  BY <1>7, NodeFields
<1> QED
  BY <1>5, <1>8, <1>9 DEF o, a

\* What my_write does, without the types.
LEMMA WriteIs ==
  ASSUME TypeInv, NEW d \in Fds, NEW line \in Texts, Write(d, line)
  PROVE  LET k == fds[d]
             text == Clipped(k, line)
             need == Growth(k, Len(text))
             g == Grown(k, need)
             R == Rounds(g, Len(text))
         IN /\ k.file \in Files \cup {Root} /\ text \in Seq(Letters) /\ Len(text) \in Nat
            /\ need \in Nat /\ g \in KNodes /\ g.off + Len(text) <= MaxLen /\ R \in Nat
            /\ \E S \in SUBSET free :
                 LET w == WriteUpTo(g, Wiped(S), text)[R]
                     l == Advanced(w.k, Len(text), k.off)
                 IN /\ Cardinality(S) = need
                    /\ free' = free \ S
                    /\ disk' = w.disk
                    /\ fds' = [fds EXCEPT ![d] = l]
                    /\ inodes' = [inodes EXCEPT ![k.file] = Stored(l)]
                    /\ w.k \in KNodes /\ Same(g, w.k) /\ w.disk \in Disks
                    /\ l \in KNodes /\ l.file = k.file /\ l.addr = g.addr
<1> DEFINE k == fds[d]
           text == Clipped(k, line)
           n == Len(text)
           need == Growth(k, n)
           g == Grown(k, need)
           R == Rounds(g, n)
<1>1. k \in KNodes /\ k.file \in Files \cup {Root}
  BY NodeAt DEF Write
<1>2. text \in Seq(Letters) /\ n \in Nat /\ k.off + n <= MaxLen
  BY <1>1, ClippedIs
<1>3. need \in Nat /\ k.used + need \in 0 .. MaxBlocks - 1
  <2> HIDE DEF k, n
  <2> QED
    BY <1>1, <1>2, GrowthIs
<1>4. g \in KNodes /\ g.file = k.file /\ g.off = k.off
  <2> HIDE DEF k, need
  <2> QED
    BY <1>1, <1>3, GrownType
<1>5. R \in Nat /\ R \in 0 .. R
  <2> HIDE DEF g, n
  <2>1. R \in Nat
    BY <1>2, <1>4, RoundsAre
  <2> QED
    BY <2>1
<1>6. PICK S \in SUBSET free :
        /\ Cardinality(S) = need
        /\ free' = free \ S
        /\ LET w == Writing(g, Wiped(S), text)
           IN /\ disk' = w.disk
              /\ fds' = [fds EXCEPT ![d] = Advanced(w.k, n, k.off)]
        /\ inodes' = [inodes EXCEPT ![k.file] = Stored(fds'[d])]
  BY DEF Write, Advanced
<1> DEFINE w == WriteUpTo(g, Wiped(S), text)[R]
           l == Advanced(w.k, n, k.off)
<1>7. Writing(g, Wiped(S), text) = w
  BY DEF Writing
<1>8. disk' = w.disk /\ fds' = [fds EXCEPT ![d] = l]
  BY <1>6, <1>7
<1>9. fds'[d] = l
  BY <1>8 DEF TypeInv
<1>10. inodes' = [inodes EXCEPT ![k.file] = Stored(l)]
  <2> HIDE DEF l
  <2> QED
    BY <1>6, <1>9
<1>11. w.k \in KNodes /\ Same(g, w.k) /\ w.disk \in Disks
  <2> DEFINE dsk == Wiped(S)
  <2>1. dsk \in Disks
    BY WipedType
  <2> HIDE DEF dsk, g, text, R
  <2>2. g.off + Len(text) <= MaxLen /\ R = Rounds(g, Len(text))
    BY <1>2, <1>4 DEF R
  <2>3. LET v == WriteUpTo(g, dsk, text)[R]
        IN v.k \in KNodes /\ Same(g, v.k) /\ v.disk \in Disks
    BY <1>2, <1>4, <1>5, <2>1, <2>2, WriteUpToType
  <2> QED
    BY <2>3 DEF dsk
<1>12. l \in KNodes /\ l.file = k.file /\ l.addr = g.addr
  <2> DEFINE x == w.k
  <2>1. x \in KNodes /\ x.off = k.off /\ x.file = k.file /\ x.addr = g.addr
    BY <1>4, <1>11 DEF Same
  <2> HIDE DEF x, k, n, text, g
  <2>2. x.off + n <= MaxLen
    BY <1>2, <2>1
  <2>3. LET a == Advanced(x, n, x.off)
        IN a \in KNodes /\ a.file = x.file /\ a.addr = x.addr
    BY <1>2, <2>1, <2>2, AdvancedIs
  <2> QED
    BY <2>1, <2>3 DEF x
<1> HIDE DEF w, l
<1>13. g.off + n <= MaxLen
  BY <1>2, <1>4
<1>14. /\ Cardinality(S) = need
       /\ free' = free \ S
       /\ disk' = w.disk
       /\ fds' = [fds EXCEPT ![d] = l]
       /\ inodes' = [inodes EXCEPT ![k.file] = Stored(l)]
       /\ w.k \in KNodes /\ Same(g, w.k) /\ w.disk \in Disks
       /\ l \in KNodes /\ l.file = k.file /\ l.addr = g.addr
  BY <1>6, <1>8, <1>10, <1>11, <1>12
<1> HIDE DEF k, text, n, need, g, R
<1> QED
  BY <1>1, <1>2, <1>3, <1>4, <1>5, <1>13, <1>14 DEF k, text, n, need, g, R, w, l

LEMMA TypeWrite ==
  ASSUME TypeInv, NEW d \in Fds, NEW line \in Texts, Write(d, line)
  PROVE  TypeInv'
<1> DEFINE k == fds[d]
           text == Clipped(k, line)
           n == Len(text)
           need == Growth(k, n)
           g == Grown(k, need)
<1>1. PICK S \in SUBSET free, l \in KNodes :
        /\ free' = free \ S
        /\ disk' \in Disks
        /\ fds' = [fds EXCEPT ![d] = l]
        /\ inodes' = [inodes EXCEPT ![k.file] = Stored(l)]
        /\ l.file = k.file /\ l.addr = g.addr
  BY WriteIs
<1>2. k \in KNodes /\ k.file \in Files \cup {Root} /\ g.addr[0] = k.addr[0]
  <2>1. k \in KNodes /\ k.file \in Files \cup {Root}
    BY NodeAt, WriteIs
  <2>2. need \in Nat /\ k.used + need \in 0 .. MaxBlocks - 1
    <3>1. n \in Nat /\ k.off + n <= MaxLen
      BY <2>1, ClippedIs
    <3> HIDE DEF k, n
    <3> QED
      BY <2>1, <3>1, GrowthIs
  <2> HIDE DEF k, need
  <2> QED
    BY <2>1, <2>2, GrownType
<1> HIDE DEF g, need, text
<1>3. Stored(l) \in Inodes /\ Stored(l).addr = g.addr
  BY <1>1, StoredType
<1>4. /\ inodes' \in [Files \cup {Root} -> Inodes]
      /\ \A f \in Files : inodes'[f] = IF f = k.file THEN Stored(l) ELSE inodes[f]
  BY <1>1, <1>2, <1>3 DEF TypeInv
<1>5. fds' \in [Fds -> KNodes] /\ \A e \in Fds : fds'[e] = IF e = d THEN l ELSE fds[e]
  BY <1>1 DEF TypeInv
<1>6. UNCHANGED <<names, got>> /\ exact' \in BOOLEAN
  <2>1. UNCHANGED <<names, got>>
    BY DEF Write
  <2>2. exact' \in BOOLEAN
    BY DEF Write, TypeInv
  <2> QED
    BY <2>1, <2>2
<1>7. HasFirstBlock'
  BY <1>1, <1>2, <1>3, <1>4, <1>5, <1>6 DEF TypeInv, HasFirstBlock
<1>8. free' \subseteq Blocks \ {Zero}
  BY <1>1 DEF TypeInv
<1> QED
  BY <1>1, <1>4, <1>5, <1>6, <1>7, <1>8 DEF TypeInv

LEMMA WriteFailsIs ==
  ASSUME TypeInv, NEW d \in Fds, NEW line \in Texts, WriteFails(d, line)
  PROVE  /\ UNCHANGED <<names, inodes, got>> /\ exact' = FALSE /\ Taken(free)
         /\ \E l \in KNodes : /\ fds' = [fds EXCEPT ![d] = l]
                            /\ l.file = fds[d].file /\ l.addr[0] = fds[d].addr[0]
<1> DEFINE k == fds[d]
           text == Clipped(k, line)
           n == Cardinality(free)
           g == Grown(k, n)
           yes == TRUE
           l == [g EXCEPT !.lock = yes]
<1>1. k \in KNodes /\ n \in Nat /\ Len(text) \in Nat /\ k.off + Len(text) <= MaxLen
  BY NodeAt, FreeIs, ClippedIs
<1>2. k.used + n \in 0 .. MaxBlocks - 1
  <2> DEFINE m == Len(text)
  <2>1. Growth(k, m) > n
    BY DEF WriteFails
  <2>2. k.used \in 0 .. MaxBlocks - 1
    BY NodeAt
  <2> HIDE DEF k, n, m
  <2>3. Growth(k, m) \in Nat /\ k.used + Growth(k, m) \in 0 .. MaxBlocks - 1
    BY <1>1, GrowthIs DEF m
  <2> QED
    BY <1>1, <2>1, <2>2, <2>3
<1>3. g \in KNodes /\ g.file = k.file /\ g.addr[0] = k.addr[0]
  <2> HIDE DEF k, n
  <2> QED
    BY <1>1, <1>2, GrownType
<1>4. l \in KNodes /\ l.file = g.file /\ l.addr = g.addr
  <2> HIDE DEF g, yes
  <2>1. l = Node(g.file, g.len, g.addr, g.used, g.off, g.cur, g.buf, yes)
    BY <1>3, NodeIs, SetLock
  <2>2. yes \in BOOLEAN
    BY DEF yes
  <2> HIDE DEF l
  <2>3. l \in KNodes
    BY <1>3, <2>1, <2>2, NodeType DEF KNodes
  <2> QED
    BY <2>1, <2>3, NodeFields
<1>5. fds' = [fds EXCEPT ![d] = l] /\ UNCHANGED <<names, inodes, got>> /\ exact' = FALSE
        /\ Taken(free)
  BY DEF WriteFails
<1> HIDE DEF l, g
<1>6. l.file = k.file /\ l.addr[0] = k.addr[0]
  BY <1>3, <1>4
<1> QED
  BY <1>4, <1>5, <1>6

LEMMA TypeWriteFails ==
  ASSUME TypeInv, NEW d \in Fds, NEW line \in Texts, WriteFails(d, line)
  PROVE  TypeInv'
<1>1. PICK l \in KNodes : /\ fds' = [fds EXCEPT ![d] = l]
                         /\ l.file = fds[d].file /\ l.addr[0] = fds[d].addr[0]
  BY WriteFailsIs
<1>2. UNCHANGED <<names, inodes, got>> /\ exact' = FALSE /\ Taken(free)
  BY WriteFailsIs
<1>3. fds' \in [Fds -> KNodes] /\ \A e \in Fds : fds'[e] = IF e = d THEN l ELSE fds[e]
  BY <1>1 DEF TypeInv
<1>4. disk' \in Disks /\ free' \subseteq Blocks \ {Zero}
  BY <1>2, WipedType DEF Taken, TypeInv
<1>5. HasFirstBlock'
  BY <1>1, <1>2, <1>3 DEF TypeInv, HasFirstBlock
<1> QED
  BY <1>2, <1>3, <1>4, <1>5 DEF TypeInv

\* The buffer of descriptor 0 is used by another.
LEMMA ClobberedIs ==
  ASSUME TypeInv, NEW bytes \in Bufs
  PROVE  /\ Clobbered(bytes) \in [Fds -> KNodes]
         /\ \A e \in Fds : /\ Same(fds[e], Clobbered(bytes)[e])
                           /\ Clobbered(bytes)[e].cur = fds[e].cur
                           /\ Clobbered(bytes)[e].buf =
                                IF e = 0 /\ fds[0].file # NoFile THEN bytes ELSE fds[e].buf
<1>1. CASE fds[0].file = NoFile
  <2>1. Clobbered(bytes) = fds
    BY <1>1 DEF Clobbered
  <2> QED
    BY <1>1, <2>1 DEF TypeInv, Same
<1>2. CASE fds[0].file # NoFile
  <2> DEFINE k == fds[0]
             l == [k EXCEPT !.buf = bytes]
  <2>1. 0 \in Fds /\ k \in KNodes
    BY BlanksAre, NodeAt
  <2>2. Clobbered(bytes) = [fds EXCEPT ![0] = l]
    BY <1>2, <2>1 DEF Clobbered, TypeInv
  <2> HIDE DEF k
  <2>3. l \in KNodes /\ Same(k, l) /\ l.cur = k.cur /\ l.buf = bytes
    BY <2>1, BufSet
  <2> HIDE DEF l
  <2>4. Clobbered(bytes) \in [Fds -> KNodes]
    BY <2>1, <2>2, <2>3 DEF TypeInv
  <2>5. \A e \in Fds : Clobbered(bytes)[e] = IF e = 0 THEN l ELSE fds[e]
    BY <2>2 DEF TypeInv
  <2> QED
    BY <1>2, <2>3, <2>4, <2>5 DEF Same, k
<1> QED
  BY <1>1, <1>2

LEMMA TypeVisit == TypeInv /\ Visit => TypeInv'
<1> SUFFICES ASSUME TypeInv, Visit PROVE TypeInv'
  OBVIOUS
<1>1. fds' = Clobbered(DirBlock) /\ UNCHANGED <<names, inodes, disk, free, got>>
  BY DEF Visit
<1>2. exact' \in BOOLEAN
  BY DEF Visit, TypeInv
<1>3. fds' \in [Fds -> KNodes] /\ \A e \in Fds : Same(fds[e], fds'[e])
  BY <1>1, BlanksAre, ClobberedIs
<1>4. HasFirstBlock'
  BY <1>1, <1>3 DEF TypeInv, HasFirstBlock, Same
<1> QED
  BY <1>1, <1>2, <1>3, <1>4 DEF TypeInv

LEMMA TypeRm ==
  ASSUME TypeInv, NEW f \in Files, Rm(f)
  PROVE  TypeInv'
<1>1. /\ names' = names \ {f} /\ free' = free \cup BlocksOf(inodes[f].addr)
      /\ disk' = Wiped(BlocksOf(inodes[f].addr)) /\ inodes' = [inodes EXCEPT ![f] = NoInode]
      /\ UNCHANGED <<fds, got>>
  BY DEF Rm
<1>2. exact' \in BOOLEAN
  BY DEF Rm, TypeInv
<1>3. inodes[f].addr \in Addrs
  BY DEF TypeInv, Inodes
<1>4. disk' \in Disks
  BY <1>1, WipedType
<1>5. free' \subseteq Blocks \ {Zero}
  BY <1>1, <1>3, UsedSubset DEF TypeInv
<1>6. /\ inodes' \in [Files \cup {Root} -> Inodes]
      /\ \A g \in names' : inodes'[g] = inodes[g]
  BY <1>1, BlanksAre DEF TypeInv
<1>7. HasFirstBlock'
  BY <1>1, <1>6 DEF TypeInv, HasFirstBlock
<1>8. names' \subseteq Files
  BY <1>1 DEF TypeInv
<1> QED
  BY <1>1, <1>2, <1>4, <1>5, <1>6, <1>7, <1>8 DEF TypeInv

\* What cp makes of a file: the index node of the copy, and the disk.
CopyAddr(src, bs) == [i \in DOMAIN src |-> IF i \in Used(src) THEN bs[i] ELSE Zero]
Copied(src, bs) ==
  [b \in Blocks |-> IF b \in Range(bs) THEN disk[src[CHOOSE i \in Used(src) : bs[i] = b]]
                                       ELSE disk[b]]

\* Each used block of the copy holds what the block of the source does.
LEMMA CopiedIs ==
  ASSUME TypeInv, NEW src \in Addrs, src[0] # Zero, NEW bs \in Injection(Used(src), free)
  PROVE  /\ CopyAddr(src, bs) \in Addrs /\ Copied(src, bs) \in Disks
         /\ \A i \in Idx : CopyAddr(src, bs)[i] = IF i \in Used(src) THEN bs[i] ELSE Zero
         /\ \A i \in Used(src) : bs[i] \in free /\ Copied(src, bs)[bs[i]] = disk[src[i]]
         /\ \A b \in Blocks \ free : Copied(src, bs)[b] = disk[b]
         /\ Range(bs) \subseteq free
         /\ 0 \in Used(src)
<1>1. /\ bs \in [Used(src) -> free] /\ Range(bs) \subseteq free
      /\ \A a, b \in Used(src) : bs[a] = bs[b] => a = b
  BY DEF Injection, IsInjective, Range
<1>2. Used(src) \subseteq Idx /\ \A i \in Used(src) : src[i] \in Blocks
  BY UsedSubset
<1>3. free \subseteq Blocks \ {Zero} /\ \A b \in Blocks : disk[b] \in Bufs
  BY DEF TypeInv, Disks
<1>4. CopyAddr(src, bs) \in Addrs
        /\ \A i \in Idx : CopyAddr(src, bs)[i] = IF i \in Used(src) THEN bs[i] ELSE Zero
  BY <1>1, <1>2, <1>3 DEF CopyAddr, Addrs
<1>5. ASSUME NEW i \in Used(src) PROVE bs[i] \in free /\ Copied(src, bs)[bs[i]] = disk[src[i]]
  <2>1. bs[i] \in Blocks /\ bs[i] \in Range(bs) /\ bs[i] \in free
    BY <1>1, <1>3 DEF Range
  <2>2. (CHOOSE j \in Used(src) : bs[j] = bs[i]) = i
    <3> DEFINE j == CHOOSE x \in Used(src) : bs[x] = bs[i]
    <3>1. j \in Used(src) /\ bs[j] = bs[i]
      OBVIOUS
    <3> HIDE DEF j
    <3>2. j = i
      BY <1>1, <3>1
    <3> QED
      BY <3>2 DEF j
  <2> QED
    BY <2>1, <2>2 DEF Copied
<1>6. \A b \in Blocks \ free : Copied(src, bs)[b] = disk[b]
  BY <1>1 DEF Copied
<1>7. Copied(src, bs) \in Disks
  <2> SUFFICES ASSUME NEW b \in Blocks PROVE Copied(src, bs)[b] \in Bufs
    BY DEF Copied, Disks
  <2>1. CASE b \in Range(bs)
    <3>1. PICK i \in Used(src) : bs[i] = b
      BY <1>1, <2>1 DEF Range
    <3> QED
      BY <1>2, <1>3, <1>5, <3>1
  <2>2. CASE b \notin Range(bs)
    BY <1>3, <2>2 DEF Copied
  <2> QED
    BY <2>1, <2>2
<1>8. 0 \in Used(src)
  BY IdxIs DEF Used
<1> QED
  BY <1>1, <1>4, <1>5, <1>6, <1>7, <1>8

\* What cp does: the file has a block, so the last one goes through the buffer.
LEMMA CpIs ==
  ASSUME TypeInv, NEW f \in Files, NEW g \in Files, Cp(f, g)
  PROVE  LET src == inodes[f].addr
             n == Cardinality(Used(src))
         IN /\ f \in names /\ g \notin names /\ src \in Addrs /\ src[0] # Zero
            /\ n - 1 \in Used(src) /\ disk[src[n - 1]] \in Bufs
            /\ \E bs \in Injection(Used(src), free) :
                 /\ inodes' = [inodes EXCEPT ![g] =
                                 [len |-> inodes[f].len, addr |-> CopyAddr(src, bs)]]
                 /\ free' = free \ Range(bs)
                 /\ disk' = Copied(src, bs)
            /\ fds' = Clobbered(disk[src[n - 1]])
            /\ exact' = (exact /\ ZeroIsFree)
            /\ names' = names \cup {g} /\ got' = got
<1> DEFINE src == inodes[f].addr
           n == Cardinality(Used(src))
<1>1. f \in names /\ g \notin names /\ src \in Addrs /\ src[0] # Zero
  BY DEF Cp, TypeInv, HasFirstBlock, Inodes
<1>2. n - 1 \in 0 .. MaxBlocks - 1 /\ Used(src) = 0 .. n - 1
  <2> HIDE DEF src
  <2> QED
    BY <1>1, UsedIs
<1>3. n - 1 \in Used(src) /\ n # 0
  BY <1>2
<1>4. disk[src[n - 1]] \in Bufs
  <2>1. src[n - 1] \in Blocks
    BY <1>1, <1>3, UsedSubset
  <2> QED
    BY <2>1 DEF TypeInv, Disks
<1>5. \E bs \in Injection(Used(src), free) :
         /\ inodes' = [inodes EXCEPT ![g] = [len |-> inodes[f].len, addr |-> CopyAddr(src, bs)]]
         /\ free' = free \ Range(bs)
         /\ disk' = Copied(src, bs)
  BY DEF Cp, CopyAddr, Copied
<1>6. /\ fds' = Clobbered(disk[src[n - 1]]) /\ exact' = (exact /\ ZeroIsFree)
      /\ names' = names \cup {g} /\ got' = got
  <2>1. /\ fds' = (IF n = 0 THEN fds ELSE Clobbered(disk[src[n - 1]]))
        /\ exact' = (exact /\ (n = 0 \/ ZeroIsFree))
        /\ names' = names \cup {g} /\ got' = got
    BY DEF Cp
  <2> HIDE DEF n, src
  <2> QED
    BY <1>3, <2>1
<1> QED
  BY <1>1, <1>3, <1>4, <1>5, <1>6

LEMMA TypeCp ==
  ASSUME TypeInv, NEW f \in Files, NEW g \in Files, Cp(f, g)
  PROVE  TypeInv'
<1> DEFINE src == inodes[f].addr
           n == Cardinality(Used(src))
           last == disk[src[n - 1]]
<1>1. src \in Addrs /\ src[0] # Zero /\ last \in Bufs
  BY CpIs
<1>2. PICK bs \in Injection(Used(src), free) :
        /\ inodes' = [inodes EXCEPT ![g] = [len |-> inodes[f].len, addr |-> CopyAddr(src, bs)]]
        /\ free' = free \ Range(bs)
        /\ disk' = Copied(src, bs)
  BY CpIs
<1>3. fds' = Clobbered(last) /\ exact' = (exact /\ ZeroIsFree)
        /\ names' = names \cup {g} /\ got' = got
  BY CpIs
<1> DEFINE a == CopyAddr(src, bs)
           l == inodes[f].len
           m == [len |-> l, addr |-> a]
<1>4. a \in Addrs /\ a[0] # Zero /\ disk' \in Disks
  <2> HIDE DEF src
  <2>1. a \in Addrs /\ 0 \in Used(src) /\ a[0] = bs[0] /\ bs[0] \in free /\ disk' \in Disks
    BY <1>1, <1>2, CopiedIs, IdxIs
  <2> QED
    BY <2>1 DEF TypeInv
<1>5. l \in 0 .. MaxLen
  BY DEF TypeInv, Inodes
<1> HIDE DEF a, l
<1>6. m \in Inodes /\ m.addr = a
  BY <1>4, <1>5 DEF Inodes
<1>7. inodes' = [inodes EXCEPT ![g] = m]
  BY <1>2 DEF a, l
<1> HIDE DEF m, last
<1>8. /\ inodes' \in [Files \cup {Root} -> Inodes]
      /\ \A h \in Files : inodes'[h] = IF h = g THEN m ELSE inodes[h]
  BY <1>6, <1>7 DEF TypeInv
<1>9. fds' \in [Fds -> KNodes] /\ \A e \in Fds : Same(fds[e], fds'[e])
  BY <1>1, <1>3, ClobberedIs
<1>10. HasFirstBlock'
  BY <1>3, <1>4, <1>6, <1>8, <1>9 DEF TypeInv, HasFirstBlock, Same
<1>11. free' \subseteq Blocks \ {Zero} /\ names' \subseteq Files /\ exact' \in BOOLEAN
  BY <1>2, <1>3 DEF TypeInv, ZeroIsFree
<1> QED
  BY <1>3, <1>4, <1>8, <1>9, <1>10, <1>11 DEF TypeInv

\* The descriptor a file is open at.
FdOf(f) == CHOOSE d \in Fds : fds[d].file = f

LEMMA FdOfIs ==
  ASSUME NEW f, IsOpen(f)
  PROVE  FdOf(f) \in Fds /\ fds[FdOf(f)].file = f
BY DEF IsOpen, FdOf

\* What the end of the program writes, file by file.
LEMMA RestartIs ==
  ASSUME TypeInv, Restart
  PROVE  /\ inodes' \in [Files \cup {Root} -> Inodes]
         /\ \A f \in Files : inodes'[f] = IF IsOpen(f) THEN Stored(fds[FdOf(f)]) ELSE inodes[f]
         /\ inodes'[Root] = IF IsOpen(Root) THEN [len |-> BlockSize, addr |-> fds[0].addr]
                                            ELSE inodes[Root]
         /\ disk' = [disk EXCEPT ![Zero] = DirBlock] /\ disk' \in Disks
         /\ fds' \in [Fds -> KNodes]
         /\ fds'[0] = Node(Root, BlockSize, inodes'[Root].addr, 0, 0, -1, Nuls, FALSE)
         /\ \A d \in Fds \ {0} : fds'[d] = Closed(NoBlocks, FALSE)
         /\ UNCHANGED <<names, free, got, exact>>
<1>1. UNCHANGED <<names, free, got, exact>> /\ disk' = [disk EXCEPT ![Zero] = DirBlock]
  BY DEF Restart
<1>2. disk' \in Disks
  BY <1>1, BlanksAre DEF TypeInv, Disks
<1>3. inodes' = [f \in Files \cup {Root} |->
                  IF f # Root /\ IsOpen(f) THEN Stored(fds[FdOf(f)])
                  ELSE IF f = Root /\ IsOpen(f) THEN [len |-> BlockSize, addr |-> fds[0].addr]
                  ELSE inodes[f]]
  BY DEF Restart, FdOf
<1>4. \A f \in Files : inodes'[f] = IF IsOpen(f) THEN Stored(fds[FdOf(f)]) ELSE inodes[f]
  BY <1>3
<1>5. inodes'[Root] = IF IsOpen(Root) THEN [len |-> BlockSize, addr |-> fds[0].addr]
                                      ELSE inodes[Root]
  BY <1>3
<1>6. ASSUME NEW f \in Files \cup {Root} PROVE inodes'[f] \in Inodes
  <2>1. inodes[f] \in Inodes /\ fds[0].addr \in Addrs
    BY NodeAt, BlanksAre DEF TypeInv
  <2>2. [len |-> BlockSize, addr |-> fds[0].addr] \in Inodes
    BY <2>1, BlanksAre DEF Inodes
  <2>3. IsOpen(f) => Stored(fds[FdOf(f)]) \in Inodes
    BY FdOfIs, NodeAt, StoredType
  <2> QED
    BY <1>4, <1>5, <2>1, <2>2, <2>3
<1>7. inodes' \in [Files \cup {Root} -> Inodes]
  BY <1>3, <1>6
<1> DEFINE a == inodes'[Root].addr
           no == FALSE
           t == Node(Root, BlockSize, NoBlocks, 0, 0, -1, Nuls, no)
           u == Node(Root, BlockSize, a, 0, 0, -1, Nuls, no)
<1>8. RootFd = t
  BY RootFdIs DEF no
<1>9. [t EXCEPT !.addr = a] = u
  <2> DEFINE c == -1
  <2> HIDE DEF a, no, c
  <2>1. [Node(Root, BlockSize, NoBlocks, 0, 0, c, Nuls, no) EXCEPT !.addr = a] =
          Node(Root, BlockSize, a, 0, 0, c, Nuls, no)
    BY SetAddr
  <2> QED
    BY <2>1 DEF c
<1>10. fds' = [d \in Fds |-> IF d = 0 THEN [RootFd EXCEPT !.addr = a] ELSE Closed(NoBlocks, no)]
  BY DEF Restart
<1>11. a \in Addrs
  BY <1>7 DEF Inodes
<1>12. no \in BOOLEAN /\ 0 \in 0 .. MaxBlocks - 1 /\ -1 \in -1 .. MaxBlocks - 1
  OBVIOUS
<1> HIDE DEF a, no, t
<1>13. u \in KNodes /\ Closed(NoBlocks, no) \in KNodes
  BY <1>11, <1>12, BlanksAre, NodeType, ClosedType
<1> HIDE DEF u
<1>14. fds' = [d \in Fds |-> IF d = 0 THEN u ELSE Closed(NoBlocks, no)]
  BY <1>8, <1>9, <1>10
<1>15. /\ fds' \in [Fds -> KNodes] /\ fds'[0] = u
       /\ \A d \in Fds \ {0} : fds'[d] = Closed(NoBlocks, no)
  BY <1>13, <1>14, BlanksAre
<1> QED
  BY <1>1, <1>2, <1>4, <1>5, <1>7, <1>15 DEF u, a, no

LEMMA TypeRestart ==
  ASSUME TypeInv, Restart
  PROVE  TypeInv'
<1>1. ASSUME NEW d \in Fds PROVE fds'[d].file \notin Files
  <2>1. CASE d = 0
    BY <2>1, RestartIs DEF Node
  <2>2. CASE d # 0
    BY <2>2, RestartIs DEF Closed
  <2> QED
    BY <2>1, <2>2
<1>2. ASSUME NEW f \in names PROVE inodes'[f].addr[0] # Zero
  <2>1. f \in Files
    BY DEF TypeInv
  <2>2. CASE IsOpen(f)
    <3>1. fds[FdOf(f)] \in KNodes /\ fds[FdOf(f)].addr[0] # Zero
      BY <2>1, <2>2, FdOfIs, NodeAt DEF TypeInv, HasFirstBlock
    <3> QED
      BY <2>1, <2>2, <3>1, RestartIs, StoredType
  <2>3. CASE ~IsOpen(f)
    BY <2>1, <2>3, RestartIs DEF TypeInv, HasFirstBlock
  <2> QED
    BY <2>2, <2>3
<1>3. HasFirstBlock'
  BY <1>1, <1>2, RestartIs DEF HasFirstBlock
<1> QED
  BY <1>3, RestartIs DEF TypeInv

\* The inductive invariant of the types.
LEMMA TypeNext == TypeInv /\ [Next]_vars => TypeInv'
<1> SUFFICES ASSUME TypeInv, [Next]_vars PROVE TypeInv'
  OBVIOUS
<1>1. ASSUME NEW f \in Files, Touch(f) PROVE TypeInv'
  BY <1>1, TypeTouch
<1>2. ASSUME NEW f \in Files, Rm(f) PROVE TypeInv'
  BY <1>2, TypeRm
<1>3. ASSUME NEW f \in Files, NEW append \in BOOLEAN, Open(f, append) PROVE TypeInv'
  BY <1>3, TypeOpen
<1>4. ASSUME NEW f \in Files, NEW g \in Files, Cp(f, g) PROVE TypeInv'
  BY <1>4, TypeCp
<1>5. ASSUME NEW d \in Fds, Close(d) PROVE TypeInv'
  BY <1>5, TypeClose
<1>6. ASSUME NEW d \in Fds, NEW off \in 0 .. MaxLen - 1, Lseek(d, off) PROVE TypeInv'
  BY <1>6, TypeLseek
<1>7. ASSUME NEW d \in Fds, NEW off \in 0 .. MaxLen - 1, LseekFails(d, off) PROVE TypeInv'
  BY <1>7, TypeLseekFails
<1>8. ASSUME NEW d \in Fds, NEW size \in 1 .. MaxLen, Read(d, size) PROVE TypeInv'
  BY <1>8, TypeRead
<1>9. ASSUME NEW d \in Fds, NEW line \in Texts, Write(d, line) PROVE TypeInv'
  BY <1>9, TypeWrite
<1>10. ASSUME NEW d \in Fds, NEW line \in Texts, WriteFails(d, line) PROVE TypeInv'
  BY <1>10, TypeWriteFails
<1>11. CASE Visit
  BY <1>11, TypeVisit
<1>12. CASE Restart
  BY <1>12, TypeRestart
<1>13. CASE UNCHANGED vars
  BY <1>13 DEF vars, TypeInv, HasFirstBlock
<1> QED
  BY <1>1, <1>2, <1>3, <1>4, <1>5, <1>6, <1>7, <1>8, <1>9, <1>10, <1>11, <1>12, <1>13 DEF Next

LEMMA TypeAlways == Spec => []TypeInv
<1> QED
  BY TypeInit, TypeNext, PTL DEF Spec

\* Whatever is written, sought, copied and removed, damage or not: every address is
\* one of a block, no file has more blocks than a node has addresses, and no length,
\* offset or buffer gets out of its bounds.  Block 0 cannot be handed out.
THEOREM TypeCorrect == Spec => []TypeOK
<1>1. TypeInv => TypeOK
  BY DEF TypeInv, TypeOK, Inodes, Addrs, Idx, Disks, Bufs, KNodes
<1> QED
  BY <1>1, TypeAlways, PTL

----------------------------------------------------------------------------
(* Who owns the blocks, as long as no command does damage.                 *)

\* A file is open at one descriptor at most.
OneFd == \A d, e \in Fds : fds[d].file = fds[e].file /\ fds[d].file # NoFile => d = e

\* A kernel index node has what the stored one has, its addresses are those of the
\* blocks in use, and its buffer holds one of these as it is on the disk.
Fits(k, n, dsk) ==
  /\ n.addr = k.addr /\ n.len = k.len
  /\ k.cur \in 0 .. k.used /\ k.buf = dsk[k.addr[k.cur]]
  /\ \A i \in Idx : k.addr[i] # Zero <=> i <= k.used

OpenIsStored ==
  \A d \in Fds : fds[d].file \in Files =>
    fds[d].file \in names /\ Fits(fds[d], inodes[fds[d].file], disk)

\* The blocks of a file are its first addresses, and there is one for every byte.
NoGap(n) ==
  \A i \in Idx : /\ n.addr[i] # Zero => \A j \in 0 .. i : n.addr[j] # Zero
                 /\ i * BlockSize < n.len => n.addr[i] # Zero

Gapless == \A f \in names : NoGap(inodes[f])

\* A block is at one address of one file, and then it cannot be handed out.
Apart ==
  \A f \in names : \A i \in Idx : inodes[f].addr[i] # Zero =>
    /\ inodes[f].addr[i] \notin free
    /\ \A g \in names : \A j \in Idx : inodes[f].addr[i] = inodes[g].addr[j] => f = g /\ i = j

OwnInv == OneFd /\ (exact => OpenIsStored /\ Gapless /\ Apart)

\* Files that are opened nowhere else stay at one descriptor.
LEMMA OneFdStays ==
  ASSUME OneFd, \A d \in Fds : fds'[d].file \in {fds[d].file, NoFile}
  PROVE  OneFd'
<1> SUFFICES ASSUME NEW d \in Fds, NEW e \in Fds, fds'[d].file = fds'[e].file,
                    fds'[d].file # NoFile
             PROVE  d = e
  BY DEF OneFd
<1>1. fds[d].file = fds[e].file /\ fds[d].file # NoFile
  OBVIOUS
<1> QED
  BY <1>1 DEF OneFd

\* Nothing changes when all files keep their addresses.
LEMMA ApartStays ==
  ASSUME Apart, names' = names, free' = free, \A f \in names : inodes'[f].addr = inodes[f].addr
  PROVE  Apart'
BY DEF Apart

\* A file gets blocks that can be handed out, each one once.
LEMMA ApartMore ==
  ASSUME Apart, NEW h, names' = names \cup {h}, NEW T \in SUBSET free, free' \subseteq free \ T,
         \A f \in names \ {h} : inodes'[f].addr = inodes[f].addr,
         \A i \in Idx : inodes'[h].addr[i] # Zero =>
           \/ h \in names /\ inodes'[h].addr[i] = inodes[h].addr[i]
           \/ inodes'[h].addr[i] \in T
                /\ \A j \in Idx : inodes'[h].addr[j] = inodes'[h].addr[i] => j = i
  PROVE  Apart'
<1> DEFINE A(f) == inodes[f].addr
           B(f) == inodes'[f].addr
<1>1. \A f \in names, i \in Idx : A(f)[i] # Zero =>
        A(f)[i] \notin free /\ \A g \in names : \A j \in Idx : A(f)[i] = A(g)[j] => f = g /\ i = j
  BY DEF Apart
<1>2. \A f \in names \ {h} : B(f) = A(f)
  OBVIOUS
<1>3. \A i \in Idx : B(h)[i] # Zero =>
        \/ h \in names /\ B(h)[i] = A(h)[i]
        \/ B(h)[i] \in T /\ \A j \in Idx : B(h)[j] = B(h)[i] => j = i
  OBVIOUS
<1> SUFFICES \A f \in names \cup {h}, i \in Idx : B(f)[i] # Zero =>
               /\ B(f)[i] \notin free'
               /\ \A g \in names \cup {h} : \A j \in Idx : B(f)[i] = B(g)[j] => f = g /\ i = j
  BY DEF Apart
<1> HIDE DEF A, B
\* Every block is an old one, or a new one of h.
<1>4. ASSUME NEW f \in names \cup {h}, NEW i \in Idx, B(f)[i] # Zero
      PROVE  \/ f \in names /\ B(f)[i] = A(f)[i] /\ B(f)[i] \notin free
             \/ f = h /\ B(f)[i] \in T /\ \A j \in Idx : B(h)[j] = B(h)[i] => j = i
  <2>1. CASE f = h
    BY <1>1, <1>3, <1>4, <2>1
  <2>2. CASE f # h
    BY <1>1, <1>2, <1>4, <2>2
  <2> QED
    BY <2>1, <2>2
<1> TAKE f \in names \cup {h}, i \in Idx
<1> HAVE B(f)[i] # Zero
<1>5. B(f)[i] \notin free'
  BY <1>4
<1>6. ASSUME NEW g \in names \cup {h}, NEW j \in Idx, B(f)[i] = B(g)[j] PROVE f = g /\ i = j
  <2>1. B(g)[j] # Zero
    BY <1>6
  <2>2. CASE B(f)[i] \in T
    <3>1. f = h /\ \A l \in Idx : B(h)[l] = B(h)[i] => l = i
      BY <1>4, <2>2
    <3>2. g = h
      BY <1>4, <1>6, <2>1, <2>2
    <3> QED
      BY <1>6, <3>1, <3>2
  <2>3. CASE B(f)[i] \notin T
    <3>1. f \in names /\ B(f)[i] = A(f)[i]
      BY <1>4, <2>3
    <3>2. g \in names /\ B(g)[j] = A(g)[j]
      BY <1>4, <1>6, <2>1, <2>3
    <3>3. f \in names /\ g \in names /\ A(f)[i] # Zero /\ A(f)[i] = A(g)[j]
      BY <1>6, <2>1, <3>1, <3>2
    <3> QED
      BY <1>1, <3>3
  <2> QED
    BY <2>2, <2>3
<1> QED
  BY <1>5, <1>6

\* The block in a buffer is one of the file, so it cannot be handed out, and it is
\* in no other buffer.
LEMMA OwnBlock ==
  ASSUME TypeInv, OpenIsStored, Apart, NEW d \in Fds, fds[d].file \in Files
  PROVE  LET k == fds[d]
         IN /\ k.cur \in Idx /\ k.addr[k.cur] \in Blocks \ {Zero} /\ k.addr[k.cur] \notin free
            /\ \A i \in 0 .. k.used : i \in Idx /\ k.addr[i] \in Blocks \ {Zero} /\ k.addr[i] \notin free
            /\ \A i, j \in 0 .. k.used : k.addr[i] = k.addr[j] => i = j
<1> DEFINE k == fds[d]
           f == k.file
<1>1. f \in names /\ Fits(k, inodes[f], disk)
  BY DEF OpenIsStored
<1>2. k.used \in 0 .. MaxBlocks - 1 /\ k.addr \in Addrs
  BY NodeAt
<1> HIDE DEF k
<1>3. \A i \in 0 .. k.used : i \in Idx /\ k.addr[i] \in Blocks \ {Zero}
  BY <1>1, <1>2, IdxIs DEF Fits, Addrs
<1>4. \A i \in 0 .. k.used : k.addr[i] \notin free
  BY <1>1, <1>3 DEF Apart, Fits
<1>5. \A i, j \in 0 .. k.used : k.addr[i] = k.addr[j] => i = j
  BY <1>1, <1>3 DEF Apart, Fits
<1>6. k.cur \in 0 .. k.used
  BY <1>1 DEF Fits
<1> QED
  BY <1>3, <1>4, <1>5, <1>6 DEF k

\* Two files that are open have no block in common.
LEMMA OtherBlock ==
  ASSUME TypeInv, OneFd, OpenIsStored, Apart, NEW d \in Fds, fds[d].file \in Files,
         NEW f \in names, f # fds[d].file, NEW i \in Idx
  PROVE  fds[d].addr[fds[d].cur] # inodes[f].addr[i]
<1> DEFINE k == fds[d]
<1>1. k.file \in names /\ inodes[k.file].addr = k.addr
  BY DEF OpenIsStored, Fits
<1>2. k.cur \in Idx /\ k.addr[k.cur] # Zero
  BY OwnBlock
<1> QED
  BY <1>1, <1>2 DEF Apart

\* What is open stays as it is stored if its block keeps its bytes.
LEMMA FitsStays ==
  ASSUME NEW k, NEW n, Fits(k, n, disk), disk'[k.addr[k.cur]] = disk[k.addr[k.cur]]
  PROVE  Fits(k, n, disk')
BY DEF Fits

\* The descriptors outside D are left alone, and so are their files and blocks.
LEMMA OpenStays ==
  ASSUME OpenIsStored, NEW D,
         \A d \in Fds \ D : fds'[d].file \in Files =>
           /\ fds'[d] = fds[d] /\ fds[d].file \in names'
           /\ inodes'[fds[d].file] = inodes[fds[d].file]
           /\ disk'[fds[d].addr[fds[d].cur]] = disk[fds[d].addr[fds[d].cur]],
         \A d \in D : fds'[d].file \in Files =>
           fds'[d].file \in names' /\ Fits(fds'[d], inodes'[fds'[d].file], disk')
  PROVE  OpenIsStored'
<1> SUFFICES ASSUME NEW d \in Fds, fds'[d].file \in Files
             PROVE  fds'[d].file \in names' /\ Fits(fds'[d], inodes'[fds'[d].file], disk')
  BY DEF OpenIsStored
<1>1. CASE d \in D
  BY <1>1
<1>2. CASE d \notin D
  <2>1. fds'[d] = fds[d] /\ fds[d].file \in names'
          /\ inodes'[fds[d].file] = inodes[fds[d].file]
          /\ disk'[fds[d].addr[fds[d].cur]] = disk[fds[d].addr[fds[d].cur]]
    BY <1>2
  <2>2. Fits(fds[d], inodes[fds[d].file], disk)
    BY <2>1 DEF OpenIsStored
  <2>3. Fits(fds[d], inodes[fds[d].file], disk')
    BY <2>1, <2>2, FitsStays
  <2> QED
    BY <2>1, <2>3
<1> QED
  BY <1>1, <1>2

LEMMA OwnInit == Init => OwnInv
<1> SUFFICES ASSUME Init PROVE OwnInv
  OBVIOUS
<1>1. \A d \in Fds : fds[d].file = IF d = 0 THEN Root ELSE NoFile
  BY DEF Init, RootFd, Closed
<1>2. OneFd
  BY <1>1 DEF OneFd
<1>3. OpenIsStored
  BY <1>1 DEF OpenIsStored
<1>4. Gapless /\ Apart
  BY DEF Gapless, Apart, Init
<1> QED
  BY <1>2, <1>3, <1>4 DEF OwnInv

LEMMA OwnTouch ==
  ASSUME TypeInv, TypeInv', OwnInv, NEW f \in Files, Touch(f)
  PROVE  OwnInv'
<1>1. PICK b \in free, old \in Leftovers :
        /\ inodes' = [inodes EXCEPT ![f] = [len |-> 0, addr |-> [old EXCEPT ![0] = b]]]
        /\ Taken({b})
        /\ exact' = (exact /\ \A i \in 1 .. MaxBlocks - 1 : old[i] = Zero)
  BY DEF Touch
<1>2. names' = names \cup {f} /\ f \notin names /\ fds' = fds
  BY DEF Touch
<1>3. OneFd'
  BY <1>2 DEF OwnInv, OneFd
<1> SUFFICES ASSUME exact' PROVE (OpenIsStored /\ Gapless /\ Apart)'
  BY <1>3 DEF OwnInv
<1>4. exact /\ OpenIsStored /\ Gapless /\ Apart /\ \A i \in 1 .. MaxBlocks - 1 : old[i] = Zero
  BY <1>1 DEF OwnInv
<1>5. old \in Addrs
  <2>1. \A d \in IdleFds : fds[d].addr \in Addrs
    BY NodeAt DEF IdleFds
  <2> QED
    BY <2>1, BlanksAre DEF Leftovers
<1> DEFINE new == [old EXCEPT ![0] = b]
<1>6. \A i \in Idx : new[i] = IF i = 0 THEN b ELSE Zero
  BY <1>4, <1>5, IdxIs DEF Addrs
<1> HIDE DEF new
<1>7. inodes' = [inodes EXCEPT ![f] = [len |-> 0, addr |-> new]]
  BY <1>1 DEF new
<1>8. inodes'[f].len = 0 /\ inodes'[f].addr = new
  BY <1>7 DEF TypeInv
<1>9. \A g \in Files \ {f} : inodes'[g] = inodes[g]
  BY <1>7 DEF TypeInv
<1>10. names \subseteq Files
  BY DEF TypeInv
<1>11. Apart'
  <2>1. free' \subseteq free \ {b}
    BY <1>1 DEF Taken
  <2>2. \A i \in Idx : inodes'[f].addr[i] # Zero =>
          inodes'[f].addr[i] \in {b} /\ \A j \in Idx : inodes'[f].addr[j] = inodes'[f].addr[i] => j = i
    <3>1. b # Zero
      BY DEF TypeInv
    <3> QED
      BY <1>6, <1>8, <3>1
  <2>3. {b} \in SUBSET free /\ \A g \in names \ {f} : inodes'[g].addr = inodes[g].addr
    BY <1>9, <1>10
  <2> QED
    BY <1>2, <1>4, <2>1, <2>2, <2>3, ApartMore
<1>12. Gapless'
  <2>1. NoGap(inodes'[f])
    <3> SUFFICES ASSUME NEW i \in Idx
                 PROVE  /\ new[i] # Zero => \A j \in 0 .. i : new[j] # Zero
                        /\ ~(i * BlockSize < 0)
      BY <1>8 DEF NoGap
    <3>1. i * BlockSize \in Nat
      BY IdxIs, TimesMonotone
    <3>2. b # Zero
      BY DEF TypeInv
    <3> QED
      BY <1>6, <3>1, <3>2, IdxIs
  <2>2. \A g \in names : NoGap(inodes'[g])
    BY <1>2, <1>4, <1>9, <1>10 DEF Gapless
  <2> QED
    BY <1>2, <2>1, <2>2 DEF Gapless
<1>13. OpenIsStored'
  <2> SUFFICES ASSUME NEW d \in Fds, fds[d].file \in Files
               PROVE  /\ fds[d].file \in names'
                      /\ inodes'[fds[d].file] = inodes[fds[d].file]
                      /\ disk'[fds[d].addr[fds[d].cur]] = disk[fds[d].addr[fds[d].cur]]
    <3> DEFINE no == {}
    <3>1. \A e \in no : FALSE
      OBVIOUS
    <3> HIDE DEF no
    <3> QED
      BY <1>2, <1>4, <3>1, OpenStays
  <2>1. fds[d].file \in names
    BY <1>4 DEF OpenIsStored
  <2>2. fds[d].addr[fds[d].cur] \in Blocks \ free
    BY <1>4, OwnBlock
  <2> QED
    BY <1>1, <1>2, <1>9, <2>1, <2>2 DEF Taken, Wiped
<1> QED
  BY <1>11, <1>12, <1>13

LEMMA OwnOpen ==
  ASSUME TypeInv, OwnInv, NEW f \in Files, NEW append \in BOOLEAN, Open(f, append)
  PROVE  OwnInv'
<1>1. PICK d \in IdleFds : fds' = [fds EXCEPT ![d] = Opened(d, f, append)]
  BY OpenIs
<1> DEFINE l == Opened(d, f, append)
           a == inodes[f].addr
<1>2. d \in Fds /\ fds[d].file = NoFile /\ UNCHANGED <<names, inodes, disk, free, exact>>
        /\ f \in names /\ \A e \in Fds : fds[e].file # f
  BY DEF IdleFds, Open, IsOpen
<1>3. /\ l.file = f /\ l.len = inodes[f].len /\ l.addr = a /\ l.cur = 0
      /\ l.used = Cardinality(Used(a)) - 1 /\ l.buf = disk[a[0]]
  BY NodeFields DEF Opened
<1> HIDE DEF l
<1>4. \A e \in Fds : fds'[e] = IF e = d THEN l ELSE fds[e]
  BY <1>1, <1>2 DEF TypeInv, l
<1>5. OneFd'
  BY <1>2, <1>3, <1>4 DEF OwnInv, OneFd
<1> SUFFICES ASSUME exact PROVE (OpenIsStored /\ Gapless /\ Apart)'
  BY <1>2, <1>5 DEF OwnInv
<1>6. OpenIsStored /\ Gapless /\ Apart
  BY DEF OwnInv
<1>7. Gapless' /\ Apart'
  BY <1>2, <1>6 DEF Gapless, Apart
<1>8. Fits(l, inodes[f], disk)
  <2>1. a \in Addrs /\ a[0] # Zero
    BY <1>2 DEF TypeInv, HasFirstBlock, Inodes
  <2> DEFINE c == Cardinality(Used(a))
  <2>2. Used(a) = 0 .. c - 1 /\ c - 1 \in 0 .. MaxBlocks - 1
    <3> HIDE DEF a
    <3> QED
      BY <2>1, UsedIs
  <2> HIDE DEF c
  <2>3. \A i \in Idx : a[i] # Zero <=> i \in Used(a)
    <3>1. \A i \in Idx : a[i] # Zero => \A j \in 0 .. i : a[j] # Zero
      BY <1>2, <1>6 DEF Gapless, NoGap
    <3>2. \A i \in Idx : i \in 0 .. i /\ i \in 0 .. MaxBlocks - 1
      BY IdxIs
    <3> HIDE DEF a
    <3> QED
      BY <3>1, <3>2 DEF Used
  <2>4. \A i \in Idx : i \in Nat
    BY IdxIs
  <2> HIDE DEF a
  <2>5. \A i \in Idx : a[i] # Zero <=> i <= c - 1
    BY <2>2, <2>3, <2>4
  <2> QED
    BY <1>3, <2>2, <2>5 DEF Fits, a, c
<1>9. OpenIsStored'
  <2> DEFINE D == {d}
  <2>1. \A e \in Fds \ D : fds'[e].file \in Files =>
           /\ fds'[e] = fds[e] /\ fds[e].file \in names'
           /\ inodes'[fds[e].file] = inodes[fds[e].file]
           /\ disk'[fds[e].addr[fds[e].cur]] = disk[fds[e].addr[fds[e].cur]]
    BY <1>2, <1>4, <1>6 DEF OpenIsStored
  <2>2. fds'[d].file \in names' /\ Fits(fds'[d], inodes'[fds'[d].file], disk')
    BY <1>2, <1>3, <1>4, <1>8
  <2>3. \A e \in D : fds'[e].file \in Files =>
          fds'[e].file \in names' /\ Fits(fds'[e], inodes'[fds'[e].file], disk')
    BY <2>2
  <2> HIDE DEF D
  <2> QED
    BY <1>6, <2>1, <2>3, OpenStays
<1> QED
  BY <1>7, <1>9

LEMMA OwnClose ==
  ASSUME TypeInv, OwnInv, NEW d \in Fds, Close(d)
  PROVE  OwnInv'
<1> DEFINE k == fds[d]
<1>1. /\ inodes' = [inodes EXCEPT ![k.file] = Stored(k)] /\ fds' = [fds EXCEPT ![d] = Closed(k.addr, k.lock)]
      /\ UNCHANGED <<names, disk, free, exact>> /\ k.file \in Files \cup {Root} /\ k \in KNodes
  BY NodeAt DEF Close
<1>2. Closed(k.addr, k.lock).file = NoFile
  BY DEF Closed
<1>3. \A e \in Fds : e # d => fds'[e] = fds[e]
  BY <1>1 DEF TypeInv
<1>4. fds'[d].file = NoFile
  BY <1>1, <1>2 DEF TypeInv
<1>5. OneFd'
  BY <1>3, <1>4, OneFdStays DEF OwnInv
<1> SUFFICES ASSUME exact PROVE (OpenIsStored /\ Gapless /\ Apart)'
  BY <1>1, <1>5 DEF OwnInv
<1>6. OpenIsStored /\ Gapless /\ Apart
  BY DEF OwnInv
<1>7. \A f \in names : inodes'[f] = inodes[f]
  <2> SUFFICES ASSUME NEW f \in names PROVE inodes'[f] = inodes[f]
    OBVIOUS
  <2>1. f \in Files /\ inodes[f] \in Inodes
    BY DEF TypeInv
  <2>2. CASE f = k.file
    <3>1. Fits(k, inodes[f], disk)
      BY <1>6, <2>1, <2>2 DEF OpenIsStored
    <3>2. inodes'[f] = Stored(k)
      BY <1>1, <2>1, <2>2 DEF TypeInv
    <3>3. Stored(k) = inodes[f]
      BY <2>1, <3>1 DEF Fits, Stored, Inodes
    <3> QED
      BY <3>2, <3>3
  <2>3. CASE f # k.file
    BY <1>1, <2>1, <2>3 DEF TypeInv
  <2> QED
    BY <2>2, <2>3
<1>8. Gapless' /\ Apart'
  BY <1>1, <1>6, <1>7 DEF Gapless, Apart
<1>9. OpenIsStored'
  <2>1. \A e \in Fds : fds'[e].file \in Files =>
           /\ fds'[e] = fds[e] /\ fds[e].file \in names'
           /\ inodes'[fds[e].file] = inodes[fds[e].file]
           /\ disk'[fds[e].addr[fds[e].cur]] = disk[fds[e].addr[fds[e].cur]]
    BY <1>1, <1>3, <1>4, <1>6, <1>7 DEF OpenIsStored
  <2> DEFINE no == {}
  <2>2. \A e \in no : FALSE
    OBVIOUS
  <2> HIDE DEF no
  <2> QED
    BY <1>6, <2>1, <2>2, OpenStays
<1> QED
  BY <1>8, <1>9

LEMMA OwnRm ==
  ASSUME TypeInv, OwnInv, NEW f \in Files, Rm(f)
  PROVE  OwnInv'
<1> DEFINE B == BlocksOf(inodes[f].addr)
<1>1. /\ names' = names \ {f} /\ free' = free \cup B /\ disk' = Wiped(B)
      /\ inodes' = [inodes EXCEPT ![f] = NoInode] /\ fds' = fds
      /\ exact' = (exact /\ ~IsOpen(f)) /\ f \in names
  BY DEF Rm
<1>2. OneFd'
  BY <1>1 DEF OwnInv, OneFd
<1> SUFFICES ASSUME exact' PROVE (OpenIsStored /\ Gapless /\ Apart)'
  BY <1>2 DEF OwnInv
<1>3. OpenIsStored /\ Gapless /\ Apart /\ \A d \in Fds : fds[d].file # f
  BY <1>1 DEF OwnInv, IsOpen
<1>4. names \subseteq Files /\ \A g \in Files \ {f} : inodes'[g] = inodes[g]
  BY <1>1 DEF TypeInv
\* A block of f is no block of another file.
<1>5. ASSUME NEW g \in names \ {f}, NEW i \in Idx, inodes[g].addr[i] # Zero
      PROVE  inodes[g].addr[i] \notin free /\ inodes[g].addr[i] \notin B
  <2>1. inodes[f].addr \in Addrs
    BY DEF TypeInv, Inodes
  <2>2. Used(inodes[f].addr) \subseteq Idx
    BY <2>1, UsedSubset
  <2> QED
    BY <1>1, <1>3, <1>5, <2>2 DEF Apart, BlocksOf
<1> HIDE DEF B
<1>6. Gapless'
  BY <1>1, <1>3, <1>4 DEF Gapless
<1>7. Apart'
  <2> SUFFICES ASSUME NEW g \in names', NEW i \in Idx, inodes'[g].addr[i] # Zero
               PROVE  /\ inodes'[g].addr[i] \notin free'
                      /\ \A h \in names' : \A j \in Idx :
                           inodes'[g].addr[i] = inodes'[h].addr[j] => g = h /\ i = j
    BY DEF Apart
  <2>1. \A h \in names' : inodes'[h] = inodes[h] /\ h \in names \ {f}
    BY <1>1, <1>4
  <2>2. inodes[g].addr[i] # Zero /\ inodes'[g].addr[i] = inodes[g].addr[i]
    BY <2>1
  <2> QED
    BY <1>1, <1>3, <1>5, <2>1, <2>2 DEF Apart
<1>8. OpenIsStored'
  <2> DEFINE no == {}
  <2>1. \A d \in no : FALSE
    OBVIOUS
  <2>2. ASSUME NEW d \in Fds, fds[d].file \in Files
        PROVE  /\ fds[d].file \in names'
               /\ inodes'[fds[d].file] = inodes[fds[d].file]
               /\ disk'[fds[d].addr[fds[d].cur]] = disk[fds[d].addr[fds[d].cur]]
    <3> DEFINE k == fds[d]
    <3>1. k.file \in names \ {f} /\ inodes[k.file].addr = k.addr
      BY <1>3, <2>2 DEF OpenIsStored, Fits
    <3>2. k.cur \in Idx /\ k.addr[k.cur] \in Blocks \ {Zero}
      BY <1>3, <2>2, OwnBlock
    <3>3. k.addr[k.cur] \notin B
      BY <1>5, <3>1, <3>2
    <3> QED
      BY <1>1, <1>4, <3>1, <3>2, <3>3 DEF Wiped
  <2> HIDE DEF no
  <2> QED
    BY <1>1, <1>3, <2>1, <2>2, OpenStays
<1> QED
  BY <1>6, <1>7, <1>8

\* Where a file is open, the buffer is not used by another command.
LEMMA ClobberedOpen ==
  ASSUME TypeInv, NEW bytes \in Bufs, ZeroIsFree
  PROVE  \A d \in Fds : Clobbered(bytes)[d].file \in Files => Clobbered(bytes)[d] = fds[d]
<1>1. CASE fds[0].file = NoFile
  BY <1>1 DEF Clobbered
<1>2. CASE fds[0].file # NoFile
  <2>1. fds[0].file = Root
    BY <1>2 DEF ZeroIsFree
  <2>2. Clobbered(bytes) = [fds EXCEPT ![0].buf = bytes]
    BY <1>2 DEF Clobbered
  <2>3. \A d \in Fds : d # 0 => Clobbered(bytes)[d] = fds[d]
    BY <2>2 DEF TypeInv
  <2>4. Clobbered(bytes)[0].file = fds[0].file
    BY ClobberedIs, BlanksAre DEF Same
  <2> QED
    BY <2>1, <2>3, <2>4
<1> QED
  BY <1>1, <1>2

LEMMA OwnVisit ==
  ASSUME TypeInv, OwnInv, Visit
  PROVE  OwnInv'
<1>1. fds' = Clobbered(DirBlock) /\ UNCHANGED <<names, inodes, disk, free>>
        /\ exact' = (exact /\ ZeroIsFree)
  BY DEF Visit
<1>2. \A d \in Fds : fds'[d].file = fds[d].file
  BY <1>1, BlanksAre, ClobberedIs DEF Same
<1>3. OneFd'
  BY <1>2, OneFdStays DEF OwnInv
<1> SUFFICES ASSUME exact' PROVE (OpenIsStored /\ Gapless /\ Apart)'
  BY <1>3 DEF OwnInv
<1>4. OpenIsStored /\ Gapless /\ Apart /\ ZeroIsFree
  BY <1>1 DEF OwnInv
<1>5. \A d \in Fds : fds'[d].file \in Files => fds'[d] = fds[d]
  BY <1>1, <1>4, BlanksAre, ClobberedOpen
<1>6. Gapless' /\ Apart'
  BY <1>1, <1>4 DEF Gapless, Apart
<1>7. OpenIsStored'
  BY <1>1, <1>4, <1>5 DEF OpenIsStored
<1> QED
  BY <1>6, <1>7

LEMMA OwnCp ==
  ASSUME TypeInv, OwnInv, NEW f \in Files, NEW g \in Files, Cp(f, g)
  PROVE  OwnInv'
<1> DEFINE src == inodes[f].addr
           n == Cardinality(Used(src))
           last == disk[src[n - 1]]
<1>1. src \in Addrs /\ src[0] # Zero /\ last \in Bufs /\ f \in names /\ g \notin names
  BY CpIs
<1>2. PICK bs \in Injection(Used(src), free) :
        /\ inodes' = [inodes EXCEPT ![g] = [len |-> inodes[f].len, addr |-> CopyAddr(src, bs)]]
        /\ free' = free \ Range(bs)
        /\ disk' = Copied(src, bs)
  BY CpIs
<1>3. fds' = Clobbered(last) /\ exact' = (exact /\ ZeroIsFree) /\ names' = names \cup {g}
  BY CpIs
<1> DEFINE a == CopyAddr(src, bs)
           m == [len |-> inodes[f].len, addr |-> a]
<1>4. /\ \A i \in Idx : a[i] = IF i \in Used(src) THEN bs[i] ELSE Zero
      /\ \A b \in Blocks \ free : disk'[b] = disk[b]
      /\ \A i \in Used(src) : bs[i] \in free
      /\ Range(bs) \in SUBSET free
  <2> HIDE DEF src
  <2> QED
    BY <1>1, <1>2, CopiedIs
<1>5. \A i, j \in Used(src) : bs[i] = bs[j] => i = j
  <2> DEFINE U == Used(src)
  <2> HIDE DEF U
  <2> QED
    BY InjectionIs DEF U
<1>6. \A i \in Used(src) : bs[i] \in Range(bs) /\ bs[i] # Zero
  <2>1. bs \in [Used(src) -> free]
    BY DEF Injection
  <2>2. free \subseteq Blocks \ {Zero}
    BY DEF TypeInv
  <2> QED
    BY <2>1, <2>2 DEF Range
<1> HIDE DEF last, a
<1>7. m.len = inodes[f].len /\ m.addr = a /\ inodes' = [inodes EXCEPT ![g] = m]
  BY <1>2 DEF a
<1> HIDE DEF m
<1>8. inodes'[g] = m /\ \A h \in Files : h # g => inodes'[h] = inodes[h]
  BY <1>7 DEF TypeInv
<1>9. names \subseteq Files
  BY DEF TypeInv
<1>10. \A d \in Fds : fds'[d].file = fds[d].file
  BY <1>1, <1>3, ClobberedIs DEF Same
<1>11. OneFd'
  BY <1>10, OneFdStays DEF OwnInv
<1> SUFFICES ASSUME exact' PROVE (OpenIsStored /\ Gapless /\ Apart)'
  BY <1>11 DEF OwnInv
<1>12. OpenIsStored /\ Gapless /\ Apart /\ ZeroIsFree
  BY <1>3 DEF OwnInv
<1>13. \A d \in Fds : fds'[d].file \in Files => fds'[d] = fds[d]
  BY <1>1, <1>3, <1>12, ClobberedOpen
<1>14. Apart'
  <2> DEFINE T == Range(bs)
  <2>1. \A i \in Idx : inodes'[g].addr[i] # Zero =>
          inodes'[g].addr[i] \in T /\ \A j \in Idx : inodes'[g].addr[j] = inodes'[g].addr[i] => j = i
    BY <1>4, <1>5, <1>6, <1>7, <1>8
  <2>2. \A h \in names \ {g} : inodes'[h].addr = inodes[h].addr
    BY <1>8, <1>9
  <2>3. T \in SUBSET free /\ free' \subseteq free \ T
    BY <1>2, <1>4
  <2> HIDE DEF T
  <2> QED
    BY <1>3, <1>12, <2>1, <2>2, <2>3, ApartMore
<1>15. Gapless'
  <2>1. NoGap(m)
    <3> SUFFICES ASSUME NEW i \in Idx
                 PROVE  /\ a[i] # Zero => \A j \in 0 .. i : a[j] # Zero
                        /\ i * BlockSize < inodes[f].len => a[i] # Zero
      BY <1>7 DEF NoGap
    <3>1. i * BlockSize < inodes[f].len => src[i] # Zero
      BY <1>1, <1>12 DEF Gapless, NoGap
    <3>2. src[i] # Zero => \A j \in 0 .. i : src[j] # Zero
      BY <1>1, <1>12 DEF Gapless, NoGap
    <3>3. src[i] # Zero => i \in Used(src)
      BY <3>2, IdxIs DEF Used
    <3>4. i \in Used(src) => \A j \in 0 .. i : j \in Used(src) /\ j \in Idx
      BY IdxIs DEF Used
    <3> HIDE DEF src
    <3> QED
      BY <1>4, <1>6, <3>1, <3>3, <3>4
  <2> QED
    BY <1>3, <1>8, <1>9, <1>12, <2>1 DEF Gapless
<1>16. OpenIsStored'
  <2> DEFINE no == {}
  <2>1. \A d \in no : FALSE
    OBVIOUS
  <2>2. ASSUME NEW d \in Fds, fds'[d].file \in Files
        PROVE  /\ fds'[d] = fds[d] /\ fds[d].file \in names'
               /\ inodes'[fds[d].file] = inodes[fds[d].file]
               /\ disk'[fds[d].addr[fds[d].cur]] = disk[fds[d].addr[fds[d].cur]]
    <3>1. fds'[d] = fds[d] /\ fds[d].file \in Files
      BY <1>13, <2>2
    <3>2. fds[d].file \in names
      BY <1>12, <3>1 DEF OpenIsStored
    <3>3. fds[d].addr[fds[d].cur] \in Blocks \ free
      BY <1>12, <3>1, OwnBlock
    <3> QED
      BY <1>1, <1>3, <1>4, <1>8, <3>1, <3>2, <3>3
  <2> HIDE DEF no
  <2> QED
    BY <1>12, <2>1, <2>2, OpenStays
<1> QED
  BY <1>14, <1>15, <1>16

LEMMA OwnRestart ==
  ASSUME TypeInv, OwnInv, Restart
  PROVE  OwnInv'
<1>1. \A d \in Fds : fds'[d].file = IF d = 0 THEN Root ELSE NoFile
  <2>1. fds'[0].file = Root
    BY RestartIs DEF Node
  <2>2. \A d \in Fds \ {0} : fds'[d].file = NoFile
    BY RestartIs DEF Closed
  <2> QED
    BY <2>1, <2>2
<1>2. OneFd'
  BY <1>1 DEF OneFd
<1>3. UNCHANGED <<names, free, exact>>
  BY RestartIs
<1> SUFFICES ASSUME exact PROVE (OpenIsStored /\ Gapless /\ Apart)'
  BY <1>2, <1>3 DEF OwnInv
<1>4. OpenIsStored /\ Gapless /\ Apart
  BY DEF OwnInv
<1>5. \A f \in names : inodes'[f] = inodes[f]
  <2> SUFFICES ASSUME NEW f \in names PROVE inodes'[f] = inodes[f]
    OBVIOUS
  <2>1. f \in Files /\ inodes[f] \in Inodes
    BY DEF TypeInv
  <2>2. CASE IsOpen(f)
    <3> DEFINE k == fds[FdOf(f)]
    <3>1. k.file = f /\ FdOf(f) \in Fds
      BY <2>2, FdOfIs
    <3>2. Fits(k, inodes[f], disk)
      BY <1>4, <2>1, <3>1 DEF OpenIsStored
    <3>3. inodes'[f] = Stored(k)
      BY <2>1, <2>2, RestartIs
    <3>4. Stored(k) = inodes[f]
      BY <2>1, <3>2 DEF Fits, Stored, Inodes
    <3> QED
      BY <3>3, <3>4
  <2>3. CASE ~IsOpen(f)
    BY <2>1, <2>3, RestartIs
  <2> QED
    BY <2>2, <2>3
<1>6. Gapless' /\ Apart'
  BY <1>3, <1>4, <1>5 DEF Gapless, Apart
<1>7. OpenIsStored'
  BY <1>1 DEF OpenIsStored
<1> QED
  BY <1>6, <1>7

\* What a seek to the end or behind it makes of the descriptor.
LEMMA SoughtType ==
  ASSUME NEW k \in KNodes, NEW off \in 0 .. MaxLen, NEW need \in Nat,
         k.used + need \in 0 .. MaxBlocks - 1, NEW bs \in [1 .. need -> Blocks]
  PROVE  LET l == Sought(k, off, need, bs)
         IN /\ l \in KNodes /\ l.file = k.file /\ l.len = off /\ l.off = off
            /\ l.used = k.used + need /\ l.cur = k.cur /\ l.buf = k.buf
            /\ \A i \in Idx : l.addr[i] = IF i - k.used \in 1 .. need THEN bs[i - k.used]
                                                                      ELSE k.addr[i]
<1> DEFINE a == Longer(k.addr, k.used, need, bs)
           l == Sought(k, off, need, bs)
<1>1. /\ k.file \in Files \cup {Root, NoFile} /\ k.cur \in -1 .. MaxBlocks - 1
      /\ k.buf \in Bufs /\ k.lock \in BOOLEAN /\ k.used \in Nat /\ k.addr \in Addrs
  BY DEF KNodes
<1>2. a \in Addrs
  BY <1>1, LongerType
<1>3. \A i \in Idx : a[i] = IF i - k.used \in 1 .. need THEN bs[i - k.used] ELSE k.addr[i]
  BY <1>1 DEF Longer, Addrs
<1>4. l = Node(k.file, off, a, k.used + need, off, k.cur, k.buf, k.lock)
  BY SoughtIs
<1> HIDE DEF a, l
<1>5. l \in KNodes
  BY <1>1, <1>2, <1>4, NodeType
<1>6. /\ l.file = k.file /\ l.len = off /\ l.off = off /\ l.addr = a
      /\ l.used = k.used + need /\ l.cur = k.cur /\ l.buf = k.buf
  BY <1>4, NodeFields
<1> QED
  BY <1>3, <1>5, <1>6 DEF l

\* What my_lseek does there.
SeekEnd(d, off, bs, l) ==
  LET k == fds[d]
      need == BlocksTo(k, off)
  IN /\ fds' = [fds EXCEPT ![d] = l]
     /\ inodes' = [inodes EXCEPT ![k.file] = Stored(l)]
     /\ free' = free \ Range(bs) /\ disk' = Wiped(Range(bs))
     /\ \A m \in 1 .. need : bs[m] \in free /\ bs[m] \in Range(bs)
     /\ \A m, p \in 1 .. need : bs[m] = bs[p] => m = p
     /\ l.file = k.file /\ l.len = off /\ l.off = off
     /\ l.used = k.used + need /\ l.cur = k.cur /\ l.buf = k.buf
     /\ \A i \in Idx : l.addr[i] = IF i - k.used \in 1 .. need THEN bs[i - k.used]
                                                               ELSE k.addr[i]

LEMMA LseekIs ==
  ASSUME TypeInv, NEW d \in Fds, NEW off \in 0 .. MaxLen - 1, Lseek(d, off),
         ~(off < fds[d].len)
  PROVE  \E bs \in Injection(1 .. BlocksTo(fds[d], off), free), l \in KNodes :
           SeekEnd(d, off, bs, l)
<1> DEFINE k == fds[d]
           need == BlocksTo(k, off)
<1>1. k \in KNodes /\ off \in 0 .. MaxLen
  BY NodeAt, MaxLenIs
<1>2. need \in Nat /\ k.used + need \in 0 .. MaxBlocks - 1
  <2> HIDE DEF k
  <2> QED
    BY <1>1, BlocksToIs
<1>3. PICK bs \in Injection(1 .. need, free) :
        /\ fds' = [fds EXCEPT ![d] = Sought(k, off, need, bs)]
        /\ inodes' = [inodes EXCEPT ![k.file] = Stored(fds'[d])]
        /\ Taken(Range(bs))
  BY DEF Lseek, Sought
<1> DEFINE l == Sought(k, off, need, bs)
<1>4. /\ bs \in [1 .. need -> Blocks]
      /\ \A m \in 1 .. need : bs[m] \in free /\ bs[m] \in Range(bs)
      /\ \A m, p \in 1 .. need : bs[m] = bs[p] => m = p
  <2>1. free \subseteq Blocks
    BY DEF TypeInv
  <2> HIDE DEF need
  <2>2. bs \in [1 .. need -> free] /\ \A m, p \in 1 .. need : bs[m] = bs[p] => m = p
    BY DEF Injection, IsInjective
  <2> QED
    BY <2>1, <2>2 DEF Range
<1>5. /\ l \in KNodes /\ l.file = k.file /\ l.len = off /\ l.off = off
      /\ l.used = k.used + need /\ l.cur = k.cur /\ l.buf = k.buf
      /\ \A i \in Idx : l.addr[i] = IF i - k.used \in 1 .. need THEN bs[i - k.used] ELSE k.addr[i]
  <2> HIDE DEF k, need
  <2> QED
    BY <1>1, <1>2, <1>4, SoughtType
<1> HIDE DEF need
<1>6. fds' = [fds EXCEPT ![d] = l]
  BY <1>3
<1> HIDE DEF l
<1>7. fds'[d] = l
  BY <1>6 DEF TypeInv
<1>8. inodes' = [inodes EXCEPT ![k.file] = Stored(l)]
  BY <1>3, <1>7
<1>9. SeekEnd(d, off, bs, l)
  BY <1>3, <1>4, <1>5, <1>6, <1>8 DEF SeekEnd, need, Taken
<1> QED
  BY <1>5, <1>9 DEF need

\* A file that is as long as a seek says has the blocks for that.
LEMMA LongEnough ==
  ASSUME NEW k \in KNodes, NEW off \in 0 .. MaxLen - 1, NEW i \in Nat, i * BlockSize < off
  PROVE  i <= k.used + BlocksTo(k, off)
<1> DEFINE p == i * BlockSize + 0
           need == BlocksTo(k, off)
<1>1. 0 \in Offsets /\ off \in Nat
  BY MaxLenIs DEF Offsets
<1>2. p \in Nat /\ p \div BlockSize = i
  BY <1>1, PlaceFrom
<1>3. i * BlockSize \in Nat
  BY TimesMonotone
<1>4. p <= off
  BY <1>1, <1>3
<1> HIDE DEF p
<1>5. i <= off \div BlockSize /\ off \div BlockSize \in Nat
  <2>1. i <= off \div BlockSize
    BY <1>1, <1>2, <1>4, BlockMonotone
  <2> QED
    BY <2>1, <1>1, PlaceIs
<1>6. off \div BlockSize <= k.used + need /\ need \in Nat /\ k.used \in Nat
  <2>1. k.used \in Nat
    BY DEF KNodes
  <2> QED
    BY <2>1, BlocksToIs
<1> DEFINE q == off \div BlockSize
<1> HIDE DEF q, need
<1>7. i <= k.used + need
  BY <1>5, <1>6 DEF q
<1> QED
  BY <1>7 DEF need

LEMMA OwnLseek ==
  ASSUME TypeInv, OwnInv, NEW d \in Fds, NEW off \in 0 .. MaxLen - 1, Lseek(d, off)
  PROVE  OwnInv'
<1> DEFINE k == fds[d]
<1>1. k \in KNodes /\ k.file \in Files \cup {Root} /\ names' = names
        /\ exact' = (exact /\ k.file # Root) /\ names \subseteq Files
  BY NodeAt DEF Lseek, TypeInv
<1>2. CASE off < k.len
  <2> DEFINE l == [k EXCEPT !.off = off]
  <2>1. fds' = [fds EXCEPT ![d] = l] /\ UNCHANGED <<inodes, disk, free>>
    BY <1>2 DEF Lseek, TypeInv
  <2>2. /\ l.file = k.file /\ l.addr = k.addr /\ l.len = k.len /\ l.cur = k.cur
        /\ l.used = k.used /\ l.buf = k.buf
    <3>1. l = Node(k.file, k.len, k.addr, k.used, off, k.cur, k.buf, k.lock)
      BY <1>1, NodeIs, SetOff
    <3> HIDE DEF l
    <3> QED
      BY <3>1, NodeFields
  <2> HIDE DEF l
  <2>3. fds'[d] = l /\ \A e \in Fds : e # d => fds'[e] = fds[e]
    BY <2>1 DEF TypeInv
  <2>4. \A e \in Fds : fds'[e].file = fds[e].file
    BY <2>2, <2>3
  <2>5. OneFd'
    BY <2>4, OneFdStays DEF OwnInv
  <2> SUFFICES ASSUME exact' PROVE (OpenIsStored /\ Gapless /\ Apart)'
    BY <2>5 DEF OwnInv
  <2>6. OpenIsStored /\ Gapless /\ Apart
    BY <1>1 DEF OwnInv
  <2>7. Gapless' /\ Apart'
    BY <1>1, <2>1, <2>6 DEF Gapless, Apart
  <2>8. OpenIsStored'
    <3> SUFFICES ASSUME NEW e \in Fds, fds'[e].file \in Files
                 PROVE  fds'[e].file \in names /\ Fits(fds'[e], inodes[fds'[e].file], disk)
      BY <1>1, <2>1 DEF OpenIsStored
    <3>1. fds[e].file \in names /\ Fits(fds[e], inodes[fds[e].file], disk)
      BY <2>4, <2>6 DEF OpenIsStored
    <3> QED
      BY <2>2, <2>3, <2>4, <3>1 DEF Fits
  <2> QED
    BY <2>7, <2>8
<1>3. CASE ~(off < k.len)
  <2> DEFINE need == BlocksTo(k, off)
             f == k.file
  <2>0. PICK bs \in Injection(1 .. need, free), l \in KNodes : SeekEnd(d, off, bs, l)
    BY <1>3, LseekIs
  <2>1. /\ fds' = [fds EXCEPT ![d] = l]
        /\ inodes' = [inodes EXCEPT ![k.file] = Stored(l)]
        /\ free' = free \ Range(bs) /\ disk' = Wiped(Range(bs))
        /\ \A m \in 1 .. need : bs[m] \in free /\ bs[m] \in Range(bs)
        /\ \A m, p \in 1 .. need : bs[m] = bs[p] => m = p
        /\ l.file = k.file /\ l.len = off /\ l.off = off
        /\ l.used = k.used + need /\ l.cur = k.cur /\ l.buf = k.buf
        /\ \A i \in Idx : l.addr[i] = IF i - k.used \in 1 .. need THEN bs[i - k.used]
                                                                  ELSE k.addr[i]
    BY <2>0 DEF SeekEnd
  <2>2. fds'[d] = l /\ \A e \in Fds : e # d => fds'[e] = fds[e]
    BY <2>1 DEF TypeInv
  <2>3. \A e \in Fds : fds'[e].file = fds[e].file
    BY <2>1, <2>2
  <2>4. OneFd'
    BY <2>3, OneFdStays DEF OwnInv
  <2> SUFFICES ASSUME exact' PROVE (OpenIsStored /\ Gapless /\ Apart)'
    BY <2>4 DEF OwnInv
  <2>5. OneFd /\ OpenIsStored /\ Gapless /\ Apart /\ f \in Files
    BY <1>1 DEF OwnInv
  <2>6. f \in names /\ Fits(k, inodes[f], disk)
    BY <2>5 DEF OpenIsStored
  <2>7. inodes'[f] = Stored(l) /\ \A g \in Files : g # f => inodes'[g] = inodes[g]
    BY <1>1, <2>1 DEF TypeInv
  <2>8. Stored(l).len = off /\ Stored(l).addr = l.addr
    BY <2>1, StoredType
  <2>9. need \in Nat /\ k.used + need \in 0 .. MaxBlocks - 1 /\ k.used \in 0 .. MaxBlocks - 1
    <3>1. k.used \in 0 .. MaxBlocks - 1
      BY NodeAt
    <3> HIDE DEF k
    <3> QED
      BY <1>1, <3>1, BlocksToIs
  <2>10. free \subseteq Blocks \ {Zero}
    BY DEF TypeInv
  <2> HIDE DEF need
  <2>11. \A i \in Idx : l.addr[i] # Zero <=> i <= l.used
    <3> SUFFICES ASSUME NEW i \in Idx PROVE l.addr[i] # Zero <=> i <= k.used + need
      BY <2>1
    <3>1. k.addr[i] # Zero <=> i <= k.used
      BY <2>6 DEF Fits
    <3>2. CASE i - k.used \in 1 .. need
      <4>1. bs[i - k.used] # Zero /\ l.addr[i] = bs[i - k.used]
        BY <2>1, <2>10, <3>2
      <4> QED
        BY <2>9, <3>2, <4>1, IdxIs
    <3>3. CASE ~(i - k.used \in 1 .. need)
      <4>1. l.addr[i] = k.addr[i]
        BY <2>1, <3>3
      <4>2. i <= k.used <=> i <= k.used + need
        BY <2>9, <3>3, IdxIs
      <4> QED
        BY <3>1, <4>1, <4>2
    <3> QED
      BY <3>2, <3>3
  <2>12. \A i \in 0 .. k.used : i \in Idx /\ l.addr[i] = k.addr[i]
    BY <2>1, <2>9, IdxIs
  <2>13. \A b \in Blocks \ free : disk'[b] = disk[b]
    <3>1. \A b \in Range(bs) : b \in free
      <4>1. bs \in [1 .. need -> free]
        BY DEF Injection
      <4> QED
        BY <4>1 DEF Range
    <3> QED
      BY <2>1, <3>1 DEF Wiped
  <2>14. Fits(l, inodes'[f], disk')
    <3>1. k.addr[k.cur] \in Blocks \ free /\ k.cur \in 0 .. k.used
      BY <2>5, <2>6, OwnBlock DEF Fits
    <3>2. l.cur \in 0 .. l.used
      BY <2>1, <2>6, <2>9 DEF Fits
    <3>3. l.buf = disk'[l.addr[l.cur]]
      BY <2>1, <2>6, <2>12, <2>13, <3>1 DEF Fits
    <3> QED
      BY <2>1, <2>7, <2>8, <2>11, <3>2, <3>3 DEF Fits
  <2>15. OpenIsStored'
    <3> DEFINE D == {d}
    <3>1. ASSUME NEW e \in Fds \ D, fds'[e].file \in Files
          PROVE  /\ fds'[e] = fds[e] /\ fds[e].file \in names'
                 /\ inodes'[fds[e].file] = inodes[fds[e].file]
                 /\ disk'[fds[e].addr[fds[e].cur]] = disk[fds[e].addr[fds[e].cur]]
      <4>1. fds'[e] = fds[e] /\ fds[e].file \in Files /\ e # d
        BY <2>2, <3>1
      <4>2. fds[e].file \in names /\ fds[e].addr[fds[e].cur] \in Blocks \ free
        BY <2>5, <4>1, OwnBlock DEF OpenIsStored
      <4>3. fds[e].file # f
        BY <1>1, <2>5, <4>1 DEF OneFd
      <4> QED
        BY <1>1, <2>7, <2>13, <4>1, <4>2, <4>3
    <3>2. \A e \in D : fds'[e].file \in Files =>
            fds'[e].file \in names' /\ Fits(fds'[e], inodes'[fds'[e].file], disk')
      BY <1>1, <2>1, <2>2, <2>6, <2>14
    <3> HIDE DEF D
    <3> QED
      BY <2>5, <3>1, <3>2, OpenStays
  <2>16. Gapless'
    <3>1. NoGap(inodes'[f])
      <4> SUFFICES ASSUME NEW i \in Idx
                   PROVE  /\ l.addr[i] # Zero => \A j \in 0 .. i : l.addr[j] # Zero
                          /\ i * BlockSize < off => l.addr[i] # Zero
        BY <2>7, <2>8 DEF NoGap
      <4>1. \A j \in 0 .. i : j \in Idx
        BY IdxIs
      <4>2. l.addr[i] # Zero => \A j \in 0 .. i : l.addr[j] # Zero
        BY <2>1, <2>9, <2>11, <4>1, IdxIs
      <4>3. i * BlockSize < off => i <= l.used
        <5>1. i \in Nat
          BY IdxIs
        <5> HIDE DEF k
        <5> QED
          BY <1>1, <2>1, <5>1, LongEnough DEF need
      <4> QED
        BY <2>11, <4>2, <4>3
    <3> QED
      BY <1>1, <2>5, <2>7, <3>1 DEF Gapless
  <2>17. Apart'
    <3> DEFINE T == Range(bs)
    <3>1. T \in SUBSET free /\ free' \subseteq free \ T
      <4>1. bs \in [1 .. need -> free]
        BY DEF Injection
      <4> QED
        BY <2>1, <4>1 DEF Range
    <3>2. ASSUME NEW i \in Idx, inodes'[f].addr[i] # Zero
          PROVE  \/ f \in names /\ inodes'[f].addr[i] = inodes[f].addr[i]
                 \/ inodes'[f].addr[i] \in T
                      /\ \A j \in Idx : inodes'[f].addr[j] = inodes'[f].addr[i] => j = i
      <4>1. inodes'[f].addr = l.addr /\ inodes[f].addr = k.addr
        BY <2>6, <2>7, <2>8 DEF Fits
      <4>2. CASE i - k.used \in 1 .. need
        <5>1. l.addr[i] = bs[i - k.used] /\ l.addr[i] \in T /\ l.addr[i] \in free
          BY <2>1, <4>2
        <5>2. ASSUME NEW j \in Idx, l.addr[j] = l.addr[i] PROVE j = i
          <6>1. CASE j - k.used \in 1 .. need
            <7>1. bs[j - k.used] = bs[i - k.used]
              BY <2>1, <5>1, <5>2, <6>1
            <7>2. j - k.used = i - k.used
              BY <2>1, <4>2, <6>1, <7>1
            <7> QED
              BY <2>9, <7>2, IdxIs
          <6>2. CASE ~(j - k.used \in 1 .. need)
            <7>1. k.addr[j] = l.addr[i] /\ k.addr[j] # Zero
              BY <2>1, <2>10, <5>1, <5>2, <6>2
            <7>2. k.addr[j] \notin free
              BY <2>5, <2>6, <4>1, <7>1 DEF Apart
            <7> QED
              BY <5>1, <7>1, <7>2
          <6> QED
            BY <6>1, <6>2
        <5> QED
          BY <4>1, <5>1, <5>2
      <4>3. CASE ~(i - k.used \in 1 .. need)
        BY <2>1, <2>6, <4>1, <4>3
      <4> QED
        BY <4>2, <4>3
    <3>3. \A g \in names \ {f} : inodes'[g].addr = inodes[g].addr
      BY <1>1, <2>7
    <3>4. names' = names \cup {f}
      BY <1>1, <2>6
    <3> HIDE DEF T
    <3> QED
      BY <2>5, <3>1, <3>2, <3>3, <3>4, ApartMore
  <2> QED
    BY <2>15, <2>16, <2>17
<1> QED
  BY <1>2, <1>3

\* After these two, nothing is said of the contents.
LEMMA OwnLseekFails ==
  ASSUME TypeInv, OwnInv, NEW d \in Fds, NEW off \in 0 .. MaxLen - 1, LseekFails(d, off)
  PROVE  OwnInv'
<1> DEFINE k == fds[d]
           n == Cardinality(free)
<1>1. PICK bs \in Injection(1 .. n, free) : fds' = [fds EXCEPT ![d] = SoughtInVain(k, off, n, bs)]
  BY DEF LseekFails, SoughtInVain
<1>2. SoughtInVain(k, off, n, bs).file = k.file
  BY NodeAt, SoughtInVainIs DEF Node
<1>3. \A e \in Fds : fds'[e].file = fds[e].file
  <2> DEFINE l == SoughtInVain(k, off, n, bs)
  <2> HIDE DEF l
  <2> QED
    BY <1>1, <1>2 DEF TypeInv, l
<1>4. OneFd'
  BY <1>3, OneFdStays DEF OwnInv
<1> QED
  BY <1>4 DEF OwnInv, LseekFails

LEMMA OwnWriteFails ==
  ASSUME TypeInv, OwnInv, NEW d \in Fds, NEW line \in Texts, WriteFails(d, line)
  PROVE  OwnInv'
<1>1. PICK l \in KNodes : fds' = [fds EXCEPT ![d] = l] /\ l.file = fds[d].file
  BY WriteFailsIs
<1>2. \A e \in Fds : fds'[e].file = fds[e].file
  BY <1>1 DEF TypeInv
<1>3. OneFd'
  BY <1>2, OneFdStays DEF OwnInv
<1> QED
  BY <1>3, WriteFailsIs DEF OwnInv

\* A byte that is read or written is in a block of the loop.
LEMMA InLoop ==
  ASSUME NEW k \in KNodes, NEW n \in Nat, k.off + n <= MaxLen, NEW i \in Nat, NEW j \in Offsets,
         k.off <= i * BlockSize + j, i * BlockSize + j < k.off + n
  PROVE  FirstBlock(k) <= i /\ i <= LastBlock(k, n)
<1> DEFINE o == k.off
           p == i * BlockSize + j
           e == o + n - 1
<1>1. o \in Nat
  BY MaxLenIs DEF KNodes
<1>2. p \in Nat /\ p \div BlockSize = i
  BY PlaceFrom
<1>3. o <= p /\ p < o + n
  OBVIOUS
<1>4. LastBlock(k, n) = IF o + n = 0 THEN 0 ELSE e \div BlockSize
  BY DEF LastBlock
<1>5. FirstBlock(k) = o \div BlockSize
  BY DEF FirstBlock
<1> HIDE DEF o, p
<1>6. e \in Nat /\ p <= e /\ o + n # 0
  BY <1>1, <1>2, <1>3
<1> HIDE DEF e
<1>7. o \div BlockSize <= i /\ i <= e \div BlockSize
  BY <1>1, <1>2, <1>3, <1>6, BlockMonotone
<1> QED
  BY <1>4, <1>5, <1>6, <1>7

\* The descriptor's file has the blocks 0 .. u, and one of them is in its buffer.
Settled(k, dsk, u) ==
  /\ u \in Idx /\ k.cur \in 0 .. u /\ k.buf = dsk[k.addr[k.cur]]
  /\ \A i, j \in 0 .. u : k.addr[i] = k.addr[j] => i = j

\* The byte at place j of block i, when text is written at off.
Put(text, off, i, j, old) ==
  LET p == i * BlockSize + j - off + 1 IN IF p \in DOMAIN text THEN text[p] ELSE old

\* One block of my_write changes the bytes of that block, and no other.
Putting(w, v, u, i, text) ==
  /\ v.k \in KNodes /\ Same(w.k, v.k) /\ v.disk \in Disks /\ Settled(v.k, v.disk, u)
  /\ \A b \in Blocks : b # w.k.addr[i] => v.disk[b] = w.disk[b]
  /\ \A j \in Offsets :
       v.disk[w.k.addr[i]][j] = Put(text, w.k.off, i, j, w.disk[w.k.addr[i]][j])

LEMMA WriteBlockSettled ==
  ASSUME NEW w, w.k \in KNodes, w.disk \in Disks, NEW u, Settled(w.k, w.disk, u), NEW i \in 0 .. u,
         NEW text \in Seq(Letters)
  PROVE  Putting(w, WriteBlock(w, i, text), u, i, text)
<1> DEFINE v == WriteBlock(w, i, text)
           a == w.k.addr[i]
           x == w.disk[a]
           buf == [j \in Offsets |-> Put(text, w.k.off, i, j, x[j])]
<1>1. i \in Idx /\ u \in Idx /\ u \in Nat
  BY IdxIs DEF Settled
<1>2. BlockWritten(w, v, i, text)
  BY <1>1, WriteBlockIs
<1>3. (IF w.k.cur = i THEN w.k.buf ELSE w.disk[a]) = x
  BY DEF Settled
<1>4. /\ v.k \in KNodes /\ Same(w.k, v.k) /\ v.k.cur = i /\ v.disk \in Disks
      /\ v.disk = [w.disk EXCEPT ![a] = v.k.buf] /\ v.k.buf = buf
  BY <1>2, <1>3 DEF BlockWritten, Put
<1>5. a \in Blocks
  BY <1>1 DEF KNodes, Addrs
<1> HIDE DEF v, a, buf, x
<1>6. v.disk[a] = buf /\ \A b \in Blocks : b # a => v.disk[b] = w.disk[b]
  BY <1>4, <1>5 DEF Disks
<1>7. \A j \in Offsets : v.disk[a][j] = Put(text, w.k.off, i, j, w.disk[a][j])
  BY <1>6 DEF buf, x
<1>8. Settled(v.k, v.disk, u)
  <2>1. v.k.addr = w.k.addr
    BY <1>4 DEF Same
  <2>2. v.k.buf = v.disk[v.k.addr[v.k.cur]]
    BY <1>4, <1>6, <2>1 DEF a
  <2> QED
    BY <1>1, <1>4, <2>1, <2>2 DEF Settled
<1> QED
  BY <1>4, <1>6, <1>7, <1>8 DEF Putting, v, a

\* The loop of my_write puts the text into the blocks of the file, each byte at its
\* place, and leaves all other bytes alone.
Written(k, dsk, l, e, u, text) ==
  /\ l \in KNodes /\ Same(k, l) /\ e \in Disks /\ Settled(l, e, u)
  /\ \A b \in Blocks : (\A i \in 0 .. u : b # k.addr[i]) => e[b] = dsk[b]
  /\ \A i \in 0 .. u : \A j \in Offsets :
       e[k.addr[i]][j] = Put(text, k.off, i, j, dsk[k.addr[i]][j])

LEMMA WriteLoop ==
  ASSUME NEW k \in KNodes, NEW dsk \in Disks, NEW text \in Seq(Letters), k.off + Len(text) <= MaxLen,
         NEW u, Settled(k, dsk, u), LastBlock(k, Len(text)) <= u
  PROVE  LET w == WriteUpTo(k, dsk, text)[Rounds(k, Len(text))]
         IN Written(k, dsk, w.k, w.disk, u, text)
<1> DEFINE n == Len(text)
           R == Rounds(k, n)
           F == FirstBlock(k)
           L == LastBlock(k, n)
           w == WriteUpTo(k, dsk, text)
           Bytes1(m) == \A i \in 0 .. u : \A j \in Offsets :
                 w[m].disk[k.addr[i]][j] = IF F <= i /\ i < F + m
                                           THEN Put(text, k.off, i, j, dsk[k.addr[i]][j])
                                           ELSE dsk[k.addr[i]][j]
           Good(m) == /\ w[m].k \in KNodes /\ Same(k, w[m].k) /\ w[m].disk \in Disks
                      /\ Settled(w[m].k, w[m].disk, u)
                      /\ \A b \in Blocks : (\A i \in 0 .. u : b # k.addr[i]) => w[m].disk[b] = dsk[b]
                      /\ Bytes1(m)
           D == {m \in 0 .. R : Good(m)}
<1>1. n \in Nat
  OBVIOUS
<1>2. /\ R \in Nat /\ F \in Nat /\ L \in Nat /\ R = L - F + 1
      /\ \A m \in 1 .. R : F + m - 1 \in 0 .. u
      /\ u \in Idx /\ u \in Nat
  <2>1. u \in Idx /\ u \in Nat
    BY IdxIs DEF Settled
  <2>2. /\ R \in Nat /\ F \in Nat /\ L \in Idx /\ \A m \in 1 .. R : F + m - 1 \in Idx /\ F + m - 1 <= L
    BY <1>1, RoundsAre
  <2>3. R = L - F + 1 /\ L <= u
    BY DEF Rounds
  <2> HIDE DEF R, F, L
  <2> QED
    BY <2>1, <2>2, <2>3, IdxIs
<1>3. /\ w[0] = [k |-> k, disk |-> dsk]
      /\ \A m \in 1 .. R : w[m] = WriteBlock(w[m - 1], F + m - 1, text)
  BY <1>2, WriteRun
<1> HIDE DEF w, R, F, L, n
<1>4. 0 \in D
  <2>1. w[0].k = k /\ w[0].disk = dsk
    BY <1>3
  <2>2. Bytes1(0)
    BY <1>2, <2>1
  <2>3. Good(0)
    BY <2>1, <2>2 DEF Same
  <2> HIDE DEF Good
  <2> QED
    BY <1>2, <2>3
<1>5. ASSUME NEW m \in 1 .. R, m - 1 \in D PROVE m \in D
  <2> DEFINE y == w[m - 1]
             v == w[m]
             i == F + m - 1
  <2>1. /\ y.k \in KNodes /\ Same(k, y.k) /\ y.disk \in Disks /\ Settled(y.k, y.disk, u)
        /\ \A b \in Blocks : (\A h \in 0 .. u : b # k.addr[h]) => y.disk[b] = dsk[b]
        /\ Bytes1(m - 1)
    BY <1>5
  <2>2. v = WriteBlock(y, i, text) /\ i \in 0 .. u
    BY <1>2, <1>3
  <2>3. \A h \in 0 .. u : \A j \in Offsets :
          y.disk[k.addr[h]][j] = IF F <= h /\ h < F + (m - 1)
                                 THEN Put(text, k.off, h, j, dsk[k.addr[h]][j])
                                 ELSE dsk[k.addr[h]][j]
    BY <2>1
  <2> HIDE DEF y, v, Bytes1
  <2>4. Putting(y, v, u, i, text)
    <3> HIDE DEF i
    <3> QED
      BY <2>1, <2>2, WriteBlockSettled
  <2>5. y.k.addr = k.addr /\ y.k.off = k.off
    BY <2>1 DEF Same
  <2>6. /\ v.k \in KNodes /\ Same(y.k, v.k) /\ v.disk \in Disks /\ Settled(v.k, v.disk, u)
        /\ \A b \in Blocks : b # k.addr[i] => v.disk[b] = y.disk[b]
        /\ \A j \in Offsets : v.disk[k.addr[i]][j] = Put(text, k.off, i, j, y.disk[k.addr[i]][j])
    BY <2>4, <2>5 DEF Putting
  <2>7. Same(k, v.k)
    BY <2>1, <2>6 DEF Same
  <2>8. \A b \in Blocks : (\A h \in 0 .. u : b # k.addr[h]) => v.disk[b] = dsk[b]
    BY <2>1, <2>2, <2>6
  <2>9. \A h \in 0 .. u : k.addr[h] \in Blocks /\ (k.addr[h] = k.addr[i] => h = i)
    <3>1. \A h \in 0 .. u : h \in Idx
      BY <1>2, IdxIs
    <3> QED
      BY <2>1, <2>2, <2>5, <3>1 DEF Settled, KNodes, Addrs
  <2>10. ASSUME NEW h \in 0 .. u, NEW j \in Offsets
         PROVE  v.disk[k.addr[h]][j] = IF F <= h /\ h < F + m
                                       THEN Put(text, k.off, h, j, dsk[k.addr[h]][j])
                                       ELSE dsk[k.addr[h]][j]
    <3>1. CASE h = i
      <4>1. y.disk[k.addr[h]][j] = dsk[k.addr[h]][j]
        BY <1>2, <2>3, <3>1
      <4>2. F <= h /\ h < F + m
        BY <1>2, <3>1
      <4> HIDE DEF i
      <4> QED
        BY <2>6, <3>1, <4>1, <4>2
    <3>2. CASE h # i
      <4>1. v.disk[k.addr[h]] = y.disk[k.addr[h]]
        BY <2>6, <2>9, <3>2
      <4>2. h < F + m <=> h < F + (m - 1)
        BY <1>2, <3>2
      <4> HIDE DEF i
      <4> QED
        BY <2>3, <4>1, <4>2
    <3> QED
      BY <3>1, <3>2
  <2>11. Bytes1(m)
    BY <2>10 DEF Bytes1, v
  <2>12. Good(m)
    BY <2>6, <2>7, <2>8, <2>11 DEF v
  <2> HIDE DEF Good
  <2> QED
    BY <2>12
<1>6. R \in D
  <2> HIDE DEF D
  <2>1. 0 .. R \subseteq D
    BY <1>2, <1>4, <1>5, Climb
  <2> QED
    BY <1>2, <2>1
<1> DEFINE l == w[R].k
           e == w[R].disk
<1>7. /\ l \in KNodes /\ Same(k, l) /\ e \in Disks /\ Settled(l, e, u)
      /\ \A b \in Blocks : (\A i \in 0 .. u : b # k.addr[i]) => e[b] = dsk[b]
      /\ \A i \in 0 .. u : \A j \in Offsets :
           e[k.addr[i]][j] = IF F <= i /\ i < F + R
                             THEN Put(text, k.off, i, j, dsk[k.addr[i]][j])
                             ELSE dsk[k.addr[i]][j]
  BY <1>6
<1> HIDE DEF l, e, D, Good
<1>8. ASSUME NEW i \in 0 .. u, NEW j \in Offsets
      PROVE  e[k.addr[i]][j] = Put(text, k.off, i, j, dsk[k.addr[i]][j])
  <2>1. CASE F <= i /\ i < F + R
    BY <1>7, <2>1
  <2>2. CASE ~(F <= i /\ i < F + R)
    <3> DEFINE o == k.off
               q == i * BlockSize + j
               p == q - o + 1
    <3>1. i \in Nat /\ q \in Nat /\ o \in Nat
      <4>1. i \in Nat /\ o \in Nat
        BY MaxLenIs DEF KNodes
      <4> QED
        BY <4>1, PlaceFrom
    <3>2. ~(F <= i /\ i <= L)
      BY <1>2, <2>2
    <3>3. ~(o <= q /\ q < o + n)
      BY <1>1, <3>1, <3>2, InLoop DEF F, L, n
    <3> HIDE DEF q, o
    <3>4. ~(p \in 1 .. n)
      BY <1>1, <3>1, <3>3
    <3>5. ~(p \in DOMAIN text)
      BY <3>4 DEF n
    <3>6. Put(text, k.off, i, j, dsk[k.addr[i]][j]) = dsk[k.addr[i]][j]
      <4>1. ~(i * BlockSize + j - k.off + 1 \in DOMAIN text)
        <5> DEFINE b == i * BlockSize
        <5>1. b \in Int /\ j \in Int /\ o \in Int
          BY <3>1, TimesMonotone DEF Offsets
        <5>2. q = b + j
          BY DEF q
        <5> HIDE DEF b
        <5>3. b + j - o + 1 = p
          BY <5>1, <5>2
        <5> QED
          BY <3>5, <5>3 DEF b, o
      <4> QED
        BY <4>1, Zenon DEF Put
    <3> QED
      BY <1>7, <2>2, <3>6
  <2> QED
    BY <2>1, <2>2
<1>9. Written(k, dsk, l, e, u, text)
  BY <1>7, <1>8 DEF Written
<1> QED
  BY <1>9 DEF l, e, w, R, n

\* my_read goes from block to block of the file, and ends with one of them in the buffer.
LEMMA ReadLoop ==
  ASSUME NEW k \in KNodes, disk \in Disks, NEW n \in Nat, k.off + n <= MaxLen,
         NEW u, Settled(k, disk, u), LastBlock(k, n) <= u
  PROVE  \A m \in 0 .. Rounds(k, n) : Settled(ReadUpTo(k, n)[m].k, disk, u)
<1> DEFINE R == Rounds(k, n)
           F == FirstBlock(k)
           r == ReadUpTo(k, n)
           Good(m) == Settled(r[m].k, disk, u) /\ r[m].k \in KNodes
           D == {m \in 0 .. R : Good(m)}
<1>1. /\ R \in Nat
      /\ \A m \in 1 .. R : F + m - 1 \in 0 .. u
      /\ u \in Idx /\ u \in Nat
  <2>1. u \in Idx /\ u \in Nat
    BY IdxIs DEF Settled
  <2>2. LastBlock(k, n) \in Idx /\ R \in Nat /\ \A m \in 1 .. R : F + m - 1 \in Idx /\ F + m - 1 <= LastBlock(k, n)
    BY RoundsAre
  <2> HIDE DEF R, F
  <2> QED
    BY <2>1, <2>2, IdxIs
<1>2. /\ r[0] = [k |-> k, out |-> <<>>, all |-> <<>>]
      /\ \A m \in 1 .. R : r[m] = ReadBlock(r[m - 1], F + m - 1, n)
  BY <1>1, ReadRun
<1> HIDE DEF r, R, F
<1>3. 0 \in D
  BY <1>1, <1>2
<1>4. ASSUME NEW m \in 1 .. R, m - 1 \in D PROVE m \in D
  <2> DEFINE y == r[m - 1]
             v == r[m]
             i == F + m - 1
  <2>1. y.k \in KNodes /\ Settled(y.k, disk, u)
    BY <1>4
  <2>2. v = ReadBlock(y, i, n) /\ i \in 0 .. u /\ i \in Idx
    BY <1>1, <1>2, IdxIs
  <2> HIDE DEF y, v, i
  <2>3. BlockRead(y, v, i, n)
    BY <2>1, <2>2, ReadBlockIs
  <2>4. Settled(v.k, disk, u) /\ v.k \in KNodes
    BY <2>1, <2>2, <2>3 DEF BlockRead, Settled, Same
  <2>5. Good(m)
    BY <2>4 DEF v
  <2> HIDE DEF Good
  <2> QED
    BY <2>5
<1>5. 0 .. R \subseteq D
  <2> HIDE DEF D
  <2> QED
    BY <1>1, <1>3, <1>4, Climb
<1>6. \A m \in 0 .. R : Settled(r[m].k, disk, u)
  BY <1>5
<1> QED
  BY <1>6 DEF r, R

\* An open file is settled on its blocks, and the length does not go behind them.
LEMMA OpenSettled ==
  ASSUME TypeInv, OpenIsStored, Gapless, Apart, NEW d \in Fds, fds[d].file \in Files
  PROVE  LET k == fds[d]
         IN /\ k \in KNodes /\ Settled(k, disk, k.used)
            /\ \A n \in Nat : k.off + n <= k.len => LastBlock(k, n) <= k.used
<1> DEFINE k == fds[d]
           f == k.file
<1>1. k \in KNodes /\ k.len \in 0 .. MaxLen /\ k.off \in 0 .. MaxLen /\ MaxLen \in Nat
        /\ k.used \in 0 .. MaxBlocks - 1
  BY NodeAt, MaxLenIs
<1>2. f \in names /\ Fits(k, inodes[f], disk) /\ NoGap(inodes[f])
  BY DEF OpenIsStored, Gapless
<1>3. Settled(k, disk, k.used)
  BY <1>1, <1>2, OwnBlock, IdxIs DEF Settled, Fits
<1>4. ASSUME NEW n \in Nat, k.off + n <= k.len PROVE LastBlock(k, n) <= k.used
  <2>1. CASE k.off + n = 0
    BY <1>1, <2>1 DEF LastBlock
  <2>2. CASE k.off + n # 0
    <3> DEFINE p == k.off + n - 1
               a == p \div BlockSize
    <3>1. p \in Nat /\ p < MaxLen /\ p < k.len
      BY <1>1, <1>4, <2>2
    <3>2. a \in Idx
      <4> HIDE DEF p
      <4> QED
        BY <3>1, PlaceInFile, IdxIs
    <3>3. a * BlockSize < k.len
      <4> HIDE DEF p
      <4>1. a \in Nat /\ p % BlockSize \in Nat /\ p = a * BlockSize + (p % BlockSize)
        BY <3>1, PlaceIs DEF Offsets
      <4> HIDE DEF a
      <4>2. a * BlockSize \in Nat
        BY <4>1, TimesMonotone
      <4> QED
        BY <1>1, <3>1, <4>1, <4>2
    <3> HIDE DEF a
    <3>4. a <= k.used
      BY <1>2, <3>2, <3>3 DEF Fits, NoGap
    <3> QED
      BY <2>2, <3>4 DEF LastBlock, a
  <2> QED
    BY <2>1, <2>2
<1> QED
  BY <1>1, <1>3, <1>4

LEMMA OwnRead ==
  ASSUME TypeInv, OwnInv, NEW d \in Fds, NEW size \in 1 .. MaxLen, Read(d, size)
  PROVE  OwnInv'
<1> DEFINE k == fds[d]
           n == Min({size, k.len - k.off})
           R == Rounds(k, n)
           r == ReadUpTo(k, n)[R]
           l == [r.k EXCEPT !.off = @ + n]
<1>0. k \in KNodes /\ disk \in Disks /\ k.off <= k.len /\ k.file \in Files \cup {Root}
  BY NodeAt DEF TypeInv, Read
<1>1. n \in Nat /\ k.off + n <= MaxLen /\ k.off + n <= k.len
  <2>1. MaxLen \in Nat
    BY MaxLenIs
  <2>2. n \in Nat /\ k.off + n \in 0 .. MaxLen /\ k.off + n <= k.len
    BY <1>0, ReadSize
  <2> HIDE DEF n, k
  <2> QED
    BY <2>1, <2>2
<1>2. Reading(k, n) = r
  BY DEF Reading
<1>3. fds' = [fds EXCEPT ![d] = l] /\ UNCHANGED <<names, inodes, disk, free>>
        /\ exact' = (exact /\ r.out = r.all /\ k.file # Root)
  BY <1>2 DEF Read
<1>4. r.k \in KNodes /\ Same(k, r.k) /\ R \in 0 .. R
  <2> HIDE DEF n, k
  <2>1. R \in Nat
    BY <1>0, <1>1, RoundsAre
  <2>2. R \in 0 .. R
    BY <2>1
  <2> QED
    BY <1>0, <1>1, <2>2, ReadUpToType
<1>5. /\ l.file = k.file /\ l.len = k.len /\ l.addr = k.addr /\ l.used = k.used
      /\ l.cur = r.k.cur /\ l.buf = r.k.buf
  <2> DEFINE s == r.k
             o == s.off + n
  <2>1. s \in KNodes /\ Same(k, s)
    BY <1>4
  <2>2. l = [s EXCEPT !.off = o]
    OBVIOUS
  <2> HIDE DEF s, l, o
  <2>3. l = Node(s.file, s.len, s.addr, s.used, o, s.cur, s.buf, s.lock)
    BY <2>1, <2>2, NodeIs, SetOff
  <2>4. l.file = s.file /\ l.len = s.len /\ l.addr = s.addr /\ l.used = s.used /\ l.cur = s.cur
          /\ l.buf = s.buf
    BY <2>3, NodeFields
  <2> QED
    BY <2>1, <2>4 DEF Same, s
<1> HIDE DEF l
<1>6. fds'[d] = l /\ \A e \in Fds : e # d => fds'[e] = fds[e]
  BY <1>3 DEF TypeInv
<1>7. \A e \in Fds : fds'[e].file = fds[e].file
  BY <1>5, <1>6
<1>8. OneFd'
  BY <1>7, OneFdStays DEF OwnInv
<1> SUFFICES ASSUME exact' PROVE (OpenIsStored /\ Gapless /\ Apart)'
  BY <1>8 DEF OwnInv
<1>9. OpenIsStored /\ Gapless /\ Apart /\ k.file \in Files
  BY <1>0, <1>3 DEF OwnInv
<1>10. Gapless' /\ Apart'
  BY <1>3, <1>9 DEF Gapless, Apart
<1>11. k.file \in names /\ Fits(k, inodes[k.file], disk)
  BY <1>9 DEF OpenIsStored
<1>12. Settled(r.k, disk, k.used)
  <2> DEFINE u == k.used
  <2>1. Settled(k, disk, u) /\ LastBlock(k, n) <= u
    BY <1>1, <1>9, OpenSettled
  <2> HIDE DEF u, n, k, r
  <2>2. \A m \in 0 .. Rounds(k, n) : Settled(ReadUpTo(k, n)[m].k, disk, u)
    BY <1>0, <1>1, <2>1, ReadLoop
  <2> QED
    BY <1>4, <2>2 DEF r, u
<1>13. Fits(l, inodes[k.file], disk)
  BY <1>4, <1>5, <1>11, <1>12 DEF Fits, Settled, Same
<1>14. OpenIsStored'
  <2> SUFFICES ASSUME NEW e \in Fds, fds'[e].file \in Files
               PROVE  fds'[e].file \in names /\ Fits(fds'[e], inodes[fds'[e].file], disk)
    BY <1>3 DEF OpenIsStored
  <2>1. CASE e = d
    BY <1>5, <1>6, <1>11, <1>13, <2>1
  <2>2. CASE e # d
    BY <1>6, <1>9, <2>2 DEF OpenIsStored
  <2> QED
    BY <2>1, <2>2
<1> QED
  BY <1>10, <1>14

\* What my_write does when the file has the blocks for it.
LEMMA WriteInPlace ==
  ASSUME TypeInv, OwnInv, NEW d \in Fds, NEW line \in Texts, Write(d, line), exact'
  PROVE  LET k == fds[d]
             text == Clipped(k, line)
         IN /\ k.file \in Files /\ text \in Seq(Letters) /\ k.off + Len(text) <= MaxLen
            /\ LastBlock(k, Len(text)) <= k.used /\ free' = free
            /\ \E x \in KNodes, l \in KNodes :
                 /\ Written(k, disk, x, disk', k.used, text)
                 /\ fds' = [fds EXCEPT ![d] = l]
                 /\ inodes' = [inodes EXCEPT ![k.file] = Stored(l)]
                 /\ l.file = k.file /\ l.addr = k.addr /\ l.used = k.used
                 /\ l.cur = x.cur /\ l.buf = x.buf
                 /\ l.off = k.off + Len(text)
                 /\ l.len = IF k.len >= k.off + Len(text) THEN k.len ELSE k.off + Len(text)
<1> DEFINE k == fds[d]
           text == Clipped(k, line)
           n == Len(text)
           need == Growth(k, n)
           g == Grown(k, need)
           R == Rounds(g, n)
<1>1. /\ k \in KNodes /\ text \in Seq(Letters) /\ n \in Nat /\ k.off + n <= MaxLen
  BY NodeAt, ClippedIs
<1>2. exact /\ need = 0 /\ k.file # Root
  BY DEF Write
<1>3. OpenIsStored /\ Gapless /\ Apart /\ k.file \in Files
  BY <1>2, WriteIs DEF OwnInv
<1>4. LastBlock(k, n) <= k.used
  <2>1. LastBlock(k, n) <= k.used + need /\ k.used \in 0 .. MaxBlocks - 1
    <3>1. k.used \in 0 .. MaxBlocks - 1
      BY NodeAt
    <3> HIDE DEF k, n
    <3> QED
      BY <1>1, <3>1, GrowthIs
  <2> HIDE DEF need
  <2> QED
    BY <1>2, <2>1
<1>5. g = k
  <2>1. k.used + 0 \in 0 .. MaxBlocks - 1 /\ k.used \in Int
    BY NodeAt
  <2> HIDE DEF k, need
  <2>2. LET h == Grown(k, 0)
        IN /\ h \in KNodes /\ h.file = k.file /\ h.len = k.len /\ h.used = k.used + 0
           /\ h.off = k.off /\ h.cur = k.cur /\ h.buf = k.buf /\ h.lock = k.lock
           /\ h.addr = k.addr
    BY <1>1, <2>1, GrownType
  <2>3. Grown(k, 0) = k
    <3> DEFINE h == Grown(k, 0)
    <3>1. h \in KNodes /\ h = Node(h.file, h.len, h.addr, h.used, h.off, h.cur, h.buf, h.lock)
      BY <2>2, NodeIs
    <3>2. h.used = k.used
      BY <2>1, <2>2
    <3>3. k = Node(k.file, k.len, k.addr, k.used, k.off, k.cur, k.buf, k.lock)
      BY <1>1, NodeIs
    <3> HIDE DEF h
    <3> QED
      BY <2>2, <3>1, <3>2, <3>3 DEF h
  <2> QED
    BY <1>2, <2>3
<1>6. PICK S \in SUBSET free :
        LET w == WriteUpTo(g, Wiped(S), text)[R]
            l == Advanced(w.k, n, k.off)
        IN /\ Cardinality(S) = need
           /\ free' = free \ S
           /\ disk' = w.disk
           /\ fds' = [fds EXCEPT ![d] = l]
           /\ inodes' = [inodes EXCEPT ![k.file] = Stored(l)]
  BY WriteIs
<1>7. S = {}
  <2>1. Cardinality(S) = 0
    BY <1>2, <1>6
  <2>2. IsFiniteSet(S)
    BY FreeIs, FS_Subset
  <2> QED
    BY <2>1, <2>2, FS_EmptySet
<1>8. Wiped(S) = disk
  BY <1>7 DEF Wiped, TypeInv, Disks
<1> DEFINE w == WriteUpTo(k, disk, text)[Rounds(k, n)]
           x == w.k
           l == Advanced(x, n, k.off)
<1>9. /\ free' = free /\ disk' = w.disk /\ fds' = [fds EXCEPT ![d] = l]
      /\ inodes' = [inodes EXCEPT ![k.file] = Stored(l)]
  <2> HIDE DEF k, text, n, need
  <2>1. WriteUpTo(g, Wiped(S), text)[R] = w
    BY <1>5, <1>8
  <2> HIDE DEF g, R, w, l
  <2> QED
    BY <1>6, <1>7, <2>1 DEF l
<1>10. Written(k, disk, x, w.disk, k.used, text)
  <2> DEFINE u == k.used
  <2>1. disk \in Disks /\ Settled(k, disk, u)
    BY <1>3, OpenSettled DEF TypeInv
  <2> HIDE DEF k, text, u
  <2>2. LET v == WriteUpTo(k, disk, text)[Rounds(k, Len(text))]
        IN Written(k, disk, v.k, v.disk, u, text)
    BY <1>1, <1>4, <2>1, WriteLoop DEF u
  <2> QED
    BY <2>2 DEF u
<1> HIDE DEF w
<1>11. x \in KNodes /\ Same(k, x)
  BY <1>10 DEF Written
<1> HIDE DEF x
<1>12. /\ l \in KNodes /\ l.file = k.file /\ l.addr = k.addr /\ l.used = k.used
       /\ l.cur = x.cur /\ l.buf = x.buf /\ l.off = k.off + n
       /\ l.len = IF k.len >= k.off + n THEN k.len ELSE k.off + n
  <2>1. x.off = k.off /\ x.file = k.file /\ x.addr = k.addr /\ x.used = k.used /\ x.len = k.len
    BY <1>11 DEF Same
  <2> HIDE DEF k, n, text
  <2>2. x.off + n <= MaxLen
    BY <1>1, <2>1
  <2>3. LET a == Advanced(x, n, x.off)
         IN /\ a \in KNodes /\ a.file = x.file /\ a.addr = x.addr /\ a.used = x.used
            /\ a.off = x.off + n /\ a.cur = x.cur /\ a.buf = x.buf
            /\ a.len = IF x.len >= x.off + n THEN x.len ELSE x.off + n
    BY <1>1, <1>11, <2>2, AdvancedIs
  <2> QED
    BY <2>1, <2>3
<1> HIDE DEF l
<1>13. Written(k, disk, x, disk', k.used, text)
  BY <1>9, <1>10
<1> HIDE DEF k, text
<1> QED
  BY <1>1, <1>3, <1>4, <1>9, <1>11, <1>12, <1>13 DEF n, text, k

\* What was written is in blocks up to the last one of the loop.
LEMMA WrittenLongEnough ==
  ASSUME NEW k \in KNodes, NEW n \in Nat, NEW i \in Nat, i * BlockSize < k.off + n
  PROVE  i <= LastBlock(k, n)
<1> DEFINE o == k.off
           p == i * BlockSize + 0
           e == o + n - 1
<1>1. o \in Nat /\ 0 \in Offsets
  BY MaxLenIs DEF KNodes, Offsets
<1>2. p \in Nat /\ p \div BlockSize = i
  BY <1>1, PlaceFrom
<1>3. i * BlockSize \in Nat
  BY TimesMonotone
<1>4. LastBlock(k, n) = IF o + n = 0 THEN 0 ELSE e \div BlockSize
  BY DEF LastBlock
<1>5. p < o + n
  BY <1>3
<1> HIDE DEF o, p
<1>6. e \in Nat /\ p <= e /\ o + n # 0
  BY <1>1, <1>2, <1>5
<1> HIDE DEF e
<1>7. i <= e \div BlockSize
  BY <1>2, <1>6, BlockMonotone
<1> QED
  BY <1>4, <1>6, <1>7

LEMMA OwnWrite ==
  ASSUME TypeInv, OwnInv, NEW d \in Fds, NEW line \in Texts, Write(d, line)
  PROVE  OwnInv'
<1> DEFINE k == fds[d]
           f == k.file
           text == Clipped(k, line)
           n == Len(text)
<1>1. \A e \in Fds : fds'[e].file = fds[e].file
  <2>1. PICK l \in KNodes : fds' = [fds EXCEPT ![d] = l] /\ l.file = k.file
    <3> HIDE DEF k
    <3> QED
      BY WriteIs DEF k
  <2> QED
    BY <2>1 DEF TypeInv
<1>2. OneFd'
  BY <1>1, OneFdStays DEF OwnInv
<1> SUFFICES ASSUME exact' PROVE (OpenIsStored /\ Gapless /\ Apart)'
  BY <1>2 DEF OwnInv
<1>3. exact /\ names' = names /\ k \in KNodes
  BY NodeAt DEF Write
<1>4. OneFd /\ OpenIsStored /\ Gapless /\ Apart
  BY <1>3 DEF OwnInv
<1>5. /\ f \in Files /\ text \in Seq(Letters) /\ LastBlock(k, n) <= k.used /\ free' = free
  BY WriteInPlace
<1>6. PICK x \in KNodes, l \in KNodes :
        /\ Written(k, disk, x, disk', k.used, text)
        /\ fds' = [fds EXCEPT ![d] = l]
        /\ inodes' = [inodes EXCEPT ![f] = Stored(l)]
        /\ l.file = f /\ l.addr = k.addr /\ l.used = k.used
        /\ l.cur = x.cur /\ l.buf = x.buf
        /\ l.len = IF k.len >= k.off + n THEN k.len ELSE k.off + n
  BY WriteInPlace
<1>7. fds'[d] = l /\ \A e \in Fds : e # d => fds'[e] = fds[e]
  BY <1>6 DEF TypeInv
<1>8. inodes'[f] = Stored(l) /\ \A g \in Files : g # f => inodes'[g] = inodes[g]
  BY <1>5, <1>6 DEF TypeInv
<1>9. Stored(l).len = l.len /\ Stored(l).addr = k.addr
  BY <1>6, StoredType
<1>10. f \in names /\ Fits(k, inodes[f], disk) /\ names \subseteq Files
  BY <1>4, <1>5 DEF OpenIsStored, TypeInv
<1>11. n \in Nat /\ k.used \in 0 .. MaxBlocks - 1 /\ k.len \in Nat /\ k.off \in Nat
  BY <1>5, NodeAt, MaxLenIs
<1> HIDE DEF n, text
<1>12. Fits(l, inodes'[f], disk')
  <2>1. Settled(x, disk', k.used) /\ x.addr = k.addr
    BY <1>6 DEF Written, Same
  <2> QED
    BY <1>6, <1>8, <1>9, <1>10, <2>1 DEF Fits, Settled
<1>13. OpenIsStored'
  <2> DEFINE D == {d}
  <2>1. ASSUME NEW e \in Fds \ D, fds'[e].file \in Files
        PROVE  /\ fds'[e] = fds[e] /\ fds[e].file \in names'
               /\ inodes'[fds[e].file] = inodes[fds[e].file]
               /\ disk'[fds[e].addr[fds[e].cur]] = disk[fds[e].addr[fds[e].cur]]
    <3>1. fds'[e] = fds[e] /\ fds[e].file \in Files /\ e # d
      BY <1>7, <2>1
    <3>2. fds[e].file \in names /\ fds[e].addr[fds[e].cur] \in Blocks
      BY <1>4, <3>1, OwnBlock DEF OpenIsStored
    <3>3. fds[e].file # f
      BY <1>4, <1>5, <3>1 DEF OneFd
    <3>4. \A i \in 0 .. k.used : fds[e].addr[fds[e].cur] # k.addr[i]
      <4> DEFINE b == fds[e].addr[fds[e].cur]
      <4>1. \A i \in Idx : b # inodes[f].addr[i]
        <5> HIDE DEF k
        <5> QED
          BY <1>4, <1>10, <3>1, <3>3, OtherBlock
      <4>2. inodes[f].addr = k.addr /\ \A i \in 0 .. k.used : i \in Idx
        BY <1>10, <1>11, IdxIs DEF Fits
      <4>3. \A i \in 0 .. k.used : b # k.addr[i]
        <5> HIDE DEF b, k, f
        <5> QED
          BY <4>1, <4>2
      <4> QED
        BY <4>3
    <3> QED
      BY <1>3, <1>6, <1>8, <3>1, <3>2, <3>3, <3>4 DEF Written
  <2>2. \A e \in D : fds'[e].file \in Files =>
          fds'[e].file \in names' /\ Fits(fds'[e], inodes'[fds'[e].file], disk')
    BY <1>3, <1>6, <1>7, <1>10, <1>12
  <2> HIDE DEF D
  <2> QED
    BY <1>4, <2>1, <2>2, OpenStays
<1>14. Gapless'
  <2>1. NoGap(inodes'[f])
    <3> SUFFICES ASSUME NEW i \in Idx
                 PROVE  /\ k.addr[i] # Zero => \A j \in 0 .. i : k.addr[j] # Zero
                        /\ i * BlockSize < l.len => k.addr[i] # Zero
      BY <1>8, <1>9 DEF NoGap
    <3>1. /\ k.addr[i] # Zero => \A j \in 0 .. i : k.addr[j] # Zero
          /\ i * BlockSize < k.len => k.addr[i] # Zero
      BY <1>4, <1>10 DEF Gapless, NoGap, Fits
    <3>2. i * BlockSize < k.off + n => i <= k.used
      <4>1. i \in Nat /\ LastBlock(k, n) \in Int
        <5>1. LastBlock(k, n) \in Idx
          BY <1>3, <1>11, WriteInPlace, RoundsAre DEF n, text
        <5> QED
          BY <5>1, IdxIs
      <4>2. i * BlockSize < k.off + n => i <= LastBlock(k, n)
        <5> HIDE DEF k
        <5> QED
          BY <1>3, <1>11, <4>1, WrittenLongEnough
      <4> DEFINE q == LastBlock(k, n)
      <4> HIDE DEF q
      <4> QED
        BY <1>5, <1>11, <4>1, <4>2 DEF q, n, text
    <3>3. i * BlockSize < k.off + n => k.addr[i] # Zero
      BY <1>10, <3>2 DEF Fits
    <3> QED
      BY <1>6, <3>1, <3>3
  <2> QED
    BY <1>3, <1>4, <1>8, <1>10, <2>1 DEF Gapless
<1>15. Apart'
  <2>1. \A g \in names : inodes'[g].addr = inodes[g].addr
    BY <1>8, <1>9, <1>10 DEF Fits
  <2> QED
    BY <1>3, <1>4, <1>5, <2>1, ApartStays
<1> QED
  BY <1>13, <1>14, <1>15

LEMMA OwnNext == TypeInv /\ TypeInv' /\ OwnInv /\ [Next]_vars => OwnInv'
<1> SUFFICES ASSUME TypeInv, TypeInv', OwnInv, [Next]_vars PROVE OwnInv'
  OBVIOUS
<1>1. ASSUME NEW f \in Files, Touch(f) PROVE OwnInv'
  BY <1>1, OwnTouch
<1>2. ASSUME NEW f \in Files, Rm(f) PROVE OwnInv'
  BY <1>2, OwnRm
<1>3. ASSUME NEW f \in Files, NEW append \in BOOLEAN, Open(f, append) PROVE OwnInv'
  BY <1>3, OwnOpen
<1>4. ASSUME NEW f \in Files, NEW g \in Files, Cp(f, g) PROVE OwnInv'
  BY <1>4, OwnCp
<1>5. ASSUME NEW d \in Fds, Close(d) PROVE OwnInv'
  BY <1>5, OwnClose
<1>6. ASSUME NEW d \in Fds, NEW off \in 0 .. MaxLen - 1, Lseek(d, off) PROVE OwnInv'
  BY <1>6, OwnLseek
<1>7. ASSUME NEW d \in Fds, NEW off \in 0 .. MaxLen - 1, LseekFails(d, off) PROVE OwnInv'
  BY <1>7, OwnLseekFails
<1>8. ASSUME NEW d \in Fds, NEW size \in 1 .. MaxLen, Read(d, size) PROVE OwnInv'
  BY <1>8, OwnRead
<1>9. ASSUME NEW d \in Fds, NEW line \in Texts, Write(d, line) PROVE OwnInv'
  BY <1>9, OwnWrite
<1>10. ASSUME NEW d \in Fds, NEW line \in Texts, WriteFails(d, line) PROVE OwnInv'
  BY <1>10, OwnWriteFails
<1>11. CASE Visit
  BY <1>11, OwnVisit
<1>12. CASE Restart
  BY <1>12, OwnRestart
<1>13. CASE UNCHANGED vars
  BY <1>13 DEF vars, OwnInv, OneFd, OpenIsStored, Gapless, Apart
<1> QED
  BY <1>1, <1>2, <1>3, <1>4, <1>5, <1>6, <1>7, <1>8, <1>9, <1>10, <1>11, <1>12, <1>13 DEF Next

LEMMA OwnAlways == Spec => [](TypeInv /\ OwnInv)
<1>1. Init => TypeInv /\ OwnInv
  BY TypeInit, OwnInit
<1>2. (TypeInv /\ OwnInv) /\ [Next]_vars => (TypeInv /\ OwnInv)'
  BY TypeNext, OwnNext
<1> QED
  BY <1>1, <1>2, PTL DEF Spec

\* As long as no command does damage, what a descriptor has in its buffer is what the
\* disk holds of the block, for all files together and buffers of every size.
THEOREM BufferAsOnDisk == Spec => []BufferIsBlock
<1>1. OwnInv => BufferIsBlock
  BY DEF OwnInv, OpenIsStored, Fits, BufferIsBlock
<1> QED
  BY <1>1, OwnAlways, PTL

\* A file that is open has the addresses of the stored index node.
LEMMA KernelAddr ==
  ASSUME TypeInv, OpenIsStored, NEW f \in names
  PROVE  Kernel(f).addr = inodes[f].addr
<1>1. CASE IsOpen(f)
  <2>1. FdOf(f) \in Fds /\ fds[FdOf(f)].file = f /\ Kernel(f) = fds[FdOf(f)] /\ f \in Files
    BY <1>1, FdOfIs DEF Kernel, FdOf, TypeInv
  <2> QED
    BY <2>1 DEF OpenIsStored, Fits
<1>2. CASE ~IsOpen(f)
  BY <1>2 DEF Kernel
<1> QED
  BY <1>1, <1>2

\* As long as no command does damage, no block is at two addresses, of one file or
\* of two, and none of them can be handed out: sought, copied, removed or restarted.
THEOREM OneOwner == Spec => []BlocksHaveOneOwner
<1>1. TypeInv /\ OwnInv => BlocksHaveOneOwner
  <2> SUFFICES ASSUME TypeInv, OwnInv, exact, NEW f \in names
               PROVE  LET B == BlocksOf(Kernel(f).addr)
                      IN /\ B \cap free = {} /\ Zero \notin B
                         /\ Cardinality(B) = Cardinality(Used(Kernel(f).addr))
                         /\ \A g \in names \ {f} : B \cap BlocksOf(Kernel(g).addr) = {}
    BY DEF BlocksHaveOneOwner
  <2>1. OpenIsStored /\ Apart
    BY DEF OwnInv
  <2> DEFINE A(g) == inodes[g].addr
             U(g) == Used(A(g))
  <2>2. \A g \in names : /\ Kernel(g).addr = A(g) /\ U(g) \subseteq Idx /\ IsFiniteSet(U(g))
                         /\ \A i \in U(g) : A(g)[i] \in Blocks \ {Zero}
    <3>1. \A g \in names : Kernel(g).addr = A(g)
      BY <2>1, KernelAddr
    <3>2. \A g \in names : A(g) \in Addrs
      BY DEF TypeInv, Inodes
    <3> QED
      BY <3>1, <3>2, UsedSubset
  <2>3. \A g \in names : BlocksOf(A(g)) = {A(g)[i] : i \in U(g)}
    BY DEF BlocksOf
  <2>4. \A i \in Idx : A(f)[i] # Zero =>
          /\ A(f)[i] \notin free
          /\ \A g \in names : \A j \in Idx : A(f)[i] = A(g)[j] => f = g /\ i = j
    BY <2>1 DEF Apart
  <2> DEFINE B == BlocksOf(A(f))
  <2> HIDE DEF A, U
  <2>5. B \cap free = {} /\ Zero \notin B
    BY <2>2, <2>3, <2>4
  <2>6. \A g \in names \ {f} : B \cap BlocksOf(A(g)) = {}
    BY <2>2, <2>3, <2>4
  <2>7. Cardinality(B) = Cardinality(U(f))
    <3> DEFINE h == [i \in U(f) |-> A(f)[i]]
    <3>1. h \in Bijection(U(f), B)
      BY <2>2, <2>3, <2>4 DEF Bijection, Injection, Surjection, IsInjective
    <3>2. ExistsBijection(U(f), B)
      BY <3>1 DEF ExistsBijection
    <3> HIDE DEF B, h
    <3> QED
      BY <2>2, <3>2, FS_Bijection
  <2> QED
    BY <2>2, <2>5, <2>6, <2>7 DEF U
<1> QED
  BY <1>1, OwnAlways, PTL
=============================================================================
