---------------------------- MODULE SpaceProofs ----------------------------
(* Theorems about Space, for every size of the maps, of the lists and of the *)
(* set of names.                                                            *)
EXTENDS Space, FiniteSetTheorems, TLAPS

USE CapAssumption, BatchAssumption, ReserveAssumption, MaxAddrAssumption,
    PerBlockAssumption, SlotsAssumption, NamesAssumption, BoundAssumption

----------------------------------------------------------------------------
(* The lists.                                                              *)

\* A part of a map is finite.
LEMMA BitsFinite ==
  ASSUME NEW r \in Kinds, NEW S \in SUBSET Bits(r)
  PROVE  IsFiniteSet(S) /\ Cardinality(S) \in Nat
<1>1. Cap[r] - 1 \in Int
  OBVIOUS
<1>2. IsFiniteSet(Bits(r))
  BY <1>1, FS_Interval DEF Bits
<1> QED
  BY <1>2, FS_Subset, FS_CardinalityType

LEMMA ZeroBit ==
  ASSUME NEW r \in Kinds
  PROVE  0 \in Bits(r) /\ Bits(r) \subseteq Nat
BY DEF Bits

\* The three ways in which a kind's lists are updated.
LEMMA ListsUpdates ==
  ASSUME NEW x \in Lists, NEW S \in SUBSET Nat, NEW T \in SUBSET Nat, NEW n \in Int
  PROVE  /\ [x EXCEPT !.map = S, !.num = n] \in Lists
         /\ [x EXCEPT !.avail = S, !.knum = n] \in Lists
         /\ [x EXCEPT !.map = S, !.num = n, !.idle = T] \in Lists
BY DEF Lists

\* A refill gives lists of bits.
LEMMA RefillOK ==
  ASSUME NEW p, PoolOK(p), NEW r \in Kinds
  PROVE  PoolOK(Refill(p, r))
<1> DEFINE marked == p[r].map \cup p[r].idle
           fresh == Supplement(marked, r)
           q == Refill(p, r)
<1>1. /\ p[r].idle \in SUBSET Bits(r) 
      /\ marked \in SUBSET Bits(r)
      /\ \A k \in Kinds : /\ p[k] \in Lists
                          /\ p[k].map \cup p[k].idle \cup p[k].avail \subseteq Bits(k)
  BY DEF PoolOK, Lists
<1>2. Cardinality(p[r].idle) \in Nat
  BY <1>1, BitsFinite
<1>3. fresh \in SUBSET Bits(r)
  BY DEF Supplement, First
<1>4. KernelList(fresh) \in SUBSET Bits(r)
  BY <1>3, ZeroBit DEF KernelList
<1>5. p[r].num - Cardinality(p[r].idle) \in Int
  BY <1>1, <1>2 DEF Lists
<1>6. q = [k \in Kinds |->
        IF k = r
        THEN [map |-> marked, num |-> p[r].num - Cardinality(p[r].idle), idle |-> fresh,
              knum |-> p[r].num - Cardinality(p[r].idle), avail |-> KernelList(fresh)]
        ELSE [p[k] EXCEPT !.knum = p[k].num]]
  BY DEF Refill
<1> HIDE DEF fresh, marked, q
<1>7. \A k \in Kinds : Bits(k) \subseteq Nat
  BY ZeroBit
<1>8. ASSUME NEW k \in Kinds
      PROVE  /\ q[k] \in Lists
             /\ q[k].map \cup q[k].idle \cup q[k].avail \subseteq Bits(k)
  <2>1. CASE k = r
    BY <2>1, <1>1, <1>3, <1>4, <1>5, <1>6, <1>7 DEF Lists
  <2>2. CASE k # r
    <3>1. q[k] = [p[k] EXCEPT !.knum = p[k].num]
      BY <2>2, <1>6
    <3> QED
      BY <3>1, <1>1, <1>5 DEF Lists
  <2> QED
    BY <2>1, <2>2
<1>9. PoolOK(q)
  BY <1>6, <1>8 DEF PoolOK
<1> QED
  BY <1>9 DEF q

LEMMA ReadyOK ==
  ASSUME NEW p, PoolOK(p), NEW r \in Kinds
  PROVE  PoolOK(Ready(p, r))
BY RefillOK DEF Ready

\* Taking a number changes two fields of its kind.
LEMMA TakeShape ==
  ASSUME NEW p, PoolOK(p), NEW r \in Kinds, NEW n
  PROVE  LET q == Ready(p, r)
             z == Take(p, r, n)
         IN /\ z \in [Kinds -> Lists]
            /\ \A k \in Kinds : z[k].map = q[k].map /\ z[k].idle = q[k].idle
            /\ z[r].avail = q[r].avail \ {n}
            /\ \A k \in Kinds \ {r} : z[k] = q[k]
<1> DEFINE q == Ready(p, r)
           y == [q[r] EXCEPT !.avail = q[r].avail \ {n}, !.knum = q[r].knum - 1]
<1>1. PoolOK(q)
  BY ReadyOK
<1> HIDE DEF q
<1>2. q[r] \in Lists
  BY <1>1 DEF PoolOK
<1>3. q[r].avail \ {n} \in SUBSET Nat /\ q[r].knum - 1 \in Int
  BY <1>2 DEF Lists
<1>4. y \in Lists
  BY <1>2, <1>3, ListsUpdates
<1>5. y.map = q[r].map /\ y.idle = q[r].idle /\ y.avail = q[r].avail \ {n}
  BY <1>2 DEF Lists
<1>6. Take(p, r, n) = [q EXCEPT ![r] = y]
  BY DEF Take, q
<1> HIDE DEF y
<1> QED
  BY <1>1, <1>4, <1>5, <1>6 DEF PoolOK, q

LEMMA TakeOK ==
  ASSUME NEW p, PoolOK(p), NEW r \in Kinds, NEW n \in Offered(p, r)
  PROVE  PoolOK(Take(p, r, n)) /\ n \in Bits(r)
<1> DEFINE q == Ready(p, r)
           z == Take(p, r, n)
<1>1. PoolOK(q)
  BY ReadyOK
<1>2. /\ z \in [Kinds -> Lists]
      /\ \A k \in Kinds : z[k].map = q[k].map /\ z[k].idle = q[k].idle
      /\ z[r].avail = q[r].avail \ {n}
      /\ \A k \in Kinds \ {r} : z[k] = q[k]
  BY TakeShape
<1>3. n \in q[r].avail
  BY DEF Offered, Front
<1> HIDE DEF q, z
<1>4. \A k \in Kinds : z[k].avail \subseteq q[k].avail
  BY <1>2
<1>5. PoolOK(z) /\ n \in Bits(r)
  BY <1>1, <1>2, <1>3, <1>4 DEF PoolOK
<1> QED
  BY <1>5 DEF z

LEMMA FreeOK ==
  ASSUME NEW p, PoolOK(p), NEW r \in Kinds, NEW S, NEW n \in Int
  PROVE  PoolOK(Free(p, r, S, n))
<1> DEFINE y == [p[r] EXCEPT !.map = p[r].map \ S, !.num = p[r].num + n]
<1>1. /\ p[r] \in Lists
      /\ p[r].map \cup p[r].idle \cup p[r].avail \subseteq Bits(r)
  BY DEF PoolOK
<1>2. p[r].map \ S \in SUBSET Nat /\ p[r].num + n \in Int
  BY <1>1 DEF Lists
<1>3. y \in Lists
  BY <1>1, <1>2, ListsUpdates
<1>4. y.map = p[r].map \ S /\ y.idle = p[r].idle /\ y.avail = p[r].avail
  BY <1>1 DEF Lists
<1>5. Free(p, r, S, n) = [p EXCEPT ![r] = y]
  BY DEF Free
<1> HIDE DEF y
<1> QED
  BY <1>1, <1>3, <1>4, <1>5 DEF PoolOK

LEMMA SupplementOK ==
  ASSUME NEW r \in Kinds, NEW S
  PROVE  /\ Supplement(S, r) \in SUBSET Bits(r)
         /\ KernelList(Supplement(S, r)) \in SUBSET Bits(r)
BY ZeroBit DEF Supplement, First, KernelList

LEMMA FreshPoolOK == PoolOK(FreshPool)
<1>1. \A r \in Kinds : /\ Supplement({}, r) \in SUBSET Bits(r)
                       /\ KernelList(Supplement({}, r)) \in SUBSET Bits(r)
                       /\ Bits(r) \subseteq Nat
  BY SupplementOK, ZeroBit
<1> QED
  BY <1>1 DEF FreshPool, PoolOK, Lists

LEMMA FormatPoolOK == PoolOK(FormatPool)
<1>1. \A r \in Kinds : /\ Supplement({0}, r) \in SUBSET Bits(r)
                       /\ KernelList(Supplement({0}, r)) \in SUBSET Bits(r)
                       /\ Bits(r) \subseteq Nat
                       /\ 0 \in Bits(r)
  BY SupplementOK, ZeroBit
<1> QED
  BY <1>1 DEF FormatPool, PoolOK, Lists

LEMMA BootPoolOK ==
  ASSUME DiskOK
  PROVE  PoolOK(BootPool)
<1>1. \A r \in Kinds : /\ KernelList(disk.wait[r]) \in SUBSET Bits(r)
                       /\ FsList(disk.wait[r]) \in SUBSET Bits(r)
                       /\ Bits(r) \subseteq Nat
                       /\ disk.map[r] \in SUBSET Bits(r)
                       /\ disk.num[r] \in Int
  BY ZeroBit DEF KernelList, FsList, DiskOK
<1>2. PoolOK(LoadedPool)
  BY <1>1 DEF LoadedPool, PoolOK, Lists
<1> QED
  BY <1>2, FreshPoolOK DEF BootPool

\* syn_sblk moves numbers from a list to the map.
LEMMA SyncedShape ==
  ASSUME PoolOK(pool)
  PROVE  /\ SyncedPool \in [Kinds -> Lists]
         /\ \A r \in Kinds :
              LET popped == First(Usage(r), pool[r].idle)
              IN /\ SyncedPool[r].map = pool[r].map \cup popped
                 /\ SyncedPool[r].idle = pool[r].idle \ popped
                 /\ SyncedPool[r].avail = pool[r].avail
<1> DEFINE popped(r) == First(Usage(r), pool[r].idle)
           y(r) == [pool[r] EXCEPT !.map = pool[r].map \cup popped(r),
                                   !.num = pool[r].num - Cardinality(popped(r)),
                                   !.idle = pool[r].idle \ popped(r)]
<1>1. ASSUME NEW r \in Kinds
      PROVE  /\ y(r) \in Lists
             /\ y(r).map = pool[r].map \cup popped(r)
             /\ y(r).idle = pool[r].idle \ popped(r)
             /\ y(r).avail = pool[r].avail
  <2>1. /\ pool[r] \in Lists
        /\ pool[r].idle \subseteq Bits(r)
    BY DEF PoolOK
  <2>2. popped(r) \in SUBSET pool[r].idle
    BY DEF First
  <2>3. Cardinality(popped(r)) \in Int
    BY <2>1, <2>2, BitsFinite
  <2> HIDE DEF popped
  <2>4. /\ pool[r].map \cup popped(r) \in SUBSET Nat
        /\ pool[r].num - Cardinality(popped(r)) \in Int
        /\ pool[r].idle \ popped(r) \in SUBSET Nat
    BY <2>1, <2>2, <2>3 DEF Lists
  <2>5. y(r) \in Lists
    BY <2>1, <2>4, ListsUpdates
  <2> QED
    BY <2>1, <2>5 DEF Lists
<1>2. SyncedPool = [r \in Kinds |-> y(r)]
  BY DEF SyncedPool
<1> HIDE DEF y
<1> QED
  BY <1>1, <1>2

LEMMA SyncedPoolOK ==
  ASSUME PoolOK(pool)
  PROVE  PoolOK(SyncedPool)
<1>1. \A r \in Kinds : First(Usage(r), pool[r].idle) \subseteq pool[r].idle
  BY DEF First
<1> QED
  BY <1>1, SyncedShape DEF PoolOK

----------------------------------------------------------------------------
(* Type correctness.                                                       *)

LEMMA ZeroOK == /\ ZeroAddr \in Addrs
                /\ NoInodes \in [Inos -> Addrs]
                /\ 0 \in Inos
                /\ PoolOK(EmptyPool)
                /\ NoTree \in Trees
<1>1. 0 \in Bits("block") /\ 0 \in Bits("inode")
  BY ZeroBit DEF Kinds
<1>2. PoolOK(EmptyPool)
  BY DEF EmptyPool, PoolOK, Lists
<1> QED
  BY <1>1, <1>2 DEF ZeroAddr, Addrs, NoInodes, Inos, NoTree, Trees

LEMMA NoCopyOK ==
  NoCopy \in [name : Names \cup {NoFile}, src : Inos, no : Inos, addr : Addrs, at : 0 .. MaxAddr]
<1>1. 0 \in 0 .. MaxAddr
  OBVIOUS
<1> QED
  BY <1>1, ZeroOK DEF NoCopy

LEMMA InitTypeOK == Init => TypeOK
<1> SUFFICES ASSUME Init PROVE TypeOK
  OBVIOUS
<1>1. DiskOK
  BY ZeroOK DEF Init, DiskOK
<1> QED
  BY <1>1, ZeroOK, NoCopyOK DEF Init, TypeOK

\* The memory of a process that is gone is typed.
LEMMA GoneTypeOK ==
  ASSUME Gone, DiskOK', steps' \in Nat, clean' \in BOOLEAN
  PROVE  TypeOK'
<1>1. PoolOK(pool')
  BY ZeroOK DEF Gone
<1> QED
  BY <1>1, ZeroOK, NoCopyOK DEF Gone, TypeOK, PoolOK

LEMMA KeptOK ==
  ASSUME NEW t \in Trees, NEW u \in Kept(t)
  PROVE  u \in Trees
BY DEF Kept, Trees

\* An index node in which one address is stored.
LEMMA AddrOK ==
  ASSUME NEW a \in Addrs, NEW u \in 0 .. MaxAddr - 1, NEW b \in Bits("block")
  PROVE  [a EXCEPT ![u] = b] \in Addrs
BY DEF Addrs

LEMMA KernelMountedOK ==
  ASSUME TypeOK, NEW R
  PROVE  KernelMounted(R) \in [fs : BOOLEAN, kernel : BOOLEAN]
BY DEF TypeOK, KernelMounted

\* How many addresses of the root directory are used is a number.
LEMMA RootLenOK ==
  ASSUME TypeOK
  PROVE  RootLen \in Nat
<1>1. inodes[0] \in Addrs
  BY ZeroOK DEF TypeOK
<1>2. RootUsed(inodes[0]) \subseteq 0 .. MaxAddr - 1
  BY <1>1 DEF RootUsed, Addrs
<1>3. IsFiniteSet(0 .. MaxAddr - 1)
  BY FS_Interval
<1> QED
  BY <1>2, <1>3, FS_Subset, FS_CardinalityType DEF RootLen

\* The two numbers a new file takes.
LEMMA TakeTwoOK ==
  ASSUME NEW p, PoolOK(p), NEW n \in Offered(p, "inode"),
         NEW b \in Offered(Take(p, "inode", n), "block")
  PROVE  /\ PoolOK(Take(Take(p, "inode", n), "block", b))
         /\ n \in Inos
         /\ b \in Bits("block")
<1>1. "inode" \in Kinds /\ "block" \in Kinds
  BY DEF Kinds
<1> QED
  BY <1>1, TakeOK DEF Inos

LEMMA BootFirstType == TypeOK /\ BootFirst => TypeOK'
<1> SUFFICES ASSUME TypeOK, BootFirst PROVE TypeOK'
  OBVIOUS
<1>1. PoolOK(BootPool) /\ DiskOK
  BY BootPoolOK DEF TypeOK
<1>2. [s \in Slots |-> ZeroAddr] \in [Slots -> Addrs]
  BY ZeroOK
<1>3. PICK n \in Offered(BootPool, "inode") :
        \E b \in Offered(Take(BootPool, "inode", n), "block") :
          IF RoomForNew(BootPool)
          THEN /\ pool' = Take(Take(BootPool, "inode", n), "block", b)
               /\ rootNo' = n
               /\ kaddr' = [[s \in Slots |-> ZeroAddr] EXCEPT ![0][0] = b]
          ELSE /\ pool' = BootPool
               /\ rootNo' = 0
               /\ kaddr' = [s \in Slots |-> ZeroAddr]
  BY DEF BootFirst
<1>4. PICK b \in Offered(Take(BootPool, "inode", n), "block") :
          IF RoomForNew(BootPool)
          THEN /\ pool' = Take(Take(BootPool, "inode", n), "block", b)
               /\ rootNo' = n
               /\ kaddr' = [[s \in Slots |-> ZeroAddr] EXCEPT ![0][0] = b]
          ELSE /\ pool' = BootPool
               /\ rootNo' = 0
               /\ kaddr' = [s \in Slots |-> ZeroAddr]
  BY <1>3
<1>5. /\ PoolOK(Take(Take(BootPool, "inode", n), "block", b))
      /\ n \in Inos
      /\ b \in Bits("block")
  BY <1>1, TakeTwoOK
<1>6. [[s \in Slots |-> ZeroAddr] EXCEPT ![0][0] = b] \in [Slots -> Addrs]
  BY <1>5, ZeroOK, AddrOK
<1>7. PoolOK(pool') /\ rootNo' \in Inos /\ kaddr' \in [Slots -> Addrs]
  BY <1>1, <1>2, <1>4, <1>5, <1>6, ZeroOK
<1>8. BootInodes \in [Inos -> Addrs]
  BY <1>1, ZeroOK DEF BootInodes, DiskOK
<1>9. inodes' \in [Inos -> Addrs]
  BY <1>7, <1>8 DEF BootFirst
<1>10. sound' \in BOOLEAN
  BY DEF BootFirst, Good
<1>11. DiskOK'
  BY <1>1 DEF BootFirst, Boot, DiskOK
<1> QED
  BY <1>7, <1>9, <1>10, <1>11, ZeroOK
     DEF TypeOK, BootFirst, Boot, Step, NoCopy, PoolOK

LEMMA BootAgainType == TypeOK /\ BootAgain => TypeOK'
<1> SUFFICES ASSUME TypeOK, BootAgain PROVE TypeOK'
  OBVIOUS
<1>1. PoolOK(pool') /\ DiskOK /\ DiskOK'
  BY BootPoolOK DEF TypeOK, BootAgain, Boot, DiskOK
<1>2. inodes' \in [Inos -> Addrs]
  BY <1>1, ZeroOK DEF BootAgain, BootInodes, DiskOK
<1>3. kaddr' \in [Slots -> Addrs]
  BY <1>1, ZeroOK DEF BootAgain, DiskOK
<1>4. tree' \in Trees
  BY <1>1, KeptOK DEF BootAgain, Readable, DiskOK
<1>5. sound' \in BOOLEAN
  BY DEF BootAgain, Good
<1> QED
  BY <1>1, <1>2, <1>3, <1>4, <1>5, ZeroOK
     DEF TypeOK, BootAgain, Boot, Step, NoCopy, PoolOK

\* What a command writes to the device at once changes only what is known of
\* the root directory's blocks there.
LEMMA ScribbleOK ==
  ASSUME DiskOK, clean \in BOOLEAN, NEW B, Scribble(B)
  PROVE  /\ DiskOK' /\ clean' \in BOOLEAN
         /\ disk' = [disk EXCEPT !.torn = disk'.torn]
<1>1. disk' = [disk EXCEPT !.torn = disk.torn \/ Torn(B)]
  BY DEF Scribble
<1>2. disk.torn \in BOOLEAN /\ Torn(B) \in BOOLEAN
  BY DEF DiskOK, Torn, WasMounted
<1>3. (disk.torn \/ Torn(B)) \in BOOLEAN
  BY <1>2
<1>4. clean' \in BOOLEAN
  BY DEF Scribble
<1> HIDE DEF Scribble, Torn
<1>5. DiskOK' /\ disk' = [disk EXCEPT !.torn = disk'.torn]
  BY <1>1, <1>3 DEF DiskOK
<1> QED
  BY <1>4, <1>5

LEMMA CreateType ==
  ASSUME TypeOK, NEW m \in Names, NEW s \in Slots, Create(m, s)
  PROVE  TypeOK'
<1>1. PoolOK(pool)
  BY DEF TypeOK
<1>2. PICK n \in Offered(pool, "inode") :
        \E b \in Offered(Take(pool, "inode", n), "block") :
          /\ pool' = Take(Take(pool, "inode", n), "block", b)
          /\ kaddr' = [kaddr EXCEPT ![s][0] = b]
          /\ inodes' = [inodes EXCEPT ![n] = kaddr'[s]]
          /\ tree' = [tree EXCEPT ![m] = n]
          /\ sound' \in BOOLEAN
          /\ Scribble({b})
  BY DEF Create
<1>3. PICK b \in Offered(Take(pool, "inode", n), "block") :
          /\ pool' = Take(Take(pool, "inode", n), "block", b)
          /\ kaddr' = [kaddr EXCEPT ![s][0] = b]
          /\ inodes' = [inodes EXCEPT ![n] = kaddr'[s]]
          /\ tree' = [tree EXCEPT ![m] = n]
          /\ sound' \in BOOLEAN
          /\ Scribble({b})
  BY <1>2
<1>4. PoolOK(pool') /\ n \in Inos /\ b \in Bits("block")
  BY <1>1, <1>3, TakeTwoOK
<1>5. kaddr' \in [Slots -> Addrs]
  <2>1. kaddr[s] \in Addrs /\ 0 \in 0 .. MaxAddr - 1
    BY DEF TypeOK
  <2>2. [kaddr[s] EXCEPT ![0] = b] \in Addrs
    BY <1>4, <2>1, AddrOK
  <2> QED
    BY <1>3, <2>2 DEF TypeOK
<1>6. inodes' \in [Inos -> Addrs] /\ tree' \in Trees
  BY <1>3, <1>4, <1>5 DEF TypeOK, Trees
<1>7. mounted' \in [fs : BOOLEAN, kernel : BOOLEAN]
  BY KernelMountedOK DEF Create
<1>8. DiskOK' /\ clean' \in BOOLEAN
  BY <1>3, ScribbleOK DEF TypeOK
<1> QED
  BY <1>3, <1>4, <1>5, <1>6, <1>7, <1>8 DEF TypeOK, Create, Step, PoolOK

\* One block is taken and stored in an index node, as an address or not.
LEMMA OneBlockType ==
  ASSUME TypeOK, NEW b \in Offered(pool, "block"), pool' = Take(pool, "block", b),
         mounted' = KernelMounted({"block"}), sound' \in BOOLEAN,
         UNCHANGED <<rootNo, tree>>, NEW B, Scribble(B)
  PROVE  /\ PoolOK(pool') /\ b \in Bits("block")
         /\ mounted' \in [fs : BOOLEAN, kernel : BOOLEAN]
         /\ rootNo' \in Inos /\ tree' \in Trees /\ DiskOK'
         /\ sound' \in BOOLEAN /\ clean' \in BOOLEAN
<1>1. "block" \in Kinds /\ PoolOK(pool)
  BY DEF Kinds, TypeOK
<1>2. PoolOK(pool') /\ b \in Bits("block")
  BY <1>1, TakeOK
<1>3. mounted' \in [fs : BOOLEAN, kernel : BOOLEAN]
  BY KernelMountedOK
<1>4. DiskOK' /\ clean' \in BOOLEAN
  BY ScribbleOK DEF TypeOK
<1> QED
  BY <1>2, <1>3, <1>4 DEF TypeOK

LEMMA ExtendType ==
  ASSUME TypeOK, NEW m \in Names, NEW s \in Slots, Extend(m, s)
  PROVE  TypeOK'
<1> DEFINE a == inodes[tree[m]]
           u == Cardinality(Used(a))
<1>1. PICK b \in Offered(pool, "block") :
        /\ pool' = Take(pool, "block", b)
        /\ kaddr' = [kaddr EXCEPT ![s] = [a EXCEPT ![u] = b]]
        /\ inodes' = [inodes EXCEPT ![tree[m]] = kaddr'[s]]
        /\ Scribble({b})
  BY DEF Extend
<1>2. sound' \in BOOLEAN
  BY DEF Extend
<1>3. /\ PoolOK(pool') /\ b \in Bits("block")
      /\ mounted' \in [fs : BOOLEAN, kernel : BOOLEAN]
      /\ rootNo' \in Inos /\ tree' \in Trees /\ DiskOK'
      /\ sound' \in BOOLEAN /\ clean' \in BOOLEAN
  BY <1>1, <1>2, OneBlockType DEF Extend
<1>4. tree[m] \in Inos /\ a \in Addrs /\ u \in 0 .. MaxAddr - 1
  BY DEF TypeOK, Trees, Extend
<1> HIDE DEF a, u
<1>5. [a EXCEPT ![u] = b] \in Addrs
  BY <1>3, <1>4, AddrOK
<1>6. kaddr' \in [Slots -> Addrs] /\ inodes' \in [Inos -> Addrs]
  BY <1>1, <1>4, <1>5 DEF TypeOK
<1> QED
  BY <1>3, <1>6 DEF TypeOK, Extend, Step

LEMMA WriteGrowType ==
  ASSUME TypeOK, NEW m \in Names, NEW s \in Slots, WriteGrow(m, s)
  PROVE  TypeOK'
<1> DEFINE a == inodes[tree[m]]
           u == Cardinality(Used(a))
<1>1. PICK b \in Offered(pool, "block") :
        pool' = Take(pool, "block", b) /\ Scribble({0, b})
  BY DEF WriteGrow
<1>2. sound' \in BOOLEAN
  BY DEF WriteGrow
<1>3. /\ PoolOK(pool') /\ b \in Bits("block")
      /\ mounted' \in [fs : BOOLEAN, kernel : BOOLEAN]
      /\ rootNo' \in Inos /\ tree' \in Trees /\ DiskOK'
      /\ sound' \in BOOLEAN /\ clean' \in BOOLEAN
  BY <1>1, <1>2, OneBlockType DEF WriteGrow
<1>4. tree[m] \in Inos /\ a \in Addrs /\ u \in 0 .. MaxAddr - 1
  BY DEF TypeOK, Trees, WriteGrow
<1>5. /\ kaddr' = [kaddr EXCEPT ![s] = [a EXCEPT ![u] = 0]]
      /\ inodes' = [inodes EXCEPT ![tree[m]] = kaddr'[s]]
  BY DEF WriteGrow
<1> HIDE DEF a, u
<1>6. 0 \in Bits("block")
  BY ZeroBit DEF Kinds
<1>7. [a EXCEPT ![u] = 0] \in Addrs
  BY <1>4, <1>6, AddrOK
<1>8. kaddr' \in [Slots -> Addrs] /\ inodes' \in [Inos -> Addrs]
  BY <1>4, <1>5, <1>7 DEF TypeOK
<1> QED
  BY <1>3, <1>8 DEF TypeOK, WriteGrow, Step

LEMMA OverwriteType ==
  ASSUME TypeOK, NEW m \in Names, NEW s \in Slots, Overwrite(m, s)
  PROVE  TypeOK'
<1>1. inodes[tree[m]] \in Addrs
  BY DEF TypeOK, Trees, Overwrite
<1>2. kaddr' \in [Slots -> Addrs]
  BY <1>1 DEF TypeOK, Overwrite
<1>3. DiskOK' /\ clean' \in BOOLEAN
  BY ScribbleOK DEF TypeOK, Overwrite
<1> QED
  BY <1>2, <1>3 DEF TypeOK, PoolOK, Overwrite, Step

LEMMA RemoveType ==
  ASSUME TypeOK, NEW m \in Names, Remove(m)
  PROVE  TypeOK'
<1> DEFINE n == tree[m]
           a == inodes[n]
           B == FileBlocks(a)
           p == Free(pool, "block", B, Cardinality(Used(a)))
<1>1. n \in Inos /\ a \in Addrs
  BY DEF TypeOK, Trees, Remove
<1>2. pool' = Free(p, "inode", {n}, 1)
  BY DEF Remove
<1>3. Cardinality(Used(a)) \in Int
  <2>1. Used(a) \subseteq 0 .. MaxAddr - 1
    BY <1>1 DEF Used, Addrs
  <2>2. IsFiniteSet(0 .. MaxAddr - 1)
    BY FS_Interval
  <2> QED
    BY <2>1, <2>2, FS_Subset, FS_CardinalityType
<1>4. "inode" \in Kinds /\ "block" \in Kinds /\ PoolOK(pool)
  BY DEF Kinds, TypeOK
<1>5. PoolOK(p)
  BY <1>3, <1>4, FreeOK
<1> HIDE DEF p
<1>6. PoolOK(pool')
  BY <1>2, <1>4, <1>5, FreeOK
<1>7. inodes' \in [Inos -> Addrs]
  BY ZeroOK DEF Remove, TypeOK
<1>8. tree' \in Trees
  BY DEF Remove, TypeOK, Trees
<1>9. DiskOK' /\ clean' \in BOOLEAN
  BY ScribbleOK DEF Remove, TypeOK
<1> QED
  BY <1>6, <1>7, <1>8, <1>9 DEF TypeOK, Remove, Step

LEMMA CopyStartType ==
  ASSUME TypeOK, NEW m \in Names, NEW d \in Names, CopyStart(m, d)
  PROVE  TypeOK'
<1>1. PICK n \in Offered(pool, "inode") :
        /\ pool' = Take(pool, "inode", n)
        /\ cp' = [name |-> d, src |-> tree[m], no |-> n, addr |-> ZeroAddr, at |-> 0]
  BY DEF CopyStart
<1>2. "inode" \in Kinds /\ PoolOK(pool)
  BY DEF Kinds, TypeOK
<1>3. PoolOK(pool') /\ n \in Inos
  BY <1>1, <1>2, TakeOK DEF Inos
<1>4. tree[m] \in Inos
  BY DEF TypeOK, Trees, CopyStart
<1>5. cp' \in [name : Names \cup {NoFile}, src : Inos, no : Inos, addr : Addrs, at : 0 .. MaxAddr]
  BY <1>1, <1>3, <1>4, ZeroOK
<1>6. mounted' \in [fs : BOOLEAN, kernel : BOOLEAN]
  BY KernelMountedOK DEF CopyStart
<1>7. DiskOK' /\ sound' \in BOOLEAN
  BY DEF TypeOK, CopyStart, DiskOK
<1> QED
  BY <1>3, <1>5, <1>6, <1>7 DEF TypeOK, CopyStart, Step

LEMMA CopyBlockType == TypeOK /\ CopyBlock => TypeOK'
<1> SUFFICES ASSUME TypeOK, CopyBlock PROVE TypeOK'
  OBVIOUS
<1>1. PICK b \in Offered(pool, "block") :
        /\ pool' = Take(pool, "block", b)
        /\ cp' = [cp EXCEPT !.addr[cp.at] = b, !.at = @ + 1]
        /\ Scribble({b})
  BY DEF CopyBlock
<1>2. sound' \in BOOLEAN
  BY DEF CopyBlock
<1>3. /\ PoolOK(pool') /\ b \in Bits("block")
      /\ mounted' \in [fs : BOOLEAN, kernel : BOOLEAN]
      /\ rootNo' \in Inos /\ tree' \in Trees /\ DiskOK'
      /\ sound' \in BOOLEAN /\ clean' \in BOOLEAN
  BY <1>1, <1>2, OneBlockType DEF CopyBlock
<1>4. cp.at \in 0 .. MaxAddr - 1 /\ cp.at + 1 \in 0 .. MaxAddr
  BY DEF CopyBlock, Used, TypeOK, Addrs
<1>5. cp.addr \in Addrs
  BY DEF TypeOK
<1>6. [cp.addr EXCEPT ![cp.at] = b] \in Addrs
  BY <1>3, <1>4, <1>5, AddrOK
<1>7. cp' \in [name : Names \cup {NoFile}, src : Inos, no : Inos, addr : Addrs, at : 0 .. MaxAddr]
  BY <1>1, <1>4, <1>6 DEF TypeOK
<1> QED
  BY <1>3, <1>7 DEF TypeOK, CopyBlock

LEMMA CopyEndType == TypeOK /\ CopyEnd => TypeOK'
<1> SUFFICES ASSUME TypeOK, CopyEnd PROVE TypeOK'
  OBVIOUS
<1>1. inodes' \in [Inos -> Addrs]
  BY DEF CopyEnd, TypeOK
<1>2. tree' \in Trees /\ DiskOK'
  BY DEF CopyEnd, TypeOK, Trees, DiskOK
<1> QED
  BY <1>1, <1>2, ZeroOK DEF CopyEnd, TypeOK, NoCopy

LEMMA ReformatType ==
  ASSUME TypeOK, Reformat, inodes' \in [Inos -> Addrs], DiskOK', clean' \in BOOLEAN
  PROVE  TypeOK'
<1>1. PoolOK(pool')
  BY FormatPoolOK DEF Reformat
<1>2. sound' \in BOOLEAN
  BY DEF Reformat, Good
<1> QED
  BY <1>1, <1>2, ZeroOK DEF Reformat, TypeOK, Step

LEMMA WrittenOK ==
  ASSUME TypeOK, NEW k, NEW t \in Written(k)
  PROVE  /\ t \in Trees
         /\ disk' = [disk EXCEPT !.tree = t, !.torn = Doubled] => DiskOK'
<1>1. t \in Trees
  BY KeptOK DEF TypeOK, Written
<1>2. Doubled \in BOOLEAN
  BY DEF Doubled
<1> HIDE DEF Doubled
<1> QED
  BY <1>1, <1>2 DEF TypeOK, DiskOK

LEMMA LogicFormatType == TypeOK /\ LogicFormat => TypeOK'
<1> SUFFICES ASSUME TypeOK, LogicFormat PROVE TypeOK'
  OBVIOUS
<1>1. inodes' \in [Inos -> Addrs]
  BY ZeroOK DEF TypeOK, LogicFormat
<1>2. DiskOK'
  BY WrittenOK DEF LogicFormat
<1> QED
  BY <1>1, <1>2, ReformatType DEF LogicFormat

LEMMA BottomFormatType == TypeOK /\ BottomFormat => TypeOK'
<1> SUFFICES ASSUME TypeOK, BottomFormat PROVE TypeOK'
  OBVIOUS
<1>1. inodes' \in [Inos -> Addrs]
  BY ZeroOK DEF TypeOK, BottomFormat
<1>2. DiskOK' /\ clean' \in BOOLEAN
  BY ScribbleOK DEF TypeOK, BottomFormat
<1> QED
  BY <1>1, <1>2, ReformatType DEF BottomFormat

LEMMA SyncType == TypeOK /\ Sync => TypeOK'
<1> SUFFICES ASSUME TypeOK, Sync PROVE TypeOK'
  OBVIOUS
<1>1. PoolOK(pool')
  BY SyncedPoolOK DEF TypeOK, Sync
<1>2. inodes' \in [Inos -> Addrs]
  BY ZeroOK DEF TypeOK, Sync
<1>3. DiskOK' /\ sound' \in BOOLEAN
  BY DEF TypeOK, Sync, DiskOK, CountsAgree
<1>4. mounted' \in [fs : BOOLEAN, kernel : BOOLEAN]
  BY DEF TypeOK, Sync
<1> QED
  BY <1>1, <1>2, <1>3, <1>4 DEF TypeOK, Sync

LEMMA GrowRootType == TypeOK /\ GrowRoot => TypeOK'
<1> SUFFICES ASSUME TypeOK, GrowRoot PROVE TypeOK'
  OBVIOUS
<1>1. PICK b \in Offered(pool, "block") :
        /\ pool' = Take(pool, "block", b)
        /\ inodes' = IF RootLen < MaxAddr THEN [inodes EXCEPT ![0][RootLen] = b]
                     ELSE inodes
        /\ Scribble({b})
  BY DEF GrowRoot
<1>2. /\ PoolOK(pool') /\ b \in Bits("block")
      /\ mounted' \in [fs : BOOLEAN, kernel : BOOLEAN]
      /\ rootNo' \in Inos /\ tree' \in Trees /\ DiskOK'
      /\ sound' \in BOOLEAN /\ clean' \in BOOLEAN
  BY <1>1, OneBlockType DEF GrowRoot
<1>4. inodes[0] \in Addrs
  BY ZeroOK DEF TypeOK
<1>5. CASE RootLen < MaxAddr
  <2>1. RootLen \in 0 .. MaxAddr - 1
    BY <1>5, RootLenOK
  <2>2. [inodes[0] EXCEPT ![RootLen] = b] \in Addrs
    BY <1>2, <1>4, <2>1, AddrOK
  <2>3. inodes' \in [Inos -> Addrs]
    BY <1>1, <1>5, <2>2, ZeroOK DEF TypeOK
  <2> QED
    BY <1>2, <2>3 DEF TypeOK, GrowRoot
<1>6. CASE ~(RootLen < MaxAddr)
  <2>1. inodes' \in [Inos -> Addrs]
    BY <1>1, <1>6 DEF TypeOK
  <2> QED
    BY <1>2, <2>1 DEF TypeOK, GrowRoot
<1> QED
  BY <1>5, <1>6

LEMMA WriteTreeType == TypeOK /\ WriteTree => TypeOK'
<1> SUFFICES ASSUME TypeOK, WriteTree PROVE TypeOK'
  OBVIOUS
<1>1. DiskOK'
  BY WrittenOK DEF WriteTree
<1> QED
  BY <1>1 DEF TypeOK, WriteTree

LEMMA PersistType == TypeOK /\ Persist => TypeOK'
<1> SUFFICES ASSUME TypeOK, Persist PROVE TypeOK'
  OBVIOUS
<1>1. \A r \in Kinds : /\ pool[r].map \in SUBSET Nat
                       /\ pool[r].idle \in SUBSET Nat
                       /\ pool[r].num \in Int
                       /\ pool[r].map \cup pool[r].idle \subseteq Bits(r)
  BY DEF TypeOK, PoolOK, Lists
<1>2. DiskOK'
  BY <1>1 DEF TypeOK, Persist, DiskOK
<1>3. clean' \in BOOLEAN
  BY DEF Persist
<1> QED
  BY <1>2, <1>3, GoneTypeOK DEF TypeOK, Persist

\* Every step keeps the types.
LEMMA NextType == TypeOK /\ [Next]_vars => TypeOK'
<1> SUFFICES ASSUME TypeOK, [Next]_vars PROVE TypeOK'
  OBVIOUS
<1>1. CASE BootFirst
  BY <1>1, BootFirstType
<1>2. CASE BootAgain
  BY <1>2, BootAgainType
<1>3. CASE \E m \in Names, s \in Slots : Create(m, s)
  BY <1>3, CreateType
<1>4. CASE \E m \in Names, s \in Slots : Extend(m, s)
  BY <1>4, ExtendType
<1>5. CASE \E m \in Names, s \in Slots : WriteGrow(m, s)
  BY <1>5, WriteGrowType
<1>18. CASE \E m \in Names, s \in Slots : Overwrite(m, s)
  BY <1>18, OverwriteType
<1>6. CASE \E m \in Names : Remove(m)
  BY <1>6, RemoveType
<1>7. CASE \E m, d \in Names : CopyStart(m, d)
  BY <1>7, CopyStartType
<1>8. CASE CopyBlock
  BY <1>8, CopyBlockType
<1>9. CASE CopyEnd
  BY <1>9, CopyEndType
<1>10. CASE LogicFormat
  BY <1>10, LogicFormatType
<1>11. CASE BottomFormat
  BY <1>11, BottomFormatType
<1>12. CASE Sync
  BY <1>12, SyncType
<1>13. CASE GrowRoot
  BY <1>13, GrowRootType
<1>14. CASE WriteTree
  BY <1>14, WriteTreeType
<1>15. CASE Persist
  BY <1>15, PersistType
<1>16. CASE CopyFails \/ SyncAborts \/ Crash
  <2>1. DiskOK' /\ steps' \in Nat /\ clean' \in BOOLEAN /\ Gone
    BY <1>16 DEF CopyFails, SyncAborts, Crash, TypeOK, DiskOK
  <2> QED
    BY <2>1, GoneTypeOK
<1>17. CASE UNCHANGED vars
  BY <1>17 DEF TypeOK, PoolOK, DiskOK, vars
<1> QED
  BY <1>1, <1>2, <1>3, <1>4, <1>5, <1>6, <1>7, <1>8, <1>9, <1>10, <1>11,
     <1>12, <1>13, <1>14, <1>15, <1>16, <1>17, <1>18 DEF Next

\* Whatever the sizes of the maps and lists, no number outside its map is ever
\* listed, stored in an index node or written to the device (get_a_idleblock,
\* get_a_idleinode, syn_sblk, write_to_dev).
THEOREM TypeCorrect == Spec => []TypeOK
<1>1. Init => TypeOK
  BY InitTypeOK
<1>2. TypeOK /\ [Next]_vars => TypeOK'
  BY NextType
<1> QED
  BY <1>1, <1>2, PTL DEF Spec

----------------------------------------------------------------------------
(* The bounds of the lists and of the counts hold whatever happens: the     *)
(* proof of ListsUnmarked and CountsNotBelowFree.                          *)
(*                                                                         *)
(* Each is about the pool alone.  What is kept of the file system's side   *)
(* (map, list, count) holds from a start to the end of the program and on  *)
(* the device; what is kept of the kernel's side until syn_sblk.           *)

\* The file system lists clear bits only, and counts no fewer than there are.
Listing(marked, idle, num, r) ==
  idle \cap marked = {} /\ num >= Cardinality(Bits(r) \ marked)

FsSide(p) == \A r \in Kinds : Listing(p[r].map, p[r].idle, p[r].num, r)
KernelSide(p) ==
  \A r \in Kinds : p[r].avail \cap p[r].map \subseteq {0} /\ p[r].knum <= p[r].num

ListsInv ==
  /\ TypeOK
  /\ phase # "off" => FsSide(pool)
  /\ phase \in {"up", "copying"} => KernelSide(pool)
  /\ disk.formatted => \A r \in Kinds : Listing(disk.map[r], disk.wait[r], disk.num[r], r)

----------------------------------------------------------------------------
(* The pool.                                                               *)

\* Numbers that go from the list to the map are taken off the count.
LEMMA ListingMarked ==
  ASSUME NEW r \in Kinds, NEW m \in SUBSET Bits(r), NEW l \in SUBSET Bits(r), NEW n \in Int,
         Listing(m, l, n, r), NEW S \in SUBSET l
  PROVE  n - Cardinality(S) >= Cardinality(Bits(r) \ (m \cup S))
<1> DEFINE clear == Bits(r) \ m
<1>1. IsFiniteSet(clear) /\ Cardinality(clear) \in Nat
  BY BitsFinite
<1>2. clear \cap S = S /\ clear \ S = Bits(r) \ (m \cup S)
  BY DEF Listing
<1>3. Cardinality(S) \in Nat
  BY BitsFinite
<1>4. Cardinality(clear \ S) = Cardinality(clear) - Cardinality(S)
  BY <1>1, <1>2, FS_Difference
<1>5. n >= Cardinality(clear)
  BY DEF Listing
<1> HIDE DEF clear
<1> QED
  BY <1>1, <1>2, <1>3, <1>4, <1>5

\* A new list holds clear bits, and the kernel may read a 0 besides.
LEMMA FreshLists ==
  ASSUME NEW r \in Kinds, NEW marked
  PROVE  LET fresh == Supplement(marked, r)
         IN fresh \cap marked = {} /\ KernelList(fresh) \cap marked \subseteq {0}
BY DEF Supplement, First, KernelList

LEMMA RefillSides ==
  ASSUME NEW p, PoolOK(p), FsSide(p), NEW r \in Kinds
  PROVE  /\ FsSide(Refill(p, r))
         /\ KernelSide(p) => KernelSide(Refill(p, r))
<1> DEFINE marked == p[r].map \cup p[r].idle
           n == p[r].num - Cardinality(p[r].idle)
           q == Refill(p, r)
<1>1. /\ q[r].map = marked /\ q[r].idle = Supplement(marked, r) /\ q[r].num = n
      /\ q[r].avail = KernelList(Supplement(marked, r)) /\ q[r].knum = n
  BY DEF Refill
<1>2. /\ \A k \in Kinds \ {r} : q[k] = [p[k] EXCEPT !.knum = p[k].num]
      /\ \A k \in Kinds : p[k] \in Lists
      /\ p[r].map \in SUBSET Bits(r) /\ p[r].idle \in SUBSET Bits(r)
  BY DEF Refill, PoolOK
<1>3. n \in Int
  BY <1>2, BitsFinite DEF Lists
<1>4. Listing(q[r].map, q[r].idle, q[r].num, r)
  <2>1. n >= Cardinality(Bits(r) \ marked)
    BY <1>2, ListingMarked DEF FsSide, Lists
  <2> QED
    BY <1>1, <2>1, FreshLists DEF Listing
<1>5. q[r].avail \cap q[r].map \subseteq {0} /\ q[r].knum <= q[r].num
  BY <1>1, <1>3, FreshLists
<1> HIDE DEF q
<1>6. ASSUME NEW k \in Kinds \ {r}
      PROVE  /\ q[k].map = p[k].map /\ q[k].idle = p[k].idle /\ q[k].num = p[k].num
             /\ q[k].avail = p[k].avail /\ q[k].knum = p[k].num /\ p[k].num \in Int
  BY <1>2 DEF Lists
<1>7. FsSide(q)
  BY <1>4, <1>6 DEF FsSide
<1>8. KernelSide(p) => KernelSide(q)
  BY <1>5, <1>6 DEF KernelSide
<1> QED
  BY <1>7, <1>8 DEF q

LEMMA TakeSides ==
  ASSUME NEW p, PoolOK(p), FsSide(p), NEW r \in Kinds, NEW n
  PROVE  /\ FsSide(Take(p, r, n))
         /\ KernelSide(p) => KernelSide(Take(p, r, n))
<1> DEFINE q == Ready(p, r)
           z == Take(p, r, n)
<1>1. FsSide(q) /\ (KernelSide(p) => KernelSide(q)) /\ PoolOK(q)
  BY RefillSides, ReadyOK DEF Ready
<1>2. z = [q EXCEPT ![r] = [q[r] EXCEPT !.avail = q[r].avail \ {n}, !.knum = q[r].knum - 1]]
  BY DEF Take
<1> HIDE DEF q, z
<1>3. \A k \in Kinds : q[k] \in Lists /\ q[k].num \in Int /\ q[k].knum \in Int
  BY <1>1 DEF PoolOK, Lists
<1>4. ASSUME NEW k \in Kinds
      PROVE  /\ z[k].map = q[k].map /\ z[k].idle = q[k].idle /\ z[k].num = q[k].num
             /\ z[k].avail \subseteq q[k].avail
             /\ z[k].knum = q[k].knum \/ z[k].knum = q[k].knum - 1
  BY <1>1, <1>2, <1>3 DEF PoolOK, Lists
<1>5. FsSide(z)
  BY <1>1, <1>4 DEF FsSide
<1>6. ASSUME KernelSide(q) PROVE KernelSide(z)
  <2>1. \A k \in Kinds : z[k].avail \cap z[k].map \subseteq {0}
    BY <1>4, <1>6 DEF KernelSide
  <2>2. \A k \in Kinds : q[k].knum <= q[k].num
    BY <1>6 DEF KernelSide
  <2>3. \A k \in Kinds : z[k].knum <= z[k].num
    BY <1>3, <1>4, <2>2
  <2> QED
    BY <2>1, <2>3 DEF KernelSide
<1> QED
  BY <1>1, <1>5, <1>6 DEF z

\* Numbers given back are counted, those that were clear already as well.
LEMMA FreeSides ==
  ASSUME NEW p, PoolOK(p), FsSide(p), KernelSide(p), NEW r \in Kinds,
         NEW S, IsFiniteSet(S), NEW n \in Nat, Cardinality(S) <= n
  PROVE  FsSide(Free(p, r, S, n)) /\ KernelSide(Free(p, r, S, n))
<1> DEFINE z == Free(p, r, S, n)
           clear == Bits(r) \ p[r].map
<1>1. z = [p EXCEPT ![r] = [p[r] EXCEPT !.map = p[r].map \ S, !.num = p[r].num + n]]
  BY DEF Free
<1>2. \A k \in Kinds : p[k] \in Lists
  BY DEF PoolOK
<1>3. /\ z[r].map = p[r].map \ S /\ z[r].num = p[r].num + n
      /\ z[r].idle = p[r].idle /\ z[r].avail = p[r].avail /\ z[r].knum = p[r].knum
      /\ \A k \in Kinds \ {r} : z[k] = p[k]
  BY <1>1, <1>2 DEF PoolOK, Lists
<1> HIDE DEF z
<1>4. p[r].num >= Cardinality(clear) /\ p[r].num \in Int /\ p[r].knum \in Int
  BY <1>2 DEF FsSide, Listing, Lists
<1>5. /\ IsFiniteSet(clear) /\ Cardinality(clear) \in Nat
      /\ Cardinality(S) \in Nat
  BY BitsFinite, FS_CardinalityType
<1>6. Cardinality(Bits(r) \ (p[r].map \ S)) <= Cardinality(clear) + Cardinality(S)
  <2>1. Bits(r) \ (p[r].map \ S) \in SUBSET (clear \cup S)
    OBVIOUS
  <2> HIDE DEF clear
  <2>2. /\ IsFiniteSet(clear \cup S)
        /\ Cardinality(clear \cup S) =
             Cardinality(clear) + Cardinality(S) - Cardinality(clear \cap S)
    BY <1>5, FS_Union
  <2>3. Cardinality(clear \cap S) \in Nat
    BY <1>5, FS_Intersection, FS_CardinalityType
  <2>4. Cardinality(Bits(r) \ (p[r].map \ S)) <= Cardinality(clear \cup S)
    BY <2>1, <2>2, FS_Subset
  <2>5. Cardinality(Bits(r) \ (p[r].map \ S)) \in Nat
    BY BitsFinite
  <2> QED
    BY <1>5, <2>2, <2>3, <2>4, <2>5
<1>7. Listing(z[r].map, z[r].idle, z[r].num, r)
  <2>1. p[r].idle \cap (p[r].map \ S) = {}
    BY DEF FsSide, Listing
  <2>2. Cardinality(Bits(r) \ (p[r].map \ S)) \in Nat
    BY BitsFinite
  <2> HIDE DEF clear
  <2>3. p[r].num + n >= Cardinality(Bits(r) \ (p[r].map \ S))
    BY <1>4, <1>5, <1>6, <2>2
  <2> QED
    BY <1>3, <2>1, <2>3 DEF Listing
<1>8. FsSide(z)
  BY <1>3, <1>7 DEF FsSide
<1>9. KernelSide(z)
  <2>1. z[r].avail \cap z[r].map \subseteq {0}
    BY <1>3 DEF KernelSide
  <2>2. p[r].knum <= p[r].num
    BY DEF KernelSide
  <2>3. z[r].knum <= z[r].num
    BY <1>3, <1>4, <2>2
  <2> QED
    BY <1>3, <2>1, <2>3 DEF KernelSide
<1> QED
  BY <1>8, <1>9 DEF z

LEMMA SyncedSides ==
  ASSUME PoolOK(pool), FsSide(pool)
  PROVE  FsSide(SyncedPool)
<1> SUFFICES ASSUME NEW r \in Kinds
             PROVE  Listing(SyncedPool[r].map, SyncedPool[r].idle, SyncedPool[r].num, r)
  BY DEF FsSide
<1> DEFINE popped == First(Usage(r), pool[r].idle)
<1>1. pool[r] \in Lists /\ pool[r].map \in SUBSET Bits(r) /\ pool[r].idle \in SUBSET Bits(r)
  BY DEF PoolOK
<1>2. popped \in SUBSET pool[r].idle
  BY DEF First
<1>3. SyncedPool[r] = [pool[r] EXCEPT !.map = pool[r].map \cup popped,
                                      !.num = pool[r].num - Cardinality(popped),
                                      !.idle = pool[r].idle \ popped]
  BY DEF SyncedPool
<1> HIDE DEF popped
<1>4. /\ SyncedPool[r].map = pool[r].map \cup popped
      /\ SyncedPool[r].num = pool[r].num - Cardinality(popped)
      /\ SyncedPool[r].idle = pool[r].idle \ popped
  BY <1>1, <1>3 DEF Lists
<1>5. Listing(pool[r].map, pool[r].idle, pool[r].num, r)
  BY DEF FsSide
<1>6. pool[r].num - Cardinality(popped) >= Cardinality(Bits(r) \ (pool[r].map \cup popped))
  BY <1>1, <1>2, <1>5, ListingMarked DEF Lists
<1> QED
  BY <1>4, <1>5, <1>6 DEF Listing

----------------------------------------------------------------------------
(* Pools that are made anew.                                               *)

LEMMA FreshSides == FsSide(FreshPool) /\ KernelSide(FreshPool)
<1>1. ASSUME NEW r \in Kinds PROVE Cardinality(Bits(r) \ {}) = Cap[r] /\ Cap[r] \in Nat
  <2>1. Cap[r] - 1 \in Int /\ 0 \in Int /\ Cap[r] \in Nat \ {0}
    OBVIOUS
  <2>2. Cardinality(0 .. Cap[r] - 1) = Cap[r]
    BY <2>1, FS_Interval
  <2>3. Bits(r) \ {} = 0 .. Cap[r] - 1
    BY DEF Bits
  <2> QED
    BY <2>1, <2>2, <2>3
<1>2. FsSide(FreshPool)
  BY <1>1 DEF FsSide, Listing, FreshPool
<1>3. KernelSide(FreshPool)
  BY <1>1 DEF KernelSide, FreshPool
<1> QED
  BY <1>2, <1>3

LEMMA FormatSides == FsSide(FormatPool) /\ KernelSide(FormatPool)
<1>1. ASSUME NEW r \in Kinds
      PROVE  Cardinality(Bits(r) \ {0}) = Cap[r] - 1 /\ Cap[r] - 1 \in Int
  <2>1. Cap[r] - 1 \in Int /\ 0 \in Int /\ Cap[r] \in Nat \ {0}
    OBVIOUS
  <2>2. IsFiniteSet(0 .. Cap[r] - 1) /\ Cardinality(0 .. Cap[r] - 1) = Cap[r]
    BY <2>1, FS_Interval
  <2>3. Bits(r) = 0 .. Cap[r] - 1 /\ 0 \in Bits(r)
    BY ZeroBit DEF Bits
  <2>4. IsFiniteSet(Bits(r)) /\ Cardinality(Bits(r)) = Cap[r]
    BY <2>2, <2>3
  <2>5. Cardinality(Bits(r) \ {0}) = Cardinality(Bits(r)) - 1
    BY <2>3, <2>4, FS_RemoveElement
  <2> QED
    BY <2>1, <2>4, <2>5
<1>2. \A r \in Kinds : /\ Supplement({0}, r) \cap {0} = {}
                       /\ KernelList(Supplement({0}, r)) \cap {0} \subseteq {0}
  BY FreshLists
<1>3. FsSide(FormatPool)
  BY <1>1, <1>2 DEF FsSide, Listing, FormatPool
<1>4. KernelSide(FormatPool)
  BY <1>1, <1>2 DEF KernelSide, FormatPool
<1> QED
  BY <1>3, <1>4

LEMMA BootSides ==
  ASSUME ListsInv
  PROVE  FsSide(BootPool) /\ KernelSide(BootPool) /\ PoolOK(BootPool)
<1>1. CASE ~disk.formatted
  BY <1>1, FreshSides, FreshPoolOK DEF BootPool
<1>2. CASE disk.formatted
  <2>1. \A r \in Kinds : /\ Listing(disk.map[r], disk.wait[r], disk.num[r], r)
                         /\ disk.num[r] \in Int
    BY <1>2 DEF ListsInv, TypeOK, DiskOK
  <2>2. \A r \in Kinds : /\ FsList(disk.wait[r]) \subseteq disk.wait[r]
                         /\ KernelList(disk.wait[r]) \subseteq disk.wait[r] \cup {0}
    BY DEF FsList, KernelList
  <2>3. FsSide(LoadedPool)
    BY <2>1, <2>2 DEF FsSide, Listing, LoadedPool
  <2>4. KernelSide(LoadedPool)
    <3>1. \A r \in Kinds : KernelList(disk.wait[r]) \cap disk.map[r] \subseteq {0}
      <4> SUFFICES ASSUME NEW r \in Kinds
                   PROVE  KernelList(disk.wait[r]) \cap disk.map[r] \subseteq {0}
        OBVIOUS
      <4>1. disk.wait[r] \cap disk.map[r] = {}
        BY <2>1 DEF Listing
      <4>2. KernelList(disk.wait[r]) \subseteq disk.wait[r] \cup {0}
        BY <2>2
      <4> QED
        BY <4>1, <4>2, Zenon
    <3>2. \A r \in Kinds : disk.num[r] <= disk.num[r]
      BY <2>1
    <3> QED
      BY <3>1, <3>2 DEF KernelSide, LoadedPool
  <2>5. PoolOK(BootPool)
    BY BootPoolOK DEF ListsInv, TypeOK
  <2> QED
    BY <1>2, <2>3, <2>4, <2>5 DEF BootPool
<1> QED
  BY <1>1, <1>2

----------------------------------------------------------------------------
(* The steps.                                                              *)

\* The device is left alone, or only its directory changes.
OnlyDirectory == \/ disk' = disk
                 \/ \E B : Scribble(B)
                 \/ \E t, x : disk' = [disk EXCEPT !.tree = t, !.torn = x]

LEMMA DeviceKept ==
  ASSUME ListsInv, TypeOK', OnlyDirectory,
         phase' # "off" => FsSide(pool'),
         phase' \in {"up", "copying"} => KernelSide(pool')
  PROVE  ListsInv'
<1>1. /\ disk'.formatted = disk.formatted /\ disk'.map = disk.map
      /\ disk'.wait = disk.wait /\ disk'.num = disk.num
  BY DEF ListsInv, TypeOK, DiskOK, OnlyDirectory, Scribble
<1> QED
  BY <1>1 DEF ListsInv

LEMMA TwoTaken ==
  ASSUME NEW p, PoolOK(p), FsSide(p), KernelSide(p), NEW n \in Offered(p, "inode"), NEW b
  PROVE  LET z == Take(Take(p, "inode", n), "block", b) IN FsSide(z) /\ KernelSide(z)
<1>1. "inode" \in Kinds /\ "block" \in Kinds
  BY DEF Kinds
<1>2. /\ PoolOK(Take(p, "inode", n)) /\ FsSide(Take(p, "inode", n))
      /\ KernelSide(Take(p, "inode", n))
  BY <1>1, TakeOK, TakeSides
<1> QED
  BY <1>1, <1>2, TakeSides

LEMMA BootLists ==
  ASSUME ListsInv, TypeOK', BootFirst \/ BootAgain
  PROVE  ListsInv'
<1>1. FsSide(BootPool) /\ KernelSide(BootPool) /\ PoolOK(BootPool)
  BY BootSides
<1>2. OnlyDirectory
  BY DEF BootFirst, BootAgain, Boot, OnlyDirectory
<1>3. CASE BootFirst
  <2>1. \E n \in Offered(BootPool, "inode") : \E b :
          \/ pool' = Take(Take(BootPool, "inode", n), "block", b)
          \/ pool' = BootPool
    BY <1>3 DEF BootFirst
  <2>2. FsSide(pool') /\ KernelSide(pool')
    BY <1>1, <2>1, TwoTaken
  <2> QED
    BY <1>2, <2>2, DeviceKept
<1>4. CASE BootAgain
  BY <1>1, <1>2, <1>4, DeviceKept DEF BootAgain
<1> QED
  BY <1>3, <1>4

\* Commands that take one number.
LEMMA OneTaken ==
  ASSUME ListsInv, TypeOK', phase \in {"up", "copying"}, OnlyDirectory,
         NEW r \in Kinds, NEW n, pool' = Take(pool, r, n)
  PROVE  ListsInv'
<1>1. PoolOK(pool) /\ FsSide(pool) /\ KernelSide(pool)
  BY DEF ListsInv, TypeOK
<1> QED
  BY <1>1, TakeSides, DeviceKept

LEMMA CommandLists ==
  ASSUME ListsInv, TypeOK', NEW m \in Names, NEW s \in Slots,
         Create(m, s) \/ Extend(m, s) \/ WriteGrow(m, s) \/ Overwrite(m, s)
  PROVE  ListsInv'
<1>1. "block" \in Kinds
  BY DEF Kinds
<1>0. OnlyDirectory
  BY DEF Create, Extend, WriteGrow, Overwrite, OnlyDirectory
<1>2. CASE Create(m, s)
  <2>1. PoolOK(pool) /\ FsSide(pool) /\ KernelSide(pool)
    BY <1>2 DEF ListsInv, TypeOK, Create
  <2>2. \E n \in Offered(pool, "inode") : \E b :
          pool' = Take(Take(pool, "inode", n), "block", b)
    BY <1>2 DEF Create
  <2>3. FsSide(pool') /\ KernelSide(pool')
    BY <2>1, <2>2, TwoTaken
  <2> QED
    BY <1>0, <1>2, <2>3, DeviceKept DEF Create
<1>3. CASE Extend(m, s)
  BY <1>0, <1>1, <1>3, OneTaken DEF Extend
<1>4. CASE WriteGrow(m, s)
  BY <1>0, <1>1, <1>4, OneTaken DEF WriteGrow
<1>5. CASE Overwrite(m, s)
  BY <1>0, <1>5, DeviceKept DEF Overwrite, ListsInv
<1> QED
  BY <1>2, <1>3, <1>4, <1>5

LEMMA RemoveLists ==
  ASSUME ListsInv, TypeOK', NEW m \in Names, Remove(m)
  PROVE  ListsInv'
<1> DEFINE a == inodes[tree[m]]
           U == Used(a)
           B == FileBlocks(a)
           p == Free(pool, "block", B, Cardinality(U))
<1>1. pool' = Free(p, "inode", {tree[m]}, 1) /\ OnlyDirectory /\ phase = "up"
  BY DEF Remove, OnlyDirectory
<1>2. PoolOK(pool) /\ FsSide(pool) /\ KernelSide(pool)
  BY <1>1 DEF ListsInv, TypeOK
<1>3. "inode" \in Kinds /\ "block" \in Kinds
  BY DEF Kinds
<1>4. IsFiniteSet(U) /\ Cardinality(U) \in Nat
  <2>1. a \in Addrs
    BY DEF ListsInv, TypeOK, Trees, Remove
  <2>2. U \in SUBSET (0 .. MaxAddr - 1)
    BY <2>1 DEF Used, Addrs
  <2>3. IsFiniteSet(0 .. MaxAddr - 1)
    BY FS_Interval
  <2> QED
    BY <2>2, <2>3, FS_Subset, FS_CardinalityType
<1>5. IsFiniteSet(B) /\ Cardinality(B) <= Cardinality(U)
  <2> DEFINE f == [j \in U |-> a[j]]
  <2>1. f \in Surjection(U, B)
    BY DEF Surjection, FileBlocks
  <2> HIDE DEF U, B, f
  <2> QED
    BY <1>4, <2>1, FS_Surjection
<1> HIDE DEF B, U
<1>6. PoolOK(p) /\ FsSide(p) /\ KernelSide(p)
  BY <1>2, <1>3, <1>4, <1>5, FreeSides, FreeOK
<1> HIDE DEF p
<1>7. FsSide(pool') /\ KernelSide(pool')
  <2>1. IsFiniteSet({tree[m]}) /\ Cardinality({tree[m]}) = 1
    BY FS_Singleton
  <2>2. Cardinality({tree[m]}) <= 1
    BY <2>1
  <2> QED
    BY <1>1, <1>3, <1>6, <2>1, <2>2, FreeSides
<1> QED
  BY <1>1, <1>7, DeviceKept

LEMMA CopyLists ==
  ASSUME ListsInv, TypeOK',
         (\E m, d \in Names : CopyStart(m, d)) \/ CopyBlock \/ CopyEnd
  PROVE  ListsInv'
<1>1. "inode" \in Kinds /\ "block" \in Kinds
  BY DEF Kinds
<1>0. OnlyDirectory
  BY DEF CopyStart, CopyBlock, CopyEnd, OnlyDirectory
<1>2. CASE \E m, d \in Names : CopyStart(m, d)
  BY <1>0, <1>1, <1>2, OneTaken DEF CopyStart
<1>3. CASE CopyBlock
  BY <1>0, <1>1, <1>3, OneTaken DEF CopyBlock
<1>4. CASE CopyEnd
  BY <1>0, <1>4, DeviceKept DEF CopyEnd, ListsInv
<1> QED
  BY <1>2, <1>3, <1>4

LEMMA FormatLists ==
  ASSUME ListsInv, TypeOK', LogicFormat \/ BottomFormat
  PROVE  ListsInv'
<1>1. pool' = FormatPool
  BY DEF LogicFormat, BottomFormat, Reformat
<1>2. OnlyDirectory
  BY DEF LogicFormat, BottomFormat, OnlyDirectory
<1> QED
  BY <1>1, <1>2, FormatSides, DeviceKept

LEMMA EndLists ==
  ASSUME ListsInv, TypeOK', Sync \/ GrowRoot \/ WriteTree \/ Persist
  PROVE  ListsInv'
<1>1. CASE Sync
  BY <1>1, SyncedSides, DeviceKept DEF Sync, ListsInv, TypeOK, OnlyDirectory
<1>2. CASE GrowRoot
  <2>1. PoolOK(pool) /\ FsSide(pool) /\ "block" \in Kinds
    BY <1>2 DEF GrowRoot, ListsInv, TypeOK, Kinds
  <2> QED
    BY <1>2, <2>1, TakeSides, DeviceKept DEF GrowRoot, OnlyDirectory
<1>3. CASE WriteTree
  <2>1. OnlyDirectory
    BY <1>3 DEF WriteTree, OnlyDirectory
  <2> QED
    BY <1>3, <2>1, DeviceKept DEF WriteTree, ListsInv
<1>4. CASE Persist
  <2>1. FsSide(pool) /\ phase' = "off"
    BY <1>4 DEF Persist, Gone, ListsInv
  <2>2. \A r \in Kinds : /\ disk'.map[r] = pool[r].map /\ disk'.wait[r] = pool[r].idle
                         /\ disk'.num[r] = pool[r].num
    BY <1>4 DEF Persist
  <2> QED
    BY <2>1, <2>2 DEF ListsInv, FsSide
<1> QED
  BY <1>1, <1>2, <1>3, <1>4

LEMMA ListsInit == Init => ListsInv
BY InitTypeOK DEF Init, ListsInv

LEMMA ListsNext == ListsInv /\ [Next]_vars => ListsInv'
<1> SUFFICES ASSUME ListsInv, [Next]_vars PROVE ListsInv'
  OBVIOUS
<1>1. TypeOK'
  BY NextType DEF ListsInv
<1>2. CASE BootFirst \/ BootAgain
  BY <1>1, <1>2, BootLists
<1>3. CASE \E m \in Names, s \in Slots :
             Create(m, s) \/ Extend(m, s) \/ WriteGrow(m, s) \/ Overwrite(m, s)
  BY <1>1, <1>3, CommandLists
<1>4. CASE \E m \in Names : Remove(m)
  BY <1>1, <1>4, RemoveLists
<1>5. CASE (\E m, d \in Names : CopyStart(m, d)) \/ CopyBlock \/ CopyEnd
  BY <1>1, <1>5, CopyLists
<1>6. CASE LogicFormat \/ BottomFormat
  BY <1>1, <1>6, FormatLists
<1>7. CASE Sync \/ GrowRoot \/ WriteTree \/ Persist
  BY <1>1, <1>7, EndLists
<1>8. CASE CopyFails \/ SyncAborts \/ Crash
  BY <1>1, <1>8, DeviceKept DEF CopyFails, SyncAborts, Crash, Gone, OnlyDirectory
<1>9. CASE UNCHANGED vars
  BY <1>1, <1>9, DeviceKept DEF vars, ListsInv, OnlyDirectory
<1> QED
  BY <1>2, <1>3, <1>4, <1>5, <1>6, <1>7, <1>8, <1>9 DEF Next

LEMMA ListsAlways == Spec => []ListsInv
BY ListsInit, ListsNext, PTL DEF Spec

\* No list ever holds a number whose bit is set, the 0 of an empty wait array left
\* out: through every session, removal, format and crash.
THEOREM ListsCorrect == Spec => []ListsUnmarked
<1>1. ListsInv => ListsUnmarked
  BY DEF ListsInv, FsSide, Listing, KernelSide, ListsUnmarked
<1> QED
  BY <1>1, ListsAlways, PTL

\* The file system's count never falls below the number of clear bits, and the
\* kernel's never rises above it.
THEOREM CountsCorrect == Spec => []CountsNotBelowFree
<1>1. ListsInv => CountsNotBelowFree
  BY DEF ListsInv, FsSide, Listing, KernelSide, CountsNotBelowFree
<1> QED
  BY <1>1, ListsAlways, PTL
=============================================================================
