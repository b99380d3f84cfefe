------------------------- MODULE SpaceSoundProofs -------------------------
(* The allocator does not lose track of a number while a session is sound: *)
(* the proof that the invariants SoundIsGood and SoundIsRecorded hold for  *)
(* every size of the maps, of the lists and of the set of names.           *)
(*                                                                         *)
(* TypeOK and the two invariants together are inductive.  What carries the *)
(* proof is TakeAccounts: a number that is taken from lists that account   *)
(* for a set S is not in S, and afterwards they account for it too.        *)
(*                                                                         *)
(* The last part is about the device: what a sound session has written     *)
(* starts a sound session again (CleanMountsSound).                        *)
EXTENDS SpaceProofs

USE CapAssumption, BatchAssumption, ReserveAssumption, MaxAddrAssumption,
    PerBlockAssumption, SlotsAssumption, NamesAssumption, BoundAssumption

----------------------------------------------------------------------------
(* Taking and giving back numbers.                                         *)

\* What Accounts says depends on three fields only.
LEMMA AccountsFields ==
  ASSUME NEW p, NEW q, NEW r, NEW S, Accounts(p, r, S),
         q[r].map = p[r].map, q[r].idle = p[r].idle, q[r].avail = p[r].avail
  PROVE  Accounts(q, r, S)
BY DEF Accounts, Spent

\* A smaller set is accounted for as well.
LEMMA AccountsSubset ==
  ASSUME NEW p, NEW r, NEW S, NEW T \in SUBSET S, Accounts(p, r, S)
  PROVE  Accounts(p, r, T)
BY DEF Accounts

\* update_sblk: the new list accounts for what the old one did.
LEMMA RefillAccounts ==
  ASSUME NEW p, PoolOK(p), NEW r \in Kinds, NEW S, Accounts(p, r, S),
         p[r].avail = {}, Refill(p, r)[r].idle # {}
  PROVE  Accounts(Refill(p, r), r, S)
<1> DEFINE marked == p[r].map \cup p[r].idle
           fresh == Supplement(marked, r)
           q == Refill(p, r)
<1>1. /\ q[r].map = marked
      /\ q[r].idle = fresh
      /\ q[r].avail = KernelList(fresh)
  BY DEF Refill
<1>2. fresh \cap marked = {}
  BY DEF Supplement, First
<1>3. S \subseteq marked
  BY DEF Accounts, Spent
<1> HIDE DEF marked, fresh, q
<1>4. q[r].avail = fresh
  BY <1>1 DEF KernelList, q
<1>5. Accounts(q, r, S)
  BY <1>1, <1>2, <1>3, <1>4 DEF Accounts, Spent
<1> QED
  BY <1>5 DEF q

LEMMA ReadyAccounts ==
  ASSUME NEW p, PoolOK(p), NEW r \in Kinds, NEW S, Accounts(p, r, S),
         ~Exhausted(p, r)
  PROVE  Accounts(Ready(p, r), r, S)
BY RefillAccounts DEF Ready, Exhausted

\* The other kind's lists stay as they are.
LEMMA ReadyOther ==
  ASSUME NEW p, PoolOK(p), NEW r \in Kinds, NEW k \in Kinds \ {r}
  PROVE  /\ Ready(p, r)[k].map = p[k].map
         /\ Ready(p, r)[k].idle = p[k].idle
         /\ Ready(p, r)[k].avail = p[k].avail
<1>1. p[k] \in Lists
  BY DEF PoolOK
<1>2. CASE p[r].avail = {}
  <2>1. Refill(p, r)[k] = [p[k] EXCEPT !.knum = p[k].num]
    BY DEF Refill
  <2> QED
    BY <1>1, <1>2, <2>1 DEF Ready, Lists
<1>3. CASE p[r].avail # {}
  BY <1>3 DEF Ready
<1> QED
  BY <1>2, <1>3

\* A number the kernel hands out is held by nobody the lists know of, and the
\* lists know of it afterwards.
LEMMA TakeAccounts ==
  ASSUME NEW p, PoolOK(p), NEW r \in Kinds, NEW S, Accounts(p, r, S),
         ~Exhausted(p, r), NEW n \in Offered(p, r)
  PROVE  /\ n \notin S
         /\ Accounts(Take(p, r, n), r, S \cup {n})
         /\ PoolOK(Take(p, r, n))
<1> DEFINE q == Ready(p, r)
           z == Take(p, r, n)
<1>1. Accounts(q, r, S)
  BY ReadyAccounts
<1>2. PoolOK(q) /\ PoolOK(z)
  BY ReadyOK, TakeOK
<1>3. /\ z[r].map = q[r].map
      /\ z[r].idle = q[r].idle
      /\ z[r].avail = q[r].avail \ {n}
  BY TakeShape
<1>4. n \in q[r].avail /\ \A y \in q[r].avail : n <= y
  BY DEF Offered, Front
<1>5. q[r].avail \subseteq Nat
  BY <1>2 DEF PoolOK, Lists
<1> HIDE DEF q, z
<1>6. n \notin S
  BY <1>1, <1>4 DEF Accounts, Spent
<1>7. Spent(z, r) = Spent(q, r) \cup {n}
  BY <1>1, <1>3, <1>4 DEF Accounts, Spent
<1>8. \A x \in Spent(z, r), y \in z[r].avail : x < y
  BY <1>1, <1>3, <1>4, <1>5, <1>7 DEF Accounts
<1>9. Accounts(z, r, S \cup {n})
  BY <1>1, <1>3, <1>7, <1>8 DEF Accounts
<1> QED
  BY <1>2, <1>6, <1>9 DEF z

LEMMA TakeOther ==
  ASSUME NEW p, PoolOK(p), NEW r \in Kinds, NEW k \in Kinds \ {r}, NEW n, NEW S,
         Accounts(p, k, S)
  PROVE  Accounts(Take(p, r, n), k, S)
<1>1. Take(p, r, n)[k] = Ready(p, r)[k]
  BY TakeShape
<1> QED
  BY <1>1, ReadyOther, AccountsFields

\* Numbers given back are marked no longer; the rest is still accounted for.
LEMMA FreeAccounts ==
  ASSUME NEW p, PoolOK(p), NEW r \in Kinds, NEW S, NEW T, NEW n \in Int,
         Accounts(p, r, S)
  PROVE  Accounts(Free(p, r, T, n), r, S \ T)
<1> DEFINE y == [p[r] EXCEPT !.map = p[r].map \ T, !.num = p[r].num + n]
<1>1. y.map = p[r].map \ T /\ y.idle = p[r].idle /\ y.avail = p[r].avail
  BY DEF PoolOK, Lists
<1>2. Free(p, r, T, n)[r] = y
  BY DEF Free, PoolOK
<1> HIDE DEF y
<1> QED
  BY <1>1, <1>2 DEF Accounts, Spent

LEMMA FreeOther ==
  ASSUME NEW p, PoolOK(p), NEW r \in Kinds, NEW k \in Kinds \ {r}, NEW T, NEW n, NEW S,
         Accounts(p, k, S)
  PROVE  Accounts(Free(p, r, T, n), k, S)
<1>1. Free(p, r, T, n)[k] = p[k]
  BY DEF Free, PoolOK
<1> QED
  BY <1>1, AccountsFields

----------------------------------------------------------------------------
(* Holders of blocks and index nodes.                                      *)

LEMMA BlocksUpdate ==
  ASSUME NEW a \in Addrs, NEW u \in 0 .. MaxAddr - 1, NEW b \in Bits("block")
  PROVE  BlocksOf([a EXCEPT ![u] = b]) \subseteq BlocksOf(a) \cup {b}
BY DEF BlocksOf, Addrs

LEMMA NoBlocks == BlocksOf(ZeroAddr) = {}
BY DEF BlocksOf, ZeroAddr

\* An index node without left-over addresses has one block at most.
LEMMA OneBlock ==
  ASSUME NEW a \in Addrs, NEW b \in Bits("block"), ~Leftover(a)
  PROVE  BlocksOf([a EXCEPT ![0] = b]) \subseteq {b}
BY DEF BlocksOf, Leftover, Addrs

LEMMA KindsAre == "inode" \in Kinds /\ "block" \in Kinds /\ "inode" # "block"
                  /\ \A r \in Kinds : r = "inode" \/ r = "block"
BY DEF Kinds

\* The session is sound and idle: what Good says there.
LEMMA UpGood ==
  ASSUME Good, phase = "up"
  PROVE  /\ RootKept
         /\ Exclusive
         /\ Accounts(pool, "inode", OwnedInodes)
         /\ Accounts(pool, "block", OwnedBlocks)
BY KindsAre DEF Good, Owned, InFlight

\* ... and what has to be shown for the next state.
LEMMA UpGoodNext ==
  ASSUME phase' = "up", RootKept', Exclusive',
         NEW I, OwnedInodes' \subseteq I, Accounts(pool', "inode", I),
         NEW B, OwnedBlocks' \subseteq B, Accounts(pool', "block", B)
  PROVE  Good'
<1>1. Accounts(pool', "inode", OwnedInodes') /\ Accounts(pool', "block", OwnedBlocks')
  BY AccountsSubset
<1>2. Owned("inode")' = OwnedInodes' /\ Owned("block")' = OwnedBlocks'
  BY KindsAre DEF Owned, InFlight
<1>3. \A r \in Kinds : Accounts(pool', r, Owned(r)')
  BY <1>1, <1>2, KindsAre
<1> QED
  BY <1>3 DEF Good

\* A file whose index node is stored again with at most one block more, a block
\* nobody holds, leaves everything exclusive.
LEMMA StoredAgain ==
  ASSUME TypeOK, Exclusive, RootKept, phase = "up", phase' = "up",
         NEW m \in Names, tree[m] # NoFile,
         NEW s \in Slots, s # 0, NEW a,
         kaddr' = [kaddr EXCEPT ![s] = a],
         inodes' = [inodes EXCEPT ![tree[m]] = a],
         UNCHANGED <<rootNo, tree>>,
         NEW b, b \notin OwnedBlocks,
         BlocksOf(a) \subseteq BlocksOf(inodes[tree[m]]) \cup {b}
  PROVE  /\ RootKept' /\ Exclusive'
         /\ OwnedInodes' = OwnedInodes
         /\ OwnedBlocks' \subseteq OwnedBlocks \cup {b}
<1>1. /\ tree[m] \in Inos /\ tree[m] \notin {0, rootNo}
      /\ tree[m] \in OwnedInodes
      /\ OwnedInodes \subseteq Inos
      /\ m \in Present(tree)
  BY ZeroOK DEF TypeOK, Trees, Exclusive, OwnedInodes, Present
<1>2. OwnedInodes' = OwnedInodes
  BY DEF OwnedInodes
<1>3. inodes'[tree[m]] = a /\ \A i \in Inos \ {tree[m]} : inodes'[i] = inodes[i]
  BY <1>1 DEF TypeOK
<1>4. RootKept'
  BY <1>1, <1>3, ZeroOK DEF RootKept, TypeOK
<1>5. \A i \in OwnedInodes : BlocksOf(inodes[i]) \subseteq OwnedBlocks
  BY DEF OwnedBlocks
<1>6. \A i \in OwnedInodes : BlocksOf(inodes'[i]) \subseteq
         BlocksOf(inodes[i]) \cup (IF i = tree[m] THEN {b} ELSE {})
  BY <1>1, <1>3
<1>7. \A i, j \in OwnedInodes :
        i # j => BlocksOf(inodes'[i]) \cap BlocksOf(inodes'[j]) = {}
  BY <1>5, <1>6 DEF Exclusive
<1>8. OwnedBlocks' \subseteq OwnedBlocks \cup {b}
  <2>1. OwnedBlocks' = {0} \cup UNION {BlocksOf(inodes'[i]) : i \in OwnedInodes}
    BY <1>2 DEF OwnedBlocks
  <2> QED
    BY <1>5, <1>6, <2>1 DEF OwnedBlocks
<1>9. Exclusive'
  <2>1. InFlight("inode")' = {} /\ InFlight("block")' = {}
    BY DEF InFlight
  <2>2. \A k \in Present(tree') :
          /\ tree'[k] \notin {0, rootNo'}
          /\ \A n \in Present(tree') \ {k} : tree'[n] # tree'[k]
    BY DEF Exclusive
  <2> QED
    BY <1>2, <1>7, <2>1, <2>2 DEF Exclusive
<1> QED
  BY <1>2, <1>4, <1>8, <1>9

LEMMA ExtendGood ==
  ASSUME TypeOK, SoundIsGood, NEW m \in Names, NEW s \in Slots, Extend(m, s), sound'
  PROVE  Good'
<1> DEFINE a == inodes[tree[m]]
           u == Cardinality(Used(a))
<1>1. Good /\ phase = "up" /\ phase' = "up" /\ ~Exhausted(pool, "block")
  BY DEF SoundIsGood, Extend
<1>2. PICK b \in Offered(pool, "block") :
        /\ pool' = Take(pool, "block", b)
        /\ kaddr' = [kaddr EXCEPT ![s] = [a EXCEPT ![u] = b]]
        /\ inodes' = [inodes EXCEPT ![tree[m]] = kaddr'[s]]
  BY DEF Extend
<1>3. PoolOK(pool) /\ b \in Bits("block")
  BY KindsAre, TakeOK DEF TypeOK
<1>4. /\ b \notin OwnedBlocks
      /\ Accounts(pool', "block", OwnedBlocks \cup {b})
      /\ Accounts(pool', "inode", OwnedInodes)
  BY <1>1, <1>2, <1>3, UpGood, KindsAre, TakeAccounts, TakeOther
<1>5. tree[m] \in Inos /\ a \in Addrs /\ u \in 0 .. MaxAddr - 1
  BY DEF TypeOK, Trees, Extend
<1>6. kaddr'[s] = [a EXCEPT ![u] = b]
  BY <1>2 DEF TypeOK
<1>7. BlocksOf(kaddr'[s]) \subseteq BlocksOf(a) \cup {b}
  BY <1>3, <1>5, <1>6, BlocksUpdate
<1>8. /\ kaddr' = [kaddr EXCEPT ![s] = kaddr'[s]]
      /\ inodes' = [inodes EXCEPT ![tree[m]] = kaddr'[s]]
      /\ tree[m] # NoFile /\ s # 0
      /\ UNCHANGED <<rootNo, tree>>
  BY <1>2, <1>6 DEF Extend
<1>9. /\ RootKept' /\ Exclusive'
      /\ OwnedInodes' = OwnedInodes
      /\ OwnedBlocks' \subseteq OwnedBlocks \cup {b}
  <2> DEFINE c == kaddr'[s]
  <2>1. /\ kaddr' = [kaddr EXCEPT ![s] = c]
        /\ inodes' = [inodes EXCEPT ![tree[m]] = c]
        /\ BlocksOf(c) \subseteq BlocksOf(inodes[tree[m]]) \cup {b}
    BY <1>7, <1>8
  <2> HIDE DEF c
  <2>2. RootKept /\ Exclusive
    BY <1>1, UpGood
  <2> QED
    BY <1>1, <1>4, <1>8, <2>1, <2>2, StoredAgain
<1> QED
  BY <1>1, <1>4, <1>9, UpGoodNext

LEMMA WriteGrowGood ==
  ASSUME TypeOK, SoundIsGood, NEW m \in Names, NEW s \in Slots, WriteGrow(m, s), sound'
  PROVE  Good'
<1> DEFINE a == inodes[tree[m]]
           u == Cardinality(Used(a))
<1>1. Good /\ phase = "up" /\ phase' = "up" /\ ~Exhausted(pool, "block")
  BY DEF SoundIsGood, WriteGrow
<1>2. PICK b \in Offered(pool, "block") : pool' = Take(pool, "block", b)
  BY DEF WriteGrow
<1>3. /\ kaddr' = [kaddr EXCEPT ![s] = [a EXCEPT ![u] = 0]]
      /\ inodes' = [inodes EXCEPT ![tree[m]] = kaddr'[s]]
  BY DEF WriteGrow
<1>4. PoolOK(pool) /\ 0 \in Bits("block")
  BY KindsAre, ZeroBit DEF TypeOK
<1>5. /\ b \notin OwnedBlocks
      /\ Accounts(pool', "block", OwnedBlocks \cup {b})
      /\ Accounts(pool', "inode", OwnedInodes)
  BY <1>1, <1>2, <1>4, UpGood, KindsAre, TakeAccounts, TakeOther
<1>6. tree[m] \in Inos /\ a \in Addrs /\ u \in 0 .. MaxAddr - 1
  BY DEF TypeOK, Trees, WriteGrow
<1>7. kaddr'[s] = [a EXCEPT ![u] = 0]
  BY <1>3 DEF TypeOK
<1>8. BlocksOf(kaddr'[s]) \subseteq BlocksOf(a) \cup {b}
  BY <1>6, <1>7 DEF BlocksOf, Addrs
<1>9. /\ kaddr' = [kaddr EXCEPT ![s] = kaddr'[s]]
      /\ inodes' = [inodes EXCEPT ![tree[m]] = kaddr'[s]]
      /\ tree[m] # NoFile /\ s # 0
      /\ UNCHANGED <<rootNo, tree>>
  BY <1>3, <1>7 DEF WriteGrow
<1>10. /\ RootKept' /\ Exclusive'
       /\ OwnedInodes' = OwnedInodes
       /\ OwnedBlocks' \subseteq OwnedBlocks \cup {b}
  <2> DEFINE c == kaddr'[s]
  <2>1. /\ kaddr' = [kaddr EXCEPT ![s] = c]
        /\ inodes' = [inodes EXCEPT ![tree[m]] = c]
        /\ BlocksOf(c) \subseteq BlocksOf(inodes[tree[m]]) \cup {b}
    BY <1>8, <1>9
  <2> HIDE DEF c
  <2>2. RootKept /\ Exclusive
    BY <1>1, UpGood
  <2> QED
    BY <1>1, <1>5, <1>9, <2>1, <2>2, StoredAgain
<1> QED
  BY <1>1, <1>5, <1>10, UpGoodNext

\* A new name with a new index node, of which at most one new block is in use,
\* joins the others; the name was free or gets its number a second time.
LEMMA NewHolder ==
  ASSUME TypeOK, Exclusive, RootKept, phase' = "up",
         NEW m, NEW n \in Inos, n \notin OwnedInodes, NEW a,
         inodes' = [inodes EXCEPT ![n] = a],
         tree' = [tree EXCEPT ![m] = n],
         rootNo' = rootNo, kaddr'[0] = kaddr[0],
         BlocksOf(a) \cap OwnedBlocks = {}
  PROVE  /\ RootKept' /\ Exclusive'
         /\ OwnedInodes' \subseteq OwnedInodes \cup {n}
         /\ OwnedBlocks' \subseteq OwnedBlocks \cup BlocksOf(a)
<1>1. /\ OwnedInodes \subseteq Inos
      /\ {0, rootNo} \subseteq OwnedInodes
      /\ n # NoFile
      /\ \A k \in Names : tree[k] # NoFile => tree[k] \in OwnedInodes
  BY ZeroOK DEF TypeOK, Trees, OwnedInodes, Present, Inos, Bits
<1>2. inodes'[n] = a /\ \A i \in Inos \ {n} : inodes'[i] = inodes[i]
  BY DEF TypeOK
<1>3. \A k \in Names : \/ tree'[k] = tree[k]
                       \/ k = m /\ tree'[k] = n
  BY DEF TypeOK, Trees
<1>4. OwnedInodes' \subseteq OwnedInodes \cup {n}
  BY <1>1, <1>3 DEF OwnedInodes, Present
<1>5. RootKept'
  BY <1>1, <1>2 DEF RootKept
<1>6. \A i \in OwnedInodes : BlocksOf(inodes[i]) \subseteq OwnedBlocks
  BY DEF OwnedBlocks
<1>7. \A i \in OwnedInodes' : \/ i = n /\ BlocksOf(inodes'[i]) = BlocksOf(a)
                              \/ /\ i \in OwnedInodes
                                 /\ BlocksOf(inodes'[i]) = BlocksOf(inodes[i])
  BY <1>1, <1>2, <1>4
<1>8. OwnedBlocks' \subseteq OwnedBlocks \cup BlocksOf(a)
  BY <1>6, <1>7 DEF OwnedBlocks
<1>9. Exclusive'
  <2>1. InFlight("inode")' = {} /\ InFlight("block")' = {}
    BY DEF InFlight
  <2>2. ASSUME NEW k \in Present(tree')
        PROVE  /\ tree'[k] \notin {0, rootNo'}
               /\ \A j \in Present(tree') \ {k} : tree'[j] # tree'[k]
    BY <1>1, <1>3 DEF Exclusive, Present
  <2>3. \A i, j \in OwnedInodes' :
          i # j => BlocksOf(inodes'[i]) \cap BlocksOf(inodes'[j]) = {}
    BY <1>6, <1>7 DEF Exclusive
  <2> QED
    BY <2>1, <2>2, <2>3 DEF Exclusive
<1> QED
  BY <1>4, <1>5, <1>8, <1>9

LEMMA CreateGood ==
  ASSUME TypeOK, SoundIsGood, NEW m \in Names, NEW s \in Slots, Create(m, s), sound'
  PROVE  Good'
<1>1. Good /\ phase = "up" /\ phase' = "up"
  BY DEF SoundIsGood, Create
<1>2. PICK n \in Offered(pool, "inode") :
        \E b \in Offered(Take(pool, "inode", n), "block") :
          /\ pool' = Take(Take(pool, "inode", n), "block", b)
          /\ kaddr' = [kaddr EXCEPT ![s][0] = b]
          /\ inodes' = [inodes EXCEPT ![n] = kaddr'[s]]
          /\ tree' = [tree EXCEPT ![m] = n]
          /\ ~Exhausted(pool, "inode")
          /\ ~Exhausted(Take(pool, "inode", n), "block")
  BY DEF Create
<1> DEFINE p == Take(pool, "inode", n)
<1>3. PICK b \in Offered(p, "block") :
          /\ pool' = Take(p, "block", b)
          /\ kaddr' = [kaddr EXCEPT ![s][0] = b]
          /\ inodes' = [inodes EXCEPT ![n] = kaddr'[s]]
          /\ tree' = [tree EXCEPT ![m] = n]
          /\ ~Exhausted(pool, "inode")
          /\ ~Exhausted(p, "block")
  BY <1>2
<1>4. /\ ~Leftover(kaddr[s])
      /\ s # 0 /\ rootNo' = rootNo
  BY DEF Create
<1>5. PoolOK(pool) /\ n \in Inos /\ b \in Bits("block")
  BY <1>3, TakeTwoOK DEF TypeOK
<1>6. /\ n \notin OwnedInodes
      /\ PoolOK(p)
      /\ Accounts(p, "inode", OwnedInodes \cup {n})
      /\ Accounts(p, "block", OwnedBlocks)
  BY <1>1, <1>3, <1>5, UpGood, KindsAre, TakeAccounts, TakeOther
<1> HIDE DEF p
<1>7. /\ b \notin OwnedBlocks
      /\ Accounts(pool', "block", OwnedBlocks \cup {b})
      /\ Accounts(pool', "inode", OwnedInodes \cup {n})
  BY <1>3, <1>6, KindsAre, TakeAccounts, TakeOther
<1>8. kaddr'[s] = [kaddr[s] EXCEPT ![0] = b] /\ kaddr'[0] = kaddr[0]
  BY <1>3, <1>4 DEF TypeOK
<1>9. kaddr[s] \in Addrs
  BY DEF TypeOK
<1>10. BlocksOf(kaddr'[s]) \subseteq {b}
  BY <1>4, <1>5, <1>8, <1>9, OneBlock
<1>11. /\ RootKept' /\ Exclusive'
       /\ OwnedInodes' \subseteq OwnedInodes \cup {n}
       /\ OwnedBlocks' \subseteq OwnedBlocks \cup {b}
  <2> DEFINE c == kaddr'[s]
  <2>1. inodes' = [inodes EXCEPT ![n] = c] /\ tree' = [tree EXCEPT ![m] = n]
    BY <1>3
  <2>2. BlocksOf(c) \subseteq {b}
    BY <1>10
  <2> HIDE DEF c
  <2>3. RootKept /\ Exclusive
    BY <1>1, UpGood
  <2>4. /\ RootKept' /\ Exclusive'
        /\ OwnedInodes' \subseteq OwnedInodes \cup {n}
        /\ OwnedBlocks' \subseteq OwnedBlocks \cup BlocksOf(c)
    <3>1. BlocksOf(c) \cap OwnedBlocks = {}
      BY <1>7, <2>2
    <3> QED
      BY <1>1, <1>4, <1>5, <1>6, <1>8, <2>1, <2>3, <3>1, NewHolder
  <2> QED
    BY <2>2, <2>4
<1> QED
  BY <1>1, <1>7, <1>11, UpGoodNext

\* Writing inside a file changes no number, only what its kinode slot holds.
LEMMA OverwriteGood ==
  ASSUME TypeOK, SoundIsGood, NEW m \in Names, NEW s \in Slots, Overwrite(m, s), sound'
  PROVE  Good'
<1>1. /\ Good /\ phase = "up" /\ s # 0
      /\ pool' = pool /\ inodes' = inodes /\ rootNo' = rootNo /\ tree' = tree
      /\ phase' = phase /\ kaddr'[0] = kaddr[0]
  BY SlotsAssumption DEF SoundIsGood, Overwrite, TypeOK
<1>2. OwnedInodes' = OwnedInodes /\ OwnedBlocks' = OwnedBlocks
  BY <1>1 DEF OwnedInodes, OwnedBlocks, Present
<1>3. \A r : InFlight(r) = {} /\ InFlight(r)' = {}
  BY <1>1 DEF InFlight
<1>4. \A r : Owned(r)' = Owned(r)
  BY <1>2, <1>3 DEF Owned
<1>5. Exclusive'
  BY <1>1, <1>2, <1>3 DEF Good, Exclusive, Present
<1> QED
  BY <1>1, <1>4, <1>5 DEF Good, RootKept, Accounts, Spent

LEMMA RemoveGood ==
  ASSUME TypeOK, SoundIsGood, NEW m \in Names, Remove(m), sound'
  PROVE  Good'
<1> DEFINE n == tree[m]
           a == inodes[n]
           B == FileBlocks(a)
           c == Cardinality(Used(a))
           p == Free(pool, "block", B, c)
<1>1. Good /\ phase = "up" /\ phase' = "up"
  BY DEF SoundIsGood, Remove
<1>2. RootKept /\ Exclusive
  BY <1>1, UpGood
<1>3. /\ n # NoFile
      /\ pool' = Free(p, "inode", {n}, 1)
      /\ inodes' = [inodes EXCEPT ![n] = ZeroAddr]
      /\ tree' = [tree EXCEPT ![m] = NoFile]
      /\ rootNo' = rootNo /\ kaddr' = kaddr
  BY DEF Remove
<1>4. n \in Inos /\ a \in Addrs
  BY <1>3 DEF TypeOK, Trees
<1>5. Used(a) \subseteq 0 .. MaxAddr - 1 /\ c \in Int
  <2>1. Used(a) \subseteq 0 .. MaxAddr - 1
    BY <1>4 DEF Used, Addrs
  <2>2. IsFiniteSet(0 .. MaxAddr - 1)
    BY FS_Interval
  <2> QED
    BY <2>1, <2>2, FS_Subset, FS_CardinalityType
<1>6. B \subseteq BlocksOf(a)
  BY <1>4, <1>5 DEF BlocksOf, FileBlocks, Used, Addrs
<1>7. PoolOK(pool) /\ PoolOK(p)
  BY <1>5, KindsAre, FreeOK DEF TypeOK
<1>8. Accounts(p, "block", OwnedBlocks \ B) /\ Accounts(p, "inode", OwnedInodes)
  BY <1>1, <1>5, <1>7, UpGood, KindsAre, FreeAccounts, FreeOther
<1> HIDE DEF p, c, B
<1>9. Accounts(pool', "block", OwnedBlocks \ B) /\ Accounts(pool', "inode", OwnedInodes \ {n})
  BY <1>3, <1>7, <1>8, KindsAre, FreeAccounts, FreeOther
<1>10. /\ m \in Present(tree)
       /\ Present(tree') = Present(tree) \ {m}
       /\ \A k \in Present(tree') : tree'[k] = tree[k]
  BY <1>3 DEF Present, TypeOK, Trees
<1>11. OwnedInodes' = OwnedInodes \ {n} /\ n \in OwnedInodes /\ n \notin {0, rootNo}
  <2>1. n \in OwnedInodes /\ n \notin {0, rootNo}
    BY <1>2, <1>10 DEF OwnedInodes, Exclusive
  <2>2. \A k \in Present(tree') : tree'[k] # n
    BY <1>2, <1>10 DEF Exclusive
  <2>3. OwnedInodes' = {0, rootNo} \cup {tree[k] : k \in Present(tree')}
    BY <1>3, <1>10 DEF OwnedInodes
  <2>4. \A k \in Present(tree) : k \in Present(tree') \/ tree[k] = n
    BY <1>10
  <2> HIDE DEF n
  <2> QED
    BY <1>10, <2>1, <2>2, <2>3, <2>4 DEF OwnedInodes
<1>12. OwnedInodes \subseteq Inos
  BY ZeroOK DEF OwnedInodes, TypeOK, Trees, Present
<1>13. \A i \in OwnedInodes' : inodes'[i] = inodes[i]
  BY <1>3, <1>11, <1>12 DEF TypeOK
<1> HIDE DEF n
<1>14. 0 \in OwnedInodes' /\ rootNo \in OwnedInodes'
  BY <1>3 DEF OwnedInodes
<1>15. RootKept'
  BY <1>2, <1>3, <1>13, <1>14 DEF RootKept
<1>16. OwnedBlocks' \subseteq OwnedBlocks \ B
  <2>1. \A i \in OwnedInodes' : BlocksOf(inodes[i]) \cap B = {}
    BY <1>2, <1>6, <1>11 DEF Exclusive
  <2>2. 0 \notin B
    BY <1>6 DEF BlocksOf
  <2> QED
    BY <1>11, <1>13, <2>1, <2>2 DEF OwnedBlocks
<1>17. Exclusive'
  <2>1. InFlight("inode")' = {} /\ InFlight("block")' = {}
    BY <1>1 DEF InFlight
  <2>2. \A k \in Present(tree') :
          /\ tree'[k] \notin {0, rootNo'}
          /\ \A j \in Present(tree') \ {k} : tree'[j] # tree'[k]
    <3>1. \A k \in Present(tree) :
            /\ tree[k] \notin {0, rootNo}
            /\ \A j \in Present(tree) \ {k} : tree[j] # tree[k]
      BY <1>2 DEF Exclusive
    <3>2. rootNo' = rootNo
      BY <1>3
    <3> QED
      BY <1>10, <3>1, <3>2
  <2>3. \A i, j \in OwnedInodes' :
          i # j => BlocksOf(inodes'[i]) \cap BlocksOf(inodes'[j]) = {}
    BY <1>2, <1>11, <1>13 DEF Exclusive
  <2> QED
    BY <2>1, <2>2, <2>3 DEF Exclusive
<1> QED
  BY <1>1, <1>9, <1>11, <1>15, <1>16, <1>17, UpGoodNext

\* While a file is copied the new numbers are held by the copy.
LEMMA CopyGood ==
  ASSUME Good, phase = "copying"
  PROVE  /\ RootKept
         /\ Exclusive
         /\ cp.no \notin OwnedInodes
         /\ OwnedBlocks \cap BlocksOf(cp.addr) = {}
         /\ Accounts(pool, "inode", OwnedInodes \cup {cp.no})
         /\ Accounts(pool, "block", OwnedBlocks \cup BlocksOf(cp.addr))
<1>1. /\ InFlight("inode") = {cp.no}
      /\ InFlight("block") = BlocksOf(cp.addr)
  BY KindsAre DEF InFlight
<1>2. /\ Owned("inode") = OwnedInodes \cup {cp.no}
      /\ Owned("block") = OwnedBlocks \cup BlocksOf(cp.addr)
  BY <1>1, KindsAre DEF Owned
<1>3. Exclusive /\ OwnedInodes \cap InFlight("inode") = {}
                /\ OwnedBlocks \cap InFlight("block") = {}
  BY DEF Good, Exclusive
<1> QED
  BY <1>1, <1>2, <1>3, KindsAre DEF Good

\* ... and what has to be shown for a next state of a copy, in which the
\* holders of everything else have not changed.
LEMMA CopyGoodNext ==
  ASSUME RootKept, Exclusive, UNCHANGED <<inodes, kaddr, rootNo, tree>>,
         phase' = "copying",
         cp'.no \notin OwnedInodes,
         OwnedBlocks \cap BlocksOf(cp'.addr) = {},
         Accounts(pool', "inode", OwnedInodes \cup {cp'.no}),
         NEW B, BlocksOf(cp'.addr) \subseteq B,
         Accounts(pool', "block", OwnedBlocks \cup B)
  PROVE  Good'
<1>1. /\ InFlight("inode")' = {cp'.no}
      /\ InFlight("block")' = BlocksOf(cp'.addr)
  BY KindsAre DEF InFlight
<1>2. OwnedInodes' = OwnedInodes /\ OwnedBlocks' = OwnedBlocks /\ RootKept'
  BY DEF OwnedInodes, OwnedBlocks, RootKept
<1>3. Accounts(pool', "block", OwnedBlocks \cup BlocksOf(cp'.addr))
  BY AccountsSubset
<1>4. /\ Owned("inode")' = OwnedInodes \cup {cp'.no}
      /\ Owned("block")' = OwnedBlocks \cup BlocksOf(cp'.addr)
  BY <1>1, <1>2, KindsAre DEF Owned
<1>5. \A r \in Kinds : Accounts(pool', r, Owned(r)')
  BY <1>3, <1>4, KindsAre
<1>6. Exclusive'
  <2>1. /\ \A k \in Present(tree') :
             /\ tree'[k] \notin {0, rootNo'}
             /\ \A n \in Present(tree') \ {k} : tree'[n] # tree'[k]
        /\ \A i, j \in OwnedInodes' :
             i # j => BlocksOf(inodes'[i]) \cap BlocksOf(inodes'[j]) = {}
    BY <1>2 DEF Exclusive
  <2> QED
    BY <1>1, <1>2, <2>1 DEF Exclusive
<1> QED
  BY <1>2, <1>5, <1>6 DEF Good

LEMMA CopyStartGood ==
  ASSUME TypeOK, SoundIsGood, NEW m \in Names, NEW d \in Names, CopyStart(m, d), sound'
  PROVE  Good'
<1>1. Good /\ phase = "up" /\ phase' = "copying" /\ ~Exhausted(pool, "inode")
  BY DEF SoundIsGood, CopyStart
<1>2. PICK n \in Offered(pool, "inode") :
        /\ pool' = Take(pool, "inode", n)
        /\ cp' = [name |-> d, src |-> tree[m], no |-> n, addr |-> ZeroAddr, at |-> 0]
  BY DEF CopyStart
<1>3. PoolOK(pool) /\ RootKept /\ Exclusive
  BY <1>1, UpGood DEF TypeOK
<1>4. /\ n \notin OwnedInodes
      /\ Accounts(pool', "inode", OwnedInodes \cup {n})
      /\ Accounts(pool', "block", OwnedBlocks)
  BY <1>1, <1>2, <1>3, UpGood, KindsAre, TakeAccounts, TakeOther
<1>5. cp'.no = n /\ BlocksOf(cp'.addr) = {}
  BY <1>2, NoBlocks
<1>6. OwnedBlocks \cup {} = OwnedBlocks
  OBVIOUS
<1>7. UNCHANGED <<inodes, kaddr, rootNo, tree>>
  BY DEF CopyStart
<1> QED
  BY <1>1, <1>3, <1>4, <1>5, <1>6, <1>7, CopyGoodNext

LEMMA CopyBlockGood ==
  ASSUME TypeOK, SoundIsGood, CopyBlock, sound'
  PROVE  Good'
<1>1. Good /\ phase = "copying" /\ phase' = "copying" /\ ~Exhausted(pool, "block")
  BY DEF SoundIsGood, CopyBlock
<1>2. PICK b \in Offered(pool, "block") :
        /\ pool' = Take(pool, "block", b)
        /\ cp' = [cp EXCEPT !.addr[cp.at] = b, !.at = @ + 1]
  BY DEF CopyBlock
<1>3. PoolOK(pool) /\ b \in Bits("block")
  BY KindsAre, TakeOK DEF TypeOK
<1> DEFINE S == OwnedBlocks \cup BlocksOf(cp.addr)
<1>4. /\ Accounts(pool, "block", S)
      /\ Accounts(pool, "inode", OwnedInodes \cup {cp.no})
      /\ cp.no \notin OwnedInodes
      /\ OwnedBlocks \cap BlocksOf(cp.addr) = {}
      /\ RootKept /\ Exclusive
  BY <1>1, CopyGood
<1>5. /\ b \notin S
      /\ Accounts(pool', "block", S \cup {b})
      /\ Accounts(pool', "inode", OwnedInodes \cup {cp.no})
  <2> HIDE DEF S
  <2> QED
    BY <1>1, <1>2, <1>3, <1>4, KindsAre, TakeAccounts, TakeOther
<1>6. cp.at \in 0 .. MaxAddr - 1 /\ cp.addr \in Addrs
  BY DEF CopyBlock, Used, TypeOK, Addrs
<1>7. cp'.no = cp.no /\ cp'.addr = [cp.addr EXCEPT ![cp.at] = b]
  BY <1>2 DEF TypeOK
<1>8. BlocksOf(cp'.addr) \subseteq BlocksOf(cp.addr) \cup {b}
  BY <1>3, <1>6, <1>7, BlocksUpdate
<1>9. /\ OwnedBlocks \cap BlocksOf(cp'.addr) = {}
      /\ Accounts(pool', "block", OwnedBlocks \cup (BlocksOf(cp.addr) \cup {b}))
  <2>1. S \cup {b} = OwnedBlocks \cup (BlocksOf(cp.addr) \cup {b})
    OBVIOUS
  <2> QED
    BY <1>4, <1>5, <1>8, <2>1
<1>10. UNCHANGED <<inodes, kaddr, rootNo, tree>>
  BY DEF CopyBlock
<1> HIDE DEF S
<1> QED
  BY <1>1, <1>4, <1>5, <1>7, <1>8, <1>9, <1>10, CopyGoodNext

LEMMA CopyEndGood ==
  ASSUME TypeOK, SoundIsGood, CopyEnd, sound'
  PROVE  Good'
<1>1. Good /\ phase = "copying" /\ phase' = "up"
  BY DEF SoundIsGood, CopyEnd
<1>2. /\ cp.no \notin OwnedInodes
      /\ OwnedBlocks \cap BlocksOf(cp.addr) = {}
      /\ Accounts(pool, "inode", OwnedInodes \cup {cp.no})
      /\ Accounts(pool, "block", OwnedBlocks \cup BlocksOf(cp.addr))
      /\ RootKept /\ Exclusive
  BY <1>1, CopyGood
<1>3. /\ cp.no \in Inos
      /\ inodes' = [inodes EXCEPT ![cp.no] = cp.addr]
      /\ tree' = [tree EXCEPT ![cp.name] = cp.no]
      /\ rootNo' = rootNo /\ kaddr'[0] = kaddr[0]
      /\ pool' = pool
      /\ BlocksOf(cp.addr) \cap OwnedBlocks = {}
  BY <1>2 DEF CopyEnd, TypeOK
<1>4. /\ RootKept' /\ Exclusive'
      /\ OwnedInodes' \subseteq OwnedInodes \cup {cp.no}
      /\ OwnedBlocks' \subseteq OwnedBlocks \cup BlocksOf(cp.addr)
  BY <1>1, <1>2, <1>3, NewHolder
<1> QED
  BY <1>1, <1>2, <1>3, <1>4, UpGoodNext

----------------------------------------------------------------------------
(* The end of a session.                                                   *)

\* The numbers handed out are at the front of their list, so taking off as many
\* as were handed out takes off all of them.
LEMMA SpentIsPopped ==
  ASSUME TypeOK, NEW r \in Kinds, NEW S, Accounts(pool, r, S),
         Usage(r) = Cardinality(Consumed(r))
  PROVE  Consumed(r) \subseteq First(Usage(r), pool[r].idle)
<1> DEFINE C == Consumed(r)
<1>1. C \subseteq pool[r].idle /\ pool[r].idle \subseteq Bits(r)
  BY DEF Consumed, Spent, TypeOK, PoolOK
<1>2. C \in SUBSET Bits(r)
  BY <1>1
<1>3. IsFiniteSet(C) /\ Cardinality(C) \in Nat
  BY <1>2, BitsFinite
<1>4. \A x \in C, y \in pool[r].idle \ C : x < y
  BY DEF Accounts, Consumed, Spent
<1>5. Bits(r) \subseteq Nat
  BY ZeroBit
<1> HIDE DEF C
<1>6. ASSUME NEW x \in C
      PROVE  Cardinality({y \in pool[r].idle : y < x}) < Cardinality(C)
  <2>1. {y \in pool[r].idle : y < x} \subseteq C \ {x}
    BY <1>1, <1>4, <1>5
  <2>2. IsFiniteSet(C \ {x}) /\ Cardinality(C \ {x}) = Cardinality(C) - 1
    BY <1>3, FS_RemoveElement
  <2>3. /\ Cardinality({y \in pool[r].idle : y < x}) \in Nat
        /\ Cardinality({y \in pool[r].idle : y < x}) <= Cardinality(C \ {x})
    BY <2>1, <2>2, FS_Subset, FS_CardinalityType
  <2> QED
    BY <1>3, <2>2, <2>3
<1> QED
  BY <1>1, <1>6 DEF First, C

LEMMA SyncRecorded ==
  ASSUME TypeOK, SoundIsGood, Sync, sound'
  PROVE  /\ Exclusive'
         /\ \A r \in Kinds : /\ Owned(r)' \subseteq pool'[r].map
                             /\ pool'[r].idle \cap pool'[r].map = {}
<1>1. Good /\ phase = "up" /\ phase' = "synced" /\ CountsAgree
  BY DEF SoundIsGood, Sync
<1>2. /\ RootKept /\ Exclusive
      /\ Accounts(pool, "inode", OwnedInodes)
      /\ Accounts(pool, "block", OwnedBlocks)
  BY <1>1, UpGood
<1>3. inodes' = inodes
  BY <1>2 DEF Sync, RootKept, TypeOK
<1>4. rootNo' = rootNo /\ tree' = tree /\ pool' = SyncedPool
  BY DEF Sync
<1>5. OwnedInodes' = OwnedInodes /\ OwnedBlocks' = OwnedBlocks
  BY <1>3, <1>4 DEF OwnedInodes, OwnedBlocks
<1>6. InFlight("inode")' = {} /\ InFlight("block")' = {}
  BY <1>1 DEF InFlight
<1>7. Owned("inode")' = OwnedInodes /\ Owned("block")' = OwnedBlocks
  BY <1>5, <1>6, KindsAre DEF Owned
<1>8. Exclusive'
  BY <1>2, <1>3, <1>4, <1>5, <1>6 DEF Exclusive
<1>9. ASSUME NEW r \in Kinds, NEW S, Accounts(pool, r, S)
      PROVE  /\ S \subseteq pool'[r].map
             /\ pool'[r].idle \cap pool'[r].map = {}
  <2> DEFINE popped == First(Usage(r), pool[r].idle)
  <2>1. Consumed(r) \subseteq popped
    BY <1>1, <1>9, SpentIsPopped DEF CountsAgree
  <2>2. /\ pool'[r].map = pool[r].map \cup popped
        /\ pool'[r].idle = pool[r].idle \ popped
    BY <1>4, SyncedShape DEF TypeOK
  <2> HIDE DEF popped
  <2> QED
    BY <1>9, <2>1, <2>2 DEF Accounts, Consumed
<1> QED
  BY <1>2, <1>7, <1>8, <1>9, KindsAre

----------------------------------------------------------------------------
Inv == TypeOK /\ SoundIsGood /\ SoundIsRecorded

LEMMA StartSound ==
  ASSUME sound' = Good', phase' = "up"
  PROVE  SoundIsGood' /\ SoundIsRecorded'
BY DEF SoundIsGood, SoundIsRecorded

\* A step after syn_sblk that takes nothing and changes no holder.
LEMMA SettledSound ==
  ASSUME SoundIsRecorded, phase \in {"synced", "treed"},
         phase' \in {"synced", "treed"},
         UNCHANGED <<pool, inodes, rootNo, tree, sound>>
  PROVE  SoundIsGood' /\ SoundIsRecorded'
<1>1. OwnedInodes' = OwnedInodes /\ OwnedBlocks' = OwnedBlocks
  BY DEF OwnedInodes, OwnedBlocks
<1>2. \A r : InFlight(r)' = {} /\ InFlight(r) = {}
  BY DEF InFlight
<1>3. \A r : Owned(r)' = Owned(r)
  BY <1>1, <1>2 DEF Owned
<1>4. Exclusive => Exclusive'
  BY <1>1, <1>2 DEF Exclusive
<1> QED
  BY <1>3, <1>4 DEF SoundIsGood, SoundIsRecorded

LEMMA NextInv == Inv /\ [Next]_vars => Inv'
<1> SUFFICES ASSUME Inv, [Next]_vars PROVE Inv'
  OBVIOUS
<1>1. TypeOK /\ SoundIsGood /\ SoundIsRecorded /\ TypeOK'
  BY NextType DEF Inv
<1> SUFFICES SoundIsGood' /\ SoundIsRecorded'
  BY <1>1 DEF Inv
<1>2. CASE BootFirst \/ BootAgain
  BY <1>2, StartSound DEF BootFirst, BootAgain, Boot
<1>3. CASE \E m \in Names, s \in Slots : Create(m, s)
  <2>1. sound' => Good'
    BY <1>1, <1>3, CreateGood
  <2>2. phase' = "up"
    BY <1>3 DEF Create
  <2> QED
    BY <2>1, <2>2 DEF SoundIsGood, SoundIsRecorded
<1>4. CASE \E m \in Names, s \in Slots : Extend(m, s)
  <2>1. sound' => Good'
    BY <1>1, <1>4, ExtendGood
  <2>2. phase' = "up"
    BY <1>4 DEF Extend
  <2> QED
    BY <2>1, <2>2 DEF SoundIsGood, SoundIsRecorded
<1>5. CASE \E m \in Names, s \in Slots : WriteGrow(m, s)
  <2>1. sound' => Good'
    BY <1>1, <1>5, WriteGrowGood
  <2>2. phase' = "up"
    BY <1>5 DEF WriteGrow
  <2> QED
    BY <2>1, <2>2 DEF SoundIsGood, SoundIsRecorded
<1>16. CASE \E m \in Names, s \in Slots : Overwrite(m, s)
  <2>1. sound' => Good'
    BY <1>1, <1>16, OverwriteGood
  <2>2. phase' = "up"
    BY <1>16 DEF Overwrite
  <2> QED
    BY <2>1, <2>2 DEF SoundIsGood, SoundIsRecorded
<1>6. CASE \E m \in Names : Remove(m)
  <2>1. sound' => Good'
    BY <1>1, <1>6, RemoveGood
  <2>2. phase' = "up"
    BY <1>6 DEF Remove
  <2> QED
    BY <2>1, <2>2 DEF SoundIsGood, SoundIsRecorded
<1>7. CASE \E m, d \in Names : CopyStart(m, d)
  <2>1. sound' => Good'
    BY <1>1, <1>7, CopyStartGood
  <2>2. phase' = "copying"
    BY <1>7 DEF CopyStart
  <2> QED
    BY <2>1, <2>2 DEF SoundIsGood, SoundIsRecorded
<1>8. CASE CopyBlock
  <2>1. sound' => Good'
    BY <1>1, <1>8, CopyBlockGood
  <2>2. phase' = "copying"
    BY <1>8 DEF CopyBlock
  <2> QED
    BY <2>1, <2>2 DEF SoundIsGood, SoundIsRecorded
<1>9. CASE CopyEnd
  <2>1. sound' => Good'
    BY <1>1, <1>9, CopyEndGood
  <2>2. phase' = "up"
    BY <1>9 DEF CopyEnd
  <2> QED
    BY <2>1, <2>2 DEF SoundIsGood, SoundIsRecorded
<1>10. CASE LogicFormat \/ BottomFormat
  BY <1>10, StartSound DEF LogicFormat, BottomFormat, Reformat
<1>11. CASE Sync
  <2>1. sound' => /\ Exclusive'
                  /\ \A r \in Kinds : /\ Owned(r)' \subseteq pool'[r].map
                                      /\ pool'[r].idle \cap pool'[r].map = {}
    BY <1>1, <1>11, SyncRecorded
  <2>2. phase' = "synced"
    BY <1>11 DEF Sync
  <2> QED
    BY <2>1, <2>2 DEF SoundIsGood, SoundIsRecorded
<1>12. CASE GrowRoot
  BY <1>12 DEF GrowRoot, SoundIsGood, SoundIsRecorded
<1>13. CASE WriteTree
  BY <1>1, <1>13, SettledSound DEF WriteTree
<1>14. CASE CopyFails \/ SyncAborts \/ Persist \/ Crash
  BY <1>14 DEF CopyFails, SyncAborts, Persist, Crash, Gone, SoundIsGood, SoundIsRecorded
<1>15. CASE UNCHANGED vars
  <2>1. OwnedInodes' = OwnedInodes /\ OwnedBlocks' = OwnedBlocks
    BY <1>15 DEF OwnedInodes, OwnedBlocks, vars
  <2>2. \A r : InFlight(r)' = InFlight(r)
    BY <1>15 DEF InFlight, vars
  <2>3. \A r : Owned(r)' = Owned(r)
    BY <2>1, <2>2 DEF Owned
  <2>4. Exclusive' = Exclusive
    BY <1>15, <2>1, <2>2 DEF Exclusive, vars
  <2>5. Good' = Good
    BY <1>15, <2>3, <2>4 DEF Good, RootKept, vars
  <2> QED
    BY <1>1, <1>15, <2>3, <2>4, <2>5 DEF SoundIsGood, SoundIsRecorded, vars
<1> QED
  BY <1>2, <1>3, <1>4, <1>5, <1>6, <1>7, <1>8, <1>9, <1>10, <1>11,
     <1>12, <1>13, <1>14, <1>15, <1>16 DEF Next

LEMMA InitInv == Init => Inv
BY InitTypeOK DEF Init, Inv, SoundIsGood, SoundIsRecorded

\* As long as the session is sound, no index node and no block has two holders
\* and the lists account for every number in use (get_a_idleblock,
\* get_a_idleinode, update_sblk, rm_file, init_copy_dir).
THEOREM SoundGood == Spec => []SoundIsGood
<1>1. Inv => SoundIsGood
  BY DEF Inv
<1> QED
  BY <1>1, InitInv, NextInv, PTL DEF Spec

\* ... and what syn_sblk leaves for the device marks every number in use.
THEOREM SoundRecorded == Spec => []SoundIsRecorded
<1>1. Inv => SoundIsRecorded
  BY DEF Inv
<1> QED
  BY <1>1, InitInv, NextInv, PTL DEF Spec

----------------------------------------------------------------------------
(* The start from a device that a sound session has written.               *)

\* The holders of index nodes and blocks, as the device tells them.
DiskInodes == {0} \cup {disk.tree[m] : m \in Present(disk.tree)}
DiskBlocks == {0} \cup UNION {BlocksOf(disk.inodes[i]) : i \in DiskInodes}

DiskExclusive ==
  /\ \A m \in Present(disk.tree) :
       /\ disk.tree[m] # 0
       /\ \A n \in Present(disk.tree) \ {m} : disk.tree[n] # disk.tree[m]
  /\ \A i, j \in DiskInodes :
       i # j => BlocksOf(disk.inodes[i]) \cap BlocksOf(disk.inodes[j]) = {}

DiskHolders(r) == IF r = "inode" THEN DiskInodes ELSE DiskBlocks

\* Every number in use is marked, 0 with them, and the lists have something to
\* start with, so neither the kernel nor init_old_fs mistakes a 0 for their end.
\* The root directory's blocks hold its entries.
DiskSound ==
  /\ disk.formatted
  /\ ~disk.torn
  /\ DiskExclusive
  /\ \A r \in Kinds : /\ DiskHolders(r) \subseteq disk.map[r]
                      /\ disk.wait[r] # {}
                      /\ disk.wait[r] \cap disk.map[r] = {}

CleanInv ==
  /\ Inv
  /\ clean => DiskSound
  /\ phase = "treed" => disk.tree \in Kept(tree)

\* A directory read back names a part of what was written.
LEMMA KeptIs ==
  ASSUME NEW t \in Trees, NEW u \in Kept(t)
  PROVE  /\ Present(u) \subseteq Present(t)
         /\ \A m \in Present(u) : u[m] = t[m]
BY DEF Kept, Present, Trees

\* del_Dtree, write_to_dev: what was recorded in memory is recorded on the device.
LEMMA PersistSound ==
  ASSUME CleanInv, Persist, clean'
  PROVE  DiskSound'
<1>1. /\ TypeOK /\ phase = "treed" /\ sound /\ ~disk.torn
      /\ \A r \in Kinds : pool[r].idle # {}
      /\ disk.tree \in Kept(tree)
  BY DEF CleanInv, Inv, Persist
<1>2. /\ Exclusive
      /\ \A r \in Kinds : /\ Owned(r) \subseteq pool[r].map
                          /\ pool[r].idle \cap pool[r].map = {}
  BY <1>1 DEF CleanInv, Inv, SoundIsRecorded
<1>3. /\ disk'.formatted /\ disk'.tree = disk.tree /\ disk'.inodes = inodes
      /\ disk'.torn = disk.torn
      /\ \A r \in Kinds : disk'.map[r] = pool[r].map /\ disk'.wait[r] = pool[r].idle
  BY DEF Persist
<1>4. /\ Present(disk.tree) \subseteq Present(tree)
      /\ \A m \in Present(disk.tree) : disk.tree[m] = tree[m]
  BY <1>1, KeptIs DEF TypeOK
<1>5. DiskInodes' \subseteq OwnedInodes
  BY <1>3, <1>4 DEF DiskInodes, OwnedInodes
<1>6. DiskBlocks' \subseteq OwnedBlocks
  BY <1>3, <1>5 DEF DiskBlocks, OwnedBlocks
<1>7. DiskExclusive'
  <2>1. \A m \in Present(disk.tree) :
          /\ disk.tree[m] # 0
          /\ \A n \in Present(disk.tree) \ {m} : disk.tree[n] # disk.tree[m]
    BY <1>2, <1>4 DEF Exclusive
  <2>2. \A i, j \in DiskInodes' : i # j => BlocksOf(inodes[i]) \cap BlocksOf(inodes[j]) = {}
    BY <1>2, <1>5 DEF Exclusive
  <2> QED
    BY <1>3, <2>1, <2>2 DEF DiskExclusive
<1>8. Owned("inode") = OwnedInodes /\ Owned("block") = OwnedBlocks
  BY <1>1, KindsAre DEF Owned, InFlight
<1>9. ASSUME NEW r \in Kinds
      PROVE  /\ DiskHolders(r)' \subseteq disk'.map[r]
             /\ disk'.wait[r] # {} /\ disk'.wait[r] \cap disk'.map[r] = {}
  BY <1>1, <1>2, <1>3, <1>5, <1>6, <1>8, KindsAre DEF DiskHolders
<1> QED
  BY <1>1, <1>3, <1>7, <1>9 DEF DiskSound

\* init_old_fs and mount read the lists as they were written.
LEMMA LoadedAccounts ==
  ASSUME TypeOK, DiskSound
  PROVE  /\ BootPool = LoadedPool /\ BootInodes = disk.inodes /\ PoolOK(BootPool)
         /\ \A r \in Kinds : /\ Accounts(BootPool, r, DiskHolders(r))
                             /\ BootPool[r].avail # {}
<1>1. BootPool = LoadedPool /\ BootInodes = disk.inodes /\ PoolOK(BootPool)
  BY BootPoolOK DEF TypeOK, DiskSound, BootPool, BootInodes
<1>2. ASSUME NEW r \in Kinds
      PROVE  Accounts(LoadedPool, r, DiskHolders(r)) /\ LoadedPool[r].avail # {}
  <2>1. 0 \in DiskHolders(r)
    BY DEF DiskHolders, DiskInodes, DiskBlocks
  <2>2. 0 \notin disk.wait[r] /\ disk.wait[r] # {}
    BY <2>1 DEF DiskSound
  <2>3. /\ LoadedPool[r].map = disk.map[r]
        /\ LoadedPool[r].idle = disk.wait[r] /\ LoadedPool[r].avail = disk.wait[r]
    BY <2>2 DEF LoadedPool, FsList, KernelList
  <2>4. Spent(LoadedPool, r) = {}
    BY <2>3 DEF Spent
  <2> QED
    BY <2>2, <2>3, <2>4 DEF Accounts, DiskSound
<1> QED
  BY <1>1, <1>2

\* What is owned after a start, if it is no more than what the device tells.
LEMMA BootExclusive ==
  ASSUME TypeOK, DiskSound, phase' = "up", rootNo' = 0,
         NEW t \in Kept(disk.tree), tree' = t,
         NEW a, inodes' = [disk.inodes EXCEPT ![0] = a],
         BlocksOf(a) \subseteq BlocksOf(disk.inodes[0]),
         kaddr'[0] = a
  PROVE  /\ RootKept' /\ Exclusive'
         /\ OwnedInodes' \subseteq DiskInodes /\ OwnedBlocks' \subseteq DiskBlocks
<1>1. disk.tree \in Trees /\ disk.inodes \in [Inos -> Addrs] /\ DiskExclusive /\ 0 \in Inos
  BY ZeroOK DEF TypeOK, DiskOK, DiskSound
<1>2. /\ Present(t) \subseteq Present(disk.tree)
      /\ \A m \in Present(t) : t[m] = disk.tree[m]
  BY <1>1, KeptIs
<1>3. OwnedInodes' \subseteq DiskInodes
  BY <1>2 DEF OwnedInodes, DiskInodes
<1>4. DiskInodes \subseteq Inos
  BY <1>1 DEF DiskInodes, Present, Trees
<1>5. \A i \in DiskInodes : BlocksOf(inodes'[i]) \subseteq BlocksOf(disk.inodes[i])
  BY <1>1, <1>4
<1>6. OwnedBlocks' \subseteq DiskBlocks
  BY <1>3, <1>5 DEF OwnedBlocks, DiskBlocks
<1>7. RootKept'
  BY <1>1 DEF RootKept
<1>8. Exclusive'
  <2>1. InFlight("inode")' = {} /\ InFlight("block")' = {}
    BY DEF InFlight
  <2>2. \A m \in Present(t) : /\ t[m] \notin {0, rootNo'}
                              /\ \A n \in Present(t) \ {m} : t[n] # t[m]
    BY <1>1, <1>2 DEF DiskExclusive
  <2>3. \A i, j \in OwnedInodes' : i # j => BlocksOf(inodes'[i]) \cap BlocksOf(inodes'[j]) = {}
    BY <1>1, <1>3, <1>5 DEF DiskExclusive
  <2> QED
    BY <2>1, <2>2, <2>3 DEF Exclusive
<1> QED
  BY <1>3, <1>6, <1>7, <1>8

LEMMA BootAgainGood ==
  ASSUME TypeOK, DiskSound, BootAgain
  PROVE  Good'
<1>1. /\ pool' = BootPool /\ inodes' = disk.inodes /\ rootNo' = 0 /\ phase' = "up"
      /\ kaddr'[0] = disk.inodes[0] /\ tree' \in Kept(disk.tree)
  BY LoadedAccounts, SlotsAssumption DEF BootAgain, Boot, Readable, DiskSound
<1>2. inodes' = [disk.inodes EXCEPT ![0] = disk.inodes[0]]
  BY <1>1 DEF TypeOK, DiskOK
<1>3. /\ RootKept' /\ Exclusive'
      /\ OwnedInodes' \subseteq DiskInodes /\ OwnedBlocks' \subseteq DiskBlocks
  <2> DEFINE t == tree'
             a == disk.inodes[0]
  <2>1. t \in Kept(disk.tree) /\ tree' = t
    BY <1>1
  <2>2. inodes' = [disk.inodes EXCEPT ![0] = a] /\ kaddr'[0] = a
        /\ BlocksOf(a) \subseteq BlocksOf(disk.inodes[0])
    BY <1>1, <1>2
  <2> HIDE DEF t, a
  <2> QED
    BY <1>1, <2>1, <2>2, BootExclusive
<1>4. Accounts(pool', "inode", DiskInodes) /\ Accounts(pool', "block", DiskBlocks)
  BY <1>1, LoadedAccounts, KindsAre DEF DiskHolders
<1> QED
  BY <1>1, <1>3, <1>4, UpGoodNext

LEMMA BootFirstGood ==
  ASSUME TypeOK, DiskSound, BootFirst
  PROVE  Good'
<1>1. /\ PoolOK(BootPool) /\ BootInodes = disk.inodes
      /\ Accounts(BootPool, "inode", DiskInodes) /\ Accounts(BootPool, "block", DiskBlocks)
      /\ BootPool["inode"].avail # {} /\ BootPool["block"].avail # {}
  BY LoadedAccounts, KindsAre DEF DiskHolders
<1>2. /\ phase' = "up" /\ tree' = NoTree
      /\ inodes' = [disk.inodes EXCEPT ![rootNo'] = kaddr'[0]]
  BY <1>1 DEF BootFirst, Boot
<1>3. /\ disk.tree \in Trees /\ disk.inodes \in [Inos -> Addrs] /\ 0 \in Inos
      /\ DiskInodes \subseteq Inos /\ DiskExclusive
  BY ZeroOK DEF TypeOK, DiskOK, DiskInodes, Present, Trees, DiskSound
<1>4. PICK n \in Offered(BootPool, "inode") :
        \E b \in Offered(Take(BootPool, "inode", n), "block") :
          IF RoomForNew(BootPool)
          THEN /\ pool' = Take(Take(BootPool, "inode", n), "block", b)
               /\ rootNo' = n
               /\ kaddr' = [[s \in Slots |-> ZeroAddr] EXCEPT ![0][0] = b]
          ELSE /\ pool' = BootPool
               /\ rootNo' = 0
               /\ kaddr' = [s \in Slots |-> ZeroAddr]
  BY DEF BootFirst
<1> DEFINE p == Take(BootPool, "inode", n)
<1>5. PICK b \in Offered(p, "block") :
          IF RoomForNew(BootPool)
          THEN /\ pool' = Take(p, "block", b)
               /\ rootNo' = n
               /\ kaddr' = [[s \in Slots |-> ZeroAddr] EXCEPT ![0][0] = b]
          ELSE /\ pool' = BootPool
               /\ rootNo' = 0
               /\ kaddr' = [s \in Slots |-> ZeroAddr]
  BY <1>4
<1>6. n \in Inos /\ b \in Bits("block")
  BY <1>1, TakeTwoOK
<1>7. /\ n \notin DiskInodes /\ PoolOK(p)
      /\ Accounts(p, "inode", DiskInodes \cup {n}) /\ Accounts(p, "block", DiskBlocks)
  BY <1>1, KindsAre, TakeAccounts, TakeOther DEF Exhausted
<1>8. p["block"].avail # {}
  BY <1>1, KindsAre, TakeShape, ReadyOther
<1> HIDE DEF p
<1>9. CASE RoomForNew(BootPool)
  <2>1. pool' = Take(p, "block", b) /\ rootNo' = n /\ kaddr'[0] = [ZeroAddr EXCEPT ![0] = b]
    BY <1>5, <1>9, SlotsAssumption
  <2>2. /\ b \notin DiskBlocks
        /\ Accounts(pool', "block", DiskBlocks \cup {b})
        /\ Accounts(pool', "inode", DiskInodes \cup {n})
    BY <1>7, <1>8, <2>1, KindsAre, TakeAccounts, TakeOther DEF Exhausted
  <2>3. BlocksOf(kaddr'[0]) \subseteq {b}
    BY <1>6, <2>1, ZeroOK, BlocksUpdate, NoBlocks, MaxAddrAssumption
  <2>4. OwnedInodes' = {0, n} /\ n # 0 /\ 0 \in DiskInodes /\ Present(tree') = {}
    BY <1>2, <1>7, <2>1 DEF OwnedInodes, Present, NoTree, DiskInodes
  <2>5. inodes'[n] = kaddr'[0] /\ inodes'[0] = disk.inodes[0]
    BY <1>2, <1>3, <1>6, <2>1, <2>4
  <2>6. BlocksOf(inodes'[0]) \subseteq DiskBlocks /\ 0 \in DiskBlocks
    BY <2>4, <2>5 DEF DiskBlocks
  <2>7. OwnedBlocks' \subseteq DiskBlocks \cup {b}
    BY <2>3, <2>4, <2>5, <2>6 DEF OwnedBlocks
  <2>8. RootKept'
    BY <2>1, <2>5 DEF RootKept
  <2>9. Exclusive'
    <3>1. InFlight("inode")' = {} /\ InFlight("block")' = {}
      BY <1>2 DEF InFlight
    <3>2. \A i, j \in OwnedInodes' :
            i # j => BlocksOf(inodes'[i]) \cap BlocksOf(inodes'[j]) = {}
      BY <2>2, <2>3, <2>4, <2>5, <2>6
    <3> QED
      BY <2>4, <3>1, <3>2 DEF Exclusive
  <2> QED
    BY <1>2, <2>2, <2>4, <2>7, <2>8, <2>9, UpGoodNext
<1>10. CASE ~RoomForNew(BootPool)
  <2>1. pool' = BootPool /\ rootNo' = 0 /\ kaddr'[0] = ZeroAddr
    BY <1>5, <1>10, SlotsAssumption
  <2>2. NoTree \in Kept(disk.tree)
    <3> DEFINE part(K) == [m \in Names |-> IF m \in K THEN disk.tree[m] ELSE NoFile]
    <3>1. NoTree = part({})
      BY DEF NoTree
    <3>2. Kept(disk.tree) = {part(K) : K \in SUBSET Present(disk.tree)}
      BY DEF Kept
    <3> HIDE DEF part
    <3> QED
      BY <3>1, <3>2
  <2>3. /\ RootKept' /\ Exclusive'
        /\ OwnedInodes' \subseteq DiskInodes /\ OwnedBlocks' \subseteq DiskBlocks
    BY <1>2, <2>1, <2>2, NoBlocks, BootExclusive
  <2> QED
    BY <1>1, <1>2, <2>1, <2>3, UpGoodNext
<1> QED
  BY <1>9, <1>10

LEMMA DiskKept == disk' = disk /\ DiskSound => DiskSound'
BY DEF DiskSound, DiskExclusive, DiskInodes, DiskBlocks, DiskHolders

\* A command that leaves the device clean has not touched the root directory's blocks.
LEMMA ScribbleKeeps ==
  ASSUME TypeOK, NEW B, Scribble(B), clean'
  PROVE  clean /\ disk' = disk
<1>1. clean /\ ~Torn(B) /\ disk' = [disk EXCEPT !.torn = disk.torn \/ Torn(B)]
  BY DEF Scribble
<1>2. disk.torn \in BOOLEAN
  BY DEF TypeOK, DiskOK
<1>3. (disk.torn \/ Torn(B)) = disk.torn
  BY <1>1, <1>2
<1>4. disk = [disk EXCEPT !.torn = disk.torn]
  BY DEF TypeOK, DiskOK
<1> QED
  BY <1>1, <1>3, <1>4

LEMMA CleanNext == CleanInv /\ [Next]_vars => CleanInv'
<1> SUFFICES ASSUME CleanInv, [Next]_vars PROVE CleanInv'
  OBVIOUS
<1>1. Inv' /\ TypeOK
  BY NextInv DEF CleanInv, Inv
<1>2. CASE (clean' => clean /\ disk' = disk) /\ phase' # "treed"
  BY <1>1, <1>2, DiskKept DEF CleanInv
<1>3. CASE LogicFormat
  BY <1>1, <1>3 DEF LogicFormat, Reformat, CleanInv
<1>4. CASE WriteTree
  <2>1. disk'.tree \in Kept(tree) /\ tree' = tree /\ ~clean'
    BY <1>1, <1>4 DEF WriteTree, Written, TypeOK, DiskOK
  <2>2. disk'.tree \in Kept(tree')
    BY <2>1
  <2> QED
    BY <1>1, <2>1, <2>2 DEF CleanInv
<1>5. CASE Persist
  BY <1>1, <1>5, PersistSound DEF CleanInv, Persist, Gone
<1>6. CASE UNCHANGED vars
  <2>1. disk' = disk /\ clean' = clean /\ phase' = phase /\ tree' = tree
    BY <1>6 DEF vars
  <2>2. Kept(tree)' = Kept(tree)
    BY <2>1 DEF Kept, Present
  <2> QED
    BY <1>1, <2>1, <2>2, DiskKept DEF CleanInv
<1>7. CASE \/ BootFirst \/ BootAgain
           \/ \E m, d \in Names : CopyStart(m, d)
           \/ CopyEnd \/ CopyFails \/ Sync \/ SyncAborts \/ Crash
  <2>1. disk' = disk /\ clean' = clean /\ phase' # "treed"
    BY <1>7 DEF BootFirst, BootAgain, Boot, CopyStart, CopyEnd, CopyFails, Sync,
                SyncAborts, Crash, Gone
  <2> QED
    BY <1>2, <2>1
<1>8. CASE \/ \E m \in Names, s \in Slots :
                Create(m, s) \/ Extend(m, s) \/ WriteGrow(m, s) \/ Overwrite(m, s)
           \/ \E m \in Names : Remove(m)
           \/ CopyBlock \/ BottomFormat \/ GrowRoot
  <2>1. (\E B : Scribble(B)) /\ phase' # "treed"
    BY <1>8 DEF Create, Extend, WriteGrow, Overwrite, Remove, CopyBlock, BottomFormat,
                Reformat, GrowRoot
  <2> QED
    BY <1>1, <1>2, <2>1, ScribbleKeeps
<1> QED
  BY <1>3, <1>4, <1>5, <1>6, <1>7, <1>8 DEF Next

LEMMA CleanInit == Init => CleanInv
BY InitInv DEF Init, CleanInv

\* Only a start leads from "off" to "up".
LEMMA StartsSound ==
  ASSUME CleanInv, Next, clean, phase = "off", phase' = "up"
  PROVE  sound'
<1>1. TypeOK /\ DiskSound
  BY DEF CleanInv, Inv
<1>2. CASE BootFirst
  BY <1>1, <1>2, BootFirstGood DEF BootFirst
<1>3. CASE BootAgain
  BY <1>1, <1>3, BootAgainGood DEF BootAgain
<1>4. BootFirst \/ BootAgain
  BY DEF Next, Create, Extend, WriteGrow, Overwrite, Remove, CopyStart, CopyBlock, CopyEnd, CopyFails,
         LogicFormat, BottomFormat, Reformat, Sync, SyncAborts, GrowRoot, WriteTree,
         Persist, Crash, Gone
<1> QED
  BY <1>2, <1>3, <1>4

\* A device that a sound session has written in full, and whose root directory no
\* command wrote over since, starts a sound session again, whatever crashed in
\* between (init_old_fs, mount; my_write and get_a_idleblock write at once): block 0 and index node 0 are
\* marked, so no list on the device has a 0, where reading a list would stop.
THEOREM CleanSound == Spec => CleanMountsSound
<1>1. CleanInv /\ [Next]_vars => [clean /\ phase = "off" /\ phase' = "up" => sound']_vars
  BY StartsSound
<1> QED
  BY <1>1, CleanInit, CleanNext, PTL DEF Spec, CleanMountsSound
=============================================================================
