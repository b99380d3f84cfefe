------------------------------- MODULE Space -------------------------------
(***************************************************************************)
(* The allocation of disk blocks and index nodes: Emulated_fs keeps, for   *)
(* each kind, a bit map, a count of free numbers and a list of at most 100 *)
(* numbers "that can be handed out at once"; Emulated_kernel works on a    *)
(* copy of that list and of the counts (its own super block), asks for the *)
(* next list when its copy is used up, and tells the file system what it   *)
(* used only when the program ends.  The module follows the numbers through*)
(* the program's whole life: formatting, mounting, creating, growing,      *)
(* copying and removing files, the steps of a shutdown, crashes, remounts. *)
(*                                                                         *)
(* A name stands for the path of a file; the directories are one directory,*)
(* whose own blocks are those of index node 0.  File contents are left out.*)
(* A command that opens, changes and closes a file is one step: the shell  *)
(* runs commands one after the other.  Only the numbers of the first block *)
(* group are modelled (see README).                                        *)
(***************************************************************************)
EXTENDS Integers, FiniteSets

CONSTANTS
  Cap,          \* Cap[r]: bits of the map of kind r (BLOCK_NO_MAX, INODE_NO_MAX)
  Batch,        \* length of an idle list (IDLE_NUM_FSKEEP)
  Reserve,      \* blocks the kernel keeps back (1000 in get_a_idleblock)
  MaxAddr,      \* direct addresses of an index node (10)
  PerBlock,     \* directory entries in a block (BLOCK_SIZE / DIR_ITEM_SIZE)
  Slots,        \* entries of kinode_table, 0 is the root directory's
  Names,        \* paths of files
  NoFile,       \* "there is no such name"
  MaxSteps,     \* bound: starts of the program and commands, all together
  MaxNum        \* bound on the free counts, which removals can push up

Kinds == {"block", "inode"}

ASSUME CapAssumption == Cap \in [Kinds -> Nat \ {0}]
ASSUME BatchAssumption == Batch \in Nat \ {0}
ASSUME ReserveAssumption == Reserve \in Nat
ASSUME MaxAddrAssumption == MaxAddr \in Nat \ {0}
ASSUME PerBlockAssumption == PerBlock \in Nat \ {0}
ASSUME SlotsAssumption == Slots \subseteq Nat /\ 0 \in Slots
ASSUME NamesAssumption == IsFiniteSet(Names) /\ NoFile \notin Nat
ASSUME BoundAssumption == MaxSteps \in Nat /\ MaxNum \in Nat

Bits(r) == 0 .. Cap[r] - 1
Inos == Bits("inode")
Addrs == [0 .. MaxAddr - 1 -> Bits("block")]
Trees == [Names -> Inos \cup {NoFile}]

ZeroAddr == [j \in 0 .. MaxAddr - 1 |-> 0]
NoInodes == [i \in Inos |-> ZeroAddr]
NoTree == [m \in Names |-> NoFile]

VARIABLES
  phase,      \* "off", "up", "copying", "synced", "treed": where the program is
  pool,       \* per kind: map, num, idle (file system); avail, knum (kernel)
  mounted,    \* [fs, kernel]: is_mount in either super block
  inodes,     \* inode_list: index node -> its address array
  kaddr,      \* kinode_table: slot -> the address array left in it
  rootNo,     \* index node number in the root directory's kinode
  tree,       \* the directory tree the kernel holds
  cp,         \* the copy under way: destination name, source, new number, blocks, next
  disk,       \* what the device file holds of the control blocks and directory; torn:
              \*   the blocks of the root directory hold something else than entries
  steps,      \* starts and commands so far, counted for the bound only
  sound,      \* history: no step so far could lose track of a number
  clean       \* history: the device was last written by a sound session, and no
              \*   command since wrote to the blocks its root directory is read from

vars == <<phase, pool, mounted, inodes, kaddr, rootNo, tree, cp, disk,
          steps, sound, clean>>

(***************************************************************************)
(* Lists of numbers.  A list is always ascending, so it is the set of its  *)
(* elements; its front is the least one.                                   *)
(***************************************************************************)
Front(S) == {x \in S : \A y \in S : x <= y}
First(n, S) == {x \in S : Cardinality({y \in S : y < x}) < n}

\* Slips of supplement_idle_list: one bit too far; the test of the bit missing.
SupplementPastEnd(marked, r) == First(Batch, (0 .. Cap[r]) \ marked)
SupplementUntested(marked, r) == First(Batch, Bits(r))

\* supplement_idle_list: the first numbers, in map order, whose bit is clear.
Supplement(marked, r) == First(Batch, Bits(r) \ marked)

\* The kernel reads a wait array up to the first 0, but never takes the first
\* entry for the end: an empty array reads as the list of the number 0.
KernelList(wait) == IF wait = {} THEN {0} ELSE wait

\* init_old_fs stops at the first 0 wherever it is.
FsList(wait) == IF 0 \in wait THEN {} ELSE wait

(***************************************************************************)
(* The kernel's end of the protocol.                                       *)
(***************************************************************************)
\* A slip of update_idle: the numbers of the old list are dropped unmarked.
RefillUnmarked(p, r) ==
  LET fresh == Supplement(p[r].map, r)
      n == p[r].num - Cardinality(p[r].idle)
  IN [p EXCEPT ![r] = [map |-> p[r].map, num |-> n, idle |-> fresh,
                       knum |-> n, avail |-> KernelList(fresh)]]

\* update_sblk(r) with get_sblk and update_idle: everything on the old list is
\* marked used, a new list is made, and the kernel's super block is replaced,
\* the count of the other kind included.
Refill(p, r) ==
  LET marked == p[r].map \cup p[r].idle
      n == p[r].num - Cardinality(p[r].idle)
      fresh == Supplement(marked, r)
  IN [k \in Kinds |->
        IF k = r
        THEN [map |-> marked, num |-> n, idle |-> fresh,
              knum |-> n, avail |-> KernelList(fresh)]
        ELSE [p[k] EXCEPT !.knum = p[k].num]]

Ready(p, r) == IF p[r].avail = {} THEN Refill(p, r) ELSE p

\* get_a_idleblock and get_a_idleinode: refill if need be, take the front.
Offered(p, r) == Front(Ready(p, r)[r].avail)
Take(p, r, n) ==
  LET q == Ready(p, r)
  IN [q EXCEPT ![r] = [q[r] EXCEPT !.avail = q[r].avail \ {n}, !.knum = q[r].knum - 1]]

RoomForBlock(p) == p["block"].knum >= Reserve

\* distribute_newfile_block's test; RoomForBlock holds again after the index
\* node was taken, because a refill can only raise the kernel's other count.
RoomForNew(p) == p["inode"].knum # 0 /\ RoomForBlock(p)

\* A refill copies the file system's is_mount into the kernel's super block.
KernelMounted(R) ==
  [mounted EXCEPT !.kernel = IF \E r \in R : pool[r].avail = {}
                             THEN mounted.fs ELSE @]

\* A refill that found nothing free makes the kernel issue the number 0.
Exhausted(p, r) == p[r].avail = {} /\ Refill(p, r)[r].idle = {}

(***************************************************************************)
(* Index nodes.                                                            *)
(***************************************************************************)
\* Addresses before the first 0: what open, rm_file and read_file see.
Used(a) == {j \in DOMAIN a : \A k \in 0 .. j : a[k] # 0}
FileBlocks(a) == {a[j] : j \in Used(a)}

\* The same for the root directory, whose block may be number 0.
RootUsed(a) == {j \in DOMAIN a : \A k \in 1 .. j : a[k] # 0}

RootBlocks(a) == {a[j] : j \in RootUsed(a)}

BlocksOf(a) == {a[j] : j \in {k \in DOMAIN a : a[k] # 0}}
Leftover(a) == \E j \in DOMAIN a : j # 0 /\ a[j] # 0

\* A slip of set_idle_bit: the count is not raised.
FreeUncounted(p, r, S, n) == [p EXCEPT ![r] = [p[r] EXCEPT !.map = p[r].map \ S]]

\* set_idle_bit(..., 0): the bit is cleared and the count raised, whether the
\* bit was set or not.
Free(p, r, S, n) ==
  [p EXCEPT ![r] = [p[r] EXCEPT !.map = p[r].map \ S, !.num = p[r].num + n]]

Present(t) == {m \in Names : t[m] # NoFile}
Least(a, b) == IF a <= b THEN a ELSE b

(***************************************************************************)
(* The root directory's blocks: two entries for .  and .., one per name.   *)
(***************************************************************************)
Entries == Cardinality(Present(tree)) + 2
Needed == (Entries + PerBlock - 1) \div PerBlock
RootLen == Cardinality(RootUsed(inodes[0]))

\* The directory has one block twice, so that its entries overwrite each other.
Doubled == Cardinality(RootBlocks(inodes[0])) < RootLen

\* A directory of which some names are missing.
Kept(t) == {[m \in Names |-> IF m \in K THEN t[m] ELSE NoFile] : K \in SUBSET Present(t)}

\* del_Dtree writes `blocks' blocks, into the last one Entries % PerBlock
\* entries (none, when the entries fill it exactly).
Written(blocks) ==
  LET n == (blocks - 1) * PerBlock + (Entries % PerBlock) - 2
  IN {t \in Kept(tree) : Cardinality(Present(t)) = IF n < 0 THEN 0 ELSE n}

(***************************************************************************)
(* Whose numbers are in use, and whether the allocator knows it.           *)
(***************************************************************************)
OwnedInodes == {0, rootNo} \cup {tree[m] : m \in Present(tree)}
\* An address 0 means that there is no block, except for the root directory's first:
\* block 0 must never be a file's, so it counts as used.
OwnedBlocks == {0} \cup UNION {BlocksOf(inodes[i]) : i \in OwnedInodes}
InFlight(r) == IF phase # "copying" THEN {}
               ELSE IF r = "inode" THEN {cp.no} ELSE BlocksOf(cp.addr)
Owned(r) == (IF r = "inode" THEN OwnedInodes ELSE OwnedBlocks) \cup InFlight(r)

\* Numbers of the present list the kernel has handed out.
Spent(p, r) == p[r].idle \ p[r].avail
Consumed(r) == Spent(pool, r)

\* No index node and no block has two holders, a copy under way included.
Exclusive ==
  /\ \A m \in Present(tree) :
       /\ tree[m] \notin {0, rootNo}
       /\ \A n \in Present(tree) \ {m} : tree[n] # tree[m]
  /\ \A i, j \in OwnedInodes :
       i # j => BlocksOf(inodes[i]) \cap BlocksOf(inodes[j]) = {}
  /\ OwnedInodes \cap InFlight("inode") = {}
  /\ OwnedBlocks \cap InFlight("block") = {}

\* The lists account for the numbers in S: each is marked, or was handed out
\* from the front of the present list.
Accounts(p, r, S) ==
  /\ p[r].avail \subseteq p[r].idle
  /\ p[r].idle \cap p[r].map = {}
  /\ \A x \in Spent(p, r), y \in p[r].avail : x < y
  /\ S \subseteq p[r].map \cup Spent(p, r)

\* The root directory's kinode is the one its index node was loaded into.
RootKept == inodes[rootNo] = kaddr[0]

Good == /\ RootKept
        /\ Exclusive
        /\ \A r \in Kinds : Accounts(pool, r, Owned(r))

----------------------------------------------------------------------------
EmptyPool == [r \in Kinds |-> [map |-> {}, num |-> 0, idle |-> {},
                               knum |-> 0, avail |-> {}]]
NoCopy == [name |-> NoFile, src |-> 0, no |-> 0, addr |-> ZeroAddr, at |-> 0]

Init ==
  /\ phase = "off"
  /\ pool = EmptyPool
  /\ mounted = [fs |-> FALSE, kernel |-> FALSE]
  /\ inodes = NoInodes
  /\ kaddr = [s \in Slots |-> ZeroAddr]
  /\ rootNo = 0
  /\ tree = NoTree
  /\ cp = NoCopy
  /\ disk = [formatted |-> FALSE, mounted |-> FALSE,
             map |-> [r \in Kinds |-> {}], num |-> [r \in Kinds |-> 0],
             wait |-> [r \in Kinds |-> {}], inodes |-> NoInodes, tree |-> NoTree,
             torn |-> FALSE]
  /\ steps = 0
  /\ sound = FALSE
  /\ clean = FALSE

\* The process is gone, with everything it kept in memory.
Gone ==
  /\ phase' = "off"
  /\ pool' = EmptyPool
  /\ mounted' = [fs |-> FALSE, kernel |-> FALSE]
  /\ inodes' = NoInodes
  /\ kaddr' = [s \in Slots |-> ZeroAddr]
  /\ rootNo' = 0
  /\ tree' = NoTree
  /\ cp' = NoCopy
  /\ sound' = FALSE

(***************************************************************************)
(* The blocks of files go to the device at once: a block is emptied when it *)
(* is handed out and when its file is removed, and my_write writes through. *)
(* Most of what is in them is left out, but if one of them is a block that *)
(* the next mount reads the root directory from, its entries are gone.     *)
(***************************************************************************)
WasMounted == disk.formatted /\ disk.mounted
Torn(B) == WasMounted /\ B \cap RootBlocks(disk.inodes[0]) # {}
Scribble(B) ==
  /\ disk' = [disk EXCEPT !.torn = disk.torn \/ Torn(B)]
  /\ clean' = (clean /\ ~Torn(B))

\* The bound of the model, not a part of the code.
Step == steps < MaxSteps /\ steps' = steps + 1

(***************************************************************************)
(* Start: the constructor of Emulated_fs, then mount.                      *)
(***************************************************************************)
\* reset_sblk_and_gdt: the first numbers are listed, 0 among them.
FreshPool ==
  [r \in Kinds |-> [map |-> {}, num |-> Cap[r], idle |-> Supplement({}, r),
                    knum |-> Cap[r], avail |-> KernelList(Supplement({}, r))]]

\* init_old_fs, and the kernel's reading of the same wait arrays in mount.
LoadedPool ==
  [r \in Kinds |-> [map |-> disk.map[r], num |-> disk.num[r],
                    idle |-> FsList(disk.wait[r]),
                    knum |-> disk.num[r], avail |-> KernelList(disk.wait[r])]]

\* A device without the magic number is set up as a new file system.
BootPool == IF disk.formatted THEN LoadedPool ELSE FreshPool
BootInodes == IF disk.formatted THEN disk.inodes ELSE NoInodes

Boot ==
  /\ phase = "off"
  /\ Step
  /\ phase' = "up"
  /\ cp' = NoCopy
  /\ UNCHANGED <<disk, clean>>

\* mount when is_mount is false: the root directory is given an index node and
\* a block, unless distribute_newfile_block refuses (mount ignores its answer).
BootFirst ==
  /\ Boot
  /\ ~WasMounted
  /\ \E n \in Offered(BootPool, "inode") :
       LET p == Take(BootPool, "inode", n) IN
       \E b \in Offered(p, "block") :
         IF RoomForNew(BootPool)
         THEN /\ pool' = Take(p, "block", b)
              /\ rootNo' = n
              /\ kaddr' = [[s \in Slots |-> ZeroAddr] EXCEPT ![0][0] = b]
         ELSE /\ pool' = BootPool
              /\ rootNo' = 0
              /\ kaddr' = [s \in Slots |-> ZeroAddr]
  /\ inodes' = [BootInodes EXCEPT ![rootNo'] = kaddr'[0]]
  /\ tree' = NoTree
  /\ mounted' = [fs |-> FALSE, kernel |-> TRUE]
  /\ sound' = Good'

\* Names that the blocks of the root directory can still hold; any entries at
\* all, up to a number 0, when something else was written there.
Readable ==
  IF disk.torn
  THEN {t \in Trees : \A m \in Names : t[m] # 0}
  ELSE {t \in Kept(disk.tree) : Cardinality(Present(t)) =
          Least(Cardinality(Present(disk.tree)),
                PerBlock * Cardinality(RootUsed(disk.inodes[0])) - 2)}

\* mount of a file system that was mounted before: the root directory's entries
\* are read from its blocks.
BootAgain ==
  /\ Boot
  /\ WasMounted
  /\ pool' = BootPool
  /\ inodes' = BootInodes
  /\ rootNo' = 0
  /\ kaddr' = [[s \in Slots |-> ZeroAddr] EXCEPT ![0] = disk.inodes[0]]
  /\ tree' \in Readable
  /\ mounted' = [fs |-> TRUE, kernel |-> TRUE]
  /\ sound' = Good'

(***************************************************************************)
(* Commands.                                                               *)
(***************************************************************************)
\* touch, mkdir: init_new_file and my_close.  The kinode's other addresses are
\* what the slot's last user left there.
Create(m, s) ==
  /\ phase = "up"
  /\ Step
  /\ tree[m] = NoFile
  /\ s # 0
  /\ RoomForNew(pool)
  /\ \E n \in Offered(pool, "inode") :
       LET p == Take(pool, "inode", n) IN
       \E b \in Offered(p, "block") :
         /\ pool' = Take(p, "block", b)
         /\ kaddr' = [kaddr EXCEPT ![s][0] = b]
         /\ inodes' = [inodes EXCEPT ![n] = kaddr'[s]]
         /\ tree' = [tree EXCEPT ![m] = n]
         /\ sound' = /\ sound
                     /\ ~Exhausted(pool, "inode")
                     /\ ~Exhausted(p, "block")
                     /\ ~Leftover(kaddr[s])
         /\ Scribble({b})
  /\ mounted' = KernelMounted(Kinds)
  /\ UNCHANGED <<phase, rootNo, cp>>

\* open, my_lseek past the last block, my_close: the file grows by one block.
Extend(m, s) ==
  /\ phase = "up"
  /\ Step
  /\ tree[m] # NoFile
  /\ s # 0
  /\ RoomForBlock(pool)
  /\ LET a == inodes[tree[m]]
         u == Cardinality(Used(a))
     IN /\ u \in 1 .. MaxAddr - 1
        /\ \E b \in Offered(pool, "block") :
             /\ pool' = Take(pool, "block", b)
             /\ kaddr' = [kaddr EXCEPT ![s] = [a EXCEPT ![u] = b]]
             /\ inodes' = [inodes EXCEPT ![tree[m]] = kaddr'[s]]
             /\ Scribble({b})
  /\ sound' = (sound /\ ~Exhausted(pool, "block"))
  /\ mounted' = KernelMounted({"block"})
  /\ UNCHANGED <<phase, rootNo, tree, cp>>

\* open, my_write past the last block, my_close: a number is taken, but what is
\* stored as the address is the value of the comparison, 0, and the bytes go to
\* block 0, the root directory's.
WriteGrow(m, s) ==
  /\ phase = "up"
  /\ Step
  /\ tree[m] # NoFile
  /\ s # 0
  /\ RoomForBlock(pool)
  /\ LET a == inodes[tree[m]]
         u == Cardinality(Used(a))
     IN /\ u \in 1 .. MaxAddr - 1
        /\ \E b \in Offered(pool, "block") :
             /\ pool' = Take(pool, "block", b)
             /\ Scribble({0, b})
        /\ kaddr' = [kaddr EXCEPT ![s] = [a EXCEPT ![u] = 0]]
        /\ inodes' = [inodes EXCEPT ![tree[m]] = kaddr'[s]]
  /\ sound' = (sound /\ ~Exhausted(pool, "block"))
  /\ mounted' = KernelMounted({"block"})
  /\ UNCHANGED <<phase, rootNo, tree, cp>>

\* open, my_write inside the file's blocks, my_close.  A file without a first
\* address writes to block 0.
Overwrite(m, s) ==
  /\ phase = "up"
  /\ Step
  /\ tree[m] # NoFile
  /\ s # 0
  /\ LET a == inodes[tree[m]]
     IN /\ kaddr' = [kaddr EXCEPT ![s] = a]
        /\ Scribble(FileBlocks(a) \cup {a[0]})
  /\ UNCHANGED <<phase, pool, mounted, inodes, rootNo, tree, cp, sound>>

\* rm: the blocks before the first 0 and the index node are given back.
Remove(m) ==
  /\ phase = "up"
  /\ Step
  /\ tree[m] # NoFile
  /\ LET n == tree[m]
         a == inodes[n]
         B == FileBlocks(a)
     IN /\ pool["block"].num + Cardinality(Used(a)) <= MaxNum
        /\ pool["inode"].num + 1 <= MaxNum
        /\ pool' = Free(Free(pool, "block", B, Cardinality(Used(a))),
                        "inode", {n}, 1)
        /\ inodes' = [inodes EXCEPT ![n] = ZeroAddr]
        /\ Scribble(B)
  /\ tree' = [tree EXCEPT ![m] = NoFile]
  /\ UNCHANGED <<phase, mounted, kaddr, rootNo, cp, sound>>

\* cp of a regular file: init_copy_dir takes an index node (asking no count),
\* then one block for each block of the source, then stores the index node.
CopyStart(m, d) ==
  /\ phase = "up"
  /\ Step
  /\ tree[m] # NoFile
  /\ tree[d] = NoFile
  /\ \E n \in Offered(pool, "inode") :
       /\ pool' = Take(pool, "inode", n)
       /\ cp' = [name |-> d, src |-> tree[m], no |-> n, addr |-> ZeroAddr, at |-> 0]
  /\ phase' = "copying"
  /\ sound' = (sound /\ ~Exhausted(pool, "inode"))
  /\ mounted' = KernelMounted({"inode"})
  /\ UNCHANGED <<inodes, kaddr, rootNo, tree, disk, clean>>

CopyBlock ==
  /\ phase = "copying"
  /\ RoomForBlock(pool)
  /\ cp.at \in Used(inodes[cp.src])
  /\ \E b \in Offered(pool, "block") :
       /\ pool' = Take(pool, "block", b)
       /\ cp' = [cp EXCEPT !.addr[cp.at] = b, !.at = @ + 1]
       /\ Scribble({b})
  /\ sound' = (sound /\ ~Exhausted(pool, "block"))
  /\ mounted' = KernelMounted({"block"})
  /\ UNCHANGED <<phase, inodes, kaddr, rootNo, tree, steps>>

CopyEnd ==
  /\ phase = "copying"
  /\ cp.at \notin Used(inodes[cp.src])
  /\ inodes' = [inodes EXCEPT ![cp.no] = cp.addr]
  /\ tree' = [tree EXCEPT ![cp.name] = cp.no]
  /\ cp' = NoCopy
  /\ phase' = "up"
  /\ UNCHANGED <<pool, mounted, kaddr, rootNo, disk, steps, sound, clean>>

\* No block left for the copy: init_copy_dir returns a null pointer, and copy
\* stores through it.
CopyFails ==
  /\ phase = "copying"
  /\ ~RoomForBlock(pool)
  /\ cp.at \in Used(inodes[cp.src])
  /\ Gone
  /\ UNCHANGED <<disk, steps, clean>>

(***************************************************************************)
(* Formatting.  Only root's blocks and index node stay; the root directory *)
(* keeps all its addresses (iaddr[11] = { 0 } is one past the array's end).*)
(***************************************************************************)
FormatPool ==
  [r \in Kinds |-> [map |-> {0}, num |-> Cap[r] - 1, idle |-> Supplement({0}, r),
                    knum |-> Cap[r] - 1, avail |-> KernelList(Supplement({0}, r))]]

Reformat ==
  /\ phase = "up"
  /\ Step
  /\ pool' = FormatPool
  /\ mounted' = [fs |-> TRUE, kernel |-> TRUE]
  /\ tree' = NoTree
  /\ UNCHANGED <<phase, kaddr, rootNo, cp>>
  /\ sound' = Good'

\* logic_format writes the directories back first (del_Dtree), and leaves the
\* index nodes of the files as they are.  What the root directory grew by is
\* dropped with its stored index node.
LogicFormat ==
  /\ inodes' = [inodes EXCEPT ![0] = kaddr[0]]
  /\ Reformat
  /\ \E n \in Least(Needed, RootLen) .. Needed :    \* blocks it got for them
       \E t \in Written(n) : disk' = [disk EXCEPT !.tree = t, !.torn = Doubled]
  /\ clean' = FALSE

\* bottom_format removes every file of the root directory instead.
BottomFormat ==
  /\ inodes' = [i \in Inos |->
                  IF i = 0 THEN kaddr[0]
                  ELSE IF \E m \in Names : tree[m] = i THEN ZeroAddr
                  ELSE inodes[i]]
  /\ Reformat
  /\ Scribble(UNION {FileBlocks(inodes[tree[m]]) : m \in Present(tree)})

(***************************************************************************)
(* The end of the program: ~Emulated_kernel, then ~Emulated_fs.            *)
(***************************************************************************)
\* syn_sblk: how many numbers of each list the kernel seems to have used.
Usage(r) == pool[r].num - pool[r].knum
Overdrawn == \E r \in Kinds : Usage(r) > Cardinality(pool[r].idle)

\* The two counts still tell how many numbers were handed out.
CountsAgree == \A r \in Kinds : Usage(r) = Cardinality(Consumed(r))

\* Slips of syn_sblk: one number too few is marked; the wait arrays keep the
\* numbers that were marked.
SyncedShort ==
  [r \in Kinds |->
     LET popped == First(Usage(r) - 1, pool[r].idle)
     IN [pool[r] EXCEPT !.map = pool[r].map \cup popped,
                        !.num = pool[r].num - Cardinality(popped),
                        !.idle = pool[r].idle \ popped]]
SyncedListed ==
  [r \in Kinds |->
     LET popped == First(Usage(r), pool[r].idle)
     IN [pool[r] EXCEPT !.map = pool[r].map \cup popped,
                        !.num = pool[r].num - Cardinality(popped)]]

SyncedPool ==
  [r \in Kinds |->
     LET popped == First(Usage(r), pool[r].idle)
     IN [pool[r] EXCEPT !.map = pool[r].map \cup popped,
                        !.num = pool[r].num - Cardinality(popped),
                        !.idle = pool[r].idle \ popped]]

\* syn_sblk, then my_close of the root directory's descriptor.
Sync ==
  /\ phase = "up"
  /\ ~Overdrawn
  /\ pool' = SyncedPool
  /\ mounted' = [mounted EXCEPT !.fs = mounted.fs \/ mounted.kernel]
  /\ inodes' = [inodes EXCEPT ![rootNo] = kaddr[0]]
  /\ phase' = "synced"
  /\ sound' = (sound /\ CountsAgree)
  /\ UNCHANGED <<kaddr, rootNo, tree, cp, disk, steps, clean>>

\* pop_front of an empty list: the C library aborts the program.
SyncAborts ==
  /\ phase = "up"
  /\ Overdrawn
  /\ Gone
  /\ UNCHANGED <<disk, steps, clean>>

\* del_Dtree: a directory with more entries than its blocks hold grows.  A block
\* past the last address is taken and lost.
GrowRoot ==
  /\ phase = "synced"
  /\ RootLen < Needed
  /\ RoomForBlock(pool)
  /\ \E b \in Offered(pool, "block") :
       /\ pool' = Take(pool, "block", b)
       /\ inodes' = IF RootLen < MaxAddr THEN [inodes EXCEPT ![0][RootLen] = b]
                    ELSE inodes
       /\ Scribble({b})
  /\ mounted' = KernelMounted({"block"})
  /\ sound' = FALSE
  /\ UNCHANGED <<phase, kaddr, rootNo, tree, cp, steps>>

\* del_Dtree: the entries go straight to the device.
WriteTree ==
  /\ phase = "synced"
  /\ RootLen >= Least(Needed, MaxAddr) \/ ~RoomForBlock(pool)
  /\ \E t \in Written(Least(Needed, RootLen)) :
       disk' = [disk EXCEPT !.tree = t, !.torn = Doubled]
  /\ phase' = "treed"
  /\ clean' = FALSE
  /\ UNCHANGED <<pool, mounted, inodes, kaddr, rootNo, tree, cp, steps, sound>>

\* write_to_dev: the control blocks.
Persist ==
  /\ phase = "treed"
  /\ disk' = [formatted |-> TRUE, mounted |-> mounted.fs,
              map |-> [r \in Kinds |-> pool[r].map],
              num |-> [r \in Kinds |-> pool[r].num],
              wait |-> [r \in Kinds |-> pool[r].idle],
              inodes |-> inodes, tree |-> disk.tree, torn |-> disk.torn]
  /\ clean' = (sound /\ ~disk.torn /\ \A r \in Kinds : pool[r].idle # {})
  /\ Gone
  /\ UNCHANGED steps

\* The program is killed or crashes.
Crash ==
  /\ phase # "off"
  /\ Gone
  /\ UNCHANGED <<disk, steps, clean>>

Next ==
  \/ BootFirst
  \/ BootAgain
  \/ \E m \in Names, s \in Slots : Create(m, s)
  \/ \E m \in Names, s \in Slots : Extend(m, s)
  \/ \E m \in Names, s \in Slots : WriteGrow(m, s)
  \/ \E m \in Names, s \in Slots : Overwrite(m, s)
  \/ \E m \in Names : Remove(m)
  \/ \E m, d \in Names : CopyStart(m, d)
  \/ CopyBlock
  \/ CopyEnd
  \/ CopyFails
  \/ LogicFormat
  \/ BottomFormat
  \/ Sync
  \/ SyncAborts
  \/ GrowRoot
  \/ WriteTree
  \/ Persist
  \/ Crash

Spec == Init /\ [][Next]_vars

----------------------------------------------------------------------------
(***************************************************************************)
(* Properties.                                                             *)
(***************************************************************************)
Lists == [map : SUBSET Nat, num : Int, idle : SUBSET Nat,
          knum : Int, avail : SUBSET Nat]
PoolOK(p) ==
  /\ p \in [Kinds -> Lists]
  /\ \A r \in Kinds : p[r].map \cup p[r].idle \cup p[r].avail \subseteq Bits(r)

DiskOK ==
  /\ disk \in [formatted : BOOLEAN, mounted : BOOLEAN,
               map : [Kinds -> SUBSET Nat], num : [Kinds -> Int],
               wait : [Kinds -> SUBSET Nat], inodes : [Inos -> Addrs], tree : Trees,
             torn : BOOLEAN]
  /\ \A r \in Kinds : disk.map[r] \cup disk.wait[r] \subseteq Bits(r)

\* Every variable keeps its type; in particular every number on a list or in an
\* index node is the position of a bit of its map.
TypeOK ==
  /\ phase \in {"off", "up", "copying", "synced", "treed"}
  /\ PoolOK(pool)
  /\ mounted \in [fs : BOOLEAN, kernel : BOOLEAN]
  /\ inodes \in [Inos -> Addrs]
  /\ kaddr \in [Slots -> Addrs]
  /\ rootNo \in Inos
  /\ tree \in Trees
  /\ cp \in [name : Names \cup {NoFile}, src : Inos, no : Inos, addr : Addrs, at : 0 .. MaxAddr]
  /\ DiskOK
  /\ steps \in Nat
  /\ sound \in BOOLEAN
  /\ clean \in BOOLEAN

\* While the program runs, the lists hold only numbers whose bit is clear, in
\* every session and after any crash.  The one exception is the number 0 that
\* an empty wait array is read as (update_sblk, mount).
ListsUnmarked ==
  phase \in {"up", "copying"} =>
    \A r \in Kinds : /\ pool[r].idle \cap pool[r].map = {}
                     /\ pool[r].avail \cap pool[r].map \subseteq {0}

\* The free count of the file system is never below the number of clear bits,
\* and the kernel's copy is never above the file system's: removals may make
\* both too large (set_idle_bit counts a bit that was clear already), nothing
\* makes them too small.
CountsNotBelowFree ==
  phase # "off" => \A r \in Kinds :
    /\ pool[r].num >= Cardinality(Bits(r) \ pool[r].map)
    /\ phase \in {"up", "copying"} => pool[r].knum <= pool[r].num

\* As long as nothing happened that makes the allocator lose track (a refill
\* that found no free number, a file created in a kinode slot with left-over
\* addresses, a start from a device that was not written cleanly), no two files
\* share an index node or a block, and each number in use is either marked or
\* handed out from the present list: what the kernel hands out is free.
SoundIsGood == sound /\ phase \in {"up", "copying"} => Good

\* ... and when the shutdown also found the counts right, everything in use is
\* marked from syn_sblk on, and is not on the list that goes to the device.
SoundIsRecorded ==
  sound /\ phase \in {"synced", "treed"} =>
    /\ Exclusive
    /\ \A r \in Kinds : /\ Owned(r) \subseteq pool[r].map
                        /\ pool[r].idle \cap pool[r].map = {}

\* A device that a sound session has written, and to whose root directory no
\* command wrote a file's bytes since (WriteGrow does, the finding on my_write),
\* can be mounted without losing track, whatever crashed in between.
CleanMountsSound == [][clean /\ phase = "off" /\ phase' = "up" => sound']_vars

----------------------------------------------------------------------------
(***************************************************************************)
(* What the comments of the code say, and the code does not do.            *)
(***************************************************************************)
\* Emulated_fs.cpp, syn_sblk: as many numbers are taken off the lists as were
\* used since the last update, so that each number handed out gets marked.
ConsumedIsRecorded ==
  [][phase = "up" /\ phase' = "synced" =>
       \A r \in Kinds : Consumed(r) \subseteq pool[r].map']_vars

\* global_header.h, is_mount: tells whether the file system was ever mounted.
MountIsRemembered == disk.formatted => disk.mounted

=============================================================================
