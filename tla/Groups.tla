------------------------------- MODULE Groups -------------------------------
(***************************************************************************)
(* The block groups.  Block numbers run through three groups, each with a  *)
(* map of its own; the lists in which they are handed out hold them as     *)
(* unsigned short, and the end of the program writes the maps of the second*)
(* and third group from memory behind the array that holds them.  The      *)
(* module follows the numbers of disk blocks through refills, files that   *)
(* take and give back a block, formatting, the end of the program, a crash,*)
(* and the next start.  Module Space has the kernel's side of it in full,  *)
(* for the first group.  Here a file is the one block it holds, a further  *)
(* block of a directory counting as a file; the numbers of index nodes,    *)
(* which are kept in the same way, are left out, except that their refills *)
(* replace the kernel's count of blocks; and a device that was written     *)
(* counts as mounted.                                                      *)
(***************************************************************************)
EXTENDS Layout, Sequences, FiniteSets

CONSTANTS
  Batch,        \* length of an idle list (IDLE_NUM_FSKEEP)
  Reserve,      \* blocks the kernel keeps back (1000 in get_a_idleblock)
  Files,        \* files, the root directory left out
  NoBlock,      \* a file that does not exist
  MaxNum,       \* bound on the free counts
  MaxEnds       \* bound on the orderly ends of the program

ASSUME BatchAssumption == Batch \in Nat \ {0} /\ Batch <= PerGroup /\ Batch <= Width
ASSUME FilesAssumption == NoBlock \notin Nat
ASSUME BoundAssumption == Reserve \in Nat \ {0} /\ MaxNum \in Nat /\ MaxEnds \in Nat

VARIABLES
  phase,        \* "off", "up" or "synced", when syn_sblk is done
  map,          \* group -> the offsets whose bit is set (b_map)
  idle,         \* the file system's list of numbers to hand out (idle_block)
  num,          \* its count of free blocks
  avail,        \* the kernel's copy of the list, and
  knum,         \* of the count
  held,         \* the block a file holds
  dev,          \* the device: map, list, count, the files; how often it was written
  intact        \* history: nothing yet that the lists and maps are too narrow for,
                \*   and nothing that an end of the program left unmarked

vars == <<phase, map, idle, num, avail, knum, held, dev, intact>>

Root == 0                 \* the root directory's block
Bits == 0 .. GroupCount * PerGroup - 1
Maps == [GroupSet -> SUBSET Offsets]
Lists == UNION {[1 .. n -> Numbers] : n \in 0 .. Batch}
NoMarks == [g \in GroupSet |-> {}]
NoFiles == [f \in Files |-> NoBlock]
Elems(s) == {s[i] : i \in DOMAIN s}

Marked(m, n) == OffsetOf(n) \in m[GroupOf(n)]

\* A slip of set_idle_bit: it looks for every number in the first group.
MarkFirst(m, S) == [m EXCEPT ![0] = @ \cup {OffsetOf(n) : n \in S}]

\* set_idle_bit, for the numbers S.
Mark(m, S) == [g \in GroupSet |-> m[g] \cup {OffsetOf(n) : n \in {n \in S : GroupOf(n) = g}}]
Clear(m, n) == [m EXCEPT ![GroupOf(n)] = @ \ {OffsetOf(n)}]

\* supplement_idle_list: the first bits that are clear, going through the groups
\* in turn, as many as the list takes; they become numbers of 16 bits.
Found(m, bits) ==
  /\ \A i, j \in DOMAIN bits : i < j => bits[i] < bits[j]
  /\ \A i \in DOMAIN bits : ~Marked(m, bits[i])
  /\ \A b \in Bits : ~Marked(m, b) =>
       \/ \E i \in DOMAIN bits : bits[i] = b
       \/ Len(bits) = Batch /\ \A i \in DOMAIN bits : bits[i] < b

Searches(m) == {bits \in UNION {[1 .. n -> Bits] : n \in 0 .. Batch} : Found(m, bits)}
\* A slip: the numbers are not cut to 16 bits.
ListedWide(bits) == bits
Listed(bits) == [i \in DOMAIN bits |-> bits[i] % Width]
Fits(bits) == bits # <<>> /\ \A i \in DOMAIN bits : bits[i] < Width

\* The numbers of a wait array before its first 0.  The kernel does not take the
\* first entry for the end, so that an empty array reads as the number 0.  Both are
\* sets of one list.
UpToZero(s) ==
  {SubSeq(s, 1, k) : k \in {k \in 0 .. Len(s) :
     /\ \A i \in 1 .. k : s[i] # 0
     /\ k < Len(s) => s[k + 1] = 0}}
KernelLists(s) ==
  IF s = <<>> THEN {<<0>>} ELSE {<<Head(s)>> \o t : t \in UpToZero(Tail(s))}

\* Numbers of the present list that the kernel has handed out.
Spent == Len(idle) - Len(avail)

Init ==
  /\ phase = "off"
  /\ map = NoMarks
  /\ idle = <<>> /\ num = 0
  /\ avail = <<>> /\ knum = 0
  /\ held = NoFiles
  /\ dev = [ends |-> 0, map |-> NoMarks, wait |-> <<>>, num |-> 0, held |-> NoFiles,
            intact |-> FALSE]
  /\ intact = FALSE

\* The process is gone, with all it kept in memory.
Gone ==
  /\ phase' = "off"
  /\ map' = NoMarks
  /\ idle' = <<>> /\ num' = 0
  /\ avail' = <<>> /\ knum' = 0
  /\ held' = NoFiles
  /\ intact' = FALSE

(***************************************************************************)
(* The start of the program: the constructor of Emulated_fs, then mount.   *)
(***************************************************************************)
\* reset_sblk_and_gdt lists the first numbers; mount gives 0 to the root.
StartFresh ==
  /\ phase = "off" /\ dev.ends = 0
  /\ phase' = "up"
  /\ map' = NoMarks
  /\ idle' = [i \in 1 .. Batch |-> i - 1]
  /\ avail' = [i \in 1 .. Batch - 1 |-> i]
  /\ num' = GroupCount * PerGroup
  /\ knum' = num' - 1
  /\ held' = NoFiles
  /\ intact' = TRUE
  /\ UNCHANGED dev

\* init_old_fs.
StartAgain ==
  /\ phase = "off" /\ dev.ends > 0
  /\ phase' = "up"
  /\ map' = dev.map
  /\ idle' \in UpToZero(dev.wait)
  /\ avail' \in KernelLists(dev.wait)
  /\ num' = dev.num
  /\ knum' = dev.num
  /\ held' = dev.held
  /\ intact' = dev.intact
  /\ UNCHANGED dev

Room == knum >= Reserve

(***************************************************************************)
(* A file gets a block: get_a_idleblock.                                   *)
(***************************************************************************)
TakeListed(f) ==
  /\ avail # <<>>
  /\ held' = [held EXCEPT ![f] = Head(avail)]
  /\ avail' = Tail(avail)
  /\ knum' = knum - 1
  /\ intact' = (intact /\ phase = "up")
  /\ UNCHANGED <<map, idle, num>>

\* update_sblk, get_sblk, update_idle: the old list is marked, a new one made.  A
\* count that would fall below 0 is not followed.
TakeRefilled(f) ==
  /\ avail = <<>>
  /\ map' = Mark(map, Elems(idle))
  /\ num' = num - Len(idle)
  /\ num' >= 0
  /\ \E bits \in Searches(map') :
       /\ idle' = Listed(bits)
       /\ \E list \in KernelLists(idle') :
            held' = [held EXCEPT ![f] = Head(list)] /\ avail' = Tail(list)
       /\ intact' = (intact /\ phase = "up" /\ Fits(bits))
  /\ knum' = num' - 1

\* A file is created or grows; after syn_sblk the directories grow (del_Dtree), and
\* nothing marks what they get.
Take(f) ==
  /\ phase \in {"up", "synced"}
  /\ held[f] = NoBlock
  /\ Room
  /\ TakeListed(f) \/ TakeRefilled(f)
  /\ UNCHANGED <<phase, dev>>

\* update_sblk(2): a refill of the index nodes, at any time here, copies the whole
\* super block of the file system, the count of blocks with it.
Recount ==
  /\ phase = "up"
  /\ knum' = num
  /\ UNCHANGED <<phase, map, idle, num, avail, held, dev, intact>>

\* rm_file: a file whose block is 0 seems to have none.
GiveBack(f) ==
  /\ phase = "up"
  /\ held[f] # NoBlock
  /\ IF held[f] = 0 THEN UNCHANGED <<map, num>>
     ELSE map' = Clear(map, held[f]) /\ num' = num + 1
  /\ num' <= MaxNum
  /\ held' = [held EXCEPT ![f] = NoBlock]
  /\ UNCHANGED <<phase, idle, avail, knum, dev, intact>>

\* Logical_formatting, and the refill the kernel asks for after it.
Format ==
  /\ phase = "up"
  /\ map' = Mark(NoMarks, {Root})
  /\ \E bits \in Searches(map') :
       /\ idle' = Listed(bits)
       /\ avail' \in KernelLists(idle')
       /\ intact' = Fits(bits)
  /\ num' = GroupCount * PerGroup - 1
  /\ knum' = num'
  /\ held' = NoFiles
  /\ UNCHANGED <<phase, dev>>

(***************************************************************************)
(* The end of the program: syn_sblk, del_Dtree, then write_to_dev.         *)
(***************************************************************************)
Usage == num - knum

\* syn_sblk: as many numbers are marked and taken off the list as the counts differ
\* by.  More than that may have been handed out since the list was made, and the maps
\* of all groups but the first are about to be lost.
Sync ==
  /\ phase = "up"
  /\ Usage <= Len(idle)
  /\ phase' = "synced"
  /\ map' = Mark(map, {idle[i] : i \in 1 .. Usage})
  /\ idle' = SubSeq(idle, Usage + 1, Len(idle))
  /\ num' = num - Usage
  /\ intact' = /\ intact
               /\ Spent <= Usage
               /\ Usage < Len(idle)
               /\ \A f \in Files : held[f] # NoBlock => GroupOf(held[f]) = 0
  /\ UNCHANGED <<avail, knum, held, dev>>

\* &b_map.get()[i] is past the array for i > 0: whatever is in memory there is
\* written as the map of the group.
Writable == {m \in Maps : m[0] = map[0]}

Persist ==
  /\ phase = "synced"
  /\ dev.ends < MaxEnds
  /\ \E m \in Writable :
       dev' = [ends |-> dev.ends + 1, map |-> m, wait |-> idle, num |-> num,
               held |-> held, intact |-> intact]
  /\ Gone

\* A crash, or syn_sblk taking more from the list than there is.
Crash ==
  /\ phase # "off"
  /\ Gone
  /\ UNCHANGED dev

Next ==
  \/ \E f \in Files : Take(f) \/ GiveBack(f)
  \/ Recount
  \/ Format
  \/ Sync
  \/ Persist
  \/ Crash
  \/ StartFresh
  \/ StartAgain

Spec == Init /\ [][Next]_vars

(***************************************************************************)
(* Properties.                                                             *)
(***************************************************************************)
Holders == {f \in Files : held[f] # NoBlock}

TypeOK ==
  /\ phase \in {"off", "up", "synced"}
  /\ map \in Maps
  /\ idle \in Lists /\ avail \in Lists
  /\ num \in Int /\ knum \in Int
  /\ held \in [Files -> Numbers \cup {NoBlock}]
  /\ dev.map \in Maps /\ dev.wait \in Lists
  /\ dev.held \in [Files -> Numbers \cup {NoBlock}]
  /\ intact \in BOOLEAN

\* While the numbers fit, and as long as no end of the program left a number in use
\* unmarked, two files never share a block of the device, and no file has the root
\* directory's block, a block of the maps, of the table of index nodes or of the super
\* blocks, or one past the end of the device.
OwnPlaces ==
  intact => \A f \in Holders :
    /\ Place(held[f]) \in 0 .. DeviceBlocks - 1
    /\ Place(held[f]) # Place(Root)
    /\ \A g \in GroupSet : Place(held[f]) \notin ControlBlocks(g)
    /\ \A h \in Holders \ {f} : Place(held[h]) # Place(held[f])

\* As long as that is so, no number is on a list twice, and none the kernel is still
\* to hand out belongs to a file.
ListsAreFree ==
  intact => \A i \in DOMAIN avail :
    /\ \A f \in Holders : held[f] # avail[i]
    /\ \A j \in DOMAIN avail : avail[i] = avail[j] => i = j
    /\ avail[i] # Root
=============================================================================
