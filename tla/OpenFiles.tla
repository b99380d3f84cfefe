----------------------------- MODULE OpenFiles -----------------------------
(***************************************************************************)
(* The tables of open files in Emulated_kernel: the descriptor table of the*)
(* user, the table of v items (v_table) and the table of kernel index nodes*)
(* (kinode_table).  A descriptor points to a v item, a v item to a kernel  *)
(* index node.  Idle slots of the two tables are kept on two lists, which  *)
(* are topped up together as soon as one of them is empty.  The module says*)
(* what the descriptors of several open files do to each other and to the  *)
(* index nodes of the file system (inode_list).                            *)
(*                                                                         *)
(* Lengths and offsets are counted in blocks.  Which number a new file gets*)
(* is left open (module Space), and so is whether a block is to be had.    *)
(***************************************************************************)
EXTENDS Integers, Sequences, FiniteSets

CONSTANTS
  Files,      \* index nodes of files
  Root,       \* index node 0, the root directory's
  Keep,       \* length of a list of idle slots (IDLE_NUM_KENKEEP)
  Tab,        \* size of v_table and of kinode_table
  Fds,        \* file descriptors (0 .. OPEN_MAX - 1), 0 is the root directory's
  MaxLen,     \* longest file (MAX_FILE_LEN)
  MaxOps      \* bound: commands and starts, all together

ASSUME FilesAssumption == Root \notin Files
ASSUME KeepAssumption == Keep \in Nat \ {0, 1}
ASSUME TabAssumption == Tab \in Nat \ {0}
ASSUME FdsAssumption == Fds \subseteq Nat /\ 0 \in Fds
ASSUME LenAssumption == MaxLen \in Nat \ {0} /\ MaxOps \in Nat

Inos == Files \cup {Root}
Slots == 0 .. Tab - 1

VARIABLES
  phase,      \* "up", "formatting", "leaving", "off", "hung"
  idle,       \* [v, k]: idle_vnode and idle_kinode
  vtab,       \* v_table: slot -> is_used, i_ptr
  ktab,       \* kinode_table: slot -> inode_no, create_time # 0, length, locker
  open,       \* descriptors in use (fd # -1)
  fds,        \* descriptor -> v_ptr, offset; file: history, the file opened
  inodes,     \* inode_list: index node -> create_time # 0, length
  names,      \* files that have a name in the directory tree
  ops,        \* commands and starts so far, counted for the bound only
  tidy,       \* history: the lists were not topped up in this session
  home,       \* history: descriptor 0 was not closed in this session
  solo,       \* history: started with a root directory that was created, and since
              \* then at most one file open besides descriptor 0
  orphan      \* history: open descriptors whose file was removed

vars == <<phase, idle, vtab, ktab, open, fds, inodes, names, ops, tidy, home, solo, orphan>>
tables == <<vtab, ktab, open, fds>>

Closed == [v |-> 0, off |-> 0, file |-> Root]
UnusedV == [used |-> FALSE, i |-> 0]
UnusedK == [ino |-> Root, live |-> FALSE, len |-> 0, locked |-> FALSE]
NoInode == [live |-> FALSE, len |-> 0]
NewRoot == [live |-> TRUE, len |-> 1]

Longer(a, b) == IF a >= b THEN a ELSE b
Shorter(a, b) == IF a <= b THEN a ELSE b

\* A file has a block from its first day.
Held(len) == Longer(len, 1)

(***************************************************************************)
(* The lists of idle slots.                                                *)
(***************************************************************************)
IdleV == {s \in Slots : ~vtab[s].used}
\* A slip of update_idle: it does not look whether the slot is in use.
IdleUnseen == Slots

IdleK == {s \in Slots : ~ktab[s].live}

\* The n smallest members of S, in ascending order.
Smallest(S, n) ==
  [m \in 1 .. n |-> CHOOSE s \in S : Cardinality({t \in S : t < s}) = m - 1]

\* update_idle appends slots that are not in use, in ascending order, then the
\* positions from the end of the table on.
TopUp(list, S) ==
  list \o Smallest(S \cup (Tab .. Tab + Keep - 1), Keep - Len(list))

Refilled(L) == IF L.v # <<>> /\ L.k # <<>> THEN L
               ELSE [v |-> TopUp(L.v, IdleV), k |-> TopUp(L.k, IdleK)]

\* get_a_idleloc("v_node"), then get_a_idleloc("ki_node"): the second call may
\* top up the lists while the slot of the first is not marked as used yet.
First == Refilled(idle)
Second == Refilled([v |-> Tail(First.v), k |-> First.k])
NewV == Head(First.v)
NewK == Head(Second.k)
\* A slip of get_a_idleloc: the slot of the kernel index node is not popped.
RestUnpopped == [v |-> Second.v, k |-> Second.k]

Rest == [v |-> Second.v, k |-> Tail(Second.k)]
ToppedUp == idle.v = <<>> \/ idle.k = <<>> \/ Tail(idle.v) = <<>>

\* A slot past the end of a table is memory of something else; what happens
\* then is not modelled.
InTable == NewV \in Slots /\ NewK \in Slots

(***************************************************************************)
(* Descriptors.                                                            *)
(***************************************************************************)
Islot(d) == vtab[fds[d].v].i          \* where open, read, write and close look
IsOpen(f) == \E d \in open : ktab[Islot(d)].ino = f       \* is_file_open
FreeFds == Fds \ open
IdleFd == CHOOSE d \in FreeFds : \A e \in FreeFds : d <= e   \* get_idle_fd

\* The copy of a kernel index node that set_stat stores.
Stored(s) == [live |-> ktab[s].live, len |-> ktab[s].len]

Op == phase = "up" /\ ops < MaxOps /\ ops' = ops + 1

\* Slots are taken from the lists; the histories that follow from it.
TakesSlots ==
  /\ InTable
  /\ idle' = Rest
  /\ tidy' = (tidy /\ ~ToppedUp)
  /\ solo' = (solo /\ \A d \in open : d = 0 /\ home)
  /\ UNCHANGED home

----------------------------------------------------------------------------
\* The first mount of a new file system (slot 0 of both tables is the root
\* directory's), and login, which gives it descriptor 0.
FreshIdle == [v |-> [n \in 1 .. Keep - 1 |-> n], k |-> [n \in 1 .. Keep - 1 |-> n]]
FreshV == [s \in Slots |-> IF s = 0 THEN [used |-> TRUE, i |-> 0] ELSE UnusedV]
FreshK(root) ==
  [s \in Slots |-> IF s = 0
                   THEN [ino |-> Root, live |-> root.live, len |-> root.len, locked |-> FALSE]
                   ELSE UnusedK]
FreshFds == [d \in Fds |-> Closed]

Init ==
  /\ phase = "up"
  /\ inodes = [f \in Inos |-> IF f = Root THEN NewRoot ELSE NoInode]
  /\ idle = FreshIdle
  /\ vtab = FreshV
  /\ ktab = FreshK(NewRoot)
  /\ open = {0}
  /\ fds = FreshFds
  /\ names = {}
  /\ ops = 0
  /\ tidy = TRUE
  /\ home = TRUE
  /\ solo = TRUE
  /\ orphan = {}

\* The next start of the program: the root directory's index node is read.
Mount ==
  /\ phase = "off"
  /\ ops < MaxOps
  /\ ops' = ops + 1
  /\ phase' = "up"
  /\ idle' = FreshIdle
  /\ vtab' = FreshV
  /\ ktab' = FreshK(inodes[Root])
  /\ open' = {0}
  /\ fds' = FreshFds
  /\ tidy' = TRUE
  /\ home' = TRUE
  /\ solo' = inodes[Root].live
  /\ orphan' = {}
  /\ UNCHANGED <<inodes, names>>

\* touch: init_new_file and my_close.  The new file's descriptor, v
\* item and kernel index node are set up and given back.
Touch(f) ==
  /\ Op
  /\ f \notin names
  /\ FreeFds # {}
  /\ TakesSlots
  /\ names' = names \cup {f}
  /\ inodes' = [inodes EXCEPT ![f] = [live |-> TRUE, len |-> 0]]
  /\ vtab' = [vtab EXCEPT ![NewV] = UnusedV]
  /\ ktab' = [ktab EXCEPT ![NewK].ino = Root, ![NewK].live = FALSE, ![NewK].len = 0]
  /\ UNCHANGED <<phase, open, fds, orphan>>

\* distribute_newfile_block finds no room, or open an index node that was never
\* written: the slots are taken off the lists and nothing else happens.
FailsToOpen ==
  /\ Op
  /\ FreeFds # {}
  /\ TakesSlots
  /\ UNCHANGED <<phase, tables, inodes, names, orphan>>

\* open, with the offset at the start or (APPEND) at the end of the file.
Open(f) ==
  /\ Op
  /\ f \in names \cup {Root}
  /\ ~IsOpen(f)
  /\ FreeFds # {}
  /\ inodes[f].live
  /\ TakesSlots
  /\ ktab' = [ktab EXCEPT ![NewK].ino = f, ![NewK].live = TRUE,
                          ![NewK].len = inodes[f].len]
  /\ vtab' = [vtab EXCEPT ![NewV] = [used |-> TRUE, i |-> NewK]]
  /\ open' = open \cup {IdleFd}
  /\ \E off \in {0, inodes[f].len} :
       fds' = [fds EXCEPT ![IdleFd] = [v |-> NewV, off |-> off, file |-> f]]
  /\ UNCHANGED <<phase, inodes, names, orphan>>

\* my_close: the kernel's index node is written back and the slots are marked
\* unused; they return to the lists only when these are topped up.
Closes(d) ==
  /\ inodes' = [inodes EXCEPT ![ktab[Islot(d)].ino] = Stored(Islot(d))]
  /\ vtab' = [vtab EXCEPT ![fds[d].v] = UnusedV]
  /\ ktab' = [ktab EXCEPT ![Islot(d)].ino = Root, ![Islot(d)].live = FALSE]
  /\ open' = open \ {d}
  /\ fds' = [fds EXCEPT ![d] = Closed]
  /\ orphan' = orphan \ {d}
  /\ home' = (home /\ d # 0)

Close(d) ==
  /\ Op
  /\ d \in open
  /\ Closes(d)
  /\ UNCHANGED <<phase, idle, names, tidy, solo>>

\* my_lseek looks up the kernel's index node by the number of the v item.  Past
\* the end of the file it makes the file longer, if it gets the blocks.
Lseek(d, off) ==
  /\ Op
  /\ d \in open
  /\ off < MaxLen
  /\ fds' = [fds EXCEPT ![d].off = off]
  /\ LET s == fds[d].v IN
       \/ /\ off >= ktab[s].len
          /\ ktab' = [ktab EXCEPT ![s].len = off]
          /\ inodes' = [inodes EXCEPT ![ktab[s].ino] = [live |-> ktab[s].live, len |-> off]]
       \/ /\ off < ktab[s].len \/ off >= Held(ktab[s].len)   \* no block left
          /\ UNCHANGED <<ktab, inodes>>
  /\ UNCHANGED <<phase, idle, vtab, open, names, tidy, home, solo, orphan>>

\* my_read of n blocks: the offset moves, at most to the end of the file.  From
\* an offset past the end it would copy a wrapped-around size: not modelled.
Read(d, n) ==
  /\ Op
  /\ d \in open
  /\ fds[d].off <= ktab[Islot(d)].len
  /\ fds' = [fds EXCEPT ![d].off = Shorter(fds[d].off + n, ktab[Islot(d)].len)]
  /\ UNCHANGED <<phase, idle, vtab, ktab, open, inodes, names, tidy, home, solo, orphan>>

\* A slip of my_write: the index node is not written through.
WritesBehind(d, n) ==
  LET s == Islot(d)
      end == Shorter(fds[d].off + n, MaxLen)
  IN /\ ktab' = [ktab EXCEPT ![s].len = Longer(ktab[s].len, end)]
     /\ fds' = [fds EXCEPT ![d].off = end]
     /\ UNCHANGED inodes

\* Another: the size is not clipped at MAX_FILE_LEN.
WritesUnclipped(d, n) ==
  LET s == Islot(d)
      end == fds[d].off + n
      len == Longer(ktab[s].len, end)
  IN /\ ktab' = [ktab EXCEPT ![s].len = len]
     /\ inodes' = [inodes EXCEPT ![ktab[s].ino] = [live |-> ktab[s].live, len |-> len]]
     /\ fds' = [fds EXCEPT ![d].off = end]

Writes(d, n) ==
  LET s == Islot(d)
      end == Shorter(fds[d].off + n, MaxLen)
      len == Longer(ktab[s].len, end)
  IN /\ ktab' = [ktab EXCEPT ![s].len = len]
     /\ inodes' = [inodes EXCEPT ![ktab[s].ino] = [live |-> ktab[s].live, len |-> len]]
     /\ fds' = [fds EXCEPT ![d].off = end]

\* my_write of n blocks, clipped at the longest length; it locks the kernel's
\* index node, and when it gets no block it returns without unlocking it.
Write(d, n) ==
  /\ Op
  /\ d \in open
  /\ ~ktab[Islot(d)].locked
  /\ \/ Writes(d, n)
     \/ /\ Shorter(fds[d].off + n, MaxLen) > Held(ktab[Islot(d)].len)
        /\ ktab' = [ktab EXCEPT ![Islot(d)].locked = TRUE]
        /\ UNCHANGED <<inodes, fds>>
  /\ UNCHANGED <<phase, idle, vtab, open, names, tidy, home, solo, orphan>>

\* The lock of the index node is held already: my_write waits for ever.
WriteHangs(d) ==
  /\ Op
  /\ d \in open
  /\ ktab[Islot(d)].locked
  /\ phase' = "hung"
  /\ UNCHANGED <<idle, tables, inodes, names, tidy, home, solo, orphan>>

\* rm: the index node is wiped, whether the file is open or not.
Rm(f) ==
  /\ Op
  /\ f \in names
  /\ names' = names \ {f}
  /\ inodes' = [inodes EXCEPT ![f] = NoInode]
  /\ orphan' = orphan \cup {d \in open : fds[d].file = f}
  /\ UNCHANGED <<phase, idle, tables, tidy, home, solo>>

----------------------------------------------------------------------------
\* logic_format and bottom_format close every descriptor but 0, the end of the
\* program closes them all, in ascending order.
StartFormat ==
  /\ Op
  /\ phase' = "formatting"
  /\ UNCHANGED <<idle, tables, inodes, names, tidy, home, solo, orphan>>

Exit ==
  /\ Op
  /\ phase' = "leaving"
  /\ UNCHANGED <<idle, tables, inodes, names, tidy, home, solo, orphan>>

ToClose == IF phase = "formatting" THEN open \ {0} ELSE open

CloseNext ==
  /\ phase \in {"formatting", "leaving"}
  /\ \E d \in ToClose : /\ \A e \in ToClose : d <= e
                        /\ Closes(d)
  /\ UNCHANGED <<phase, idle, names, ops, tidy, solo>>

\* The rest of logic_format (kept = names) and of bottom_format (kept = {},
\* which removes the files one by one): the directory is empty, and the kernel's
\* index node in slot 0 is stored as the root directory's.
FinishFormat(kept) ==
  /\ phase = "formatting"
  /\ ToClose = {}
  /\ phase' = "up"
  /\ names' = {}
  /\ ktab' = [ktab EXCEPT ![0].len = 1]
  /\ inodes' = [f \in Inos |->
                  IF f = Root THEN [live |-> ktab[0].live, len |-> 1]
                  ELSE IF f \in names \ kept THEN NoInode
                  ELSE inodes[f]]
  /\ orphan' = orphan \cup {d \in open : fds[d].file \in names}
  /\ UNCHANGED <<idle, vtab, open, fds, ops, tidy, home, solo>>

\* del_Dtree stores the root directory, which fits in one block.
FinishExit ==
  /\ phase = "leaving"
  /\ open = {}
  /\ phase' = "off"
  /\ inodes' = [inodes EXCEPT ![Root].len = 1]
  /\ UNCHANGED <<idle, tables, names, ops, tidy, home, solo, orphan>>

Next ==
  \/ Mount
  \/ \E f \in Files : Touch(f)
  \/ FailsToOpen
  \/ \E f \in Inos : Open(f)
  \/ \E d \in Fds : Close(d)
  \/ \E d \in Fds, off \in 0 .. MaxLen : Lseek(d, off)
  \/ \E d \in Fds, n \in 1 .. MaxLen : Read(d, n)
  \/ \E d \in Fds, n \in 1 .. MaxLen : Write(d, n)
  \/ \E d \in Fds : WriteHangs(d)
  \/ \E f \in Files : Rm(f)
  \/ StartFormat
  \/ Exit
  \/ CloseNext
  \/ FinishFormat(names)
  \/ FinishFormat({})
  \/ FinishExit

Spec == Init /\ [][Next]_vars

----------------------------------------------------------------------------
(***************************************************************************)
(* Properties.                                                             *)
(***************************************************************************)
TypeOK ==
  /\ phase \in {"up", "formatting", "leaving", "off", "hung"}
  /\ idle \in [v : Seq(Nat), k : Seq(Nat)]
  /\ vtab \in [Slots -> [used : BOOLEAN, i : Slots]]
  /\ ktab \in [Slots -> [ino : Inos, live : BOOLEAN, len : 0 .. MaxLen, locked : BOOLEAN]]
  /\ open \subseteq Fds
  /\ fds \in [Fds -> [v : Slots, off : 0 .. MaxLen, file : Inos]]
  /\ inodes \in [Inos -> [live : BOOLEAN, len : 0 .. MaxLen]]
  /\ names \subseteq Files
  /\ ops \in 0 .. MaxOps
  /\ tidy \in BOOLEAN
  /\ home \in BOOLEAN
  /\ solo \in BOOLEAN
  /\ orphan \subseteq open

Own(d) == ktab[Islot(d)].ino = fds[d].file

\* Until the lists of idle slots are topped up for the first time in a session,
\* every open descriptor has a v item and a kernel index node of its own, in
\* slots of the same number (my_lseek relies on it), holding the file it was
\* opened for; no file is open twice, and no slot in use is listed as idle.
TidySlotsAreOwn ==
  tidy => \A d \in open :
    /\ vtab[fds[d].v] = [used |-> TRUE, i |-> fds[d].v]
    /\ Own(d)
    /\ \A e \in open \ {d} : fds[e].v # fds[d].v /\ fds[e].file # fds[d].file
    /\ \A n \in DOMAIN idle.v : idle.v[n] # fds[d].v /\ idle.k[n] = idle.v[n]

\* ... and what the file system knows of an open file is what the kernel knows,
\* unless the file was removed under the descriptor, or is the root directory
\* opened again: a format stores slot 0, whoever holds it.
TidyIsWrittenThrough ==
  tidy => \A d \in open \ orphan :
    fds[d].file # Root \/ fds[d].v = 0 => inodes[fds[d].file] = Stored(Islot(d))

\* With one file open at a time a descriptor always holds the file it was opened
\* for, however often the lists were topped up and out of step.
SoloIsOwn == solo => \A d \in open : Own(d)

----------------------------------------------------------------------------
(***************************************************************************)
(* What the comments of the code say, and the code does not do.            *)
(***************************************************************************)
\* Emulated_kernel.cpp, my_write: the lock is taken and given back.
NoLockIsLeft == \A s \in Slots : ~ktab[s].locked

=============================================================================
