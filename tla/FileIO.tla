------------------------------- MODULE FileIO -------------------------------
(***************************************************************************)
(* Reading and writing files.  A descriptor has a buffer for one block of  *)
(* its file; my_read and my_write load block after block into it, and      *)
(* my_write writes each back at once.  The kernel works on its own copy of *)
(* the index node, with the addresses of at most ten blocks, an address 0  *)
(* for a block the file does not have.  Block 0 is the root directory's.   *)
(* The module follows bytes from what the user writes to the blocks on the *)
(* device and back, through open, my_close, my_lseek, touch, cp, rm, a     *)
(* directory read meanwhile, and the end and start of the program.         *)
(*                                                                         *)
(* A file is its index node.  Which block is handed out is left open       *)
(* (module Space), as is which slot of the tables a file gets (module      *)
(* OpenFiles): here a descriptor has one kernel index node, also in        *)
(* my_lseek.  A cp that gets no block is in Space.  Opening a              *)
(* directory, a seek to a negative offset and a read behind the end of a   *)
(* file are left out.                                                      *)
(***************************************************************************)
EXTENDS Integers, FiniteSets, SequencesExt

CONSTANTS
  BlockSize,    \* bytes in a block (BLOCK_SIZE, 4096)
  MaxBlocks,    \* blocks of a file (10)
  Files,        \* index nodes, the root directory's left out
  Root,         \* the root directory's index node
  NoFile,       \* a descriptor that is not open
  Blocks,       \* disk blocks
  Zero,         \* block 0
  MaxFd,        \* the last descriptor (OPEN_MAX - 1)
  Letters,      \* the bytes a user types
  Texts,        \* what a user writes
  Nul,          \* the byte '\0'
  DirByte,      \* a byte of a directory's entries
  MaxOps        \* bound on the commands

ASSUME SizeAssumption == BlockSize \in Nat \ {0} /\ MaxBlocks \in Nat \ {0}
ASSUME FilesAssumption == IsFiniteSet(Files) /\ Root \notin Files /\ NoFile \notin Files
                            /\ NoFile # Root
ASSUME BlocksAssumption == IsFiniteSet(Blocks) /\ Zero \in Blocks
ASSUME BytesAssumption == Nul \notin Letters /\ DirByte \notin Letters /\ DirByte # Nul
ASSUME TextsAssumption == Texts \subseteq Seq(Letters) /\ <<>> \notin Texts
ASSUME BoundAssumption == MaxFd \in Nat /\ MaxOps \in Nat

MaxLen == BlockSize * MaxBlocks         \* MAX_FILE_LEN
Fds == 0 .. MaxFd
Bytes == Letters \cup {Nul, DirByte}
Offsets == 0 .. BlockSize - 1
Nuls == [j \in Offsets |-> Nul]
DirBlock == [j \in Offsets |-> DirByte]
NoBlocks == [i \in 0 .. MaxBlocks - 1 |-> Zero]

VARIABLES
  names,    \* files that have a name in some directory
  inodes,   \* inode_list: length and addresses
  disk,     \* the bytes of the blocks
  free,     \* blocks that can be handed out
  fds,      \* descriptors, each with its buffer and its kernel index node
  got,      \* what the last my_read returned
  ops,      \* commands so far, counted for the bound only
  exact     \* history: no command so far that damages what files hold

vars == <<names, inodes, disk, free, fds, got, ops, exact>>

NoInode == [len |-> 0, addr |-> NoBlocks]

\* A descriptor that is not open; the kernel index node keeps its addresses.
Closed(addr, lock) ==
  [file |-> NoFile, len |-> 0, addr |-> addr, used |-> 0, off |-> 0, cur |-> 0, buf |-> Nuls,
   lock |-> lock]

\* Descriptor 0 after the start: the root directory, nothing in the buffer yet.
RootFd == [Closed(NoBlocks, FALSE) EXCEPT !.file = Root, !.len = BlockSize, !.cur = -1]

IsOpen(f) == \E d \in Fds : fds[d].file = f
IdleFds == {d \in Fds : fds[d].file = NoFile}
Lowest(S) == CHOOSE d \in S : \A e \in S : d <= e

\* The blocks before the first address 0.
Used(addr) == {i \in 0 .. MaxBlocks - 1 : \A j \in 0 .. i : addr[j] # Zero}
BlocksOf(addr) == {addr[i] : i \in Used(addr)}

\* get_a_idleblock wipes each block it hands out.
Wiped(S) == [b \in Blocks |-> IF b \in S THEN Nuls ELSE disk[b]]

\* The blocks S are handed out.
TakenUnpopped(S) == UNCHANGED free /\ disk' = Wiped(S)      \* a slip: they stay in the list
Taken(S) == free' = free \ S /\ disk' = Wiped(S)

Stored(k) == [len |-> k.len, addr |-> k.addr]

Op == ops < MaxOps /\ ops' = ops + 1

Init ==
  /\ names = {}
  /\ inodes = [f \in Files \cup {Root} |->
                 [NoInode EXCEPT !.len = IF f = Root THEN BlockSize ELSE 0]]
  /\ disk = [b \in Blocks |-> IF b = Zero THEN DirBlock ELSE Nuls]
  /\ free = Blocks \ {Zero}
  /\ fds = [d \in Fds |-> IF d = 0 THEN RootFd ELSE Closed(NoBlocks, FALSE)]
  /\ got = <<>>
  /\ ops = 0
  /\ exact = TRUE

(***************************************************************************)
(* touch: a new file gets a block.  What its kernel index node holds behind*)
(* the first address is what the last file there left.                     *)
(***************************************************************************)
Leftovers == {NoBlocks} \cup {fds[d].addr : d \in IdleFds}

Touch(f) ==
  /\ Op
  /\ f \notin names /\ IdleFds # {}
  /\ \E b \in free, old \in Leftovers :
       /\ inodes' = [inodes EXCEPT ![f] = [len |-> 0, addr |-> [old EXCEPT ![0] = b]]]
       /\ Taken({b})
       /\ exact' = (exact /\ \A i \in 1 .. MaxBlocks - 1 : old[i] = Zero)
  /\ names' = names \cup {f}
  /\ UNCHANGED <<fds, got>>

(***************************************************************************)
(* open and my_close.                                                      *)
(***************************************************************************)
Open(f, append) ==
  /\ Op
  /\ f \in names /\ ~IsOpen(f) /\ IdleFds # {}
  /\ LET d == Lowest(IdleFds)
         i == inodes[f]
     IN fds' = [fds EXCEPT ![d] =
                  [file |-> f, len |-> i.len, addr |-> i.addr,
                   used |-> Cardinality(Used(i.addr)) - 1,
                   off |-> IF append THEN i.len ELSE 0, cur |-> 0, buf |-> disk[i.addr[0]],
                   lock |-> fds[d].lock]]
  /\ UNCHANGED <<names, inodes, disk, free, got, exact>>

Close(d) ==
  /\ Op
  /\ fds[d].file # NoFile
  /\ inodes' = [inodes EXCEPT ![fds[d].file] = Stored(fds[d])]
  /\ fds' = [fds EXCEPT ![d] = Closed(fds[d].addr, fds[d].lock)]
  /\ UNCHANGED <<names, disk, free, got, exact>>

(***************************************************************************)
(* my_lseek: a seek to the end or behind it sets the length, and gives the *)
(* file the blocks up to the new offset.                                   *)
(***************************************************************************)
BlocksToRounded(k, off) == Max({0, off \div BlockSize - k.used + 1})    \* a slip: one more
BlocksTo(k, off) == Max({0, off \div BlockSize - k.used})

Lseek(d, off) ==
  /\ Op
  /\ LET k == fds[d]
         need == BlocksTo(k, off)
     IN /\ k.file # NoFile
        /\ IF off < k.len
           THEN fds' = [fds EXCEPT ![d].off = off] /\ UNCHANGED <<inodes, disk, free>>
           ELSE \E bs \in Injection(1 .. need, free) :
                  /\ fds' = [fds EXCEPT ![d] =
                       [k EXCEPT !.off = off, !.len = off, !.used = @ + need,
                                 !.addr = [i \in DOMAIN @ |-> IF i - k.used \in 1 .. need
                                                              THEN bs[i - k.used] ELSE @[i]]]]
                  /\ inodes' = [inodes EXCEPT ![k.file] = Stored(fds'[d])]
                  /\ Taken(Range(bs))
        /\ exact' = (exact /\ k.file # Root)
  /\ UNCHANGED <<names, got>>

\* No block is left on the way: the offset stays behind the end of the file.
LseekFails(d, off) ==
  /\ Op
  /\ LET k == fds[d]
         n == Cardinality(free)
     IN /\ k.file # NoFile /\ off >= k.len /\ BlocksTo(k, off) > n
        /\ \E bs \in Injection(1 .. n, free) :
             fds' = [fds EXCEPT ![d] = [k EXCEPT !.off = off, !.used = @ + n,
                       !.addr = [i \in DOMAIN @ |-> IF i - k.used \in 1 .. n
                                                    THEN bs[i - k.used] ELSE @[i]]]]
  /\ Taken(free)
  /\ exact' = FALSE
  /\ UNCHANGED <<names, inodes, got>>

(***************************************************************************)
(* my_read and my_write.  Both go through the blocks that hold n bytes from*)
(* the offset on.                                                          *)
(***************************************************************************)
FirstBlock(k) == k.off \div BlockSize
LastBlock(k, n) == IF k.off + n = 0 THEN 0 ELSE (k.off + n - 1) \div BlockSize
Rounds(k, n) == LastBlock(k, n) - FirstBlock(k) + 1

\* A slip: the buffer is not loaded for a new block.
LoadedNever(k, dsk, i) == [k EXCEPT !.cur = i]

\* The block i of the file is in the buffer, or is read into it.
Loaded(k, dsk, i) == IF k.cur = i THEN k ELSE [k EXCEPT !.cur = i, !.buf = dsk[k.addr[i]]]

\* strncpy stops at a '\0' and fills up with '\0'.
Strncpy(s) == [i \in DOMAIN s |-> IF \E j \in 1 .. i : s[j] = Nul THEN Nul ELSE s[i]]

\* The bytes of block i that are among the n from the offset on.
Chunk(k, i, n) ==
  LET from == Max({k.off, i * BlockSize})
      to == Min({k.off + n, (i + 1) * BlockSize})
  IN [j \in 1 .. to - from |-> k.buf[(from + j - 1) % BlockSize]]

\* One block of my_read: what strncpy copied so far, and what is there.
ReadBlock(r, i, n) ==
  LET b == Loaded(r.k, disk, i)
  IN [k |-> b, out |-> r.out \o Strncpy(Chunk(b, i, n)), all |-> r.all \o Chunk(b, i, n)]

\* The loop, after each number of blocks.
ReadUpTo(k, n) ==
  LET r[m \in 0 .. Rounds(k, n)] ==
        IF m = 0 THEN [k |-> k, out |-> <<>>, all |-> <<>>]
        ELSE ReadBlock(r[m - 1], FirstBlock(k) + m - 1, n)
  IN r

Reading(k, n) == ReadUpTo(k, n)[Rounds(k, n)]

Read(d, size) ==
  /\ Op
  /\ fds[d].file # NoFile /\ fds[d].off <= fds[d].len
  /\ LET n == Min({size, fds[d].len - fds[d].off})
         r == Reading(fds[d], n)
     IN /\ got' = r.out
        /\ fds' = [fds EXCEPT ![d] = [r.k EXCEPT !.off = @ + n]]
        /\ exact' = (exact /\ r.out = r.all /\ fds[d].file # Root)
  /\ UNCHANGED <<names, inodes, disk, free>>

\* A slip: the text is copied as a whole block, the rest of it filled up.
PatchedWhole(k, i, text) ==
  [j \in Offsets |->
     LET p == i * BlockSize + j - k.off + 1 IN IF p \in DOMAIN text THEN text[p] ELSE Nul]

\* The buffer with what text puts into block i.
Patched(k, i, text) ==
  [j \in Offsets |->
     LET p == i * BlockSize + j - k.off + 1 IN IF p \in DOMAIN text THEN text[p] ELSE k.buf[j]]

\* One block of my_write, and the loop.
WriteBlock(w, i, text) ==
  LET b == Loaded(w.k, w.disk, i)
      buf == Patched(b, i, text)
  IN [k |-> [b EXCEPT !.buf = buf], disk |-> [w.disk EXCEPT ![b.addr[i]] = buf]]

WriteUpTo(k, dsk, text) ==
  LET w[m \in 0 .. Rounds(k, Len(text))] ==
        IF m = 0 THEN [k |-> k, disk |-> dsk]
        ELSE WriteBlock(w[m - 1], FirstBlock(k) + m - 1, text)
  IN w

Writing(k, dsk, text) == WriteUpTo(k, dsk, text)[Rounds(k, Len(text))]

Clipped(k, text) == SubSeq(text, 1, Min({Len(text), MaxLen - k.off}))

\* The blocks the file has to grow by, and what becomes of it: a number is taken
\* for each, but the address stored is the value of a comparison, 0.
Growth(k, n) == Max({0, LastBlock(k, n) - k.used})
Grown(k, n) == [k EXCEPT !.used = @ + n, !.addr = [i \in DOMAIN @ |-> IF i - k.used \in 1 .. n
                                                                      THEN Zero ELSE @[i]]]

Write(d, line) ==
  /\ Op
  /\ LET k == fds[d]
         text == Clipped(k, line)
         need == Growth(k, Len(text))
     IN /\ k.file # NoFile /\ ~k.lock
        /\ \E S \in SUBSET free :
             /\ Cardinality(S) = need
             /\ free' = free \ S
             /\ LET w == Writing(Grown(k, need), Wiped(S), text)
                IN /\ disk' = w.disk
                   /\ fds' = [fds EXCEPT ![d] = [w.k EXCEPT !.off = @ + Len(text),
                                                  !.len = Max({@, k.off + Len(text)})]]
        /\ inodes' = [inodes EXCEPT ![k.file] = Stored(fds'[d])]
        /\ exact' = (exact /\ need = 0 /\ k.file # Root)
  /\ UNCHANGED <<names, got>>

\* No block is left: my_write returns and leaves the lock.
WriteFails(d, line) ==
  /\ Op
  /\ LET k == fds[d]
         n == Cardinality(free)
     IN /\ k.file # NoFile /\ ~k.lock
        /\ Growth(k, Len(Clipped(k, line))) > n
        /\ fds' = [fds EXCEPT ![d] = [Grown(k, n) EXCEPT !.lock = TRUE]]
  /\ Taken(free)
  /\ exact' = FALSE
  /\ UNCHANGED <<names, inodes, got>>

(***************************************************************************)
(* cp and rm of a file, both on the stored index node, and the reading of a*)
(* directory.  cp and the reading of directories use the buffer of         *)
(* descriptor 0, whatever it is open for.                                  *)
(***************************************************************************)
ZeroIsFree == fds[0].file \in {NoFile, Root}
Clobbered(bytes) ==
  IF fds[0].file = NoFile THEN fds ELSE [fds EXCEPT ![0].buf = bytes]

Cp(f, g) ==
  /\ Op
  /\ f \in names /\ g \notin names
  /\ LET src == inodes[f].addr
         n == Cardinality(Used(src))
     IN /\ \E bs \in Injection(Used(src), free) :
             /\ inodes' = [inodes EXCEPT ![g] =
                  [len |-> inodes[f].len,
                   addr |-> [i \in DOMAIN src |-> IF i \in Used(src) THEN bs[i] ELSE Zero]]]
             /\ free' = free \ Range(bs)
             /\ disk' = [b \in Blocks |-> IF b \in Range(bs)
                                          THEN disk[src[CHOOSE i \in Used(src) : bs[i] = b]]
                                          ELSE disk[b]]
        /\ fds' = IF n = 0 THEN fds ELSE Clobbered(disk[src[n - 1]])
        /\ exact' = (exact /\ (n = 0 \/ ZeroIsFree))
  /\ names' = names \cup {g}
  /\ UNCHANGED got

Rm(f) ==
  /\ Op
  /\ f \in names
  /\ names' = names \ {f}
  /\ free' = free \cup BlocksOf(inodes[f].addr)
  /\ disk' = Wiped(BlocksOf(inodes[f].addr))
  /\ inodes' = [inodes EXCEPT ![f] = NoInode]
  /\ exact' = (exact /\ ~IsOpen(f))
  /\ UNCHANGED <<fds, got>>

\* A path leads into a directory that was not visited yet.
Visit ==
  /\ Op
  /\ fds' = Clobbered(DirBlock)
  /\ exact' = (exact /\ ZeroIsFree)
  /\ UNCHANGED <<names, inodes, disk, free, got>>

\* The end of the program, which closes the files one after the other and writes
\* the root directory, and the next start.
Restart ==
  /\ Op
  /\ inodes' = [f \in Files \cup {Root} |->
                  IF f # Root /\ IsOpen(f)
                  THEN Stored(fds[CHOOSE d \in Fds : fds[d].file = f])
                  ELSE IF f = Root /\ IsOpen(f) THEN [len |-> BlockSize, addr |-> fds[0].addr]
                  ELSE inodes[f]]
  /\ disk' = [disk EXCEPT ![Zero] = DirBlock]
  /\ fds' = [d \in Fds |-> IF d = 0
                           THEN [RootFd EXCEPT !.addr = inodes'[Root].addr]
                           ELSE Closed(NoBlocks, FALSE)]
  /\ UNCHANGED <<names, free, got, exact>>

Next ==
  \/ \E f \in Files : Touch(f) \/ Rm(f)
  \/ \E f \in Files, append \in BOOLEAN : Open(f, append)
  \/ \E f, g \in Files : Cp(f, g)
  \/ \E d \in Fds : Close(d)
  \/ \E d \in Fds, off \in 0 .. MaxLen - 1 : Lseek(d, off) \/ LseekFails(d, off)
  \/ \E d \in Fds, size \in 1 .. MaxLen : Read(d, size)
  \/ \E d \in Fds, line \in Texts : Write(d, line) \/ WriteFails(d, line)
  \/ Visit
  \/ Restart

Spec == Init /\ [][Next]_vars

(***************************************************************************)
(* What the code does as long as no command does damage.  Damage is: a     *)
(* write that needs another block, a command that gets no block, bytes     *)
(* written to the root directory or read from its buffer, a touch onto old *)
(* addresses, a '\0' in what is read, a removed file that is open, and the *)
(* use of the buffer of descriptor 0 while a file is open there.           *)
(***************************************************************************)
TypeOK ==
  /\ names \subseteq Files
  /\ inodes \in [Files \cup {Root} -> [len : 0 .. MaxLen, addr : [DOMAIN NoBlocks -> Blocks]]]
  /\ disk \in [Blocks -> [Offsets -> Bytes]]
  /\ free \subseteq Blocks \ {Zero}
  /\ fds \in [Fds -> [file : Files \cup {Root, NoFile}, len : 0 .. MaxLen,
                     addr : [DOMAIN NoBlocks -> Blocks], used : 0 .. MaxBlocks - 1,
                     off : 0 .. MaxLen, cur : -1 .. MaxBlocks - 1,
                     buf : [Offsets -> Bytes], lock : BOOLEAN]]
  /\ got \in Seq(Bytes)
  /\ exact \in BOOLEAN

Kernel(f) == IF IsOpen(f) THEN fds[CHOOSE d \in Fds : fds[d].file = f] ELSE inodes[f]

\* The text of a file: the bytes of its blocks, up to its length.
TextOf(k) ==
  [p \in 1 .. k.len |-> disk[k.addr[(p - 1) \div BlockSize]][(p - 1) % BlockSize]]

\* As long as no command does damage, the buffer of a descriptor holds what the
\* device holds of the block, whatever was read, written and copied meanwhile.
BufferIsBlock ==
  exact => \A d \in Fds : fds[d].file \in Files => fds[d].buf = disk[fds[d].addr[fds[d].cur]]

\* As long as no command does damage, every block belongs to one file at most, and
\* to none when it can be handed out.
BlocksHaveOneOwner ==
  exact => \A f \in names :
    LET B == BlocksOf(Kernel(f).addr)
    IN /\ B \cap free = {} /\ Zero \notin B
       /\ Cardinality(B) = Cardinality(Used(Kernel(f).addr))
       /\ \A g \in names \ {f} : B \cap BlocksOf(Kernel(g).addr) = {}

Promise == INSTANCE FileText WITH
  text <- [f \in names \cup {Root} |-> TextOf(Kernel(f))],
  pos <- [d \in Fds |-> [file |-> fds[d].file, off |-> fds[d].off]],
  RootText <- [p \in 1 .. BlockSize |-> DirByte]

\* Every command keeps the promise of FileText, as long as no command does damage:
\* blocks, buffers and index nodes do not show.
KeepsContents == Promise!Init /\ [][exact' => [Promise!Next]_(Promise!vars)]_vars

(***************************************************************************)
(* What the comments of the code say, and the code does not do.            *)
(***************************************************************************)

\* Emulated_kernel.cpp:1551 says "第0个盘块一定是根目录占用" (block 0 is certainly the
\* root directory's).  A file that my_write made longer has block 0 for every further block.
RootBlockIsRoots ==
  \A d \in Fds : fds[d].file \in Files => \A i \in 0 .. fds[d].used : fds[d].addr[i] # Zero
=============================================================================
