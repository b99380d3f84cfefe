--------------------------- MODULE FileTextProofs ---------------------------
(***************************************************************************)
(* FileIO keeps the promise of FileText, for blocks, files and disks of    *)
(* every size.                                                             *)
(***************************************************************************)
EXTENDS FileIOProofs

----------------------------------------------------------------------------
(* The mapping.                                                            *)

Txt == [f \in names \cup {Root} |-> TextOf(Kernel(f))]
Pos == [d \in Fds |-> [file |-> fds[d].file, off |-> fds[d].off]]
RootTxt == [p \in 1 .. BlockSize |-> DirByte]

\* The bytes of the blocks at addr, up to len.
Line(len, addr, dsk) == [p \in 1 .. len |-> dsk[addr[(p - 1) \div BlockSize]][(p - 1) % BlockSize]]

AtRest == [file |-> NoFile, off |-> 0]
Start == [d \in Fds |-> IF d = 0 THEN [file |-> Root, off |-> 0] ELSE AtRest]
ExtendedTo(s, n) == [p \in 1 .. Max({n, Len(s)}) |-> IF p <= Len(s) THEN s[p] ELSE Nul]
OverlaidAt(s, t, off) ==
  [p \in 1 .. Max({off + Len(t), Len(s)}) |-> IF p - off \in DOMAIN t THEN t[p - off] ELSE s[p]]

\* The steps of FileText, in terms of the mapping.
LEMMA StepTouch ==
  ASSUME NEW f \in Files, f \notin DOMAIN Txt, UNCHANGED <<Pos, got>>,
         Txt' = [g \in DOMAIN Txt \cup {f} |-> IF g = f THEN <<>> ELSE Txt[g]]
  PROVE  Promise!Next
<1>1. Promise!Touch(f)
  BY DEF Promise!Touch, Txt, Pos
<1> QED
  BY <1>1 DEF Promise!Next

LEMMA StepOpen ==
  ASSUME NEW f \in Files, f \in DOMAIN Txt \ {Root}, NEW d \in Fds, NEW append \in BOOLEAN,
         \A e \in Fds : Pos[e].file # f, Pos[d] = AtRest,
         Pos' = [Pos EXCEPT ![d] = [file |-> f, off |-> IF append THEN Len(Txt[f]) ELSE 0]],
         UNCHANGED <<Txt, got>>
  PROVE  Promise!Next
<1>1. Promise!Open(f, d, append)
  BY DEF Promise!Open, Promise!IsOpen, Promise!Shut, AtRest, Txt, Pos
<1> QED
  BY <1>1 DEF Promise!Next

LEMMA StepClose ==
  ASSUME NEW d \in Fds, Pos' = [Pos EXCEPT ![d] = AtRest], UNCHANGED <<Txt, got>>
  PROVE  Promise!Next
<1>1. Promise!Close(d)
  BY DEF Promise!Close, Promise!Shut, AtRest, Txt, Pos
<1> QED
  BY <1>1 DEF Promise!Next

LEMMA StepLseek ==
  ASSUME NEW d \in Fds, NEW off \in 0 .. MaxLen - 1, Pos[d].file # NoFile,
         Pos' = [Pos EXCEPT ![d].off = off],
         Txt' = [Txt EXCEPT ![Pos[d].file] = ExtendedTo(@, off)], got' = got
  PROVE  Promise!Next
<1>1. Promise!Lseek(d, off)
  BY DEF Promise!Lseek, Promise!Extended, ExtendedTo, Max, Promise!Max, Txt, Pos
<1> QED
  BY <1>1 DEF Promise!Next

LEMMA StepRead ==
  ASSUME NEW d \in Fds, NEW size \in 1 .. MaxLen, Pos[d].file # NoFile,
         got' = SubSeq(Txt[Pos[d].file], Pos[d].off + 1,
                       Min({Pos[d].off + size, Len(Txt[Pos[d].file])})),
         Pos' = [Pos EXCEPT ![d].off = @ + Len(got')], Txt' = Txt
  PROVE  Promise!Next
<1>1. Promise!Read(d, size)
  BY DEF Promise!Read, Min, Promise!Min, Txt, Pos
<1> QED
  BY <1>1 DEF Promise!Next

LEMMA StepWrite ==
  ASSUME NEW d \in Fds, NEW line \in Texts, Pos[d].file # NoFile, got' = got,
         LET t == SubSeq(line, 1, Min({Len(line), MaxLen - Pos[d].off}))
         IN /\ Txt' = [Txt EXCEPT ![Pos[d].file] = OverlaidAt(@, t, Pos[d].off)]
            /\ Pos' = [Pos EXCEPT ![d].off = @ + Len(t)]
  PROVE  Promise!Next
<1>1. Promise!Write(d, line)
  BY DEF Promise!Write, Promise!Overlaid, OverlaidAt, Max, Promise!Max, Min, Promise!Min, Txt, Pos
<1> QED
  BY <1>1 DEF Promise!Next

LEMMA StepCp ==
  ASSUME NEW f \in Files, NEW g \in Files, f \in DOMAIN Txt \ {Root}, g \notin DOMAIN Txt,
         Txt' = [h \in DOMAIN Txt \cup {g} |-> IF h = g THEN Txt[f] ELSE Txt[h]],
         UNCHANGED <<Pos, got>>
  PROVE  Promise!Next
<1>1. Promise!Cp(f, g)
  BY DEF Promise!Cp, Txt, Pos
<1> QED
  BY <1>1 DEF Promise!Next

LEMMA StepRm ==
  ASSUME NEW f \in Files, f \in DOMAIN Txt \ {Root}, \A e \in Fds : Pos[e].file # f,
         Txt' = [g \in DOMAIN Txt \ {f} |-> Txt[g]], UNCHANGED <<Pos, got>>
  PROVE  Promise!Next
<1>1. Promise!Rm(f)
  BY DEF Promise!Rm, Promise!IsOpen, Txt, Pos
<1> QED
  BY <1>1 DEF Promise!Next

LEMMA StepRestart ==
  ASSUME Pos' = Start, UNCHANGED <<Txt, got>>
  PROVE  Promise!Next
<1>1. Promise!Restart
  BY DEF Promise!Restart, Promise!AtStart, Promise!Shut, Start, AtRest, Txt, Pos
<1> QED
  BY <1>1 DEF Promise!Next

----------------------------------------------------------------------------
(* What the texts rest on.                                                 *)

\* An offset is in the file or at its end.
InText == \A d \in Fds : fds[d].file \in Files => fds[d].off <= fds[d].len

\* Behind the length the blocks of a file are blank.
Blank(n, dsk) ==
  \A i \in Idx : \A j \in Offsets :
    n.addr[i] # Zero /\ n.len <= i * BlockSize + j => dsk[n.addr[i]][j] = Nul

TailBlank == \A f \in names : Blank(inodes[f], disk)

\* The root directory is block 0, and its descriptor does not move.
RootIs ==
  /\ disk[Zero] = DirBlock
  /\ inodes[Root].len = BlockSize /\ inodes[Root].addr = NoBlocks
  /\ \A d \in Fds :
       /\ fds[d].file = Root =>
            d = 0 /\ fds[d].len = BlockSize /\ fds[d].addr = NoBlocks /\ fds[d].off = 0
       /\ fds[d].file = NoFile => fds[d].off = 0

Sound == TypeInv /\ OneFd /\ OpenIsStored /\ Gapless /\ Apart
Whole == InText /\ TailBlank /\ RootIs
TextInv == exact => Whole

\* A place in a text is a place in a block the file has room for.
LEMMA LineAt ==
  ASSUME NEW len \in 0 .. MaxLen, NEW p \in 1 .. len
  PROVE  LET i == (p - 1) \div BlockSize
             j == (p - 1) % BlockSize
         IN /\ i \in Idx /\ j \in Offsets /\ i \in Nat /\ p - 1 = i * BlockSize + j
            /\ i * BlockSize < len
<1> DEFINE q == p - 1
           i == q \div BlockSize
           j == q % BlockSize
<1>1. q \in Nat /\ q < MaxLen /\ q < len /\ len \in Nat
  BY MaxLenIs
<1> HIDE DEF q
<1>2. i \in Nat /\ j \in Offsets /\ q = i * BlockSize + j
  BY <1>1, PlaceIs
<1>3. i \in Idx
  BY <1>1, PlaceInFile, IdxIs
<1> HIDE DEF i, j
<1>4. j \in Nat
  BY <1>2, SizeAssumption DEF Offsets
<1>5. i \in Nat /\ i <= i /\ BlockSize \in Nat
  BY <1>2, SizeAssumption
<1>6. i * BlockSize \in Nat
  BY <1>5, TimesMonotone
<1>7. i * BlockSize < len
  BY <1>1, <1>2, <1>4, <1>6
<1> QED
  BY <1>2, <1>3, <1>7 DEF i, j, q

\* Two texts are the same when the blocks below the length are.
LEMMA LineSame ==
  ASSUME NEW len \in 0 .. MaxLen, NEW addr, NEW a, NEW dsk, NEW e,
         \A i \in Idx : i * BlockSize < len => e[a[i]] = dsk[addr[i]]
  PROVE  Line(len, a, e) = Line(len, addr, dsk)
<1> SUFFICES ASSUME NEW p \in 1 .. len
             PROVE  e[a[(p - 1) \div BlockSize]][(p - 1) % BlockSize]
                      = dsk[addr[(p - 1) \div BlockSize]][(p - 1) % BlockSize]
  BY DEF Line
<1> DEFINE i == (p - 1) \div BlockSize
<1>1. i \in Idx /\ i * BlockSize < len
  BY LineAt
<1> HIDE DEF i
<1>2. e[a[i]] = dsk[addr[i]]
  BY <1>1
<1> QED
  BY <1>2 DEF i

\* What is stored of a file.
StoredText(f) == Line(inodes[f].len, inodes[f].addr, disk)

\* The texts are those of the stored index nodes, for the files that are open too.
LEMMA TxtIs ==
  TypeInv /\ OpenIsStored /\ RootIs => Txt = [f \in names \cup {Root} |-> StoredText(f)]
<1> SUFFICES ASSUME TypeInv, OpenIsStored, RootIs, NEW f \in names \cup {Root}
             PROVE  TextOf(Kernel(f)) = StoredText(f)
  BY DEF Txt
<1>1. \A k : TextOf(k) = Line(k.len, k.addr, disk)
  BY DEF TextOf, Line
<1>2. CASE IsOpen(f)
  <2>1. FdOf(f) \in Fds /\ fds[FdOf(f)].file = f /\ Kernel(f) = fds[FdOf(f)]
    BY <1>2, FdOfIs DEF Kernel, FdOf
  <2>2. CASE f = Root
    BY <1>1, <2>1, <2>2 DEF RootIs, StoredText
  <2>3. CASE f # Root
    <3>1. f \in Files
      BY <2>3 DEF TypeInv
    <3>2. inodes[f].len = fds[FdOf(f)].len /\ inodes[f].addr = fds[FdOf(f)].addr
      BY <2>1, <3>1 DEF OpenIsStored, Fits
    <3> QED
      BY <1>1, <2>1, <3>2 DEF StoredText
  <2> QED
    BY <2>2, <2>3
<1>3. CASE ~IsOpen(f)
  <2>1. Kernel(f) = inodes[f]
    BY <1>3 DEF Kernel
  <2> QED
    BY <1>1, <2>1 DEF StoredText
<1> QED
  BY <1>2, <1>3

LEMMA TxtIsNext ==
  (TypeInv /\ OpenIsStored /\ RootIs)' => Txt' = [f \in names' \cup {Root} |-> StoredText(f)']
<1>1. (TypeInv /\ OpenIsStored /\ RootIs)' => (Txt = [f \in names \cup {Root} |-> StoredText(f)])'
  BY TxtIs, PTL
<1> QED
  BY <1>1

\* A file that keeps its index node and its blocks keeps its text and its blank end.
Kept(f) ==
  /\ inodes'[f].len = inodes[f].len /\ inodes'[f].addr = inodes[f].addr
  /\ \A i \in Idx : f = Root \/ inodes[f].addr[i] # Zero =>
       disk'[inodes[f].addr[i]] = disk[inodes[f].addr[i]]

LEMMA KeptText ==
  ASSUME Sound, Whole, NEW f \in names \cup {Root}, Kept(f)
  PROVE  StoredText(f)' = StoredText(f)
<1> DEFINE len == inodes[f].len
           a == inodes[f].addr
<1>1. len \in 0 .. MaxLen
  BY DEF Sound, TypeInv, Inodes
<1>2. \A i \in Idx : i * BlockSize < len => disk'[a[i]] = disk[a[i]]
  BY DEF Sound, Gapless, NoGap, Kept
<1>3. Line(len, a, disk') = Line(len, a, disk)
  <2> HIDE DEF len, a
  <2> QED
    BY <1>1, <1>2, LineSame
<1> QED
  BY <1>3 DEF StoredText, Kept

LEMMA KeptBlank ==
  ASSUME Whole, NEW f \in names, Kept(f)
  PROVE  Blank(inodes'[f], disk')
BY DEF Whole, TailBlank, Blank, Kept

\* The blocks of a file are not those that can be handed out.
LEMMA KeptOutside ==
  ASSUME Sound, NEW f \in names \cup {Root}, RootIs,
         inodes'[f] = inodes[f], \A b \in Blocks \ free : disk'[b] = disk[b]
  PROVE  Kept(f)
<1>0. free \subseteq Blocks \ {Zero}
  BY DEF Sound, TypeInv
<1>1. Zero \in Blocks \ free
  BY <1>0, BlocksAssumption
<1>2. CASE f = Root
  BY <1>1, <1>2, IdxIs DEF Kept, RootIs, NoBlocks
<1>3. CASE f # Root
  <2>1. inodes[f].addr \in Addrs
    BY DEF Sound, TypeInv, Inodes
  <2> QED
    BY <1>3, <2>1 DEF Kept, Sound, Apart, Addrs
<1> QED
  BY <1>2, <1>3

\* The root directory stays what it is.
LEMMA RootStays ==
  ASSUME RootIs, disk'[Zero] = disk[Zero], inodes'[Root] = inodes[Root],
         \A d \in Fds : fds'[d].file \in {Root, NoFile} =>
           \/ /\ fds'[d].file = fds[d].file /\ fds'[d].len = fds[d].len
              /\ fds'[d].addr = fds[d].addr /\ fds'[d].off = fds[d].off
           \/ fds'[d].file = NoFile /\ fds'[d].off = 0
  PROVE  RootIs'
<1>1. ASSUME NEW d \in Fds
      PROVE  /\ fds'[d].file = Root =>
                  d = 0 /\ fds'[d].len = BlockSize /\ fds'[d].addr = NoBlocks /\ fds'[d].off = 0
             /\ fds'[d].file = NoFile => fds'[d].off = 0
  <2>1. CASE fds'[d].file = fds[d].file /\ fds'[d].len = fds[d].len
               /\ fds'[d].addr = fds[d].addr /\ fds'[d].off = fds[d].off
    BY <2>1 DEF RootIs
  <2>2. CASE fds'[d].file = NoFile /\ fds'[d].off = 0
    BY <2>2, FilesAssumption
  <2> QED
    BY <2>1, <2>2
<1> QED
  BY <1>1 DEF RootIs

\* All files keep their texts: the descriptors alone can move.
LEMMA NothingWritten ==
  ASSUME Sound, Whole, (TypeInv /\ OpenIsStored /\ RootIs)', names' = names,
         \A f \in names \cup {Root} : Kept(f)
  PROVE  TailBlank' /\ Txt' = Txt
<1>1. TailBlank'
  BY KeptBlank DEF TailBlank
<1>2. Txt = [f \in names \cup {Root} |-> StoredText(f)]
  BY TxtIs DEF Sound, Whole
<1>3. Txt' = [f \in names \cup {Root} |-> StoredText(f)']
  BY TxtIsNext
<1>4. \A f \in names \cup {Root} : StoredText(f)' = StoredText(f)
  BY KeptText
<1> QED
  BY <1>1, <1>2, <1>3, <1>4

\* A file more.
LEMMA NewText ==
  ASSUME Sound, Whole, (TypeInv /\ OpenIsStored /\ RootIs)',
         NEW f \in Files \ names, names' = names \cup {f},
         \A g \in names \cup {Root} : Kept(g), Blank(inodes'[f], disk')
  PROVE  /\ TailBlank' /\ f \notin DOMAIN Txt /\ DOMAIN Txt = names \cup {Root}
         /\ Txt' = [g \in DOMAIN Txt \cup {f} |-> IF g = f THEN StoredText(f)' ELSE Txt[g]]
<1>1. TailBlank'
  BY KeptBlank DEF TailBlank
<1>2. Txt = [g \in names \cup {Root} |-> StoredText(g)]
  BY TxtIs DEF Sound, Whole
<1>3. Txt' = [g \in names' \cup {Root} |-> StoredText(g)']
  BY TxtIsNext
<1>4. \A g \in names \cup {Root} : StoredText(g)' = StoredText(g)
  BY KeptText
<1>5. names' \cup {Root} = DOMAIN Txt \cup {f} /\ DOMAIN Txt = names \cup {Root}
  BY <1>2
<1>6. ASSUME NEW g \in names' \cup {Root}
      PROVE  StoredText(g)' = IF g = f THEN StoredText(f)' ELSE Txt[g]
  BY <1>2, <1>4
<1>7. f \notin DOMAIN Txt
  BY <1>5, FilesAssumption
<1> QED
  BY <1>1, <1>3, <1>5, <1>6, <1>7

\* Another text for one file.
LEMMA OtherText ==
  ASSUME Sound, Whole, (TypeInv /\ OpenIsStored /\ RootIs)',
         NEW f \in names, names' = names,
         \A g \in (names \cup {Root}) \ {f} : Kept(g), Blank(inodes'[f], disk')
  PROVE  /\ TailBlank' /\ Txt[f] = StoredText(f)
         /\ Txt' = [Txt EXCEPT ![f] = StoredText(f)']
<1>1. TailBlank'
  BY KeptBlank DEF TailBlank
<1>2. Txt = [g \in names \cup {Root} |-> StoredText(g)]
  BY TxtIs DEF Sound, Whole
<1>3. Txt' = [g \in names' \cup {Root} |-> StoredText(g)']
  BY TxtIsNext
<1>4. \A g \in (names \cup {Root}) \ {f} : StoredText(g)' = StoredText(g)
  BY KeptText
<1> QED
  BY <1>1, <1>2, <1>3, <1>4

\* A file less.
LEMMA LessText ==
  ASSUME Sound, Whole, (TypeInv /\ OpenIsStored /\ RootIs)',
         NEW f \in names, names' = names \ {f},
         \A g \in (names \cup {Root}) \ {f} : Kept(g)
  PROVE  /\ TailBlank' /\ f \in DOMAIN Txt \ {Root}
         /\ Txt' = [g \in DOMAIN Txt \ {f} |-> Txt[g]]
<1>1. TailBlank'
  BY KeptBlank DEF TailBlank
<1>2. Txt = [g \in names \cup {Root} |-> StoredText(g)]
  BY TxtIs DEF Sound, Whole
<1>3. Txt' = [g \in names' \cup {Root} |-> StoredText(g)']
  BY TxtIsNext
<1>4. \A g \in (names \cup {Root}) \ {f} : StoredText(g)' = StoredText(g)
  BY KeptText
<1>5. f # Root
  BY FilesAssumption DEF Sound, TypeInv
<1>6. names' \cup {Root} = DOMAIN Txt \ {f}
  BY <1>2, <1>5
<1>7. ASSUME NEW g \in names' \cup {Root}
      PROVE  StoredText(g)' = Txt[g]
  BY <1>2, <1>4, <1>5
<1> QED
  BY <1>1, <1>2, <1>3, <1>5, <1>6, <1>7

----------------------------------------------------------------------------
(* The commands.                                                           *)

LEMMA WholeTouch ==
  ASSUME Sound, Whole, Sound', exact', NEW f \in Files, Touch(f)
  PROVE  Whole' /\ Promise!Next
<1>1. PICK b \in free, old \in Leftovers :
        /\ inodes' = [inodes EXCEPT ![f] = [len |-> 0, addr |-> [old EXCEPT ![0] = b]]]
        /\ disk' = Wiped({b})
        /\ \A i \in 1 .. MaxBlocks - 1 : old[i] = Zero
  BY DEF Touch, Taken
<1>2. f \notin names /\ names' = names \cup {f} /\ fds' = fds /\ got' = got
  BY DEF Touch
<1>3. inodes \in [Files \cup {Root} -> Inodes] /\ free \subseteq Blocks \ {Zero}
  BY DEF Sound, TypeInv
<1>4. old \in Addrs
  BY BlanksAre, NodeAt DEF Leftovers, IdleFds, Sound
<1>5. /\ inodes'[f].len = 0 /\ inodes'[f].addr[0] = b
      /\ \A i \in Idx : i # 0 => inodes'[f].addr[i] = Zero
      /\ \A g \in (names \cup {Root}) \ {f} : inodes'[g] = inodes[g]
  <2>1. inodes'[f] = [len |-> 0, addr |-> [old EXCEPT ![0] = b]]
    BY <1>1, <1>3
  <2>2. \A i \in Idx : i # 0 => old[i] = Zero
    BY <1>1, IdxIs
  <2>3. \A g \in (names \cup {Root}) \ {f} : inodes'[g] = inodes[g]
    BY <1>1, <1>3
  <2> QED
    BY <1>4, <2>1, <2>2, <2>3, IdxIs DEF Addrs
<1>6. \A c \in Blocks : disk'[c] = IF c = b THEN Nuls ELSE disk[c]
  BY <1>1 DEF Wiped
<1>7. RootIs'
  <2>1. disk'[Zero] = disk[Zero] /\ inodes'[Root] = inodes[Root]
    BY <1>1, <1>3, <1>5, <1>6, BlocksAssumption, FilesAssumption
  <2> QED
    BY <1>2, <2>1 DEF RootIs, Whole
<1>8. \A g \in names \cup {Root} : Kept(g)
  <2>1. f # Root
    BY FilesAssumption
  <2> QED
    BY <1>2, <1>5, <1>6, <2>1, KeptOutside DEF Whole
<1>9. Blank(inodes'[f], disk')
  <2> SUFFICES ASSUME NEW i \in Idx, NEW j \in Offsets, inodes'[f].addr[i] # Zero
               PROVE  disk'[inodes'[f].addr[i]][j] = Nul
    BY DEF Blank
  <2>1. i = 0
    BY <1>5
  <2>2. disk'[inodes'[f].addr[i]] = Nuls
    BY <1>3, <1>5, <1>6, <2>1
  <2> QED
    BY <2>2 DEF Nuls
<1>10. /\ TailBlank' /\ f \notin DOMAIN Txt
       /\ Txt' = [g \in DOMAIN Txt \cup {f} |-> IF g = f THEN StoredText(f)' ELSE Txt[g]]
  <2>1. (TypeInv /\ OpenIsStored /\ RootIs)'
    BY <1>7 DEF Sound
  <2> QED
    BY <1>2, <1>8, <1>9, <2>1, NewText
<1>11. StoredText(f)' = <<>>
  BY <1>5 DEF StoredText, Line
<1>12. InText' /\ Pos' = Pos
  BY <1>2 DEF InText, Whole, Pos
<1>13. Txt' = [g \in DOMAIN Txt \cup {f} |-> IF g = f THEN <<>> ELSE Txt[g]]
  BY <1>10, <1>11
<1>14. Promise!Next
  BY <1>2, <1>10, <1>12, <1>13, StepTouch
<1> QED
  BY <1>7, <1>10, <1>12, <1>14 DEF Whole

\* Nothing but descriptors changes.
LEMMA OnlyFds ==
  ASSUME Sound, Whole, Sound', RootIs', UNCHANGED <<names, inodes, disk>>
  PROVE  TailBlank' /\ Txt' = Txt
<1>1. \A f \in names \cup {Root} : Kept(f)
  BY DEF Kept
<1>2. (TypeInv /\ OpenIsStored /\ RootIs)'
  BY DEF Sound
<1> QED
  BY <1>1, <1>2, NothingWritten

LEMMA WholeOpen ==
  ASSUME Sound, Whole, Sound', NEW f \in Files, NEW append \in BOOLEAN, Open(f, append)
  PROVE  Whole' /\ Promise!Next
<1>1. PICK d \in IdleFds : fds' = [fds EXCEPT ![d] = Opened(d, f, append)]
  BY OpenIs DEF Sound
<1>2. UNCHANGED <<names, inodes, disk, got>> /\ f \in names /\ ~IsOpen(f)
  BY DEF Open
<1>3. d \in Fds /\ fds[d].file = NoFile
  BY DEF IdleFds
<1>4. fds \in [Fds -> KNodes]
  BY DEF Sound, TypeInv
<1>5. /\ \A e \in Fds \ {d} : fds'[e] = fds[e]
      /\ fds'[d].file = f /\ fds'[d].len = inodes[f].len
      /\ fds'[d].off = IF append THEN inodes[f].len ELSE 0
  BY <1>1, <1>3, <1>4 DEF Opened, Node
<1>6. f \notin {Root, NoFile} /\ inodes[f].len \in 0 .. MaxLen
  BY FilesAssumption DEF Sound, TypeInv, Inodes
<1>7. RootIs'
  <2>1. \A e \in Fds : fds'[e].file \in {Root, NoFile} => fds'[e] = fds[e]
    BY <1>5, <1>6
  <2> QED
    BY <1>2, <2>1, RootStays DEF Whole
<1>8. TailBlank' /\ Txt' = Txt
  BY <1>2, <1>7, OnlyFds
<1>9. InText'
  <2>1. fds'[d].off <= fds'[d].len
    BY <1>5, <1>6
  <2> QED
    BY <1>5, <2>1 DEF InText, Whole
<1>10. Txt = [g \in names \cup {Root} |-> StoredText(g)]
  BY TxtIs DEF Sound, Whole
<1>11. f \in DOMAIN Txt \ {Root} /\ Len(Txt[f]) = inodes[f].len
  BY <1>2, <1>6, <1>10 DEF StoredText, Line
<1>12. \A e \in Fds : Pos[e].file # f
  BY <1>2 DEF IsOpen, Pos
<1>13. Pos[d] = AtRest
  BY <1>3 DEF Pos, AtRest, Whole, RootIs
<1>14. Pos' = [Pos EXCEPT ![d] = [file |-> f, off |-> IF append THEN Len(Txt[f]) ELSE 0]]
  BY <1>3, <1>5, <1>11 DEF Pos
<1>15. Promise!Next
  BY <1>2, <1>3, <1>8, <1>11, <1>12, <1>13, <1>14, StepOpen
<1> QED
  BY <1>7, <1>8, <1>9, <1>15 DEF Whole

LEMMA WholeClose ==
  ASSUME Sound, Whole, Sound', NEW d \in Fds, Close(d)
  PROVE  Whole' /\ Promise!Next
<1>1. /\ fds[d].file # NoFile /\ UNCHANGED <<names, disk, got>>
      /\ inodes' = [inodes EXCEPT ![fds[d].file] = Stored(fds[d])]
      /\ fds' = [fds EXCEPT ![d] = Closed(fds[d].addr, fds[d].lock)]
  BY DEF Close
<1>2. fds \in [Fds -> KNodes] /\ inodes \in [Files \cup {Root} -> Inodes] /\ names \subseteq Files
  BY DEF Sound, TypeInv
<1>3. /\ \A e \in Fds \ {d} : fds'[e] = fds[e]
      /\ fds'[d].file = NoFile /\ fds'[d].off = 0
  BY <1>1, <1>2 DEF Closed
<1>4. fds[d] \in KNodes /\ fds[d].file \in Files \cup {Root, NoFile}
  BY NodeAt DEF Sound
<1>5. \A f \in names \cup {Root} : inodes'[f].len = inodes[f].len /\ inodes'[f].addr = inodes[f].addr
  <2> SUFFICES ASSUME NEW f \in names \cup {Root}
               PROVE  inodes'[f].len = inodes[f].len /\ inodes'[f].addr = inodes[f].addr
    OBVIOUS
  <2>1. CASE f # fds[d].file
    BY <1>1, <1>2, <2>1
  <2>2. CASE f = fds[d].file
    <3>1. inodes'[f] = Stored(fds[d])
      BY <1>1, <1>2, <2>2
    <3>2. inodes'[f].len = fds[d].len /\ inodes'[f].addr = fds[d].addr
      BY <1>4, <3>1, StoredType
    <3>3. CASE f = Root
      BY <2>2, <3>2, <3>3 DEF Whole, RootIs
    <3>4. CASE f # Root
      <4>1. f \in Files
        BY <3>4, <1>2
      <4> QED
        BY <2>2, <3>2, <4>1 DEF Sound, OpenIsStored, Fits
    <3> QED
      BY <3>3, <3>4
  <2> QED
    BY <2>1, <2>2
<1>6. RootIs'
  <2>1. inodes'[Root].len = BlockSize /\ inodes'[Root].addr = NoBlocks
    BY <1>5 DEF Whole, RootIs
  <2> QED
    BY <1>1, <1>3, <2>1, FilesAssumption DEF Whole, RootIs
<1>7. TailBlank' /\ Txt' = Txt
  <2>1. \A f \in names \cup {Root} : Kept(f)
    BY <1>1, <1>5 DEF Kept
  <2>2. (TypeInv /\ OpenIsStored /\ RootIs)'
    BY <1>6 DEF Sound
  <2> QED
    BY <1>1, <2>1, <2>2, NothingWritten
<1>8. InText'
  BY <1>3, FilesAssumption DEF InText, Whole
<1>9. Pos' = [Pos EXCEPT ![d] = AtRest]
  BY <1>3 DEF Pos, AtRest
<1>10. Promise!Next
  BY <1>1, <1>7, <1>9, StepClose
<1> QED
  BY <1>6, <1>7, <1>8, <1>10 DEF Whole

LEMMA WholeRm ==
  ASSUME Sound, Whole, Sound', exact', NEW f \in Files, Rm(f)
  PROVE  Whole' /\ Promise!Next
<1>1. /\ f \in names /\ names' = names \ {f} /\ ~IsOpen(f) /\ UNCHANGED <<fds, got>>
      /\ disk' = Wiped(BlocksOf(inodes[f].addr))
      /\ inodes' = [inodes EXCEPT ![f] = NoInode]
  BY DEF Rm
<1>2. inodes \in [Files \cup {Root} -> Inodes] /\ names \subseteq Files /\ f # Root
  BY FilesAssumption DEF Sound, TypeInv
<1>3. \A g \in (names \cup {Root}) \ {f} : inodes'[g] = inodes[g]
  BY <1>1, <1>2
<1>4. \A b \in Blocks \ BlocksOf(inodes[f].addr) : disk'[b] = disk[b]
  BY <1>1 DEF Wiped
<1>5. inodes[f].addr \in Addrs
  BY <1>2 DEF Inodes
<1>6. Zero \in Blocks \ BlocksOf(inodes[f].addr)
  BY <1>5, UsedSubset, BlocksAssumption
<1>7. RootIs'
  <2>1. disk'[Zero] = disk[Zero] /\ inodes'[Root] = inodes[Root]
    BY <1>2, <1>3, <1>4, <1>6
  <2> QED
    BY <1>1, <2>1 DEF RootIs, Whole
<1>8. ASSUME NEW g \in (names \cup {Root}) \ {f}
      PROVE  Kept(g)
  <2>1. CASE g = Root
    BY <1>3, <1>4, <1>6, <2>1, IdxIs DEF Kept, Whole, RootIs, NoBlocks
  <2>2. CASE g # Root
    <3>1. g \in names /\ g # f /\ inodes[g].addr \in Addrs
      BY <1>2, <2>2 DEF Inodes
    <3>2. ASSUME NEW i \in Idx, inodes[g].addr[i] # Zero
          PROVE  inodes[g].addr[i] \in Blocks \ BlocksOf(inodes[f].addr)
      <4>1. ASSUME NEW j \in Used(inodes[f].addr)
            PROVE  inodes[f].addr[j] # inodes[g].addr[i]
        <5>1. j \in Idx
          BY <1>5, UsedSubset
        <5> QED
          BY <1>1, <3>1, <3>2, <5>1 DEF Sound, Apart
      <4> QED
        BY <3>1, <4>1 DEF BlocksOf, Addrs
    <3> QED
      BY <1>3, <1>4, <2>2, <3>2 DEF Kept
  <2> QED
    BY <2>1, <2>2
<1>9. /\ TailBlank' /\ f \in DOMAIN Txt \ {Root}
      /\ Txt' = [g \in DOMAIN Txt \ {f} |-> Txt[g]]
  <2>1. (TypeInv /\ OpenIsStored /\ RootIs)'
    BY <1>7 DEF Sound
  <2> QED
    BY <1>1, <1>8, <2>1, LessText
<1>10. InText' /\ Pos' = Pos /\ \A e \in Fds : Pos[e].file # f
  BY <1>1 DEF InText, Whole, Pos, IsOpen
<1>11. Promise!Next
  BY <1>1, <1>9, <1>10, StepRm
<1> QED
  BY <1>7, <1>9, <1>10, <1>11 DEF Whole

\* The buffer of descriptor 0 is no part of a text or of a place.
LEMMA BufferDoesNotShow ==
  ASSUME Sound, Whole, NEW bytes \in Bufs, fds' = Clobbered(bytes)
  PROVE  InText' /\ Pos' = Pos
         /\ (disk'[Zero] = disk[Zero] /\ inodes'[Root] = inodes[Root] => RootIs')
<1>1. \A e \in Fds : Same(fds[e], fds'[e])
  BY ClobberedIs DEF Sound
<1>2. InText' /\ Pos' = Pos
  BY <1>1 DEF InText, Whole, Pos, Same
<1>3. ASSUME disk'[Zero] = disk[Zero], inodes'[Root] = inodes[Root]
      PROVE  RootIs'
  BY <1>1, <1>3, RootStays DEF Whole, Same
<1> QED
  BY <1>2, <1>3

LEMMA WholeVisit ==
  ASSUME Sound, Whole, Sound', Visit
  PROVE  Whole' /\ UNCHANGED <<Txt, Pos, got>>
<1>1. UNCHANGED <<names, inodes, disk, got>> /\ fds' = Clobbered(DirBlock)
  BY DEF Visit
<1>2. InText' /\ Pos' = Pos /\ RootIs'
  BY <1>1, BlanksAre, BufferDoesNotShow
<1>3. TailBlank' /\ Txt' = Txt
  BY <1>1, <1>2, OnlyFds
<1> QED
  BY <1>1, <1>2, <1>3 DEF Whole

LEMMA WholeCp ==
  ASSUME Sound, Whole, Sound', NEW f \in Files, NEW g \in Files, Cp(f, g)
  PROVE  Whole' /\ Promise!Next
<1> DEFINE src == inodes[f].addr
           len == inodes[f].len
           n == Cardinality(Used(src))
<1>1. TypeInv
  BY DEF Sound
<1>2. /\ f \in names /\ g \notin names /\ src \in Addrs /\ src[0] # Zero
      /\ disk[src[n - 1]] \in Bufs
      /\ fds' = Clobbered(disk[src[n - 1]]) /\ names' = names \cup {g} /\ got' = got
  BY <1>1, CpIs
<1>3. PICK bs \in Injection(Used(src), free) :
        /\ inodes' = [inodes EXCEPT ![g] = [len |-> len, addr |-> CopyAddr(src, bs)]]
        /\ disk' = Copied(src, bs)
  BY <1>1, CpIs
<1>4. /\ \A i \in Idx : CopyAddr(src, bs)[i] = IF i \in Used(src) THEN bs[i] ELSE Zero
      /\ \A i \in Used(src) : disk'[bs[i]] = disk[src[i]]
      /\ \A b \in Blocks \ free : disk'[b] = disk[b]
  BY <1>1, <1>2, <1>3, CopiedIs
<1>5. inodes \in [Files \cup {Root} -> Inodes] /\ f # Root /\ g # Root /\ free \subseteq Blocks \ {Zero}
  BY <1>1, FilesAssumption DEF TypeInv
<1>6. /\ inodes'[g].len = len /\ inodes'[g].addr = CopyAddr(src, bs)
      /\ \A h \in names \cup {Root} : inodes'[h] = inodes[h]
  BY <1>2, <1>3, <1>5
<1>7. InText' /\ Pos' = Pos /\ RootIs'
  <2>1. disk'[Zero] = disk[Zero]
    BY <1>4, <1>5, BlocksAssumption
  <2> QED
    BY <1>2, <1>6, <2>1, BufferDoesNotShow
<1>8. \A h \in names \cup {Root} : Kept(h)
  BY <1>4, <1>6, KeptOutside DEF Whole
<1>9. Blank(inodes'[g], disk')
  <2> SUFFICES ASSUME NEW i \in Idx, NEW j \in Offsets, inodes'[g].addr[i] # Zero,
                      len <= i * BlockSize + j
               PROVE  disk'[inodes'[g].addr[i]][j] = Nul
    BY <1>6 DEF Blank
  <2>1. i \in Used(src) /\ inodes'[g].addr[i] = bs[i]
    BY <1>4, <1>6
  <2>2. src[i] # Zero
    BY <1>2, <2>1, UsedSubset
  <2>3. disk[src[i]][j] = Nul
    BY <1>2, <2>2 DEF Whole, TailBlank, Blank
  <2> QED
    BY <1>4, <2>1, <2>3
<1>10. /\ TailBlank' /\ g \notin DOMAIN Txt /\ DOMAIN Txt = names \cup {Root}
       /\ Txt' = [h \in DOMAIN Txt \cup {g} |-> IF h = g THEN StoredText(g)' ELSE Txt[h]]
  <2>1. (TypeInv /\ OpenIsStored /\ RootIs)'
    BY <1>7 DEF Sound
  <2> QED
    BY <1>2, <1>8, <1>9, <2>1, NewText
<1>11. StoredText(g)' = StoredText(f)
  <2>1. len \in 0 .. MaxLen
    BY <1>5 DEF Inodes
  <2>2. ASSUME NEW i \in Idx, i * BlockSize < len
        PROVE  disk'[CopyAddr(src, bs)[i]] = disk[src[i]]
    <3>1. \A j \in 0 .. i : src[j] # Zero
      BY <1>2, <2>2 DEF Sound, Gapless, NoGap
    <3>2. i \in Used(src)
      BY <3>1, IdxIs DEF Used
    <3> QED
      BY <1>4, <3>2
  <2> HIDE DEF len, src
  <2>3. Line(len, CopyAddr(src, bs), disk') = Line(len, src, disk)
    BY <2>1, <2>2, LineSame
  <2> USE DEF len, src
  <2>4. StoredText(g)' = Line(len, CopyAddr(src, bs), disk') /\ StoredText(f) = Line(len, src, disk)
    BY <1>6 DEF StoredText
  <2> QED
    BY <2>3, <2>4
<1>12. Txt[f] = StoredText(f)
  <2>1. Txt = [h \in names \cup {Root} |-> StoredText(h)]
    BY TxtIs DEF Sound, Whole
  <2> QED
    BY <1>2, <2>1
<1>13. f \in DOMAIN Txt \ {Root}
  BY <1>2, <1>5, <1>10
<1>14. Txt' = [h \in DOMAIN Txt \cup {g} |-> IF h = g THEN Txt[f] ELSE Txt[h]]
  BY <1>10, <1>11, <1>12
<1>15. Promise!Next
  BY <1>2, <1>7, <1>10, <1>13, <1>14, StepCp
<1> QED
  BY <1>7, <1>10, <1>15 DEF Whole

LEMMA WholeRestart ==
  ASSUME Sound, Whole, Sound', Restart
  PROVE  Whole' /\ Promise!Next
<1>1. TypeInv
  BY DEF Sound
<1>2. /\ \A f \in Files : inodes'[f] = IF IsOpen(f) THEN Stored(fds[FdOf(f)]) ELSE inodes[f]
      /\ inodes'[Root] = IF IsOpen(Root) THEN [len |-> BlockSize, addr |-> fds[0].addr]
                                         ELSE inodes[Root]
      /\ disk' = [disk EXCEPT ![Zero] = DirBlock]
      /\ fds'[0] = Node(Root, BlockSize, inodes'[Root].addr, 0, 0, -1, Nuls, FALSE)
      /\ \A d \in Fds \ {0} : fds'[d] = Closed(NoBlocks, FALSE)
      /\ UNCHANGED <<names, got>>
  BY <1>1, RestartIs
<1>3. disk' = disk
  <2>1. disk \in Disks /\ disk[Zero] = DirBlock
    BY <1>1 DEF TypeInv, Whole, RootIs
  <2> QED
    BY <1>2, <2>1 DEF Disks
<1>4. /\ fds'[0].file = Root /\ fds'[0].len = BlockSize /\ fds'[0].off = 0
      /\ fds'[0].addr = inodes'[Root].addr
      /\ \A d \in Fds \ {0} : fds'[d].file = NoFile /\ fds'[d].off = 0
  BY <1>2 DEF Node, Closed
<1>5. inodes'[Root].len = BlockSize /\ inodes'[Root].addr = NoBlocks
  <2>1. CASE IsOpen(Root)
    <3>1. fds[0].addr = NoBlocks
      BY <2>1 DEF IsOpen, Whole, RootIs
    <3> QED
      BY <1>2, <2>1, <3>1
  <2>2. CASE ~IsOpen(Root)
    BY <1>2, <2>2 DEF Whole, RootIs
  <2> QED
    BY <2>1, <2>2
<1>6. RootIs'
  BY <1>3, <1>4, <1>5, FilesAssumption DEF Whole, RootIs
<1>7. ASSUME NEW f \in names \cup {Root}
      PROVE  Kept(f)
  <2>1. CASE f = Root
    BY <1>3, <1>5, <2>1 DEF Kept, Whole, RootIs
  <2>2. CASE f # Root
    <3>1. f \in Files
      BY <1>1, <2>2 DEF TypeInv
    <3>2. CASE IsOpen(f)
      <4>1. FdOf(f) \in Fds /\ fds[FdOf(f)].file = f /\ fds[FdOf(f)] \in KNodes
        BY <1>1, <3>2, FdOfIs, NodeAt
      <4>2. inodes'[f].len = fds[FdOf(f)].len /\ inodes'[f].addr = fds[FdOf(f)].addr
        BY <1>2, <3>1, <3>2, <4>1, StoredType
      <4>3. inodes'[f].len = inodes[f].len /\ inodes'[f].addr = inodes[f].addr
        BY <3>1, <4>1, <4>2 DEF Sound, OpenIsStored, Fits
      <4> QED
        BY <1>3, <4>3 DEF Kept
    <3>3. CASE ~IsOpen(f)
      BY <1>2, <1>3, <3>1, <3>3 DEF Kept
    <3> QED
      BY <3>2, <3>3
  <2> QED
    BY <2>1, <2>2
<1>8. TailBlank' /\ Txt' = Txt
  <2>1. (TypeInv /\ OpenIsStored /\ RootIs)'
    BY <1>6 DEF Sound
  <2> QED
    BY <1>2, <1>7, <2>1, NothingWritten
<1>9. InText'
  BY <1>4, FilesAssumption DEF InText
<1>10. Pos' = Start
  BY <1>4 DEF Pos, Start, AtRest
<1>11. Promise!Next
  BY <1>2, <1>8, <1>10, StepRestart
<1> QED
  BY <1>6, <1>8, <1>9, <1>11 DEF Whole

\* A seek within the file changes no text.
LEMMA ExtendedSame ==
  ASSUME NEW len \in Nat, NEW addr, NEW dsk, NEW n \in Nat, n <= len
  PROVE  ExtendedTo(Line(len, addr, dsk), n) = Line(len, addr, dsk)
<1> DEFINE s == Line(len, addr, dsk)
<1>1. Len(s) = len /\ s = [p \in 1 .. len |-> s[p]]
  BY DEF Line
<1> HIDE DEF s
<1>2. Max({n, Len(s)}) = len
  BY <1>1, MaxIs
<1>3. \A p \in 1 .. len : p <= Len(s)
  BY <1>1
<1>4. ExtendedTo(s, n) = [p \in 1 .. len |-> IF p <= Len(s) THEN s[p] ELSE Nul]
  BY <1>2 DEF ExtendedTo
<1>5. ExtendedTo(s, n) = [p \in 1 .. len |-> s[p]]
  BY <1>3, <1>4
<1> QED
  BY <1>1, <1>5 DEF s

\* What a seek behind the end leaves in the blocks.
Hole(k, l, off, e) ==
  /\ l.len = off /\ k.len <= off
  /\ \A i \in Idx : l.addr[i] # Zero => \A j \in Offsets :
       /\ k.addr[i] # Zero => e[l.addr[i]][j] = disk[k.addr[i]][j]
       /\ k.addr[i] = Zero => e[l.addr[i]][j] = Nul

LEMMA HoleText ==
  ASSUME NEW k, NEW l, NEW off \in 0 .. MaxLen, NEW e, Hole(k, l, off, e), k.len \in 0 .. MaxLen,
         Blank(k, disk), NoGap(k), NoGap(l)
  PROVE  /\ Line(off, l.addr, e) = ExtendedTo(Line(k.len, k.addr, disk), off)
         /\ Blank(l, e)
<1>1. Blank(l, e)
  <2> SUFFICES ASSUME NEW i \in Idx, NEW j \in Offsets, l.addr[i] # Zero,
                      l.len <= i * BlockSize + j
               PROVE  e[l.addr[i]][j] = Nul
    BY DEF Blank
  <2>1. CASE k.addr[i] = Zero
    BY <2>1 DEF Hole
  <2>2. CASE k.addr[i] # Zero
    <3> DEFINE A == i * BlockSize
    <3>1. A \in Nat /\ j \in Nat /\ k.len \in Nat /\ off \in Nat
      <4>1. i \in Nat /\ i <= i /\ BlockSize \in Nat
        BY SizeAssumption, IdxIs
      <4>2. A \in Nat
        BY <4>1, TimesMonotone
      <4> QED
        BY <4>2, MaxLenIs, SizeAssumption DEF Offsets
    <3>2. l.len <= A + j /\ k.len <= off /\ l.len = off
      BY DEF Hole
    <3>3. k.len <= A + j
      <4> HIDE DEF A
      <4> QED
        BY <3>1, <3>2
    <3> QED
      BY <2>2, <3>3 DEF Hole, Blank
  <2> QED
    BY <2>1, <2>2
<1> DEFINE s == Line(k.len, k.addr, disk)
<1>2. Len(s) = k.len /\ \A p \in 1 .. k.len :
        s[p] = disk[k.addr[(p - 1) \div BlockSize]][(p - 1) % BlockSize]
  BY DEF Line
<1>3. k.len <= off
  BY DEF Hole
<1> HIDE DEF s
<1>4. Max({off, Len(s)}) = off
  BY <1>2, <1>3, MaxIs, MaxLenIs
<1>5. ASSUME NEW p \in 1 .. off
      PROVE  e[l.addr[(p - 1) \div BlockSize]][(p - 1) % BlockSize]
               = IF p <= Len(s) THEN s[p] ELSE Nul
  <2> DEFINE i == (p - 1) \div BlockSize
             j == (p - 1) % BlockSize
             A == i * BlockSize
  <2>1. i \in Idx /\ j \in Offsets /\ i \in Nat /\ p - 1 = A + j /\ A < off
    BY LineAt
  <2>2. \A q \in 1 .. k.len : q = p => s[q] = disk[k.addr[i]][j]
    BY <1>2
  <2> HIDE DEF i, j
  <2>3. l.addr[i] # Zero
    BY <2>1 DEF NoGap, Hole
  <2>4. A \in Nat /\ j \in Nat
    <3>1. i <= i /\ BlockSize \in Nat
      BY <2>1, SizeAssumption
    <3> QED
      BY <2>1, <3>1, TimesMonotone, SizeAssumption DEF Offsets
  <2>5. CASE p <= k.len
    <3>1. A < k.len
      <4> HIDE DEF A
      <4> QED
        BY <2>1, <2>4, <2>5, MaxLenIs
    <3>2. k.addr[i] # Zero
      BY <2>1, <3>1 DEF NoGap
    <3>3. s[p] = disk[k.addr[i]][j]
      BY <2>2, <2>5
    <3>4. e[l.addr[i]][j] = disk[k.addr[i]][j]
      BY <2>1, <2>3, <3>2 DEF Hole
    <3>5. e[l.addr[i]][j] = IF p <= Len(s) THEN s[p] ELSE Nul
      BY <1>2, <2>5, <3>3, <3>4
    <3> QED
      BY <3>5 DEF i, j
  <2>6. CASE ~(p <= k.len)
    <3>1. k.len <= A + j
      <4> HIDE DEF A
      <4> QED
        BY <2>1, <2>4, <2>6, MaxLenIs
    <3>2. e[l.addr[i]][j] = Nul
      <4>1. CASE k.addr[i] = Zero
        BY <2>1, <2>3, <4>1 DEF Hole
      <4>2. CASE k.addr[i] # Zero
        BY <2>1, <2>3, <3>1, <4>2 DEF Hole, Blank
      <4> QED
        BY <4>1, <4>2
    <3>3. e[l.addr[i]][j] = IF p <= Len(s) THEN s[p] ELSE Nul
      BY <1>2, <2>6, <3>2
    <3> QED
      BY <3>3 DEF i, j
  <2> QED
    BY <2>5, <2>6
<1>6. Line(off, l.addr, e) = ExtendedTo(s, off)
  BY <1>4, <1>5 DEF Line, ExtendedTo
<1> QED
  BY <1>1, <1>6 DEF s

\* The index node of an open file is the descriptor's.
LEMMA OpenNode ==
  ASSUME Sound, Whole, NEW d \in Fds, fds[d].file \in Files
  PROVE  LET k == fds[d]
             n == inodes[k.file]
         IN /\ k.file \in names /\ k.file \notin {Root, NoFile} /\ k \in KNodes
            /\ n.addr = k.addr /\ n.len = k.len /\ k.addr \in Addrs
            /\ k.len \in 0 .. MaxLen /\ k.off \in 0 .. k.len /\ k.off \in 0 .. MaxLen
            /\ \A i \in Idx : k.addr[i] # Zero <=> i <= k.used
            /\ \A i \in Idx : k.addr[i] # Zero => k.addr[i] \notin free
            /\ Blank(k, disk) /\ NoGap(k)
            /\ StoredText(k.file) = Line(k.len, k.addr, disk)
<1> DEFINE k == fds[d]
           n == inodes[k.file]
<1>1. TypeInv
  BY DEF Sound
<1>2. /\ k \in KNodes /\ k.addr \in Addrs /\ k.len \in 0 .. MaxLen /\ k.off \in 0 .. MaxLen
  BY <1>1, NodeAt
<1>3. k.file \in names /\ n.addr = k.addr /\ n.len = k.len
      /\ \A i \in Idx : k.addr[i] # Zero <=> i <= k.used
  BY DEF Sound, OpenIsStored, Fits
<1>4. k.file \notin {Root, NoFile}
  BY FilesAssumption
<1>5. k.off \in 0 .. k.len
  BY <1>2, MaxLenIs DEF Whole, InText
<1>6. \A i \in Idx : k.addr[i] # Zero => k.addr[i] \notin free
  BY <1>3 DEF Sound, Apart
<1>7. Blank(k, disk)
  BY <1>3 DEF Whole, TailBlank, Blank
<1>8. NoGap(k)
  BY <1>3 DEF Sound, Gapless, NoGap
<1>9. StoredText(k.file) = Line(k.len, k.addr, disk)
  BY <1>3 DEF StoredText
<1> QED
  BY <1>2, <1>3, <1>4, <1>5, <1>6, <1>7, <1>8, <1>9

\* The places after a command on one open file.
LEMMA OnlyThisPlace ==
  ASSUME Sound, Whole, NEW d \in Fds, fds[d].file \in Files, NEW l, fds' = [fds EXCEPT ![d] = l],
         l.file = fds[d].file, l.off \in Nat, l.len \in Nat, l.off <= l.len
  PROVE  /\ InText' /\ (disk'[Zero] = disk[Zero] /\ inodes'[Root] = inodes[Root] => RootIs')
         /\ Pos' = [Pos EXCEPT ![d].off = l.off]
         /\ Pos[d].file = fds[d].file /\ Pos[d].off = fds[d].off
<1>1. fds \in [Fds -> KNodes]
  BY DEF Sound, TypeInv
<1>2. fds'[d] = l /\ \A e \in Fds \ {d} : fds'[e] = fds[e]
  BY <1>1
<1>3. InText'
  BY <1>2 DEF InText, Whole
<1>4. ASSUME disk'[Zero] = disk[Zero], inodes'[Root] = inodes[Root]
      PROVE  RootIs'
  <2>1. \A e \in Fds : fds'[e].file \in {Root, NoFile} => fds'[e] = fds[e]
    BY <1>2, FilesAssumption
  <2> QED
    BY <1>4, <2>1, RootStays DEF Whole
<1>5. Pos[d].file = fds[d].file /\ Pos[d].off = fds[d].off
  BY DEF Pos
<1>6. Pos' = [Pos EXCEPT ![d].off = l.off]
  BY <1>2 DEF Pos
<1> QED
  BY <1>3, <1>4, <1>5, <1>6

LEMMA LseekInside ==
  ASSUME Sound, Whole, Sound', exact', NEW d \in Fds, NEW off \in 0 .. MaxLen - 1, Lseek(d, off),
         off < fds[d].len
  PROVE  Whole' /\ Promise!Next
<1> DEFINE k == fds[d]
           l == [k EXCEPT !.off = off]
<1>1. k.file \in Files /\ got' = got
  BY NodeAt DEF Lseek, Sound
<1>2. fds' = [fds EXCEPT ![d] = l] /\ UNCHANGED <<names, inodes, disk>>
  <2>1. fds' = [fds EXCEPT ![d].off = off] /\ UNCHANGED <<names, inodes, disk>>
    BY DEF Lseek
  <2> QED
    BY <2>1
<1>3. /\ k.file \in names /\ k.file \notin {Root, NoFile} /\ k \in KNodes /\ k.len \in 0 .. MaxLen
      /\ StoredText(k.file) = Line(k.len, k.addr, disk)
  BY <1>1, OpenNode
<1>4. l.file = k.file /\ l.off = off /\ l.len = k.len
  BY <1>3 DEF KNodes
<1>5. l.off \in Nat /\ l.len \in Nat /\ l.off <= l.len
  BY <1>3, <1>4, MaxLenIs
<1>6. /\ InText' /\ RootIs' /\ Pos' = [Pos EXCEPT ![d].off = l.off] /\ Pos[d].file = k.file
  <2> HIDE DEF l
  <2> QED
    BY <1>1, <1>2, <1>4, <1>5, OnlyThisPlace
<1>7. TailBlank' /\ Txt' = Txt
  BY <1>2, <1>6, OnlyFds
<1>8. Txt = [f \in names \cup {Root} |-> StoredText(f)]
  BY TxtIs DEF Sound, Whole
<1>9. ExtendedTo(Txt[k.file], off) = Txt[k.file]
  <2>1. Txt[k.file] = Line(k.len, k.addr, disk)
    BY <1>3, <1>8
  <2>2. k.len \in Nat /\ off \in Nat /\ off <= k.len
    BY <1>3, MaxLenIs
  <2> QED
    BY <2>1, <2>2, ExtendedSame
<1>10. Txt' = [Txt EXCEPT ![Pos[d].file] = ExtendedTo(@, off)]
  BY <1>3, <1>6, <1>7, <1>8, <1>9
<1>11. Pos' = [Pos EXCEPT ![d].off = off] /\ Pos[d].file # NoFile
  BY <1>3, <1>4, <1>6
<1>12. Promise!Next
  BY <1>1, <1>10, <1>11, StepLseek
<1> QED
  BY <1>6, <1>7, <1>12 DEF Whole

LEMMA LseekHole ==
  ASSUME Sound, Whole, NEW d \in Fds, fds[d].file \in Files, NEW off \in 0 .. MaxLen - 1,
         ~(off < fds[d].len), NEW bs, Range(bs) \subseteq free,
         NEW l, SeekEnd(d, off, bs, l)
  PROVE  Hole(fds[d], l, off, disk')
<1> DEFINE k == fds[d]
           need == BlocksTo(k, off)
<1>1. /\ k \in KNodes /\ k.len \in 0 .. MaxLen /\ k.addr \in Addrs
      /\ \A i \in Idx : k.addr[i] # Zero <=> i <= k.used
      /\ \A i \in Idx : k.addr[i] # Zero => k.addr[i] \notin free
  BY OpenNode
<1>2. /\ disk' = Wiped(Range(bs))
      /\ \A m \in 1 .. need : bs[m] \in free /\ bs[m] \in Range(bs)
      /\ l.len = off
      /\ \A i \in Idx : l.addr[i] = IF i - k.used \in 1 .. need THEN bs[i - k.used] ELSE k.addr[i]
  BY DEF SeekEnd
<1>3. Range(bs) \subseteq free /\ free \subseteq Blocks \ {Zero}
  BY DEF Sound, TypeInv
<1>4. k.len <= off
  BY <1>1, MaxLenIs
<1>5. k.used \in Nat /\ need \in Nat
  BY <1>1, BlocksToIs, SizeAssumption DEF KNodes
<1> SUFFICES ASSUME NEW i \in Idx, l.addr[i] # Zero, NEW j \in Offsets
             PROVE  /\ k.addr[i] # Zero => disk'[l.addr[i]][j] = disk[k.addr[i]][j]
                    /\ k.addr[i] = Zero => disk'[l.addr[i]][j] = Nul
  BY <1>2, <1>4 DEF Hole
<1>6. i \in Int
  BY IdxIs
<1>7. CASE i - k.used \in 1 .. need
  <2>1. k.addr[i] = Zero
    <3>1. ~(i <= k.used)
      <4> HIDE DEF k, need
      <4> QED
        BY <1>5, <1>6, <1>7
    <3> QED
      BY <1>1, <3>1
  <2>2. l.addr[i] \in Range(bs) /\ l.addr[i] \in Blocks
    BY <1>2, <1>3, <1>7
  <2>3. disk'[l.addr[i]] = Nuls
    BY <1>2, <2>2 DEF Wiped
  <2> QED
    BY <2>1, <2>3 DEF Nuls
<1>8. CASE ~(i - k.used \in 1 .. need)
  <2>1. l.addr[i] = k.addr[i] /\ k.addr[i] # Zero
    BY <1>2, <1>8
  <2>2. k.addr[i] \in Blocks /\ k.addr[i] \notin Range(bs)
    BY <1>1, <1>3, <2>1 DEF Addrs
  <2>3. disk'[k.addr[i]] = disk[k.addr[i]]
    BY <1>2, <2>2 DEF Wiped
  <2> QED
    BY <2>1, <2>3
<1> QED
  BY <1>7, <1>8

LEMMA LseekBehind ==
  ASSUME Sound, Whole, Sound', exact', NEW d \in Fds, NEW off \in 0 .. MaxLen - 1, Lseek(d, off),
         ~(off < fds[d].len)
  PROVE  Whole' /\ Promise!Next
<1> DEFINE k == fds[d]
<1>0. k.file \in Files /\ got' = got /\ names' = names
  BY NodeAt DEF Lseek, Sound
<1>1. PICK f \in Files : f = k.file
  BY <1>0
<1>2. PICK bs \in Injection(1 .. BlocksTo(k, off), free), l \in KNodes : SeekEnd(d, off, bs, l)
  BY LseekIs DEF Sound
<1>3. /\ fds' = [fds EXCEPT ![d] = l] /\ inodes' = [inodes EXCEPT ![f] = Stored(l)]
      /\ disk' = Wiped(Range(bs))
      /\ l.file = f /\ l.off = off /\ l.len = off
  BY <1>1, <1>2 DEF SeekEnd
<1>4. Range(bs) \subseteq free
  BY <1>2, InjectionIs
<1>5. /\ f \in names /\ f \notin {Root, NoFile} /\ k.len \in 0 .. MaxLen
      /\ Blank(k, disk) /\ NoGap(k)
      /\ StoredText(f) = Line(k.len, k.addr, disk)
  BY <1>1, OpenNode
<1>6. /\ inodes'[f].len = off /\ inodes'[f].addr = l.addr
      /\ \A g \in (names \cup {Root}) \ {f} : inodes'[g] = inodes[g]
  <2>1. inodes \in [Files \cup {Root} -> Inodes] /\ names \subseteq Files
    BY DEF Sound, TypeInv
  <2>2. inodes'[f] = Stored(l) /\ \A g \in (names \cup {Root}) \ {f} : inodes'[g] = inodes[g]
    BY <1>1, <1>3, <2>1
  <2> QED
    BY <1>2, <1>3, <2>2, StoredType
<1>7. \A b \in Blocks \ free : disk'[b] = disk[b]
  BY <1>3, <1>4 DEF Wiped
<1>8. /\ InText' /\ RootIs' /\ Pos' = [Pos EXCEPT ![d].off = off] /\ Pos[d].file = f
  <2>1. l.off \in Nat /\ l.len \in Nat /\ l.off <= l.len
    BY <1>3, MaxLenIs
  <2>2. free \subseteq Blocks \ {Zero}
    BY DEF Sound, TypeInv
  <2>3. disk'[Zero] = disk[Zero] /\ inodes'[Root] = inodes[Root]
    BY <1>5, <1>6, <1>7, <2>2, BlocksAssumption
  <2>4. fds[d].file \in Files /\ l.file = fds[d].file /\ fds' = [fds EXCEPT ![d] = l]
    BY <1>1, <1>3
  <2>5. InText' /\ RootIs' /\ Pos' = [Pos EXCEPT ![d].off = l.off] /\ Pos[d].file = fds[d].file
    BY <2>1, <2>3, <2>4, OnlyThisPlace
  <2> QED
    BY <1>1, <1>3, <2>5
<1>9. \A g \in (names \cup {Root}) \ {f} : Kept(g)
  BY <1>6, <1>7, KeptOutside DEF Whole
<1>10. Hole(k, l, off, disk')
  BY <1>0, <1>2, <1>4, LseekHole
<1>11. NoGap(l)
  BY <1>0, <1>3, <1>5, <1>6 DEF Sound, Gapless, NoGap
<1>12. Line(off, l.addr, disk') = ExtendedTo(Line(k.len, k.addr, disk), off) /\ Blank(l, disk')
  <2>1. off \in 0 .. MaxLen
    BY MaxLenIs
  <2> QED
    BY <1>5, <1>10, <1>11, <2>1, HoleText
<1>13. Blank(inodes'[f], disk')
  BY <1>3, <1>6, <1>12 DEF Blank
<1>14. TailBlank' /\ Txt[f] = StoredText(f) /\ Txt' = [Txt EXCEPT ![f] = StoredText(f)']
  <2>1. (TypeInv /\ OpenIsStored /\ RootIs)'
    BY <1>8 DEF Sound
  <2> QED
    BY <1>0, <1>5, <1>9, <1>13, <2>1, OtherText
<1>15. StoredText(f)' = ExtendedTo(Txt[f], off)
  BY <1>5, <1>6, <1>12, <1>14 DEF StoredText
<1>16. Txt' = [Txt EXCEPT ![Pos[d].file] = ExtendedTo(@, off)]
  BY <1>8, <1>14, <1>15
<1>17. Pos[d].file # NoFile
  BY <1>5, <1>8
<1>18. Promise!Next
  BY <1>0, <1>8, <1>16, <1>17, StepLseek
<1> QED
  BY <1>8, <1>14, <1>18 DEF Whole

LEMMA WholeLseek ==
  ASSUME Sound, Whole, Sound', exact', NEW d \in Fds, NEW off \in 0 .. MaxLen - 1, Lseek(d, off)
  PROVE  Whole' /\ Promise!Next
BY LseekInside, LseekBehind

----------------------------------------------------------------------------
(* Writing.                                                                *)

\* What a write leaves in the blocks.
Laid(k, l, text, e) ==
  /\ l.addr = k.addr
  /\ l.len = IF k.len >= k.off + Len(text) THEN k.len ELSE k.off + Len(text)
  /\ \A i \in Idx : k.addr[i] # Zero => \A j \in Offsets :
       e[k.addr[i]][j] = Put(text, k.off, i, j, disk[k.addr[i]][j])

LEMMA LaidText ==
  ASSUME NEW k, NEW l, NEW text \in Seq(Letters), NEW e, Laid(k, l, text, e),
         k.len \in 0 .. MaxLen, k.off \in 0 .. k.len, k.off + Len(text) <= MaxLen,
         Blank(k, disk), NoGap(l)
  PROVE  /\ Line(l.len, l.addr, e) = OverlaidAt(Line(k.len, k.addr, disk), text, k.off)
         /\ Blank(l, e)
<1> DEFINE n == Len(text)
           off == k.off
           len == k.len
           m == l.len
<1>1. n \in Nat /\ off \in Nat /\ len \in Nat /\ off <= len /\ m \in 0 .. MaxLen
      /\ m = (IF len >= off + n THEN len ELSE off + n) /\ DOMAIN text = 1 .. n
  BY MaxLenIs DEF Laid
<1>2. l.addr = k.addr /\ \A i \in Idx : k.addr[i] # Zero => \A j \in Offsets :
        e[k.addr[i]][j] = Put(text, off, i, j, disk[k.addr[i]][j])
  BY DEF Laid
<1>3. Blank(l, e)
  <2> SUFFICES ASSUME NEW i \in Idx, NEW j \in Offsets, k.addr[i] # Zero, m <= i * BlockSize + j
               PROVE  e[k.addr[i]][j] = Nul
    BY <1>2 DEF Blank
  <2> DEFINE A == i * BlockSize
  <2>1. i \in Nat /\ i <= i /\ BlockSize \in Nat /\ j \in Nat
    BY SizeAssumption, IdxIs DEF Offsets
  <2>2. A \in Nat
    BY <2>1, TimesMonotone
  <2>3. m <= A + j
    OBVIOUS
  <2>4. A + j - off + 1 \notin 1 .. n /\ len <= A + j
    <3> HIDE DEF A, n, off, len, m
    <3> QED
      BY <1>1, <2>1, <2>2, <2>3
  <2>5. e[k.addr[i]][j] = disk[k.addr[i]][j]
    BY <1>1, <1>2, <2>4 DEF Put
  <2> QED
    BY <2>4, <2>5 DEF Blank
<1> DEFINE s == Line(len, k.addr, disk)
<1>4. Len(s) = len /\ \A p \in 1 .. len :
        s[p] = disk[k.addr[(p - 1) \div BlockSize]][(p - 1) % BlockSize]
  BY <1>1 DEF Line
<1> HIDE DEF s
<1>5. Max({off + n, Len(s)}) = m
  <2> HIDE DEF n, off, len, m
  <2> QED
    BY <1>1, <1>4, MaxIs
<1>6. ASSUME NEW p \in 1 .. m
      PROVE  e[k.addr[(p - 1) \div BlockSize]][(p - 1) % BlockSize]
               = IF p - off \in DOMAIN text THEN text[p - off] ELSE s[p]
  <2> DEFINE i == (p - 1) \div BlockSize
             j == (p - 1) % BlockSize
             A == i * BlockSize
  <2>1. i \in Idx /\ j \in Offsets /\ i \in Nat /\ p - 1 = A + j /\ A < m
    BY <1>1, LineAt
  <2>2. \A q \in 1 .. len : q = p => s[q] = disk[k.addr[i]][j]
    BY <1>4
  <2> HIDE DEF i, j
  <2>3. k.addr[i] # Zero
    BY <1>2, <2>1 DEF NoGap
  <2>4. A \in Nat /\ j \in Nat
    <3>1. i <= i /\ BlockSize \in Nat
      BY <2>1, SizeAssumption
    <3> QED
      BY <2>1, <3>1, TimesMonotone, SizeAssumption DEF Offsets
  <2>5. A + j - off + 1 = p - off /\ (p - off \notin 1 .. n => p \in 1 .. len)
    <3> HIDE DEF A, n, off, len, m
    <3> QED
      BY <1>1, <2>1, <2>4, MaxLenIs
  <2>6. e[k.addr[i]][j] = Put(text, off, i, j, disk[k.addr[i]][j])
    BY <1>2, <2>1, <2>3
  <2>7. e[k.addr[i]][j] = IF p - off \in 1 .. n THEN text[p - off] ELSE disk[k.addr[i]][j]
    BY <1>1, <2>5, <2>6 DEF Put
  <2>8. e[k.addr[i]][j] = IF p - off \in 1 .. n THEN text[p - off] ELSE s[p]
    BY <2>2, <2>5, <2>7
  <2> QED
    BY <1>1, <2>8 DEF i, j
<1>7. Line(m, k.addr, e) = OverlaidAt(s, text, off)
  BY <1>5, <1>6 DEF Line, OverlaidAt
<1> QED
  BY <1>2, <1>3, <1>7 DEF s

LEMMA WholeWrite ==
  ASSUME Sound, Whole, Sound', exact', NEW d \in Fds, NEW line \in Texts, Write(d, line)
  PROVE  Whole' /\ Promise!Next
<1> DEFINE k == fds[d]
           text == Clipped(k, line)
<1>1. OwnInv /\ TypeInv /\ got' = got /\ names' = names
  BY DEF Sound, OwnInv, Write
<1>2. k.file \in Files /\ text \in Seq(Letters) /\ k.off + Len(text) <= MaxLen /\ free' = free
  BY <1>1, WriteInPlace
<1>3. PICK x \in KNodes, l \in KNodes :
        /\ Written(k, disk, x, disk', k.used, text)
        /\ fds' = [fds EXCEPT ![d] = l]
        /\ inodes' = [inodes EXCEPT ![k.file] = Stored(l)]
        /\ l.file = k.file /\ l.addr = k.addr
        /\ l.off = k.off + Len(text)
        /\ l.len = IF k.len >= k.off + Len(text) THEN k.len ELSE k.off + Len(text)
  BY <1>1, WriteInPlace
<1> HIDE DEF text
<1>4. PICK f \in Files : f = k.file
  BY <1>2
<1>5. /\ f \in names /\ f \notin {Root, NoFile} /\ k.len \in 0 .. MaxLen /\ k.off \in 0 .. k.len
      /\ inodes[f].addr = k.addr /\ k.addr \in Addrs
      /\ \A i \in Idx : k.addr[i] # Zero <=> i <= k.used
      /\ Blank(k, disk) /\ StoredText(f) = Line(k.len, k.addr, disk)
  BY <1>4, OpenNode
<1>6. inodes \in [Files \cup {Root} -> Inodes] /\ names \subseteq Files /\ free \subseteq Blocks \ {Zero}
  BY <1>1 DEF TypeInv
<1>7. /\ inodes'[f].len = l.len /\ inodes'[f].addr = l.addr
      /\ \A g \in (names \cup {Root}) \ {f} : inodes'[g] = inodes[g]
  <2>1. inodes'[f] = Stored(l) /\ \A g \in (names \cup {Root}) \ {f} : inodes'[g] = inodes[g]
    BY <1>3, <1>4, <1>6
  <2> QED
    BY <1>3, <2>1, StoredType
<1>8. /\ \A b \in Blocks : (\A i \in 0 .. k.used : b # k.addr[i]) => disk'[b] = disk[b]
      /\ \A i \in 0 .. k.used : \A j \in Offsets :
           disk'[k.addr[i]][j] = Put(text, k.off, i, j, disk[k.addr[i]][j])
  BY <1>3 DEF Written
<1>9. \A i \in 0 .. k.used : i \in Idx /\ k.addr[i] # Zero
  <2>1. k.used \in 0 .. MaxBlocks - 1
    BY <1>1, NodeAt
  <2>2. 0 .. k.used \subseteq Idx
    BY <2>1, IdxIs, SizeAssumption
  <2>3. \A i \in 0 .. k.used : i <= k.used
    OBVIOUS
  <2> QED
    BY <1>5, <2>2, <2>3
<1>10. disk'[Zero] = disk[Zero] /\ inodes'[Root] = inodes[Root]
  BY <1>5, <1>7, <1>8, <1>9, BlocksAssumption
<1>11. ASSUME NEW g \in (names \cup {Root}) \ {f}
       PROVE  Kept(g)
  <2>1. CASE g = Root
    BY <1>10, <2>1, IdxIs DEF Kept, Whole, RootIs, NoBlocks
  <2>2. CASE g # Root
    <3>1. g \in names /\ g # f /\ inodes[g].addr \in Addrs
      BY <1>6, <2>2 DEF Inodes
    <3>2. ASSUME NEW i \in Idx, inodes[g].addr[i] # Zero
          PROVE  disk'[inodes[g].addr[i]] = disk[inodes[g].addr[i]]
      <4>1. \A j \in 0 .. k.used : inodes[g].addr[i] # k.addr[j]
        BY <1>5, <1>9, <3>1, <3>2 DEF Sound, Apart
      <4> QED
        BY <1>8, <3>1, <4>1 DEF Addrs
    <3> QED
      BY <1>7, <2>2, <3>2 DEF Kept
  <2> QED
    BY <2>1, <2>2
<1>12. Len(text) \in Nat /\ k.off \in Nat /\ k.len \in Nat /\ k.off <= k.len
  BY <1>2, <1>5, MaxLenIs
<1>13. /\ InText' /\ RootIs' /\ Pos' = [Pos EXCEPT ![d].off = k.off + Len(text)]
       /\ Pos[d].file = f /\ Pos[d].off = k.off
  <2>1. l.off \in Nat /\ l.len \in Nat /\ l.off <= l.len
    BY <1>3, <1>12
  <2>2. l.file = fds[d].file /\ fds' = [fds EXCEPT ![d] = l]
    BY <1>3
  <2>3. InText' /\ RootIs' /\ Pos' = [Pos EXCEPT ![d].off = l.off] /\ Pos[d].file = fds[d].file
        /\ Pos[d].off = fds[d].off
    BY <1>2, <1>10, <2>1, <2>2, OnlyThisPlace
  <2> QED
    BY <1>3, <1>4, <2>3
<1>14. Laid(k, l, text, disk')
  <2>1. ASSUME NEW i \in Idx, k.addr[i] # Zero
        PROVE  i \in 0 .. k.used
    <3>1. i <= k.used /\ i \in Nat /\ k.used \in Int
      BY <1>1, <1>5, <2>1, IdxIs, NodeAt
    <3> QED
      BY <3>1
  <2> QED
    BY <1>3, <1>8, <2>1 DEF Laid
<1>15. NoGap(l)
  BY <1>1, <1>5, <1>7 DEF Sound, Gapless, NoGap
<1>16. Line(l.len, l.addr, disk') = OverlaidAt(Line(k.len, k.addr, disk), text, k.off)
       /\ Blank(l, disk')
  BY <1>2, <1>5, <1>14, <1>15, LaidText
<1>17. Blank(inodes'[f], disk')
  BY <1>7, <1>16 DEF Blank
<1>18. TailBlank' /\ Txt[f] = StoredText(f) /\ Txt' = [Txt EXCEPT ![f] = StoredText(f)']
  <2>1. (TypeInv /\ OpenIsStored /\ RootIs)'
    BY <1>13 DEF Sound
  <2> QED
    BY <1>1, <1>5, <1>11, <1>17, <2>1, OtherText
<1>19. StoredText(f)' = OverlaidAt(Txt[f], text, k.off)
  BY <1>5, <1>7, <1>16, <1>18 DEF StoredText
<1>20. text = SubSeq(line, 1, Min({Len(line), MaxLen - Pos[d].off}))
  BY <1>13 DEF text, Clipped
<1>21. Txt' = [Txt EXCEPT ![Pos[d].file] = OverlaidAt(@, text, Pos[d].off)]
  BY <1>13, <1>18, <1>19
<1>22. Pos' = [Pos EXCEPT ![d].off = @ + Len(text)]
  <2>1. Pos' = [Pos EXCEPT ![d].off = Pos[d].off + Len(text)]
    BY <1>13
  <2> QED
    BY <2>1
<1>23. Promise!Next
  <2>1. LET t == SubSeq(line, 1, Min({Len(line), MaxLen - Pos[d].off}))
        IN /\ Txt' = [Txt EXCEPT ![Pos[d].file] = OverlaidAt(@, t, Pos[d].off)]
           /\ Pos' = [Pos EXCEPT ![d].off = @ + Len(t)]
    BY <1>20, <1>21, <1>22
  <2>2. Pos[d].file # NoFile
    BY <1>5, <1>13
  <2> QED
    BY <1>1, <2>1, <2>2, StepWrite
<1> QED
  BY <1>13, <1>18, <1>23 DEF Whole

----------------------------------------------------------------------------
(* Reading.                                                                *)

\* The byte at a place of a file.
ByteAt(addr, p) == disk[addr[p \div BlockSize]][p % BlockSize]

\* The bytes from the place off up to the place e.
ReadTo(s, addr, off, e) ==
  /\ s \in Seq(Bytes) /\ Len(s) = e - off
  /\ \A q \in 1 .. e - off : s[q] = ByteAt(addr, off + q - 1)

\* t behind s.
Behind(s, t, u) ==
  /\ Len(u) = Len(s) + Len(t)
  /\ \A q \in 1 .. Len(s) : u[q] = s[q]
  /\ \A j \in 1 .. Len(t) : u[Len(s) + j] = t[j]

LEMMA Joined ==
  ASSUME NEW s \in Seq(Bytes), NEW t \in Seq(Bytes)
  PROVE  s \o t \in Seq(Bytes) /\ Behind(s, t, s \o t)
<1>1. s \o t \in Seq(Bytes) /\ Len(s) \in Nat /\ Len(t) \in Nat /\ Len(s \o t) = Len(s) + Len(t)
  OBVIOUS
<1>2. \A q \in 1 .. Len(s) + Len(t) :
        (s \o t)[q] = IF q <= Len(s) THEN s[q] ELSE t[q - Len(s)]
  OBVIOUS
<1>3. ASSUME NEW q \in 1 .. Len(s)
      PROVE  (s \o t)[q] = s[q]
  BY <1>1, <1>2
<1>4. ASSUME NEW j \in 1 .. Len(t)
      PROVE  (s \o t)[Len(s) + j] = t[j]
  <2>1. Len(s) + j \in 1 .. Len(s) + Len(t) /\ ~(Len(s) + j <= Len(s)) /\ Len(s) + j - Len(s) = j
    BY <1>1
  <2> QED
    BY <1>2, <2>1
<1> QED
  BY <1>1, <1>3, <1>4 DEF Behind

\* One more piece.
LEMMA ReadMore ==
  ASSUME NEW addr, NEW off \in Nat, NEW from \in Nat, NEW to \in Nat, off <= from, from <= to,
         NEW s, ReadTo(s, addr, off, from),
         NEW c \in Seq(Bytes), Len(c) = to - from,
         \A j \in 1 .. to - from : c[j] = ByteAt(addr, from + j - 1)
  PROVE  ReadTo(s \o c, addr, off, to)
<1>1. s \in Seq(Bytes) /\ Len(s) = from - off
      /\ \A q \in 1 .. from - off : s[q] = ByteAt(addr, off + q - 1)
  BY DEF ReadTo
<1>2. s \o c \in Seq(Bytes) /\ Behind(s, c, s \o c)
  BY <1>1, Joined
<1>3. Len(s \o c) = to - off
  <2>1. Len(s \o c) = Len(s) + Len(c)
    BY <1>2 DEF Behind
  <2> QED
    BY <1>1, <2>1
<1>4. ASSUME NEW q \in 1 .. to - off
      PROVE  (s \o c)[q] = ByteAt(addr, off + q - 1)
  <2>1. CASE q <= from - off
    <3>1. q \in 1 .. from - off
      BY <2>1
    <3> QED
      BY <1>1, <1>2, <3>1 DEF Behind
  <2>2. CASE ~(q <= from - off)
    <3> DEFINE j == q - (from - off)
    <3>1. j \in 1 .. to - from /\ from + j - 1 = off + q - 1 /\ q = (from - off) + j
      BY <2>2
    <3> HIDE DEF j
    <3>2. (s \o c)[q] = c[j]
      BY <1>1, <1>2, <3>1 DEF Behind
    <3>3. c[j] = ByteAt(addr, from + j - 1)
      BY <3>1
    <3> QED
      BY <3>1, <3>2, <3>3
  <2> QED
    BY <2>1, <2>2
<1> QED
  BY <1>2, <1>3, <1>4 DEF ReadTo

\* One more chunk.
LEMMA ChunkRead ==
  ASSUME NEW k \in KNodes, NEW i \in Idx, NEW n \in Nat, k.buf = disk[k.addr[i]],
         NEW from, from = Max({k.off, i * BlockSize}),
         NEW to, to = Min({k.off + n, (i + 1) * BlockSize}), from <= to,
         NEW s, ReadTo(s, k.addr, k.off, from)
  PROVE  ReadTo(s \o Chunk(k, i, n), k.addr, k.off, to)
<1> DEFINE A == i * BlockSize
           B == (i + 1) * BlockSize
           off == k.off
           c == Chunk(k, i, n)
           z == to - from
<1>1. i \in Nat /\ off \in Nat /\ BlockSize \in Nat
  BY IdxIs, SizeAssumption, MaxLenIs DEF KNodes
<1>2. A \in Nat /\ B \in Nat /\ B = A + BlockSize
  <2>1. i <= i + 1 /\ i + 1 \in Nat
    BY <1>1
  <2>2. A \in Nat /\ B \in Nat
    BY <1>1, <2>1, TimesMonotone
  <2>3. B = A + BlockSize
    BY <1>1
  <2> QED
    BY <2>2, <2>3
<1>3. from = (IF off >= A THEN off ELSE A) /\ to = (IF off + n <= B THEN off + n ELSE B)
  <2>1. off + n \in Int /\ A \in Int /\ B \in Int /\ off \in Int
    BY <1>1, <1>2
  <2> HIDE DEF A, B, off
  <2>2. Max({off, A}) = IF off >= A THEN off ELSE A
    BY <2>1, MaxIs
  <2>3. Min({off + n, B}) = IF off + n <= B THEN off + n ELSE B
    BY <2>1, MinIs
  <2> QED
    BY <2>2, <2>3 DEF A, B, off
<1>4. c \in Seq(Bytes) /\ c = [j \in 1 .. z |-> k.buf[(from + j - 1) % BlockSize]]
  <2>1. c \in Seq(Bytes)
    BY <1>1, ChunkType
  <2> QED
    BY <2>1 DEF Chunk
<1> HIDE DEF A, B, off, c
<1>5. from \in Nat /\ to \in Nat /\ z \in Nat /\ off <= from /\ A <= from /\ to <= B
  BY <1>1, <1>2, <1>3
<1>6. Len(c) = z
  <2> HIDE DEF z
  <2> QED
    BY <1>4, <1>5
<1>7. ASSUME NEW j \in 1 .. z
      PROVE  c[j] = ByteAt(k.addr, from + j - 1)
  <2> DEFINE p == from + j - 1
             r == p - A
  <2>1. p \in Nat /\ r \in Offsets /\ p = A + r
    BY <1>1, <1>2, <1>5 DEF Offsets
  <2>2. p \div BlockSize = i
    <3> HIDE DEF r, p
    <3>1. (i * BlockSize + r) \div BlockSize = i
      BY <1>1, <2>1, PlaceFrom
    <3> QED
      BY <2>1, <3>1 DEF A
  <2>3. c[j] = k.buf[p % BlockSize]
    BY <1>4
  <2> QED
    BY <2>2, <2>3 DEF ByteAt
<1>8. ReadTo(s, k.addr, off, from)
  BY DEF off
<1>9. c \in Seq(Bytes)
  BY <1>4
<1>10. ReadTo(s \o c, k.addr, off, to)
  <2>1. Len(c) = to - from /\ \A j \in 1 .. to - from : c[j] = ByteAt(k.addr, from + j - 1)
    BY <1>6, <1>7
  <2> HIDE DEF z
  <2> QED
    BY <1>1, <1>5, <1>8, <1>9, <2>1, ReadMore
<1> QED
  BY <1>10 DEF off, c

\* Where the reading is after m blocks.
Reached(k, n, m) == IF m = 0 THEN k.off ELSE Min({k.off + n, (FirstBlock(k) + m) * BlockSize})

\* The next block begins there, and its end is what is reached with it.
LEMMA ReachNext ==
  ASSUME NEW k \in KNodes, NEW n \in Nat, k.off + n <= MaxLen, NEW m \in 1 .. Rounds(k, n)
  PROVE  LET i == FirstBlock(k) + m - 1
         IN /\ Reached(k, n, m - 1) = Max({k.off, i * BlockSize})
            /\ Reached(k, n, m) = Min({k.off + n, (i + 1) * BlockSize})
            /\ Reached(k, n, m - 1) <= Reached(k, n, m)
<1> DEFINE off == k.off
           F == FirstBlock(k)
           i == F + m - 1
           A == i * BlockSize
           B == (i + 1) * BlockSize
           C == F * BlockSize
<1>1. off \in Nat /\ BlockSize \in Nat \ {0} /\ n \in Nat
  BY SizeAssumption, MaxLenIs DEF KNodes
<1>2. /\ F \in Nat /\ LastBlock(k, n) \in Nat /\ Rounds(k, n) \in Nat /\ i <= LastBlock(k, n)
  BY RoundsAre, IdxIs
<1>3. F = off \div BlockSize
  BY DEF FirstBlock
<1>4. C <= off /\ off < C + BlockSize /\ C \in Nat
  <2>1. /\ off \div BlockSize \in Nat /\ off % BlockSize \in Offsets
        /\ off = (off \div BlockSize) * BlockSize + (off % BlockSize)
    BY <1>1, PlaceIs
  <2>2. F <= F /\ BlockSize \in Nat
    BY <1>1, <1>2
  <2>3. C \in Nat
    BY <1>2, <2>2, TimesMonotone
  <2>4. off = C + (off % BlockSize) /\ off % BlockSize \in 0 .. BlockSize - 1
    BY <1>3, <2>1 DEF Offsets
  <2> HIDE DEF C, off, F
  <2> QED
    BY <1>1, <2>3, <2>4
<1>5. m \in Nat /\ m >= 1 /\ i \in Nat /\ i + 1 \in Nat /\ i + 1 = F + m /\ F <= i
  <2> HIDE DEF F
  <2> QED
    BY <1>2
<1>6. A \in Nat /\ B \in Nat /\ C <= A /\ B = A + BlockSize
  <2>1. i <= i + 1 /\ BlockSize \in Nat
    BY <1>1, <1>5
  <2> HIDE DEF F, i
  <2>2. A \in Nat /\ B \in Nat
    BY <1>5, <2>1, TimesMonotone
  <2>3. C <= A
    BY <1>2, <1>5, <2>1, TimesMonotone
  <2>4. B = A + BlockSize
    BY <1>5, <2>1
  <2> QED
    BY <2>2, <2>3, <2>4
<1>7. CASE m = 1
  <2>1. i = F /\ A = C
    <3>1. i = F
      <4> HIDE DEF F
      <4> QED
        BY <1>2, <1>7
    <3> QED
      BY <3>1
  <2>2. Reached(k, n, m - 1) = off /\ Reached(k, n, m) = Min({off + n, B})
    <3>1. m - 1 = 0 /\ m # 0 /\ F + m = i + 1
      BY <1>5, <1>7
    <3> QED
      BY <3>1 DEF Reached
  <2> HIDE DEF off, A, B, C, F, i
  <2>3. Max({off, A}) = off
    BY <1>1, <1>4, <1>6, <2>1, MaxIs
  <2>4. Min({off + n, B}) = IF off + n <= B THEN off + n ELSE B
    <3>1. off + n \in Int /\ B \in Int
      BY <1>1, <1>6
    <3> QED
      BY <3>1, MinIs
  <2>5. off <= Min({off + n, B})
    BY <1>1, <1>4, <1>6, <2>1, <2>4
  <2> QED
    BY <2>2, <2>3, <2>5 DEF off, A, B, F, i
<1>8. CASE m > 1
  <2>1. i > F /\ i >= 1
    <3> HIDE DEF F
    <3> QED
      BY <1>2, <1>8
  <2>2. off < A
    <3>1. F + 1 <= i /\ F + 1 \in Nat
      BY <1>2, <1>5, <2>1
    <3>2. (F + 1) * BlockSize <= A
      <4> HIDE DEF F, i
      <4> QED
        BY <1>1, <1>5, <3>1, TimesMonotone
    <3>3. (F + 1) * BlockSize = C + BlockSize
      <4> HIDE DEF F
      <4> QED
        BY <1>1, <1>2
    <3> HIDE DEF off, A, C, F
    <3> QED
      BY <1>1, <1>4, <1>6, <3>2, <3>3
  <2>3. A <= off + n
    <3>1. off + n # 0 /\ off + n \in Nat /\ off + n - 1 \in Nat
      <4> HIDE DEF off, A
      <4>1. LastBlock(k, n) >= 1
        BY <1>2, <1>5, <2>1
      <4>2. off + n # 0
        BY <4>1 DEF LastBlock, off
      <4> QED
        BY <1>1, <4>2
    <3> DEFINE q == off + n - 1
               L == q \div BlockSize
    <3>2. LastBlock(k, n) = L
      BY <3>1 DEF LastBlock
    <3>3. q \in Nat
      BY <3>1
    <3> HIDE DEF q
    <3>4. L \in Nat /\ q % BlockSize \in Offsets /\ q = L * BlockSize + (q % BlockSize)
      BY <3>3, PlaceIs
    <3>5. i <= L
      BY <1>2, <3>2
    <3>6. A <= L * BlockSize /\ L * BlockSize \in Nat
      <4> HIDE DEF L, i
      <4> QED
        BY <1>1, <1>5, <3>4, <3>5, TimesMonotone
    <3>7. q % BlockSize >= 0 /\ q % BlockSize \in Int
      BY <1>1, <3>4 DEF Offsets
    <3>8. A <= q
      <4> HIDE DEF A, L
      <4> QED
        BY <1>6, <3>3, <3>4, <3>6, <3>7
    <3> HIDE DEF A
    <3> QED
      BY <1>1, <1>6, <3>8 DEF q
  <2>4. Reached(k, n, m - 1) = Min({off + n, A}) /\ Reached(k, n, m) = Min({off + n, B})
    <3>1. m - 1 # 0 /\ m # 0 /\ F + m = i + 1 /\ F + (m - 1) = i
      <4> HIDE DEF F
      <4> QED
        BY <1>2, <1>8
    <3> QED
      BY <3>1 DEF Reached
  <2> HIDE DEF off, A, B, C, F, i
  <2>5. off + n \in Int /\ A \in Int /\ B \in Int /\ off \in Int
    BY <1>1, <1>6
  <2>6. Min({off + n, A}) = A /\ Max({off, A}) = A
        /\ Min({off + n, B}) = IF off + n <= B THEN off + n ELSE B
    BY <2>2, <2>3, <2>5, MinIs, MaxIs
  <2>7. A <= Min({off + n, B})
    BY <1>1, <1>6, <2>3, <2>5, <2>6
  <2> QED
    BY <2>4, <2>6, <2>7 DEF off, A, B, F, i
<1> QED
  BY <1>5, <1>7, <1>8

\* After the last block everything is read.
LEMMA ReachedAll ==
  ASSUME NEW k \in KNodes, NEW n \in Nat, k.off + n <= MaxLen
  PROVE  Reached(k, n, Rounds(k, n)) = k.off + n
<1> DEFINE off == k.off
           F == FirstBlock(k)
           L == LastBlock(k, n)
           R == Rounds(k, n)
           B == (L + 1) * BlockSize
           C == F * BlockSize
<1>1. off \in Nat /\ BlockSize \in Nat \ {0} /\ n \in Nat
  BY SizeAssumption, MaxLenIs DEF KNodes
<1>2. F \in Nat /\ L \in Nat /\ R \in Nat /\ R = L - F + 1
  BY RoundsAre, IdxIs DEF Rounds
<1>3. off + n <= B /\ B \in Nat
  <2>1. BlockSize \in Nat /\ L + 1 \in Nat /\ L + 1 <= L + 1 /\ 1 \in Nat /\ 1 <= L + 1
    BY <1>1, <1>2
  <2>2. B \in Nat /\ 1 * BlockSize <= B
    <3> HIDE DEF L
    <3> QED
      BY <2>1, TimesMonotone
  <2>3. CASE off + n = 0
    BY <2>2, <2>3
  <2>4. CASE off + n # 0
    <3> DEFINE q == off + n - 1
    <3>1. L = q \div BlockSize
      BY <2>4 DEF LastBlock
    <3>2. q \in Nat
      BY <1>1, <2>4
    <3> HIDE DEF q, L
    <3>3. q % BlockSize \in Offsets /\ q = L * BlockSize + (q % BlockSize)
      BY <3>1, <3>2, PlaceIs
    <3>4. q % BlockSize < BlockSize /\ q % BlockSize \in Int
      BY <1>1, <3>3 DEF Offsets
    <3>5. B = L * BlockSize + BlockSize /\ L * BlockSize \in Nat
      <4>1. L <= L
        BY <1>2
      <4> QED
        BY <1>1, <1>2, <4>1, TimesMonotone
    <3>6. q < B
      <4> DEFINE T == L * BlockSize
                 r == q % BlockSize
      <4> HIDE DEF T, r, B
      <4> QED
        BY <1>1, <3>2, <3>3, <3>4, <3>5 DEF T, r
    <3> HIDE DEF B
    <3> QED
      BY <1>1, <2>2, <3>6 DEF q
  <2> QED
    BY <2>3, <2>4
<1>4. CASE R = 0
  <2>1. L = F - 1
    <3> HIDE DEF R, F, L
    <3> QED
      BY <1>2, <1>4
  <2>2. B = C
    <3> HIDE DEF L, F
    <3>1. L + 1 = F
      BY <1>2, <2>1
    <3> QED
      BY <3>1
  <2>3. C <= off
    <3>1. off \div BlockSize = F
      BY DEF FirstBlock
    <3>2. off % BlockSize \in Offsets /\ off = (off \div BlockSize) * BlockSize + (off % BlockSize)
      BY <1>1, PlaceIs
    <3>3. off = C + (off % BlockSize)
      BY <3>1, <3>2
    <3>4. off % BlockSize >= 0 /\ off % BlockSize \in Int
      BY <1>1, <3>2 DEF Offsets
    <3>5. C \in Nat
      BY <1>3, <2>2
    <3> HIDE DEF C, off
    <3> QED
      BY <1>1, <3>3, <3>4, <3>5
  <2>4. off + n = off
    <3> HIDE DEF off, C, B
    <3> QED
      BY <1>1, <1>3, <2>2, <2>3
  <2> QED
    BY <1>4, <2>4 DEF Reached
<1>5. CASE R # 0
  <2>1. F + R = L + 1
    <3> HIDE DEF F, L, R
    <3> QED
      BY <1>2
  <2>2. Reached(k, n, R) = Min({off + n, B})
    BY <1>5, <2>1 DEF Reached
  <2>3. off + n \in Int /\ B \in Int
    BY <1>1, <1>3
  <2>4. Min({off + n, B}) = off + n
    <3> HIDE DEF B
    <3> QED
      BY <1>3, <2>3, MinIs
  <2> QED
    BY <2>2, <2>4
<1> QED
  BY <1>4, <1>5

\* What the loop of my_read has read after each block.
LEMMA ReadLoopText ==
  ASSUME NEW k \in KNodes, disk \in Disks, NEW n \in Nat, k.off + n <= MaxLen,
         NEW u, Settled(k, disk, u), LastBlock(k, n) <= u
  PROVE  \A m \in 0 .. Rounds(k, n) :
           ReadTo(ReadUpTo(k, n)[m].all, k.addr, k.off, Reached(k, n, m))
<1> DEFINE R == Rounds(k, n)
           w(m) == ReadUpTo(k, n)[m]
           D == {m \in 0 .. R : ReadTo(w(m).all, k.addr, k.off, Reached(k, n, m))}
<1>1. R \in Nat
  BY RoundsAre
<1>2. 0 \in D
  <2>1. w(0).all = <<>>
    <3>1. ReadUpTo(k, n)[0] = [k |-> k, out |-> <<>>, all |-> <<>>]
      BY <1>1, ReadRun
    <3> QED
      BY <3>1
  <2>2. k.off \in Nat /\ Reached(k, n, 0) = k.off
    BY MaxLenIs DEF KNodes, Reached
  <2>3. ReadTo(<<>>, k.addr, k.off, k.off)
    BY <2>2 DEF ReadTo
  <2>4. 0 \in 0 .. R
    BY <1>1
  <2> QED
    BY <2>1, <2>2, <2>3, <2>4
<1>3. ASSUME NEW m \in 1 .. R, m - 1 \in D
      PROVE  m \in D
  <2> DEFINE i == FirstBlock(k) + m - 1
             r == w(m - 1)
             s == w(m)
             from == Reached(k, n, m - 1)
             to == Reached(k, n, m)
  <2>1. i \in Idx
    BY RoundsAre
  <2>2. m \in 0 .. R /\ m - 1 \in 0 .. R
    BY <1>1
  <2>3. r.k \in KNodes /\ Same(k, r.k) /\ s.k \in KNodes /\ Same(k, s.k)
    BY <2>2, ReadUpToType
  <2>4. s = ReadBlock(r, i, n)
    BY <1>1, ReadRun
  <2>5. ReadTo(r.all, k.addr, k.off, from)
    BY <1>3
  <2>6. Settled(s.k, disk, u)
    BY <2>2, ReadLoop
  <2> HIDE DEF i, r, s, D, w
  <2>7. BlockRead(r, s, i, n)
    BY <2>1, <2>3, <2>4, ReadBlockIs
  <2>8. s.k.cur = i /\ s.all = r.all \o Chunk(s.k, i, n)
    BY <2>7 DEF BlockRead
  <2>9. s.k.buf = disk[s.k.addr[i]]
    BY <2>6, <2>8 DEF Settled
  <2>10. s.k.off = k.off /\ s.k.addr = k.addr
    BY <2>3 DEF Same
  <2>11. from = Max({k.off, i * BlockSize}) /\ to = Min({k.off + n, (i + 1) * BlockSize})
         /\ from <= to
    BY ReachNext DEF i
  <2>12. from = Max({s.k.off, i * BlockSize}) /\ to = Min({s.k.off + n, (i + 1) * BlockSize})
         /\ from <= to /\ ReadTo(r.all, s.k.addr, s.k.off, from)
    BY <2>5, <2>10, <2>11
  <2> HIDE DEF from, to
  <2>13. ReadTo(r.all \o Chunk(s.k, i, n), s.k.addr, s.k.off, to)
    BY <2>1, <2>3, <2>9, <2>12, ChunkRead
  <2>14. ReadTo(s.all, k.addr, k.off, to)
    BY <2>8, <2>10, <2>13
  <2> QED
    BY <2>2, <2>14 DEF s, to, D
<1>4. 0 .. R \subseteq D
  <2> HIDE DEF D
  <2> QED
    BY <1>1, <1>2, <1>3, Climb
<1> QED
  BY <1>4

\* What is read is a part of the text.
LEMMA ReadIsText ==
  ASSUME NEW len \in Nat, NEW addr, NEW off \in Nat, NEW n \in Nat, off + n <= len,
         NEW s, ReadTo(s, addr, off, off + n)
  PROVE  s = SubSeq(Line(len, addr, disk), off + 1, off + n)
<1> DEFINE t == Line(len, addr, disk)
<1>1. s \in Seq(Bytes) /\ Len(s) = n /\ \A q \in 1 .. n : s[q] = ByteAt(addr, off + q - 1)
  BY DEF ReadTo
<1>2. s = [q \in 1 .. n |-> ByteAt(addr, off + q - 1)]
  <2>1. s = [q \in 1 .. n |-> s[q]]
    BY <1>1
  <2> QED
    BY <1>1, <2>1
<1>3. \A p \in 1 .. len : t[p] = ByteAt(addr, p - 1)
  BY DEF Line, ByteAt
<1>4. SubSeq(t, off + 1, off + n) = [q \in 1 .. n |-> t[off + q]]
  <2> HIDE DEF t
  <2>1. SubSeq(t, off + 1, off + n)
          = [q \in 1 .. 1 + (off + n) - (off + 1) |-> t[q + (off + 1) - 1]]
    OBVIOUS
  <2>2. 1 + (off + n) - (off + 1) = n /\ \A q \in 1 .. n : q + (off + 1) - 1 = off + q
    OBVIOUS
  <2> QED
    BY <2>1, <2>2
<1> HIDE DEF t
<1>5. ASSUME NEW q \in 1 .. n
      PROVE  t[off + q] = ByteAt(addr, off + q - 1)
  <2>1. off + q \in 1 .. len
    OBVIOUS
  <2> QED
    BY <1>3, <2>1
<1>6. s = SubSeq(t, off + 1, off + n)
  BY <1>2, <1>4, <1>5
<1> QED
  BY <1>6 DEF t

LEMMA WholeRead ==
  ASSUME Sound, Whole, Sound', exact', NEW d \in Fds, NEW size \in 1 .. MaxLen, Read(d, size)
  PROVE  Whole' /\ Promise!Next
<1> DEFINE k == fds[d]
           n == Min({size, k.len - k.off})
           r == Reading(k, n)
<1>1. TypeInv /\ OpenIsStored /\ Gapless /\ Apart
  BY DEF Sound
<1>2. /\ k.off <= k.len /\ got' = r.out /\ r.out = r.all
      /\ fds' = [fds EXCEPT ![d] = [r.k EXCEPT !.off = @ + n]]
      /\ UNCHANGED <<names, inodes, disk>>
      /\ k.file # NoFile /\ k.file # Root
  BY DEF Read
<1>3. k.file \in Files
  BY <1>1, <1>2, NodeAt
<1>4. PICK f \in Files : f = k.file
  BY <1>3
<1>5. n \in Nat /\ k.off + n <= k.len /\ k.off + n \in 0 .. MaxLen
  BY <1>1, <1>2, ReadSize
<1>6. k \in KNodes /\ disk \in Disks
  BY <1>1, NodeAt DEF TypeInv
<1>7. Settled(k, disk, k.used) /\ LastBlock(k, n) <= k.used
  BY <1>1, <1>3, <1>5, OpenSettled
<1>8. k.len \in Nat /\ k.off \in Nat
  BY <1>6, MaxLenIs DEF KNodes
<1>9. k.off + n <= MaxLen
  BY <1>5, MaxLenIs
<1>10. Rounds(k, n) \in Nat /\ Rounds(k, n) \in 0 .. Rounds(k, n)
  <2> HIDE DEF n
  <2>1. Rounds(k, n) \in Nat
    BY <1>5, <1>6, <1>9, RoundsAre
  <2> QED
    BY <2>1
<1>11. r = ReadUpTo(k, n)[Rounds(k, n)]
  BY DEF Reading
<1> HIDE DEF n, r
<1>12. r.k \in KNodes /\ Same(k, r.k)
  BY <1>5, <1>6, <1>9, <1>10, <1>11, ReadUpToType
<1>13. ReadTo(r.all, k.addr, k.off, k.off + n)
  <2>1. ReadTo(r.all, k.addr, k.off, Reached(k, n, Rounds(k, n)))
    BY <1>5, <1>6, <1>7, <1>9, <1>10, <1>11, ReadLoopText
  <2>2. Reached(k, n, Rounds(k, n)) = k.off + n
    BY <1>5, <1>6, <1>9, ReachedAll
  <2> QED
    BY <2>1, <2>2
<1>14. got' = SubSeq(Line(k.len, k.addr, disk), k.off + 1, k.off + n) /\ Len(got') = n
  <2>1. r.all = SubSeq(Line(k.len, k.addr, disk), k.off + 1, k.off + n)
    BY <1>5, <1>8, <1>13, ReadIsText
  <2>2. Len(r.all) = n
    BY <1>5, <1>8, <1>13 DEF ReadTo
  <2> QED
    BY <1>2, <2>1, <2>2
<1> DEFINE l == [r.k EXCEPT !.off = @ + n]
<1>15. l.file = f /\ l.off = k.off + n /\ l.len = k.len
  BY <1>4, <1>12 DEF KNodes, Same
<1>16. /\ InText' /\ RootIs' /\ Pos' = [Pos EXCEPT ![d].off = k.off + n]
       /\ Pos[d].file = f /\ Pos[d].off = k.off
  <2>1. l.off \in Nat /\ l.len \in Nat /\ l.off <= l.len
    BY <1>5, <1>8, <1>15
  <2>2. fds' = [fds EXCEPT ![d] = l] /\ l.file = fds[d].file
    BY <1>2, <1>4, <1>15
  <2>3. disk'[Zero] = disk[Zero] /\ inodes'[Root] = inodes[Root]
    BY <1>2
  <2> HIDE DEF l
  <2>4. InText' /\ RootIs' /\ Pos' = [Pos EXCEPT ![d].off = l.off] /\ Pos[d].file = fds[d].file
        /\ Pos[d].off = fds[d].off
    BY <1>3, <2>1, <2>2, <2>3, OnlyThisPlace
  <2> QED
    BY <1>4, <1>15, <2>4
<1>17. TailBlank' /\ Txt' = Txt
  BY <1>2, <1>16, OnlyFds
<1>18. f \in names /\ f # NoFile /\ StoredText(f) = Line(k.len, k.addr, disk)
  BY <1>3, <1>4, OpenNode
<1>19. Txt[f] = Line(k.len, k.addr, disk)
  <2>1. Txt = [g \in names \cup {Root} |-> StoredText(g)]
    BY TxtIs DEF Sound, Whole
  <2> QED
    BY <1>18, <2>1
<1>20. Min({k.off + size, Len(Txt[f])}) = k.off + n
  <2>1. Len(Txt[f]) = k.len
    BY <1>8, <1>19 DEF Line
  <2>2. size \in Nat
    BY MaxLenIs
  <2>3. n = IF size <= k.len - k.off THEN size ELSE k.len - k.off
    <3>1. size \in Int /\ k.len - k.off \in Int
      BY <1>8, <2>2
    <3> QED
      BY <3>1, MinIs DEF n
  <2>4. k.off + size \in Int /\ k.len \in Int
    BY <1>8, <2>2
  <2>5. Min({k.off + size, k.len}) = IF k.off + size <= k.len THEN k.off + size ELSE k.len
    BY <2>4, MinIs
  <2> QED
    BY <1>8, <2>1, <2>2, <2>3, <2>5
<1>21. got' = SubSeq(Txt[Pos[d].file], Pos[d].off + 1, Min({Pos[d].off + size, Len(Txt[Pos[d].file])}))
  BY <1>14, <1>16, <1>19, <1>20
<1>22. Pos' = [Pos EXCEPT ![d].off = @ + Len(got')] /\ Pos[d].file # NoFile
  <2>1. Pos' = [Pos EXCEPT ![d].off = Pos[d].off + Len(got')]
    BY <1>14, <1>16
  <2> QED
    BY <1>16, <1>18, <2>1
<1>23. Promise!Next
  BY <1>17, <1>21, <1>22, StepRead
<1> QED
  BY <1>16, <1>17, <1>23 DEF Whole

----------------------------------------------------------------------------
(* The refinement.                                                         *)

LEMMA TextInit == Init => TextInv /\ Promise!Init
<1> SUFFICES ASSUME Init
             PROVE  TextInv /\ Promise!Init
  OBVIOUS
<1>1. /\ names = {} /\ disk = [b \in Blocks |-> IF b = Zero THEN DirBlock ELSE Nuls]
      /\ inodes = [f \in Files \cup {Root} |->
                     [NoInode EXCEPT !.len = IF f = Root THEN BlockSize ELSE 0]]
      /\ fds = [d \in Fds |-> IF d = 0 THEN RootFd ELSE Closed(NoBlocks, FALSE)]
      /\ got = <<>>
  BY DEF Init
<1>2. disk[Zero] = DirBlock /\ inodes[Root].len = BlockSize /\ inodes[Root].addr = NoBlocks
  <2>1. disk[Zero] = DirBlock
    BY <1>1, BlocksAssumption
  <2>2. inodes[Root] = [NoInode EXCEPT !.len = BlockSize]
    BY <1>1
  <2> QED
    BY <2>1, <2>2 DEF NoInode
<1>3. /\ fds[0].file = Root /\ fds[0].len = BlockSize /\ fds[0].addr = NoBlocks /\ fds[0].off = 0
      /\ \A d \in Fds \ {0} : fds[d].file = NoFile /\ fds[d].off = 0
  BY <1>1, BlanksAre DEF RootFd, Closed
<1>4. RootIs
  BY <1>2, <1>3, FilesAssumption DEF RootIs
<1>5. InText /\ TailBlank
  BY <1>1, <1>3, FilesAssumption DEF InText, TailBlank
<1>6. Pos = Start
  BY <1>3 DEF Pos, Start, AtRest
<1>7. Txt = [f \in {Root} |-> RootTxt]
  <2>1. IsOpen(Root) /\ Kernel(Root) = fds[0]
    <3>1. IsOpen(Root)
      BY <1>3, BlanksAre DEF IsOpen
    <3>2. FdOf(Root) = 0
      BY <1>3, <3>1, FdOfIs, FilesAssumption
    <3> QED
      BY <3>1, <3>2 DEF Kernel, FdOf
  <2>2. TextOf(fds[0]) = RootTxt
    <3>1. ASSUME NEW p \in 1 .. BlockSize
          PROVE  disk[NoBlocks[(p - 1) \div BlockSize]][(p - 1) % BlockSize] = DirByte
      <4>1. p \in 1 .. BlockSize /\ BlockSize \in 0 .. MaxLen
        BY BlanksAre
      <4>2. (p - 1) \div BlockSize \in Idx /\ (p - 1) % BlockSize \in Offsets
        BY <4>1, LineAt
      <4>3. NoBlocks[(p - 1) \div BlockSize] = Zero
        BY <4>2, IdxIs DEF NoBlocks
      <4> QED
        BY <1>2, <4>2, <4>3 DEF DirBlock
    <3> QED
      BY <1>3, <3>1 DEF TextOf, RootTxt
  <2> QED
    BY <1>1, <2>1, <2>2 DEF Txt
<1>8. Promise!Init
  BY <1>1, <1>6, <1>7 DEF Promise!Init, Promise!AtStart, Promise!Shut, Txt, Pos, Start, AtRest, RootTxt
<1> QED
  BY <1>4, <1>5, <1>8 DEF TextInv, Whole

\* A command that did no damage came after none that did.
LEMMA ExactBefore == [Next]_vars /\ exact' /\ exact \in BOOLEAN => exact
BY DEF Next, vars, Touch, Rm, Open, Cp, Close, Lseek, LseekFails, Read, Write, WriteFails, Visit,
       Restart

\* Every step of the code is one of FileText, or none.
LEMMA TextNext ==
  ASSUME TypeInv, OwnInv, TextInv, TypeInv', OwnInv', [Next]_vars
  PROVE  TextInv' /\ (exact' => [Promise!Next]_(Promise!vars))
<1> SUFFICES ASSUME exact'
             PROVE  Whole' /\ (Promise!Next \/ UNCHANGED <<Txt, Pos, got>>)
  BY DEF TextInv, Promise!vars, Txt, Pos
<1>1. exact
  BY ExactBefore DEF TypeInv
<1>2. Sound /\ Whole /\ Sound'
  BY <1>1 DEF Sound, OwnInv, TextInv
<1>3. ASSUME NEW f \in Files, Touch(f)
      PROVE  Whole' /\ Promise!Next
  BY <1>2, <1>3, WholeTouch
<1>4. ASSUME NEW f \in Files, Rm(f)
      PROVE  Whole' /\ Promise!Next
  BY <1>2, <1>4, WholeRm
<1>5. ASSUME NEW f \in Files, NEW append \in BOOLEAN, Open(f, append)
      PROVE  Whole' /\ Promise!Next
  BY <1>2, <1>5, WholeOpen
<1>6. ASSUME NEW f \in Files, NEW g \in Files, Cp(f, g)
      PROVE  Whole' /\ Promise!Next
  BY <1>2, <1>6, WholeCp
<1>7. ASSUME NEW d \in Fds, Close(d)
      PROVE  Whole' /\ Promise!Next
  BY <1>2, <1>7, WholeClose
<1>8. ASSUME NEW d \in Fds, NEW off \in 0 .. MaxLen - 1, Lseek(d, off)
      PROVE  Whole' /\ Promise!Next
  BY <1>2, <1>8, WholeLseek
<1>9. ASSUME NEW d \in Fds, NEW off \in 0 .. MaxLen - 1, LseekFails(d, off)
      PROVE  FALSE
  BY <1>9 DEF LseekFails
<1>10. ASSUME NEW d \in Fds, NEW size \in 1 .. MaxLen, Read(d, size)
       PROVE  Whole' /\ Promise!Next
  BY <1>2, <1>10, WholeRead
<1>11. ASSUME NEW d \in Fds, NEW line \in Texts, Write(d, line)
       PROVE  Whole' /\ Promise!Next
  BY <1>2, <1>11, WholeWrite
<1>12. ASSUME NEW d \in Fds, NEW line \in Texts, WriteFails(d, line)
       PROVE  FALSE
  BY <1>12 DEF WriteFails
<1>13. CASE Visit
  BY <1>2, <1>13, WholeVisit
<1>14. CASE Restart
  BY <1>2, <1>14, WholeRestart
<1>15. CASE UNCHANGED vars
  <2>1. Whole'
    BY <1>2, <1>15 DEF vars, Whole, InText, TailBlank, Blank, RootIs
  <2>2. UNCHANGED <<Txt, Pos, got>>
    BY <1>15 DEF vars, Txt, Pos, TextOf, Kernel, IsOpen
  <2> QED
    BY <2>1, <2>2
<1> QED
  BY <1>3, <1>4, <1>5, <1>6, <1>7, <1>8, <1>9, <1>10, <1>11, <1>12, <1>13, <1>14, <1>15 DEF Next

\* As long as no command does damage, the files of the code are the texts of FileText:
\* every command of the code does to them what a command of FileText does, whatever
\* blocks, buffers and index nodes it goes through.
THEOREM ContentsKept == Spec => KeepsContents
<1>1. Spec => Promise!Init
  BY TextInit DEF Spec
<1>2. Init => TextInv
  BY TextInit
<1>3. TypeInv /\ OwnInv /\ TextInv /\ (TypeInv /\ OwnInv)' /\ [Next]_vars
        => TextInv' /\ (exact' => [Promise!Next]_(Promise!vars))
  BY TextNext
<1>4. Spec => [](TypeInv /\ OwnInv)
  BY OwnAlways
<1>5. Spec => []TextInv
  BY <1>2, <1>3, <1>4, PTL DEF Spec
<1>6. Spec => [][exact' => [Promise!Next]_(Promise!vars)]_vars
  BY <1>3, <1>4, <1>5, PTL DEF Spec
<1> QED
  BY <1>1, <1>6, PTL DEF KeepsContents
=============================================================================
