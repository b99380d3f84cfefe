---------------------------- MODULE GroupsProofs ----------------------------
(***************************************************************************)
(* Theorems about Layout and Groups, for any number and size of groups,    *)
(* any width of the numbers and any length of the lists.                   *)
(***************************************************************************)
EXTENDS Groups, TLAPS

USE GroupsAssumption, ListAssumption, WidthAssumption, BatchAssumption, FilesAssumption,
    BoundAssumption

----------------------------------------------------------------------------
(* Arithmetic of the layout.                                               *)

\* A product grows with its first factor.
LEMMA TimesMonotone ==
  ASSUME NEW a \in Nat, NEW b \in Nat, NEW c \in Nat, a <= b
  PROVE  a * c <= b * c /\ a * c \in Nat /\ b * c \in Nat
<1>1. \A d \in Nat : d * c \in Nat
  OBVIOUS
<1>2. b = a + (b - a) /\ b - a \in Nat
  OBVIOUS
<1>3. b * c = a * c + (b - a) * c
  BY <1>2
<1> QED
  BY <1>1, <1>2, <1>3

\* A number is its group and its place in the group.
LEMMA GroupAndOffset ==
  ASSUME NEW n \in Nat
  PROVE  /\ GroupOf(n) \in Nat
         /\ OffsetOf(n) \in Offsets
         /\ n = GroupOf(n) * PerGroup + OffsetOf(n)
BY DEF GroupOf, OffsetOf, Offsets

LEMMA SameBit ==
  ASSUME NEW m \in Nat, NEW n \in Nat, GroupOf(m) = GroupOf(n), OffsetOf(m) = OffsetOf(n)
  PROVE  m = n
BY GroupAndOffset

\* Every number of 16 bits, and every bit of the maps, has a group.
LEMMA BitHasGroup ==
  ASSUME NEW n \in Bits
  PROVE  n \in Nat /\ GroupOf(n) \in GroupSet /\ OffsetOf(n) \in Offsets
<1>1. GroupCount * PerGroup \in Nat
  BY TimesMonotone
<1>2. n \in Nat /\ n < GroupCount * PerGroup
  BY <1>1 DEF Bits
<1>3. ~(GroupCount <= GroupOf(n))
  <2>1. SUFFICES ASSUME GroupCount <= GroupOf(n) PROVE FALSE
    OBVIOUS
  <2>2. GroupCount * PerGroup <= GroupOf(n) * PerGroup /\ GroupOf(n) * PerGroup \in Nat
    BY <1>2, <2>1, GroupAndOffset, TimesMonotone
  <2>3. n = GroupOf(n) * PerGroup + OffsetOf(n) /\ OffsetOf(n) \in Nat
    BY <1>2, GroupAndOffset DEF Offsets
  <2> QED
    BY <1>1, <1>2, <2>2, <2>3
<1> QED
  BY <1>2, <1>3, GroupAndOffset DEF GroupSet

LEMMA NumbersAreBits == Numbers \subseteq Bits /\ 0 \in Numbers /\ GroupOf(0) = 0
<1>1. GroupCount * PerGroup \in Nat
  BY TimesMonotone
<1>2. GroupOf(0) = 0
  BY DEF GroupOf
<1> QED
  BY <1>1, <1>2 DEF Numbers, Bits

----------------------------------------------------------------------------
(* Places.                                                                 *)

\* Place, spelled out.
LEMMA PlaceIs ==
  ASSUME NEW n \in Nat
  PROVE  /\ GroupBlocks \in Nat
         /\ GroupOf(n) * GroupBlocks \in Nat
         /\ Place(n) = 4 + ListBlocks + GroupOf(n) * GroupBlocks + OffsetOf(n)
         /\ Place(n) \in Nat
<1>1. GroupBlocks \in Nat
  BY DEF GroupBlocks
<1>2. GroupOf(n) \in Nat /\ OffsetOf(n) \in Nat
  BY GroupAndOffset DEF Offsets
<1>3. GroupOf(n) * GroupBlocks \in Nat
  BY <1>1, <1>2, TimesMonotone
<1> QED
  BY <1>1, <1>2, <1>3 DEF Place, DataStart

\* A group that comes earlier lies before by the blocks of a group at least.
LEMMA EarlierGroup ==
  ASSUME NEW g \in Nat, NEW h \in Nat, g < h
  PROVE  g * GroupBlocks + GroupBlocks <= h * GroupBlocks
<1>1. GroupBlocks \in Nat
  BY DEF GroupBlocks
<1>2. (g + 1) * GroupBlocks <= h * GroupBlocks
  BY <1>1, TimesMonotone
<1>3. (g + 1) * GroupBlocks = g * GroupBlocks + GroupBlocks
  BY <1>1
<1> QED
  BY <1>2, <1>3

LEMMA EarlierPlace ==
  ASSUME NEW m \in Nat, NEW n \in Nat, GroupOf(m) < GroupOf(n)
  PROVE  Place(m) < Place(n)
<1>1. OffsetOf(m) \in 0 .. PerGroup - 1 /\ OffsetOf(n) \in 0 .. PerGroup - 1
  BY GroupAndOffset DEF Offsets
<1>2. GroupOf(m) * GroupBlocks + GroupBlocks <= GroupOf(n) * GroupBlocks
  BY GroupAndOffset, EarlierGroup
<1>3. GroupBlocks > OffsetOf(m)
  BY <1>1 DEF GroupBlocks
<1> QED
  BY <1>1, <1>2, <1>3, PlaceIs

\* Two numbers never have the same place: blockno_to_offset is one to one.
THEOREM PlaceInjective ==
  ASSUME NEW m \in Nat, NEW n \in Nat, Place(m) = Place(n)
  PROVE  m = n
<1>1. GroupOf(m) = GroupOf(n)
  <2>1. GroupOf(m) \in Nat /\ GroupOf(n) \in Nat /\ Place(m) \in Nat
    BY GroupAndOffset, PlaceIs
  <2>2. ~(GroupOf(m) < GroupOf(n))
    BY <2>1, EarlierPlace
  <2>3. ~(GroupOf(n) < GroupOf(m))
    BY <2>1, EarlierPlace
  <2> QED
    BY <2>1, <2>2, <2>3
<1>2. OffsetOf(m) = OffsetOf(n)
  BY <1>1, PlaceIs, GroupAndOffset DEF Offsets
<1> QED
  BY <1>1, <1>2, SameBit

\* The place of a bit of the maps is on the device, and no control block of any
\* group.
THEOREM PlaceIsData ==
  ASSUME NEW n \in Bits
  PROVE  /\ Place(n) \in 0 .. DeviceBlocks - 1
         /\ \A g \in GroupSet : Place(n) \notin ControlBlocks(g)
<1> DEFINE h == GroupOf(n)
<1>1. n \in Nat /\ h \in Nat /\ h < GroupCount /\ OffsetOf(n) \in 0 .. PerGroup - 1
  BY BitHasGroup DEF GroupSet, Offsets
<1>2. /\ GroupBlocks \in Nat /\ h * GroupBlocks \in Nat
      /\ Place(n) = 4 + ListBlocks + h * GroupBlocks + OffsetOf(n)
  BY <1>1, PlaceIs
<1>3. GroupBlocks = 3 + ListBlocks + PerGroup
  BY DEF GroupBlocks
<1>4. Place(n) \in 0 .. DeviceBlocks - 1
  <2>1. h * GroupBlocks + GroupBlocks <= GroupCount * GroupBlocks
    BY <1>1, EarlierGroup
  <2>2. GroupCount * GroupBlocks \in Nat
    BY <1>2, TimesMonotone
  <2> QED
    BY <1>1, <1>2, <1>3, <2>1, <2>2 DEF DeviceBlocks
<1>5. ASSUME NEW g \in GroupSet PROVE Place(n) \notin ControlBlocks(g)
  <2>1. g \in Nat
    BY DEF GroupSet
  <2>2. g * GroupBlocks \in Nat
    BY <1>2, <2>1, TimesMonotone
  <2>3. CASE g <= h
    <3>1. g * GroupBlocks <= h * GroupBlocks
      BY <1>1, <1>2, <2>1, <2>3, TimesMonotone
    <3> QED
      BY <1>1, <1>2, <2>2, <3>1 DEF ControlBlocks
  <2>4. CASE h < g
    <3>1. h * GroupBlocks + GroupBlocks <= g * GroupBlocks
      BY <1>1, <2>1, <2>4, EarlierGroup
    <3> QED
      BY <1>1, <1>2, <1>3, <2>2, <3>1 DEF ControlBlocks
  <2> QED
    BY <1>1, <2>1, <2>3, <2>4
<1> QED
  BY <1>4, <1>5

----------------------------------------------------------------------------
(* Lists.                                                                  *)

LEMMA ListIs ==
  ASSUME NEW s
  PROVE  s \in Lists <=> s \in Seq(Numbers) /\ Len(s) <= Batch
<1>1. ASSUME s \in Lists PROVE s \in Seq(Numbers) /\ Len(s) <= Batch
  <2>1. PICK n \in 0 .. Batch : s \in [1 .. n -> Numbers]
    BY <1>1 DEF Lists
  <2> QED
    BY <2>1
<1>2. ASSUME s \in Seq(Numbers), Len(s) <= Batch PROVE s \in Lists
  <2>1. Len(s) \in 0 .. Batch /\ s \in [1 .. Len(s) -> Numbers]
    BY <1>2
  <2> QED
    BY <2>1 DEF Lists
<1> QED
  BY <1>1, <1>2

\* What is read from a wait array.
LEMMA UpToZeroIs ==
  ASSUME NEW s \in Seq(Numbers), NEW t \in UpToZero(s)
  PROVE  /\ t \in Seq(Numbers) /\ Len(t) <= Len(s)
         /\ (\A i \in DOMAIN s : s[i] # 0) => t = s
<1>1. PICK k \in 0 .. Len(s) : /\ t = SubSeq(s, 1, k)
                               /\ k < Len(s) => s[k + 1] = 0
  BY DEF UpToZero
<1>2. t \in Seq(Numbers) /\ Len(t) = k /\ \A i \in 1 .. k : t[i] = s[i]
  BY <1>1
<1>3. ASSUME \A i \in DOMAIN s : s[i] # 0 PROVE t = s
  <2>1. k = Len(s)
    BY <1>1, <1>3
  <2> QED
    BY <1>2, <2>1
<1> QED
  BY <1>1, <1>2, <1>3

LEMMA KernelListIs ==
  ASSUME NEW s \in Lists, NEW t \in KernelLists(s)
  PROVE  /\ t \in Lists /\ t # <<>>
         /\ (s # <<>> /\ \A i \in DOMAIN s : s[i] # 0) => t = s
<1>1. s \in Seq(Numbers) /\ Len(s) <= Batch
  BY ListIs
<1>2. CASE s = <<>>
  <2>1. t = <<0>>
    BY <1>2 DEF KernelLists
  <2>2. t \in Seq(Numbers) /\ Len(t) <= Batch /\ t # <<>>
    BY <2>1, NumbersAreBits
  <2>3. t \in Lists
    BY <2>2, ListIs
  <2> QED
    BY <1>2, <2>2, <2>3
<1>3. CASE s # <<>>
  <2>1. PICK u \in UpToZero(Tail(s)) : t = <<Head(s)>> \o u
    BY <1>3 DEF KernelLists
  <2>2. /\ Tail(s) \in Seq(Numbers) /\ Head(s) \in Numbers
        /\ Len(s) \in Nat \ {0} /\ Len(Tail(s)) = Len(s) - 1
    BY <1>1, <1>3
  <2>3. u \in Seq(Numbers) /\ Len(u) <= Len(s) - 1
    BY <2>2, UpToZeroIs
  <2>4. t \in Seq(Numbers) /\ Len(t) = 1 + Len(u)
    BY <2>1, <2>2, <2>3
  <2>5. t # <<>>
    BY <2>3, <2>4
  <2>6. (\A i \in DOMAIN s : s[i] # 0) => t = s
    <3> HAVE \A i \in DOMAIN s : s[i] # 0
    <3>1. \A i \in DOMAIN Tail(s) : Tail(s)[i] # 0
      BY <1>1, <2>2
    <3>2. u = Tail(s)
      BY <2>2, <3>1, UpToZeroIs
    <3> QED
      BY <1>1, <1>3, <2>1, <3>2
  <2>7. Len(t) <= Batch
    BY <1>1, <2>2, <2>3, <2>4
  <2>8. t \in Lists
    BY <2>4, <2>7, ListIs
  <2> QED
    BY <2>5, <2>6, <2>8, Zenon
<1> QED
  BY <1>2, <1>3

\* What is left of a list when the first was taken.
LEMMA TailIs ==
  ASSUME NEW s \in Lists, s # <<>>
  PROVE  /\ Head(s) \in Numbers /\ Head(s) = s[1] /\ Tail(s) \in Lists
         /\ Len(s) \in Nat \ {0} /\ Len(Tail(s)) = Len(s) - 1
         /\ \A i \in DOMAIN Tail(s) : i + 1 \in DOMAIN s /\ Tail(s)[i] = s[i + 1]
<1>1. s \in Seq(Numbers) /\ Len(s) <= Batch
  BY ListIs
<1>2. Tail(s) \in Seq(Numbers) /\ Len(Tail(s)) = Len(s) - 1 /\ Len(s) \in Nat \ {0}
  BY <1>1
<1>3. Tail(s) \in Lists
  <2>1. Len(Tail(s)) <= Batch
    BY <1>1, <1>2
  <2> QED
    BY <1>2, <2>1, ListIs
<1> QED
  BY <1>1, <1>2, <1>3

\* What a search lists.
LEMMA ListedIs ==
  ASSUME NEW m, NEW bits \in Searches(m)
  PROVE  /\ Listed(bits) \in Lists /\ DOMAIN Listed(bits) = DOMAIN bits
         /\ bits = <<>> <=> Listed(bits) = <<>>
         /\ \A i \in DOMAIN bits : bits[i] \in Bits /\ ~Marked(m, bits[i])
         /\ Fits(bits) => Listed(bits) = bits
         /\ \A i, j \in DOMAIN bits : bits[i] = bits[j] => i = j
<1>1. PICK n \in 0 .. Batch : bits \in [1 .. n -> Bits]
  BY DEF Searches
<1>2. Found(m, bits)
  BY DEF Searches
<1>3. \A i \in DOMAIN bits : bits[i] \in Nat
  BY <1>1, BitHasGroup
<1>4. Listed(bits) \in [1 .. n -> Numbers]
  <2>1. \A x \in Nat : x % Width \in Numbers
    BY DEF Numbers
  <2> QED
    BY <1>1, <1>3, <2>1 DEF Listed
<1>5. Listed(bits) \in Lists
  BY <1>4 DEF Lists
<1>6. ASSUME Fits(bits) PROVE Listed(bits) = bits
  <2>1. \A x \in Nat : x < Width => x % Width = x
    OBVIOUS
  <2> QED
    BY <1>1, <1>3, <1>6, <2>1 DEF Listed, Fits
<1>7. \A i, j \in DOMAIN bits : bits[i] = bits[j] => i = j
  BY <1>1, <1>2, <1>3 DEF Found
<1>8. bits = <<>> <=> Listed(bits) = <<>>
  BY <1>1, <1>4
<1> QED
  BY <1>1, <1>2, <1>4, <1>5, <1>6, <1>7, <1>8 DEF Found

----------------------------------------------------------------------------
(* Types.                                                                  *)

Stored == [ends : Nat, map : Maps, wait : Lists, num : Int,
           held : [Files -> Numbers \cup {NoBlock}], intact : BOOLEAN]

\* TypeOK, with what the device holds besides; the kernel's count is never above
\* the file system's.
TypeInv == TypeOK /\ dev \in Stored /\ knum <= num

LEMMA MarkIs ==
  ASSUME NEW m \in Maps, NEW S
  PROVE  Mark(m, S \cap Nat) \in Maps
<1>1. \A n \in Nat : OffsetOf(n) \in Offsets
  BY GroupAndOffset
<1> QED
  BY <1>1 DEF Mark, Maps

LEMMA ClearIs ==
  ASSUME NEW m \in Maps, NEW n \in Numbers
  PROVE  Clear(m, n) \in Maps
BY DEF Clear, Maps

LEMMA NoMarksIs == NoMarks \in Maps /\ NoFiles \in [Files -> Numbers \cup {NoBlock}]
BY DEF NoMarks, Maps, NoFiles

LEMMA ElemsAre ==
  ASSUME NEW s \in Lists
  PROVE  Elems(s) \subseteq Numbers /\ Elems(s) \subseteq Nat
<1>1. s \in Seq(Numbers)
  BY ListIs
<1> QED
  BY <1>1 DEF Elems, Numbers

\* What is left of a list when the first n were taken.
LEMMA LeftOfList ==
  ASSUME NEW s \in Lists, NEW n \in Nat, n <= Len(s)
  PROVE  LET t == SubSeq(s, n + 1, Len(s))
         IN /\ t \in Lists /\ Len(t) = Len(s) - n
            /\ \A i \in DOMAIN t : i + n \in DOMAIN s /\ t[i] = s[i + n]
<1> DEFINE t == SubSeq(s, n + 1, Len(s))
<1>1. s \in Seq(Numbers) /\ Len(s) <= Batch
  BY ListIs
<1>2. /\ t \in Seq(Numbers) /\ Len(t) = Len(s) - n
      /\ \A i \in DOMAIN t : i + n \in DOMAIN s /\ t[i] = s[i + n]
  BY <1>1
<1>3. Len(t) <= Batch
  BY <1>1, <1>2
<1>4. t \in Lists
  BY <1>2, <1>3, ListIs
<1> QED
  BY <1>2, <1>4

LEMMA TypeInit == Init => TypeInv
<1> SUFFICES ASSUME Init PROVE TypeInv
  OBVIOUS
<1>1. <<>> \in Seq(Numbers) /\ Len(<<>>) <= Batch
  OBVIOUS
<1>2. <<>> \in Lists
  BY <1>1, ListIs
<1>3. dev \in Stored
  BY <1>2, NoMarksIs DEF Init, Stored
<1>4. TypeOK
  BY <1>2, <1>3, NoMarksIs DEF Init, TypeOK, Stored
<1>5. knum <= num
  BY DEF Init
<1> QED
  BY <1>3, <1>4, <1>5 DEF TypeInv

\* The process is gone.
LEMMA TypeGone ==
  ASSUME Gone, dev' \in Stored
  PROVE  TypeInv'
<1>1. <<>> \in Seq(Numbers) /\ Len(<<>>) <= Batch
  OBVIOUS
<1>2. <<>> \in Lists
  BY <1>1, ListIs
<1>3. TypeOK'
  <2>1. dev'.map \in Maps /\ dev'.wait \in Lists /\ dev'.held \in [Files -> Numbers \cup {NoBlock}]
    BY DEF Stored
  <2>2. phase' = "off" /\ num' \in Int /\ knum' \in Int
    BY DEF Gone
  <2>3. intact' \in BOOLEAN
    BY DEF Gone
  <2>4. idle' \in Lists /\ avail' \in Lists
    BY <1>2 DEF Gone
  <2>5. map' \in Maps /\ held' \in [Files -> Numbers \cup {NoBlock}]
    BY NoMarksIs DEF Gone
  <2> QED
    BY <2>1, <2>2, <2>3, <2>4, <2>5 DEF TypeOK
<1>4. knum' <= num'
  BY DEF Gone
<1> QED
  BY <1>3, <1>4 DEF TypeInv

\* A program that starts or works on; the device is left alone.
LEMMA TypeUp ==
  ASSUME dev \in Stored, dev' = dev, phase' \in {"up", "synced"},
         map' \in Maps, idle' \in Lists, avail' \in Lists, num' \in Int, knum' \in Int,
         knum' <= num', held' \in [Files -> Numbers \cup {NoBlock}], intact' \in BOOLEAN
  PROVE  TypeInv'
BY DEF TypeInv, TypeOK, Stored

LEMMA TypeStart == TypeInv /\ (StartFresh \/ StartAgain) => TypeInv'
<1> SUFFICES ASSUME TypeInv, StartFresh \/ StartAgain PROVE TypeInv'
  OBVIOUS
<1> USE DEF TypeInv, TypeOK, Stored
<1>1. CASE StartFresh
  <2>1. /\ idle' \in Seq(Numbers) /\ Len(idle') <= Batch
        /\ avail' \in Seq(Numbers) /\ Len(avail') <= Batch
    BY <1>1 DEF StartFresh, Numbers
  <2>2. idle' \in Lists /\ avail' \in Lists
    BY <2>1, ListIs
  <2>3. num' \in Int /\ knum' \in Int /\ knum' <= num'
    BY <1>1 DEF StartFresh
  <2> QED
    BY <1>1, <2>2, <2>3, NoMarksIs, TypeUp DEF StartFresh
<1>2. CASE StartAgain
  <2>1. dev.wait \in Seq(Numbers) /\ Len(dev.wait) <= Batch
    BY ListIs
  <2>2. idle' \in Seq(Numbers) /\ Len(idle') <= Len(dev.wait)
    BY <1>2, <2>1, UpToZeroIs DEF StartAgain
  <2>3. Len(idle') <= Batch
    BY <2>1, <2>2
  <2>4. idle' \in Lists /\ avail' \in Lists
    BY <1>2, <2>2, <2>3, ListIs, KernelListIs DEF StartAgain
  <2> QED
    BY <1>2, <2>4, TypeUp DEF StartAgain
<1> QED
  BY <1>1, <1>2

LEMMA TypeTake ==
  ASSUME TypeInv, NEW f \in Files, Take(f)
  PROVE  TypeInv'
<1> USE DEF TypeInv, TypeOK
<1>1. CASE TakeListed(f)
  <2>1. Head(avail) \in Numbers /\ Tail(avail) \in Lists
    BY <1>1, TailIs DEF TakeListed
  <2> QED
    BY <1>1, <2>1, TypeUp DEF TakeListed, Take
<1>2. CASE TakeRefilled(f)
  <2>1. Elems(idle) \cap Nat = Elems(idle)
    BY ElemsAre
  <2>2. map' \in Maps
    BY <1>2, <2>1, MarkIs DEF TakeRefilled
  <2>3. idle \in Seq(Numbers)
    BY ListIs
  <2>4. num' \in Int /\ knum' = num' - 1
    BY <1>2, <2>3 DEF TakeRefilled
  <2>5. PICK bits \in Searches(map') :
          /\ idle' = Listed(bits)
          /\ \E list \in KernelLists(idle') :
               held' = [held EXCEPT ![f] = Head(list)] /\ avail' = Tail(list)
          /\ intact' = (intact /\ phase = "up" /\ Fits(bits))
    BY <1>2 DEF TakeRefilled
  <2>6. idle' \in Lists
    BY <2>5, ListedIs
  <2>7. PICK list \in KernelLists(idle') :
          held' = [held EXCEPT ![f] = Head(list)] /\ avail' = Tail(list)
    BY <2>5
  <2>8. list \in Lists /\ list # <<>>
    BY <2>6, KernelListIs
  <2>9. Head(list) \in Numbers /\ Tail(list) \in Lists
    BY <2>8, TailIs
  <2>10. intact' \in BOOLEAN
    BY <2>5 DEF Fits
  <2>11. held' \in [Files -> Numbers \cup {NoBlock}] /\ avail' \in Lists
    BY <2>7, <2>9
  <2>12. dev' = dev /\ phase' \in {"up", "synced"}
    BY DEF Take
  <2>13. \A x \in Int : x - 1 \in Int /\ x - 1 <= x
    OBVIOUS
  <2> QED
    BY <2>2, <2>4, <2>6, <2>10, <2>11, <2>12, <2>13, TypeUp
<1> QED
  BY <1>1, <1>2 DEF Take

LEMMA TypeRecount == TypeInv /\ Recount => TypeInv'
<1> SUFFICES ASSUME TypeInv, Recount PROVE TypeInv'
  OBVIOUS
<1> USE DEF TypeInv, TypeOK
<1>1. num' \in Int /\ knum' = num'
  BY DEF Recount
<1>2. knum' \in Int /\ knum' <= num'
  BY <1>1
<1> QED
  BY <1>1, <1>2, TypeUp DEF Recount

LEMMA TypeGiveBack ==
  ASSUME TypeInv, NEW f \in Files, GiveBack(f)
  PROVE  TypeInv'
<1> USE DEF TypeInv, TypeOK
<1>1. held[f] \in Numbers
  BY DEF GiveBack
<1>2. map' \in Maps /\ num' \in Int /\ num <= num'
  BY <1>1, ClearIs DEF GiveBack
<1>3. knum' \in Int /\ knum' <= num'
  BY <1>2 DEF GiveBack
<1> QED
  BY <1>2, <1>3, TypeUp DEF GiveBack

LEMMA TypeFormat == TypeInv /\ Format => TypeInv'
<1> SUFFICES ASSUME TypeInv, Format PROVE TypeInv'
  OBVIOUS
<1> USE DEF TypeInv, TypeOK
<1>1. map' \in Maps
  <2>1. {Root} \cap Nat = {Root}
    BY DEF Root
  <2> QED
    BY <2>1, NoMarksIs, MarkIs DEF Format
<1>2. PICK bits \in Searches(map') :
        idle' = Listed(bits) /\ avail' \in KernelLists(idle') /\ intact' = Fits(bits)
  BY DEF Format
<1>3. idle' \in Lists
  BY <1>2, ListedIs
<1>4. avail' \in Lists
  BY <1>2, <1>3, KernelListIs
<1>5. num' \in Int /\ knum' = num'
  BY DEF Format
<1>6. knum' \in Int /\ knum' <= num'
  BY <1>5
<1>7. intact' \in BOOLEAN
  BY <1>2 DEF Fits
<1> QED
  BY <1>1, <1>3, <1>4, <1>5, <1>6, <1>7, NoMarksIs, TypeUp DEF Format

LEMMA UsageIs ==
  ASSUME TypeInv, Usage <= Len(idle)
  PROVE  /\ Usage \in Nat
         /\ LET t == SubSeq(idle, Usage + 1, Len(idle))
            IN /\ t \in Lists /\ Len(t) = Len(idle) - Usage
               /\ \A i \in DOMAIN t : i + Usage \in DOMAIN idle /\ t[i] = idle[i + Usage]
<1>1. Usage \in Nat
  BY DEF TypeInv, TypeOK, Usage
<1>2. idle \in Lists
  BY DEF TypeInv, TypeOK
<1> QED
  BY <1>1, <1>2, LeftOfList

LEMMA TypeSync == TypeInv /\ Sync => TypeInv'
<1> SUFFICES ASSUME TypeInv, Sync PROVE TypeInv'
  OBVIOUS
<1> USE DEF TypeInv, TypeOK
<1> DEFINE S == {idle[i] : i \in 1 .. Usage}
<1>1. idle' \in Lists /\ Usage \in Nat
  BY UsageIs DEF Sync
<1>2. map' \in Maps
  <2>1. S \subseteq Nat
    <3>1. idle \in Seq(Numbers) /\ Usage <= Len(idle)
      BY ListIs DEF Sync
    <3> QED
      BY <1>1, <3>1 DEF Numbers
  <2>2. S \cap Nat = S /\ map' = Mark(map, S)
    BY <2>1 DEF Sync
  <2> HIDE DEF S
  <2> QED
    BY <2>2, MarkIs
<1>3. num' = knum /\ num' \in Int /\ knum' = knum
  BY DEF Sync, Usage
<1>4. intact' \in BOOLEAN
  BY DEF Sync
<1>5. knum' \in Int /\ knum' <= num'
  BY <1>3
<1> QED
  BY <1>1, <1>2, <1>3, <1>4, <1>5, TypeUp DEF Sync

LEMMA TypePersist == TypeInv /\ Persist => TypeInv'
<1> SUFFICES ASSUME TypeInv, Persist PROVE TypeInv'
  OBVIOUS
<1>1. PICK m \in Writable :
       dev' = [ends |-> dev.ends + 1, map |-> m, wait |-> idle, num |-> num,
               held |-> held, intact |-> intact]
  BY DEF Persist
<1>2. m \in Maps /\ dev.ends + 1 \in Nat
  BY DEF Writable, TypeInv, Stored
<1>3. dev' \in Stored
  BY <1>1, <1>2 DEF TypeInv, TypeOK, Stored
<1> QED
  BY <1>3, TypeGone DEF Persist

LEMMA TypeNext == TypeInv /\ [Next]_vars => TypeInv'
<1> SUFFICES ASSUME TypeInv, [Next]_vars PROVE TypeInv'
  OBVIOUS
<1>1. CASE \E f \in Files : Take(f) \/ GiveBack(f)
  BY <1>1, TypeTake, TypeGiveBack
<1>2. CASE Format
  BY <1>2, TypeFormat
<1>3. CASE Sync \/ Persist \/ Recount
  BY <1>3, TypeSync, TypePersist, TypeRecount
<1>4. CASE Crash
  BY <1>4, TypeGone DEF Crash, TypeInv
<1>5. CASE StartFresh \/ StartAgain
  BY <1>5, TypeStart
<1>6. CASE UNCHANGED vars
  BY <1>6 DEF vars, TypeInv, TypeOK
<1> QED
  BY <1>1, <1>2, <1>3, <1>4, <1>5, <1>6 DEF Next

LEMMA TypeAlways == Spec => []TypeInv
BY TypeInit, TypeNext, PTL DEF Spec

\* Lists hold numbers of 16 bits and at most Batch of them, maps only their own
\* group's bits, and files a number or nothing, on the device as well, whatever the
\* end of the program wrote for a map.
THEOREM TypeCorrect == Spec => []TypeOK
<1>1. TypeInv => TypeOK
  BY DEF TypeInv
<1> QED
  BY <1>1, TypeAlways, PTL

----------------------------------------------------------------------------
(***************************************************************************)
(* The invariant behind OwnPlaces and ListsAreFree.  What is in use, the   *)
(* root's block and those of the files, is marked or stands in the part of *)
(* the list that was handed out, so that the next search cannot find it;   *)
(* the rest of the list is what the kernel still has, without a number in  *)
(* use.  When syn_sblk finds that the counts tell at least how many were   *)
(* handed out, it marks all of them and keeps the rest; from then on what  *)
(* is in use is marked, in the first group, and on neither list.           *)
(***************************************************************************)
InUse(h) == {Root} \cup {h[f] : f \in {f \in Files : h[f] # NoBlock}}

\* No two files have one number, and none has the root's.
OwnNumbers(h) ==
  \A f \in Files : h[f] # NoBlock =>
    h[f] # Root /\ \A g \in Files : h[g] = h[f] => g = f

Once(s) == \A i, j \in DOMAIN s : s[i] = s[j] => i = j
Avoids(s, h) == \A i \in DOMAIN s : s[i] \notin InUse(h)

\* The kernel's list is the file system's without the first k.
IsLeft(k) ==
  /\ k \in Nat
  /\ Len(avail) = Len(idle) - k
  /\ \A i \in DOMAIN avail : i + k \in DOMAIN idle /\ avail[i] = idle[i + k]

IsKnown(k, n) == Marked(map, n) \/ \E i \in DOMAIN idle : i <= k /\ idle[i] = n

HandingOut ==
  /\ OwnNumbers(held) /\ Once(idle) /\ Avoids(avail, held)
  /\ \E k \in Nat : IsLeft(k) /\ \A n \in InUse(held) : IsKnown(k, n)

Recorded ==
  /\ OwnNumbers(held) /\ Once(idle) /\ Avoids(idle, held) /\ idle # <<>>
  /\ Once(avail) /\ Avoids(avail, held)
  /\ \A n \in InUse(held) : Marked(map, n) /\ GroupOf(n) = 0

IntactNow ==
  intact => \/ phase = "up" /\ HandingOut
            \/ phase = "synced" /\ Recorded

IntactStored ==
  dev.intact =>
    /\ OwnNumbers(dev.held) /\ Once(dev.wait) /\ Avoids(dev.wait, dev.held)
    /\ dev.wait # <<>>
    /\ \A n \in InUse(dev.held) : Marked(dev.map, n)

IntactInv == TypeInv /\ IntactNow /\ IntactStored

LEMMA InUseIs ==
  ASSUME NEW h \in [Files -> Numbers \cup {NoBlock}]
  PROVE  Root \in InUse(h) /\ InUse(h) \subseteq Numbers
BY NumbersAreBits DEF InUse, Root

\* A list without the numbers in use has no 0, and is read whole.
LEMMA ReadWhole ==
  ASSUME NEW s \in Lists, NEW h, Avoids(s, h)
  PROVE  /\ \A t \in UpToZero(s) : t = s
         /\ s # <<>> => \A t \in KernelLists(s) : t = s
<1>1. \A i \in DOMAIN s : s[i] # 0
  BY DEF Avoids, InUse, Root
<1>2. s \in Seq(Numbers)
  BY ListIs
<1> QED
  BY <1>1, <1>2, UpToZeroIs, KernelListIs

\* One more file gets a number that was not in use.
LEMMA OneMore ==
  ASSUME NEW h \in [Files -> Numbers \cup {NoBlock}], OwnNumbers(h),
         NEW f \in Files, h[f] = NoBlock, NEW n \in Numbers \ InUse(h)
  PROVE  LET g == [h EXCEPT ![f] = n]
         IN OwnNumbers(g) /\ InUse(g) = InUse(h) \cup {n}
<1> DEFINE g == [h EXCEPT ![f] = n]
<1>1. n # NoBlock /\ n # Root
  BY DEF InUse, Numbers
<1>2. \A e \in Files : g[e] = IF e = f THEN n ELSE h[e]
  OBVIOUS
<1>3. \A e \in Files : h[e] # n
  BY <1>1 DEF InUse
<1>4. OwnNumbers(g)
  BY <1>1, <1>2, <1>3 DEF OwnNumbers
<1>5. InUse(g) = InUse(h) \cup {n}
  BY <1>1, <1>2 DEF InUse
<1> QED
  BY <1>4, <1>5

\* One file less.
LEMMA OneLess ==
  ASSUME NEW h \in [Files -> Numbers \cup {NoBlock}], OwnNumbers(h),
         NEW f \in Files, h[f] # NoBlock
  PROVE  LET g == [h EXCEPT ![f] = NoBlock]
         IN OwnNumbers(g) /\ InUse(g) \subseteq InUse(h) \ {h[f]}
<1> DEFINE g == [h EXCEPT ![f] = NoBlock]
<1>1. \A e \in Files : g[e] = IF e = f THEN NoBlock ELSE h[e]
  OBVIOUS
<1>2. OwnNumbers(g)
  BY <1>1 DEF OwnNumbers
<1>3. InUse(g) \subseteq InUse(h) \ {h[f]}
  BY <1>1 DEF InUse, OwnNumbers
<1> QED
  BY <1>2, <1>3

\* What set_idle_bit does to a map.
LEMMA MarkedIs ==
  ASSUME NEW m \in Maps, NEW S \in SUBSET Numbers, NEW n \in Numbers
  PROVE  Marked(Mark(m, S), n) <=> Marked(m, n) \/ n \in S
<1>1. GroupOf(n) \in GroupSet /\ n \in Nat /\ S \subseteq Nat
  BY NumbersAreBits, BitHasGroup DEF Numbers
<1>2. Mark(m, S)[GroupOf(n)] =
        m[GroupOf(n)] \cup {OffsetOf(k) : k \in {k \in S : GroupOf(k) = GroupOf(n)}}
  BY <1>1 DEF Mark
<1>3. ASSUME NEW k \in S, GroupOf(k) = GroupOf(n), OffsetOf(k) = OffsetOf(n) PROVE n \in S
  BY <1>1, <1>3, SameBit
<1> QED
  BY <1>1, <1>2, <1>3 DEF Marked

LEMMA ClearedIs ==
  ASSUME NEW m \in Maps, NEW c \in Numbers, NEW n \in Numbers, n # c
  PROVE  Marked(m, n) => Marked(Clear(m, c), n)
<1>1. n \in Nat /\ c \in Nat /\ GroupOf(n) \in GroupSet
  BY NumbersAreBits, BitHasGroup DEF Numbers
<1>2. GroupOf(n) # GroupOf(c) \/ OffsetOf(n) # OffsetOf(c)
  BY <1>1, SameBit
<1> QED
  BY <1>1, <1>2 DEF Marked, Clear, Maps

LEMMA NoFilesAre == OwnNumbers(NoFiles) /\ InUse(NoFiles) = {Root}
BY DEF OwnNumbers, InUse, NoFiles

LEMMA IntactStart ==
  ASSUME IntactInv, StartFresh \/ StartAgain
  PROVE  IntactNow'
<1>1. CASE StartFresh
  <2>1. /\ idle' = [i \in 1 .. Batch |-> i - 1] /\ avail' = [i \in 1 .. Batch - 1 |-> i]
        /\ held' = NoFiles /\ phase' = "up"
    BY <1>1 DEF StartFresh
  <2>2. Len(idle') = Batch /\ Len(avail') = Batch - 1
    BY <2>1
  <2>3. IsLeft(1)'
    BY <2>1, <2>2 DEF IsLeft
  <2>4. \A n \in InUse(held') : IsKnown(1, n)'
    BY <2>1, NoFilesAre DEF IsKnown, Root
  <2>5. Once(idle') /\ Avoids(avail', held')
    BY <2>1, NoFilesAre DEF Once, Avoids, Root
  <2> QED
    BY <2>1, <2>3, <2>4, <2>5, NoFilesAre DEF IntactNow, HandingOut
<1>2. CASE StartAgain
  <2> SUFFICES ASSUME dev.intact PROVE IntactNow'
    BY <1>2 DEF StartAgain, IntactNow
  <2>1. /\ OwnNumbers(dev.held) /\ Once(dev.wait) /\ Avoids(dev.wait, dev.held)
        /\ dev.wait # <<>>
        /\ \A n \in InUse(dev.held) : Marked(dev.map, n)
    BY DEF IntactInv, IntactStored
  <2>2. dev.wait \in Lists /\ dev.wait \in Seq(Numbers)
    BY ListIs DEF IntactInv, TypeInv, Stored
  <2>3. idle' = dev.wait /\ avail' = dev.wait
    BY <1>2, <2>1, <2>2, ReadWhole DEF StartAgain
  <2>4. map' = dev.map /\ held' = dev.held /\ phase' = "up"
    BY <1>2 DEF StartAgain
  <2>6. IsLeft(0)'
    BY <2>2, <2>3 DEF IsLeft
  <2>7. \A n \in InUse(held') : IsKnown(0, n)'
    BY <2>1, <2>4 DEF IsKnown
  <2> QED
    BY <2>1, <2>3, <2>4, <2>6, <2>7 DEF IntactNow, HandingOut
<1> QED
  BY <1>1, <1>2

LEMMA IntactTakeListed ==
  ASSUME IntactInv, NEW f \in Files, held[f] = NoBlock, TakeListed(f), phase' = phase
  PROVE  IntactNow'
<1> SUFFICES ASSUME intact, phase = "up" PROVE IntactNow'
  BY DEF TakeListed, IntactNow
<1> USE DEF IntactInv, TypeInv, TypeOK
<1>1. OwnNumbers(held) /\ Once(idle) /\ Avoids(avail, held)
  BY DEF IntactNow, HandingOut
<1>2. PICK k \in Nat : IsLeft(k) /\ \A n \in InUse(held) : IsKnown(k, n)
  BY DEF IntactNow, HandingOut
<1> DEFINE a == Head(avail)
<1>3. /\ a \in Numbers /\ a = avail[1] /\ 1 \in DOMAIN avail
      /\ Len(avail) \in Nat \ {0} /\ Len(Tail(avail)) = Len(avail) - 1
      /\ \A i \in DOMAIN Tail(avail) : i + 1 \in DOMAIN avail /\ Tail(avail)[i] = avail[i + 1]
  <2>1. avail \in Seq(Numbers) /\ avail # <<>>
    BY ListIs DEF TakeListed
  <2> QED
    BY <2>1, TailIs
<1>4. 1 + k \in DOMAIN idle /\ idle[1 + k] = a
  BY <1>2, <1>3 DEF IsLeft
<1>5. a \notin InUse(held)
  BY <1>1, <1>3 DEF Avoids
<1>6. OwnNumbers(held') /\ InUse(held') = InUse(held) \cup {a}
  BY <1>1, <1>3, <1>5, OneMore DEF TakeListed
<1>7. idle' = idle /\ avail' = Tail(avail) /\ map' = map
  BY DEF TakeListed
<1>8. IsLeft(k + 1)'
  <2>1. Tail(avail) \in Seq(Numbers) /\ idle \in Seq(Numbers)
    BY TailIs, ListIs DEF TakeListed
  <2>2. \A i \in DOMAIN Tail(avail) : i \in Nat
    BY <2>1
  <2> QED
    BY <1>2, <1>3, <1>7, <2>1, <2>2 DEF IsLeft
<1>9. ASSUME NEW n \in InUse(held') PROVE IsKnown(k + 1, n)'
  <2>1. idle \in Seq(Numbers)
    BY ListIs
  <2>2. CASE n = a
    BY <1>4, <1>7, <2>2 DEF IsKnown
  <2>3. CASE IsKnown(k, n)
    BY <1>7, <2>1, <2>3 DEF IsKnown, Marked
  <2> QED
    BY <1>2, <1>6, <2>2, <2>3
<1>10. Avoids(avail', held')
  <2>1. SUFFICES ASSUME NEW i \in DOMAIN Tail(avail), Tail(avail)[i] = a PROVE FALSE
    BY <1>1, <1>3, <1>6, <1>7 DEF Avoids
  <2>2. avail[i + 1] = a /\ i + 1 \in DOMAIN avail
    BY <1>3, <2>1
  <2>3. i + 1 + k \in DOMAIN idle /\ idle[i + 1 + k] = a
    BY <1>2, <2>2 DEF IsLeft
  <2>4. i \in Nat \ {0}
    <3>1. Tail(avail) \in Seq(Numbers)
      BY TailIs, ListIs DEF TakeListed
    <3> QED
      BY <3>1
  <2> QED
    BY <1>1, <1>4, <2>3, <2>4 DEF Once
<1>11. k + 1 \in Nat
  OBVIOUS
<1> QED
  BY <1>1, <1>6, <1>7, <1>8, <1>9, <1>10, <1>11 DEF IntactNow, HandingOut

\* A search finds nothing that is in use.
LEMMA FoundIs ==
  ASSUME NEW m \in Maps, NEW h \in [Files -> Numbers \cup {NoBlock}],
         \A n \in InUse(h) : Marked(m, n),
         NEW bits \in Searches(m), Fits(bits)
  PROVE  /\ Listed(bits) = bits /\ bits \in Lists /\ bits # <<>>
         /\ Once(bits) /\ Avoids(bits, h)
         /\ \A t \in KernelLists(bits) : t = bits
<1>1. /\ Listed(bits) = bits /\ bits \in Lists /\ bits # <<>>
      /\ Once(bits)
  BY ListedIs DEF Fits, Once
<1>2. Avoids(bits, h)
  BY ListedIs DEF Avoids
<1> QED
  BY <1>1, <1>2, ReadWhole

LEMMA IntactTakeRefilled ==
  ASSUME IntactInv, NEW f \in Files, held[f] = NoBlock, TakeRefilled(f), phase' = phase
  PROVE  IntactNow'
<1> USE DEF IntactInv, TypeInv, TypeOK
<1>1. PICK bits \in Searches(map') :
        /\ idle' = Listed(bits)
        /\ \E list \in KernelLists(idle') :
             held' = [held EXCEPT ![f] = Head(list)] /\ avail' = Tail(list)
        /\ intact' = (intact /\ phase = "up" /\ Fits(bits))
  BY DEF TakeRefilled
<1> SUFFICES ASSUME intact, phase = "up", Fits(bits) PROVE IntactNow'
  BY <1>1 DEF IntactNow
<1>2. OwnNumbers(held) /\ \E k \in Nat : \A n \in InUse(held) : IsKnown(k, n)
  BY DEF IntactNow, HandingOut
<1>3. map' = Mark(map, Elems(idle)) /\ map' \in Maps
  <2>1. map' = Mark(map, Elems(idle))
    BY DEF TakeRefilled
  <2>2. Elems(idle) \cap Nat = Elems(idle)
    BY ElemsAre
  <2>3. map' \in Maps
    BY <2>1, <2>2, MarkIs
  <2> QED
    BY <2>1, <2>3
<1>4. ASSUME NEW n \in InUse(held) PROVE Marked(map', n)
  <2>1. n \in Numbers /\ Elems(idle) \in SUBSET Numbers
    BY InUseIs, ElemsAre
  <2>2. Marked(map, n) \/ n \in Elems(idle)
    BY <1>2, <1>4 DEF IsKnown, Elems
  <2> QED
    BY <1>3, <2>1, <2>2, MarkedIs
<1>5. /\ Listed(bits) = bits /\ bits \in Lists /\ bits # <<>>
      /\ Once(bits) /\ Avoids(bits, held)
      /\ \A t \in KernelLists(bits) : t = bits
  BY <1>3, <1>4, FoundIs
<1> DEFINE a == Head(bits)
<1>6. idle' = bits /\ avail' = Tail(bits) /\ held' = [held EXCEPT ![f] = a]
  BY <1>1, <1>5
<1>7. /\ bits \in Seq(Numbers) /\ a \in Numbers /\ a = bits[1] /\ 1 \in DOMAIN bits
      /\ Len(bits) \in Nat \ {0} /\ Len(Tail(bits)) = Len(bits) - 1
      /\ Tail(bits) \in Seq(Numbers)
      /\ \A i \in DOMAIN Tail(bits) : i + 1 \in DOMAIN bits /\ Tail(bits)[i] = bits[i + 1]
  <2>1. bits \in Seq(Numbers)
    BY <1>5, ListIs
  <2> QED
    BY <1>5, <2>1, TailIs
<1>8. a \notin InUse(held)
  BY <1>5, <1>7 DEF Avoids
<1>9. OwnNumbers(held') /\ InUse(held') = InUse(held) \cup {a}
  BY <1>2, <1>6, <1>7, <1>8, OneMore
<1>10. IsLeft(1)'
  <2>1. Len(avail') = Len(idle') - 1
    BY <1>6, <1>7
  <2>2. \A i \in DOMAIN avail' : i + 1 \in DOMAIN idle' /\ avail'[i] = idle'[i + 1]
    BY <1>6, <1>7
  <2> QED
    BY <2>1, <2>2 DEF IsLeft
<1>11. ASSUME NEW n \in InUse(held') PROVE IsKnown(1, n)'
  <2>1. CASE n = a
    BY <1>6, <1>7, <2>1 DEF IsKnown
  <2>2. CASE n \in InUse(held)
    BY <1>4, <2>2 DEF IsKnown
  <2> QED
    BY <1>9, <2>1, <2>2
<1>12. Avoids(avail', held')
  <2>1. SUFFICES ASSUME NEW i \in DOMAIN Tail(bits), Tail(bits)[i] = a PROVE FALSE
    BY <1>5, <1>6, <1>7, <1>9 DEF Avoids
  <2>2. bits[i + 1] = a /\ i + 1 \in DOMAIN bits /\ i \in Nat \ {0}
    BY <1>7, <2>1
  <2> QED
    BY <1>5, <1>7, <2>2 DEF Once
<1> QED
  BY <1>5, <1>6, <1>9, <1>10, <1>11, <1>12 DEF IntactNow, HandingOut

\* An index-node refill changes only the count.
LEMMA IntactRecount ==
  ASSUME IntactInv, Recount
  PROVE  IntactNow'
<1>1. UNCHANGED <<phase, map, idle, avail, held, intact>> /\ phase = "up"
  BY DEF Recount
<1>2. \A k : IsLeft(k)' <=> IsLeft(k)
  BY <1>1 DEF IsLeft
<1>3. \A k, n : IsKnown(k, n)' <=> IsKnown(k, n)
  BY <1>1 DEF IsKnown
<1> QED
  BY <1>1, <1>2, <1>3 DEF IntactInv, IntactNow, HandingOut

LEMMA IntactGiveBack ==
  ASSUME IntactInv, NEW f \in Files, GiveBack(f)
  PROVE  IntactNow'
<1> SUFFICES ASSUME intact, phase = "up" PROVE IntactNow'
  BY DEF GiveBack, IntactNow
<1> USE DEF IntactInv, TypeInv, TypeOK
<1>1. OwnNumbers(held) /\ Once(idle) /\ Avoids(avail, held)
  BY DEF IntactNow, HandingOut
<1>2. PICK k \in Nat : IsLeft(k) /\ \A n \in InUse(held) : IsKnown(k, n)
  BY DEF IntactNow, HandingOut
<1>3. held[f] # NoBlock /\ held[f] # 0 /\ held[f] \in Numbers
  BY <1>1 DEF GiveBack, OwnNumbers, Root
<1>4. /\ map' = Clear(map, held[f])
      /\ idle' = idle /\ avail' = avail /\ phase' = phase
      /\ held' = [held EXCEPT ![f] = NoBlock]
  BY <1>3 DEF GiveBack
<1>5. OwnNumbers(held') /\ InUse(held') \subseteq InUse(held) \ {held[f]}
  BY <1>1, <1>3, <1>4, OneLess
<1>6. IsLeft(k)'
  BY <1>2, <1>4 DEF IsLeft
<1>7. ASSUME NEW n \in InUse(held') PROVE IsKnown(k, n)'
  <2>1. n \in InUse(held) /\ n # held[f] /\ n \in Numbers
    BY <1>5, InUseIs
  <2>2. Marked(map, n) => Marked(map', n)
    BY <1>3, <1>4, <2>1, ClearedIs
  <2> QED
    BY <1>2, <1>4, <2>1, <2>2 DEF IsKnown
<1>8. Avoids(avail', held')
  BY <1>1, <1>4, <1>5 DEF Avoids
<1> QED
  BY <1>1, <1>4, <1>5, <1>6, <1>7, <1>8 DEF IntactNow, HandingOut

LEMMA IntactFormat ==
  ASSUME IntactInv, Format
  PROVE  IntactNow'
<1>1. PICK bits \in Searches(map') :
        idle' = Listed(bits) /\ avail' \in KernelLists(idle') /\ intact' = Fits(bits)
  BY DEF Format
<1> SUFFICES ASSUME Fits(bits) PROVE IntactNow'
  BY <1>1 DEF IntactNow
<1>2. map' = Mark(NoMarks, {Root}) /\ held' = NoFiles /\ phase' = "up"
  BY DEF Format
<1>3. {Root} \cap Nat = {Root} /\ {Root} \in SUBSET Numbers /\ Root \in Numbers
  BY NumbersAreBits DEF Root
<1>4. map' \in Maps /\ Marked(map', Root)
  BY <1>2, <1>3, NoMarksIs, MarkIs, MarkedIs
<1>5. /\ Listed(bits) = bits /\ bits \in Lists /\ bits # <<>>
      /\ Once(bits) /\ Avoids(bits, NoFiles)
      /\ \A t \in KernelLists(bits) : t = bits
  BY <1>4, NoFilesAre, NoMarksIs, FoundIs
<1>6. idle' = bits /\ avail' = bits /\ bits \in Seq(Numbers)
  BY <1>1, <1>5, ListIs
<1>7. IsLeft(0)'
  <2>2. \A i \in DOMAIN bits : i + 0 \in DOMAIN bits /\ bits[i] = bits[i + 0]
    BY <1>6
  <2>3. Len(bits) = Len(bits) - 0
    BY <1>6
  <2> QED
    BY <1>6, <2>2, <2>3 DEF IsLeft
<1>8. \A n \in InUse(held') : IsKnown(0, n)'
  BY <1>2, <1>4, NoFilesAre DEF IsKnown
<1> QED
  BY <1>2, <1>5, <1>6, <1>7, <1>8, NoFilesAre DEF IntactNow, HandingOut

\* syn_sblk: when the counts tell of every number handed out and everything in use
\* lies in the first group, it is marked, and the rest of the list is kept.
LEMMA IntactSync ==
  ASSUME IntactInv, Sync
  PROVE  IntactNow'
<1> USE DEF IntactInv, TypeInv, TypeOK
<1> DEFINE S == {idle[i] : i \in 1 .. Usage}
           t == SubSeq(idle, Usage + 1, Len(idle))
<1>1. /\ map' = Mark(map, S) /\ idle' = t /\ phase' = "synced"
      /\ avail' = avail /\ held' = held /\ phase = "up"
  BY DEF Sync
<1> SUFFICES ASSUME intact, Spent <= Usage, Usage < Len(idle),
                    \A f \in Files : held[f] # NoBlock => GroupOf(held[f]) = 0
             PROVE  IntactNow'
  BY DEF Sync, IntactNow
<1>2. OwnNumbers(held) /\ Once(idle) /\ Avoids(avail, held)
  BY <1>1 DEF IntactNow, HandingOut
<1>3. PICK k \in Nat : IsLeft(k) /\ \A n \in InUse(held) : IsKnown(k, n)
  BY <1>1 DEF IntactNow, HandingOut
<1>4. Usage \in Nat /\ k <= Usage
  <2>1. Len(idle) \in Nat /\ Len(avail) = Len(idle) - k
    BY <1>3, ListIs DEF IsLeft
  <2>2. Usage \in Nat
    BY UsageIs DEF Sync
  <2> QED
    BY <2>1, <2>2 DEF Spent
<1>5. idle \in Seq(Numbers) /\ Len(idle) \in Nat /\ DOMAIN idle = 1 .. Len(idle)
      /\ avail \in Seq(Numbers) /\ DOMAIN avail = 1 .. Len(avail)
  BY ListIs
<1>6. /\ t \in Seq(Numbers) /\ Len(t) = Len(idle) - Usage
      /\ DOMAIN t = 1 .. Len(idle) - Usage
      /\ \A i \in DOMAIN t : i + Usage \in DOMAIN idle /\ t[i] = idle[i + Usage]
  <2>1. Usage <= Len(idle)
    BY DEF Sync
  <2>2. /\ t \in Lists /\ Len(t) = Len(idle) - Usage
        /\ \A i \in DOMAIN t : i + Usage \in DOMAIN idle /\ t[i] = idle[i + Usage]
    BY <2>1, UsageIs
  <2>3. t \in Seq(Numbers)
    BY <2>2, ListIs
  <2> QED
    BY <2>2, <2>3
<1>7. Once(t)
  <2> SUFFICES ASSUME NEW i \in DOMAIN t, NEW j \in DOMAIN t, t[i] = t[j] PROVE i = j
    BY DEF Once
  <2>1. i + Usage = j + Usage
    BY <1>2, <1>6 DEF Once
  <2> HIDE DEF t
  <2>2. i \in 1 .. Len(idle) - Usage /\ j \in 1 .. Len(idle) - Usage
    BY <1>6
  <2> QED
    BY <1>4, <1>5, <2>1, <2>2
<1>8. Avoids(t, held)
  <2> SUFFICES ASSUME NEW i \in DOMAIN t PROVE t[i] \notin InUse(held)
    BY DEF Avoids
  <2> DEFINE j == i + Usage - k
  <2>1. j \in DOMAIN avail /\ j + k = i + Usage
    BY <1>3, <1>4, <1>5, <1>6 DEF IsLeft
  <2>2. avail[j] = t[i]
    BY <1>3, <1>6, <2>1 DEF IsLeft
  <2> QED
    BY <1>2, <2>1, <2>2 DEF Avoids
<1>9. t # <<>>
  <2>1. Len(idle) - Usage > 0
    BY <1>4, <1>5
  <2> HIDE DEF t
  <2> QED
    BY <1>6, <2>1
<1>10. ASSUME NEW n \in InUse(held) PROVE Marked(map', n) /\ GroupOf(n) = 0
  <2>1. n \in Numbers /\ GroupOf(n) = 0
    BY InUseIs, NumbersAreBits DEF InUse, Root
  <2>2. S \in SUBSET Numbers
    BY <1>4, <1>5
  <2>3. Marked(map, n) \/ n \in S
    BY <1>3, <1>4, <1>5 DEF IsKnown
  <2> QED
    BY <1>1, <2>1, <2>2, <2>3, MarkedIs
<1>11. Once(avail)
  <2> SUFFICES ASSUME NEW i \in DOMAIN avail, NEW j \in DOMAIN avail, avail[i] = avail[j]
               PROVE  i = j
    BY DEF Once
  <2>1. i + k = j + k
    BY <1>2, <1>3 DEF IsLeft, Once
  <2> QED
    BY <1>5, <2>1
<1> HIDE DEF S, t
<1> QED
  BY <1>1, <1>2, <1>7, <1>8, <1>9, <1>10, <1>11 DEF IntactNow, Recorded

\* write_to_dev: the first group's map is written as it is, and with it everything
\* in use.
LEMMA IntactPersist ==
  ASSUME IntactInv, Persist
  PROVE  IntactStored'
<1>1. PICK m \in Writable :
       dev' = [ends |-> dev.ends + 1, map |-> m, wait |-> idle, num |-> num,
               held |-> held, intact |-> intact]
  BY DEF Persist
<1> SUFFICES ASSUME intact PROVE IntactStored'
  BY <1>1 DEF IntactStored
<1>2. Recorded
  BY DEF IntactInv, IntactNow, Persist
<1>3. \A n \in InUse(held) : Marked(m, n)
  BY <1>2 DEF Recorded, Marked, Writable
<1> QED
  BY <1>1, <1>2, <1>3 DEF IntactStored, Recorded


LEMMA IntactInit == Init => IntactInv
<1> SUFFICES ASSUME Init PROVE IntactInv
  OBVIOUS
<1>1. TypeInv
  BY TypeInit
<1>2. IntactNow /\ IntactStored
  BY DEF Init, IntactNow, IntactStored
<1> QED
  BY <1>1, <1>2 DEF IntactInv

LEMMA IntactNext == IntactInv /\ [Next]_vars => IntactInv'
<1> SUFFICES ASSUME IntactInv, [Next]_vars PROVE IntactInv'
  OBVIOUS
<1>1. TypeInv'
  BY TypeNext DEF IntactInv
<1>2. ASSUME dev' = dev PROVE IntactStored'
  BY <1>2 DEF IntactInv, IntactStored
<1>3. ASSUME Gone PROVE IntactNow'
  BY <1>3 DEF Gone, IntactNow
<1>4. CASE \E f \in Files : Take(f)
  <2>1. IntactNow'
    BY <1>4, IntactTakeListed, IntactTakeRefilled DEF Take
  <2>2. dev' = dev
    BY <1>4 DEF Take
  <2> QED
    BY <1>1, <1>2, <2>1, <2>2 DEF IntactInv
<1>5. CASE \E f \in Files : GiveBack(f)
  <2>1. dev' = dev
    BY <1>5 DEF GiveBack
  <2> QED
    BY <1>1, <1>2, <1>5, <2>1, IntactGiveBack DEF IntactInv
<1>6. CASE Format
  <2>1. dev' = dev
    BY <1>6 DEF Format
  <2> QED
    BY <1>1, <1>2, <1>6, <2>1, IntactFormat DEF IntactInv
<1>7. CASE Sync \/ Recount
  <2>1. dev' = dev
    BY <1>7 DEF Sync, Recount
  <2> QED
    BY <1>1, <1>2, <1>7, <2>1, IntactSync, IntactRecount DEF IntactInv
<1>11. CASE Persist
  BY <1>1, <1>3, <1>11, IntactPersist DEF Persist, IntactInv
<1>8. CASE Crash
  BY <1>1, <1>2, <1>3, <1>8 DEF Crash, IntactInv
<1>9. CASE StartFresh \/ StartAgain
  <2>1. dev' = dev
    BY <1>9 DEF StartFresh, StartAgain
  <2> QED
    BY <1>1, <1>2, <1>9, <2>1, IntactStart DEF IntactInv
<1>10. CASE UNCHANGED vars
  <2>1. UNCHANGED <<phase, map, idle, avail, held, intact, dev>>
    BY <1>10 DEF vars
  <2>2. (\A k : IsLeft(k)' <=> IsLeft(k)) /\ \A k, n : IsKnown(k, n)' <=> IsKnown(k, n)
    BY <2>1 DEF IsLeft, IsKnown
  <2>3. IntactNow'
    BY <2>1, <2>2 DEF IntactInv, IntactNow, HandingOut, Recorded
  <2> QED
    BY <1>1, <1>2, <2>1, <2>3 DEF IntactInv
<1> QED
  BY <1>4, <1>5, <1>6, <1>7, <1>8, <1>9, <1>10, <1>11 DEF Next

LEMMA IntactAlways == Spec => []IntactInv
BY IntactInit, IntactNext, PTL DEF Spec

\* However many groups there are and however long the lists: until a number does not
\* fit or an end of the program leaves one unmarked, no list holds a number twice or one that a file or the root has.
THEOREM FreeListsCorrect == Spec => []ListsAreFree
<1>1. IntactInv => ListsAreFree
  <2> SUFFICES ASSUME IntactInv, intact, NEW i \in DOMAIN avail
               PROVE  /\ \A f \in Holders : held[f] # avail[i]
                      /\ \A j \in DOMAIN avail : avail[i] = avail[j] => i = j
                      /\ avail[i] # Root
    BY DEF ListsAreFree
  <2>1. Avoids(avail, held) /\ Once(avail)
    <3>1. CASE HandingOut
      <4>1. PICK k \in Nat : IsLeft(k)
        BY <3>1 DEF HandingOut
      <4>2. \A a, b \in DOMAIN avail : avail[a] = avail[b] => a + k = b + k
        BY <3>1, <4>1 DEF HandingOut, IsLeft, Once
      <4>3. \A a \in DOMAIN avail : a \in Nat
        <5>1. avail \in Seq(Numbers)
          BY ListIs DEF IntactInv, TypeInv, TypeOK
        <5> QED
          BY <5>1
      <4>4. \A a, b \in Nat : a + k = b + k => a = b
        BY <4>1
      <4> QED
        BY <3>1, <4>2, <4>3, <4>4 DEF HandingOut, Once
    <3>2. CASE Recorded
      BY <3>2 DEF Recorded
    <3> QED
      BY <3>1, <3>2 DEF IntactInv, IntactNow
  <2>3. avail[i] \notin InUse(held)
    BY <2>1 DEF Avoids
  <2>4. \A f \in Holders : held[f] # avail[i]
    BY <2>3 DEF InUse, Holders
  <2>5. \A j \in DOMAIN avail : avail[i] = avail[j] => i = j
    BY <2>1 DEF Once
  <2> QED
    BY <2>3, <2>4, <2>5 DEF InUse
<1> QED
  BY <1>1, IntactAlways, PTL

\* Until then every file's block lies on the device, off the
\* blocks that tell of the others, and is no other file's and not the root's.
THEOREM PlacesCorrect == Spec => []OwnPlaces
<1>1. IntactInv => OwnPlaces
  <2> SUFFICES ASSUME IntactInv, intact, NEW f \in Holders
               PROVE  /\ Place(held[f]) \in 0 .. DeviceBlocks - 1
                      /\ Place(held[f]) # Place(Root)
                      /\ \A g \in GroupSet : Place(held[f]) \notin ControlBlocks(g)
                      /\ \A h \in Holders \ {f} : Place(held[h]) # Place(held[f])
    BY DEF OwnPlaces
  <2>1. OwnNumbers(held)
    BY DEF IntactInv, IntactNow, HandingOut, Recorded
  <2>2. \A h \in Holders : held[h] \in Bits /\ held[h] \in Nat
    BY NumbersAreBits, BitHasGroup DEF Holders, IntactInv, TypeInv, TypeOK
  <2>3. Root \in Nat
    BY DEF Root
  <2>4. held[f] # Root /\ \A h \in Holders \ {f} : held[h] # held[f]
    BY <2>1 DEF OwnNumbers, Holders
  <2>5. /\ Place(held[f]) \in 0 .. DeviceBlocks - 1
        /\ \A g \in GroupSet : Place(held[f]) \notin ControlBlocks(g)
    BY <2>2, PlaceIsData
  <2>6. Place(held[f]) # Place(Root)
    BY <2>2, <2>3, <2>4, PlaceInjective
  <2>7. \A h \in Holders \ {f} : Place(held[h]) # Place(held[f])
    BY <2>2, <2>4, PlaceInjective
  <2> QED
    BY <2>5, <2>6, <2>7
<1> QED
  BY <1>1, IntactAlways, PTL
=============================================================================
