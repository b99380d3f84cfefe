------------------------------ MODULE DirTree ------------------------------
(***************************************************************************)
(* The directory tree.  Emulated_kernel keeps a tree of Dtree_Node objects,*)
(* a cache of the directories visited so far: a directory is read from the *)
(* device when a path first leads to it, every command works on the cache  *)
(* alone, and the cached directories are written to the device when the    *)
(* program ends.  The module follows the cache, the directories on the     *)
(* device and the index nodes through mkdir, touch, cd, ls, rm, rmdir, mv, *)
(* cp, both kinds of formatting, and the end and start of the program.     *)
(*                                                                         *)
(* A node stands for an index node and for the Dtree_Node that caches it.  *)
(* Which number a new file gets is left open, and a number or block handed *)
(* out is its file's alone (module Space says when that is so).  File      *)
(* contents are left out, and the program does not crash here.  The "." and*)
(* ".." entries of a directory are one flag, `dots`.                       *)
(***************************************************************************)
EXTENDS Integers, FiniteSets, SequencesExt

CONSTANTS
  Nodes,      \* index nodes, each with the tree node that caches it
  Root,       \* index node 0
  NoNode,     \* parent of a node that is not in the cache (and of the root)
  Freed,      \* where a pointer to a freed tree node leads
  Paths,      \* the paths a user types, see below
  PerBlock,   \* directory entries in a block (BLOCK_SIZE / DIR_ITEM_SIZE)
  MountBlocks,\* blocks in mount's buffer (MAX_DIRITEM_NUM entries)
  MaxBlocks,  \* blocks of the longest directory written (MAX_FILE_LEN / BLOCK_SIZE)
  MaxKids,    \* bound on the entries of a directory
  MaxWalk     \* bound on the queue of del_dir

ASSUME NodesAssumption ==
  IsFiniteSet(Nodes) /\ Root \in Nodes /\ NoNode \notin Nodes /\ Freed \notin Nodes
    /\ NoNode # Freed
\* A user's path is a string; one without names is "/".
ASSUME PathsAssumption ==
  \A p \in Paths : /\ p \in [abs : BOOLEAN, names : Seq(STRING), slash : BOOLEAN]
                   /\ p.names = <<>> => p.slash
ASSUME PerBlockAssumption ==
  PerBlock \in Nat \ {0, 1} /\ MountBlocks \in Nat \ {0} /\ MaxBlocks \in Nat \ {0}
ASSUME BoundAssumption == MaxKids \in Nat /\ MaxWalk \in Nat \ {0}

(***************************************************************************)
(* A path is [abs, names, slash]: does it begin with "/", the names in it, *)
(* does it end in "/".  The path "/" has no names and ends in "/".         *)
(***************************************************************************)
Here == "."
Up == ".."
Nameless == ""

\* What is left of a path before its last "/", and what comes after it.
DirPart(p) == [p EXCEPT !.names = IF p.slash THEN @ ELSE Front(@)]
LastName(p) == IF p.slash THEN Nameless ELSE Last(p.names)

VARIABLES
  phase,      \* "up"; "walking", "popping": rm of a directory; "off"; "astray"
  kind,       \* index node -> "free", "file", "dir"
  filled,     \* index nodes whose first block address is not 0
  mem,        \* the cache: node -> [name, parent, kids, dots]
  dev,        \* the device: directory -> [kids, dots], kids of [name, node]
  rootBlocks, \* block addresses in use in the root directory's index node
  cur,        \* cur_dir
  walk,       \* the queue of del_dir
  doomed,     \* the directory del_dir removes
  careful     \* history: no command so far was one the tree suffers from

vars == <<phase, kind, filled, mem, dev, rootBlocks, cur, walk, doomed, careful>>
disk == <<kind, filled, dev, rootBlocks>>

Blank == [name |-> Nameless, parent |-> NoNode, kids |-> <<>>, dots |-> FALSE]
Empty == [kids |-> <<>>, dots |-> FALSE]
IsDir(n) == kind[n] = "dir"
Free == {n \in Nodes : kind[n] = "free"}

(***************************************************************************)
(* Looking things up in the cache.                                         *)
(***************************************************************************)
KidSet(m, d) == ToSet(m[d].kids)

\* What is left of the list s when only the elements in A stay.
Only(s, A) ==
  LET left[i \in 0 .. Len(s)] ==
        IF i = 0 THEN <<>>
        ELSE IF s[i] \in A THEN Append(left[i - 1], s[i]) ELSE left[i - 1]
  IN left[Len(s)]
Dropped(s, n) == Only(s, ToSet(s) \ {n})

\* child->size(): a directory with no children at all counts as not visited.
Size(m, d) == Len(m[d].kids) + IF m[d].dots THEN 2 ELSE 0
Visited(m, S) == \A n \in S : IsDir(n) => Size(m, n) > 0

\* find_filename.
Has(m, d, nm) ==
  (m[d].dots /\ nm \in {Here, Up}) \/ \E n \in KidSet(m, d) : m[n].name = nm

FirstNamed(m, d, nm) ==
  m[d].kids[SelectInSeq(m[d].kids, LAMBDA n : m[n].name = nm)]

\* The nodes a walk from n meets that goes down directories only.
Below(m, n) ==
  LET down[k \in 0 .. Cardinality(Nodes)] ==
        IF k = 0 THEN {n}
        ELSE down[k - 1] \cup UNION {KidSet(m, d) : d \in {x \in down[k - 1] : IsDir(x)}}
  IN down[Cardinality(Nodes)]

\* How often the directories of S list n; a walk from the top of a tree meets
\* every node but the top in one list, and the top in none.
Listed(m, S, n) ==
  Cardinality({e \in {d \in S : IsDir(d)} \X (1 .. MaxKids) :
                 e[2] <= Len(m[e[1]].kids) /\ m[e[1]].kids[e[2]] = n})
IsTree(m, top) ==
  LET S == Below(m, top)
  IN Listed(m, S, top) = 0 /\ \A n \in S \ {top} : Listed(m, S, n) = 1

(***************************************************************************)
(* parse_path: walk the names from the root or from cur_dir, reading each  *)
(* directory met that has no children in the cache.  The outcome is "ok",  *)
(* "none" (no such file) or "astray"; the cache keeps what was read either *)
(* way.                                                                    *)
(***************************************************************************)
Entries(d) == {e.node : e \in ToSet(dev[d].kids)}
Unread(m, n) == IsDir(n) /\ Size(m, n) = 0

\* Reading a directory again whose files are in the cache already, or gone,
\* makes a second tree node for an index node: the model does not follow it.
Twins(m, d) == \E n \in Entries(d) : m[n].parent # NoNode \/ kind[n] = "free"

Read(m, d) ==
  [n \in Nodes |->
     IF n = d THEN [m[d] EXCEPT !.kids = [i \in DOMAIN dev[d].kids |-> dev[d].kids[i].node],
                                !.dots = dev[d].dots]
     ELSE IF n \in Entries(d)
     THEN [Blank EXCEPT !.parent = d,
             !.name = (CHOOSE e \in ToSet(dev[d].kids) : e.node = n).name]
     ELSE m[n]]

\* One name of a path.
Step(r, nm, isLast) ==
  LET d == r.at
      child == FirstNamed(r.m, d, nm)
  IN IF r.out # "ok" THEN r
     ELSE IF ~Has(r.m, d, nm) THEN [r EXCEPT !.out = "none"]
     ELSE IF nm = Here THEN r
     ELSE IF nm = Up
     THEN IF d = Root THEN r
          ELSE IF r.m[d].parent = Freed THEN [r EXCEPT !.out = "astray"]
          ELSE [r EXCEPT !.at = r.m[d].parent]
     ELSE IF ~IsDir(child) /\ ~isLast THEN [r EXCEPT !.out = "none"]
     ELSE IF ~Unread(r.m, child) THEN [r EXCEPT !.at = child]
     ELSE IF Twins(r.m, child) THEN [r EXCEPT !.out = "astray"]
     ELSE [at |-> child, m |-> Read(r.m, child), out |-> "ok"]

ParseFrom(m, start, names) ==
  IF start = Freed THEN [at |-> Root, m |-> m, out |-> "astray"]
  ELSE LET r[i \in 0 .. Len(names)] ==
             IF i = 0 THEN [at |-> start, m |-> m, out |-> "ok"]
             ELSE Step(r[i - 1], names[i], i = Len(names))
       IN r[Len(names)]

Parse(m, p) ==
  ParseFrom(m, IF p.abs \/ p.names = <<>> THEN Root ELSE cur, p.names)

\* The directory a new file goes to: cur_dir when the path has no "/" in it.
ParentOf(m, p) ==
  IF ~p.abs /\ ~p.slash /\ Len(p.names) = 1 THEN ParseFrom(m, cur, <<>>)
  ELSE Parse(m, DirPart(p))

(***************************************************************************)
(* The start.                                                              *)
(***************************************************************************)
\* The cache right after mount: the root's entries, nothing below them.  The
\* first two are made into "." and ".." whatever the device holds.
Mounted ==
  [Read([n \in Nodes |-> Blank], Root) EXCEPT ![Root].dots = TRUE]

Init ==
  /\ phase = "up"
  /\ kind = [n \in Nodes |-> IF n = Root THEN "dir" ELSE "free"]
  /\ filled = {}
  /\ dev = [n \in Nodes |-> Empty]
  /\ mem = [n \in Nodes |-> [Blank EXCEPT !.dots = (n = Root)]]
  /\ rootBlocks = 1
  /\ cur = Root
  /\ walk = <<>>
  /\ doomed = NoNode
  /\ careful = TRUE

Idle == UNCHANGED <<walk, doomed>>

(***************************************************************************)
(* Commands that read: ls (list_diritem), cd (change_dir).  A command whose*)
(* path leads nowhere, or which refuses what it finds there, does what ls  *)
(* does.                                                                   *)
(***************************************************************************)
Ls(p) ==
  /\ phase = "up"
  /\ LET r == Parse(mem, p)
     IN /\ phase' = IF r.out = "astray" THEN "astray" ELSE "up"
        /\ mem' = r.m
  /\ UNCHANGED <<disk, cur, careful>> /\ Idle

Cd(p) ==
  /\ phase = "up"
  /\ LET r == Parse(mem, p)
     IN r.out = "ok" /\ IsDir(r.at) /\ cur' = r.at /\ mem' = r.m
  /\ UNCHANGED <<phase, disk, careful>> /\ Idle

(***************************************************************************)
(* mkdir and touch: init_new_file, my_close.                               *)
(***************************************************************************)
Make(p, k, n) ==
  /\ phase = "up"
  /\ n \in Free
  /\ LastName(p) \notin {Here, Up}
  /\ LET r == ParentOf(mem, p)
         d == r.at
         nm == LastName(p)
     IN /\ r.out = "ok"
        /\ ~Has(r.m, d, nm)
        /\ Len(r.m[d].kids) < MaxKids
        /\ mem' = [r.m EXCEPT ![d].kids = Append(@, n),
                              ![n] = [name |-> nm, parent |-> d, kids |-> <<>>,
                                      dots |-> (k = "dir")]]
        /\ careful' = (careful /\ IsDir(d) /\ nm # Nameless)
  /\ kind' = [kind EXCEPT ![n] = k]
  /\ filled' = filled \cup {n}
  /\ dev' = [dev EXCEPT ![n] = Empty]
  /\ UNCHANGED <<phase, rootBlocks, cur>> /\ Idle

(***************************************************************************)
(* rm and rmdir.  Deleting the nodes S takes them out of the list `kids` of*)
(* `holder`; nodes that hung under S keep a parent pointer to freed memory.*)
(* When another list still holds a deleted node the run goes astray.       *)
(***************************************************************************)
Without(m, S, holder, kids) ==
  [n \in Nodes |->
     IF n \in S THEN Blank
     ELSE [m[n] EXCEPT !.kids = IF n = holder THEN kids ELSE @,
                       !.parent = IF @ \in S THEN Freed ELSE @]]

Dangling(m, S) == \E n \in Nodes \ S : KidSet(m, n) \cap S # {}

Delete(m, S, holder, kids, freed) ==
  LET left == Without(m, S, holder, kids)
  IN IF holder = Freed \/ Dangling(left, S)
     THEN phase' = "astray" /\ UNCHANGED <<disk, mem, cur>>
     ELSE /\ phase' = "up"
          /\ mem' = left
          /\ kind' = [n \in Nodes |-> IF n \in freed THEN "free" ELSE kind[n]]
          /\ filled' = filled \ freed
          /\ dev' = [n \in Nodes |-> IF n \in freed THEN Empty ELSE dev[n]]
          /\ cur' = IF cur \in S THEN Freed ELSE cur
          /\ UNCHANGED rootBlocks

\* remove, for a regular file.
RmFile(p) ==
  /\ phase = "up"
  /\ LET r == Parse(mem, p)
         holder == r.m[r.at].parent
     IN /\ r.out = "ok" /\ ~IsDir(r.at)
        /\ Delete(r.m, {r.at}, holder, Dropped(r.m[holder].kids, r.at), {r.at})
  /\ UNCHANGED careful /\ Idle

\* remove, for a directory: del_dir begins a walk that is to bring everything
\* below the directory into the cache.
RmDir(p) ==
  /\ phase = "up"
  /\ LET r == Parse(mem, p)
     IN /\ r.out = "ok" /\ IsDir(r.at) /\ r.at # Root
        /\ mem' = r.m
        /\ walk' = <<r.at>>
        /\ doomed' = r.at
        /\ careful' = (careful /\ Visited(r.m, Below(r.m, r.at))
                         /\ cur \notin Below(r.m, r.at))
  /\ phase' = "walking"
  /\ UNCHANGED <<disk, cur>>

\* Slips of the walk: it follows the entry "..", or the entry ".".
QueueWithParent(m, d) == <<m[d].parent>>
QueueWithSelf(m, d) == <<d>>

\* What the walk adds for a directory: the sub-directories visited already.
Queue(m, d) ==
  Reverse(Only(m[d].kids, {n \in KidSet(m, d) : IsDir(n) /\ Size(m, n) >= 2}))

WalkDown ==
  /\ phase = "walking"
  /\ walk # <<>>
  /\ LET d == Head(walk)
         r == ParseFrom(mem, mem[d].parent, <<mem[d].name>>)
         longer == walk \o Queue(r.m, d)
     IN /\ phase' = IF r.out = "astray" THEN "astray" ELSE "popping"
        /\ Len(longer) <= MaxWalk
        /\ walk' = longer
        /\ mem' = r.m
  /\ UNCHANGED <<disk, cur, doomed, careful>>

WalkPop ==
  /\ phase = "popping"
  /\ phase' = "walking"
  /\ walk' = Tail(walk)
  /\ UNCHANGED <<disk, mem, cur, doomed, careful>>

\* The second half of del_dir: dfs_del_file deletes what the cache holds.
WalkDone ==
  /\ phase = "walking"
  /\ walk = <<>>
  /\ LET S == Below(mem, doomed)
         holder == mem[doomed].parent
     IN IF IsTree(mem, doomed) /\ holder # Freed
        THEN Delete(mem, S, holder, RemoveFirst(mem[holder].kids, doomed), S)
        ELSE phase' = "astray" /\ UNCHANGED <<disk, mem, cur>>
  /\ doomed' = NoNode
  /\ UNCHANGED <<walk, careful>>

\* A slip of remove_dir: its test of the number of children is missing.
AnySize(m, d) == Size(m, d) > 0

\* remove_dir's test; the nodes of the two children it counts are deleted, and
\* when they are not "." and ".." they are two files.
TwoKids(m, d) == Size(m, d) = 2

Rmdir(p) ==
  /\ phase = "up"
  /\ LET r == Parse(mem, p)
         d == r.at
         holder == r.m[d].parent
     IN /\ r.out = "ok" /\ TwoKids(r.m, d) /\ d \in filled
        /\ Delete(r.m, {d} \cup KidSet(r.m, d), holder,
                  IF holder = Freed THEN <<>> ELSE Dropped(r.m[holder].kids, d), {d})
        /\ careful' = (careful /\ cur # d)
  /\ Idle

(***************************************************************************)
(* mv.  The directory the source is taken from is parsed from the source's *)
(* own text: for a plain name it is the root, whatever cur_dir is.  The    *)
(* target must exist; the source goes below it, whatever it is, and takes  *)
(* the last name of the target's path.                                     *)
(***************************************************************************)
\* Slips of the move: the parent pointer, or the old list, is forgotten.
HangUnparented(m, s, from, to) ==
  LET taken == [m EXCEPT ![from].kids = Dropped(@, s)]
  IN [taken EXCEPT ![to].kids = Append(@, s)]
HangTwice(m, s, from, to) == [m EXCEPT ![to].kids = Append(@, s), ![s].parent = to]

Hang(m, s, from, to) ==
  LET taken == [m EXCEPT ![from].kids = Dropped(@, s)]
  IN [taken EXCEPT ![to].kids = Append(@, s), ![s].parent = to]

\* The rename that ends mv and cp, and a slip of it that looks for no namesake.
RenamedAnyway(m, n, d, nm) == IF nm = Nameless THEN m ELSE [m EXCEPT ![n].name = nm]
Renamed(m, n, d, nm) ==
  IF nm = Nameless \/ Has(m, d, nm) THEN m ELSE [m EXCEPT ![n].name = nm]

Mv(p, q) ==
  /\ phase = "up"
  /\ LET s == Parse(mem, p)
         h == Parse(s.m, DirPart(p))
         d == Parse(h.m, q)
         moved == IF d.at = h.at THEN d.m ELSE Hang(d.m, s.at, h.at, d.at)
     IN /\ s.out = "ok" /\ h.out = "ok" /\ d.out = "ok"
        /\ (d.at = h.at \/ Len(d.m[d.at].kids) < MaxKids)
        /\ IF s.at = Root /\ d.at # h.at
           THEN phase' = "astray" /\ mem' = d.m
           ELSE phase' = "up" /\ mem' = Renamed(moved, s.at, d.at, LastName(q))
        /\ careful' = (careful /\ d.m[s.at].parent = h.at
                         /\ (d.at # h.at => /\ IsDir(d.at)
                                            /\ d.at \notin Below(d.m, s.at)
                                            /\ ~Has(d.m, d.at, d.m[s.at].name)))
  /\ UNCHANGED <<disk, cur>> /\ Idle

(***************************************************************************)
(* cp.  A file is copied into the target's directory; of a directory, every*)
(* entry is, with all the cache holds below it.  A directory that was not  *)
(* visited is copied with its length but without a first address:          *)
(* parse_path reads block 0 for it, the root's, and stops at its first     *)
(* entry, whose number is 0, so the copy is empty.  Copying a directory    *)
(* into one of its own sub-directories is left out.                        *)
(***************************************************************************)
\* The tree nodes of init_copy_dir; new[n] is the number the copy of n gets.  The
\* copy hangs under the copy of the directory it was met in, wherever the
\* parent pointer of n leads.
Original(new, x) == CHOOSE n \in DOMAIN new : new[n] = x

Lister(m, S, n) == CHOOSE d \in S : IsDir(d) /\ n \in KidSet(m, d)

Copies(m, new, d, tops, x) ==
  LET n == Original(new, x)
  IN [name |-> m[n].name,
      parent |-> IF n \in tops THEN d ELSE new[Lister(m, DOMAIN new, n)],
      kids |-> IF IsDir(n) THEN [i \in DOMAIN m[n].kids |-> new[m[n].kids[i]]] ELSE <<>>,
      dots |-> m[n].dots]

\* Copies of the nodes `list` and of what is below them, hung under d.
Copied(m, new, d, list) ==
  [x \in Nodes |->
     IF x \in Range(new) THEN Copies(m, new, d, ToSet(list), x)
     ELSE IF x = d THEN [m[d] EXCEPT !.kids = @ \o [i \in DOMAIN list |-> new[list[i]]]]
     ELSE m[x]]

\* init_copy_dir reads each directory it copies, but none below it.
ReadKid(r, n) ==
  IF r.out # "ok" \/ ~IsDir(n) THEN r ELSE ParseFrom(r.m, r.m[n].parent, <<r.m[n].name>>)

ReadEach(m, list) ==
  LET r[i \in 0 .. Len(list)] ==
        IF i = 0 THEN [at |-> Root, m |-> m, out |-> "ok"] ELSE ReadKid(r[i - 1], list[i])
  IN r[Len(list)]

Cp(p, q) ==
  /\ phase = "up"
  /\ LET s == Parse(mem, p)
         h == Parse(s.m, DirPart(p))
         d == Parse(h.m, DirPart(q))
         list == IF IsDir(s.at) THEN d.m[s.at].kids ELSE <<s.at>>
         r == ReadEach(d.m, list)
         S == UNION {Below(r.m, n) : n \in ToSet(list)}
         nm == LastName(q)
     IN /\ s.out = "ok" /\ h.out = "ok" /\ d.out = "ok" /\ r.out = "ok"
        /\ d.at # h.at /\ list # <<>>
        /\ IsTree(r.m, s.at) /\ (IsDir(s.at) => d.at \notin Below(r.m, s.at))
        /\ Len(r.m[d.at].kids) + Len(list) <= MaxKids
        /\ \E new \in Injection(S, Free) :
             /\ mem' = Renamed(Copied(r.m, new, d.at, list), new[Last(list)], d.at, nm)
             /\ kind' = [x \in Nodes |-> IF x \in Range(new) THEN kind[Original(new, x)]
                                         ELSE kind[x]]
             /\ filled' = filled \cup {new[n] : n \in {n \in S \cap filled : ~IsDir(n)}}
             /\ dev' = [x \in Nodes |-> IF x \in Range(new) THEN Empty ELSE dev[x]]
        /\ careful' = (careful /\ IsDir(d.at) /\ Visited(r.m, S)
                         /\ (IsDir(s.at) => nm = Nameless)
                         /\ \A n \in ToSet(list) : ~Has(r.m, d.at, r.m[n].name))
  /\ UNCHANGED <<phase, rootBlocks, cur>> /\ Idle

\* Two ways in which cp writes to a null pointer: a copy gets no index node or
\* block, which is where copying a directory into itself always ends, and a
\* new name is given to a directory of which nothing was copied.
CpCrash(p, q) ==
  /\ phase = "up"
  /\ LET s == Parse(mem, p)
         h == Parse(s.m, DirPart(p))
         d == Parse(h.m, DirPart(q))
         nm == LastName(q)
         list == d.m[s.at].kids
     IN /\ s.out = "ok" /\ h.out = "ok" /\ d.out = "ok"
        /\ \/ d.at # h.at /\ (IsDir(s.at) => list # <<>>)
           \/ /\ IsDir(s.at) /\ (d.at = h.at \/ list = <<>>)
              /\ nm # Nameless /\ ~Has(d.m, d.at, nm)
  /\ phase' = "astray"
  /\ careful' = FALSE
  /\ UNCHANGED <<disk, mem, cur>> /\ Idle

(***************************************************************************)
(* The end of the program (del_Dtree, then the file system's write_to_dev),*)
(* its start (mount), and formatting.                                      *)
(***************************************************************************)
\* Blocks that take all entries of a directory.
Blocks(m, d) == (Size(m, d) \div PerBlock) + IF Size(m, d) % PerBlock = 0 THEN 0 ELSE 1

\* The entries in `blocks` blocks of a directory.  To the last one del_Dtree writes
\* (number of entries) % PerBlock entries: none, when they fill it.  What remains
\* counts "." and ".."; when it is "." alone it counts as both.
KeptShort(m, d, blocks) == (blocks - 1) * PerBlock + (Size(m, d) % PerBlock) - 1   \* a slip
Kept(m, d, blocks) == (blocks - 1) * PerBlock + (Size(m, d) % PerBlock)

KeptKids(m, d, blocks) ==
  SubSeq(m[d].kids, 1, Kept(m, d, blocks) - IF m[d].dots THEN 2 ELSE 0)

\* A directory that was not visited has no entries in the cache: its length on
\* the device becomes 0.
Written(m, d, blocks) ==
  IF blocks = 0 THEN Empty
  ELSE [kids |-> [i \in DOMAIN KeptKids(m, d, blocks) |->
                    [name |-> m[m[d].kids[i]].name, node |-> m[d].kids[i]]],
        dots |-> m[d].dots /\ Kept(m, d, blocks) > 0]

CachedDirs == {n \in Below(mem, Root) : IsDir(n)}

\* Blocks a directory has; one of which more is not known has its first block.
Had(d) == IF d = Root THEN rootBlocks ELSE IF d \in filled THEN 1 ELSE 0

\* How many blocks each directory can have for its entries in the end: as many as
\* they take, or fewer, when get_a_idleblock has none left.
Endings ==
  {got \in [CachedDirs -> 0 .. Max({Blocks(mem, d) : d \in CachedDirs})] :
     \A d \in CachedDirs : /\ got[d] <= Blocks(mem, d)
                           /\ got[d] < Blocks(mem, d) => got[d] >= Had(d)}

\* An index node has addresses for one block more than a file may have; those of a
\* directory are stored without looking at the end.
Overrun(got) == \E d \in CachedDirs : got[d] > MaxBlocks + 1

Clipped(blocks) == IF blocks > MaxBlocks THEN MaxBlocks ELSE blocks

\* Directories that have a first block after the end; the root's is block 0.  The
\* slip forgets that.
FilledWithRoot(got) == {n \in CachedDirs : got[n] > 0}
FilledAtEnd(got) == {n \in CachedDirs \ {Root} : got[n] > 0}

\* A directory that gets a block here is in other hands soon: syn_sblk is over, the
\* block stays on the list, and the next session hands it out again.
Exit ==
  /\ phase = "up"
  /\ \E got \in Endings :
       IF IsTree(mem, Root) /\ ~Overrun(got)
       THEN /\ phase' = "off"
            /\ dev' = [n \in Nodes |-> IF n \in CachedDirs THEN Written(mem, n, Clipped(got[n]))
                                       ELSE dev[n]]
            /\ filled' = filled \cup FilledAtEnd(got)
            /\ rootBlocks' = Max({rootBlocks, Clipped(got[Root])})
            /\ mem' = [n \in Nodes |-> Blank]
            /\ cur' = Root
       ELSE phase' = "astray" /\ UNCHANGED <<dev, filled, rootBlocks, mem, cur>>
  /\ careful' = (careful /\ Visited(mem, CachedDirs)
                   /\ \A d \in CachedDirs : /\ Size(mem, d) % PerBlock # 0
                                             /\ Blocks(mem, d) <= Had(d))
  /\ UNCHANGED kind /\ Idle

\* mount reads every block of the root directory into a buffer of fixed size.
Start ==
  /\ phase = "off"
  /\ phase' = IF rootBlocks <= MountBlocks THEN "up" ELSE "astray"
  /\ mem' = IF rootBlocks <= MountBlocks THEN Mounted ELSE mem
  /\ cur' = Root
  /\ UNCHANGED <<disk, careful>> /\ Idle

\* logic_format empties the cache with del_Dtree, bottom_format with one rm per
\* entry of the root, where a file without a name ends the program.
Emptied(bottom, got) ==
  IF bottom THEN \A n \in KidSet(mem, Root) : mem[n].name # Nameless ELSE ~Overrun(got)

Format(bottom) ==
  /\ phase = "up"
  /\ \E got \in Endings :
       IF IsTree(mem, Root) /\ Emptied(bottom, got)
       THEN /\ phase' = "up"
            /\ kind' = [n \in Nodes |-> IF n = Root THEN "dir" ELSE "free"]
            /\ filled' = {}
            /\ dev' = [n \in Nodes |-> Empty]
            /\ mem' = [n \in Nodes |-> [Blank EXCEPT !.dots = (n = Root)]]
            /\ cur' = Root
       ELSE phase' = "astray" /\ UNCHANGED <<kind, filled, dev, mem, cur>>
  /\ careful' = (careful /\ (bottom \/ \A d \in CachedDirs : Blocks(mem, d) <= MaxBlocks + 1))
  /\ UNCHANGED rootBlocks /\ Idle

Next ==
  \/ \E p \in Paths : Ls(p) \/ Cd(p) \/ RmFile(p) \/ RmDir(p) \/ Rmdir(p)
  \/ \E p \in Paths, k \in {"file", "dir"}, n \in Nodes : Make(p, k, n)
  \/ \E p, q \in Paths : Mv(p, q) \/ Cp(p, q) \/ CpCrash(p, q)
  \/ WalkDown
  \/ WalkPop
  \/ WalkDone
  \/ Exit
  \/ Start
  \/ \E bottom \in BOOLEAN : Format(bottom)

Spec == Init /\ [][Next]_vars

\* The walk of del_dir runs by itself; the commands are the user's.
Fairness == WF_vars(WalkDown) /\ WF_vars(WalkPop) /\ WF_vars(WalkDone)
FairSpec == Spec /\ Fairness

\* The program in the hands of a user who issues no command that hurts it.
CarefulSpec == Init /\ [][Next /\ careful']_vars /\ Fairness

(***************************************************************************)
(* Properties.                                                             *)
(***************************************************************************)
\* What a directory holds: from the cache once it was visited, else from the
\* device.  With it the whole tree, as pairs of a path and a node.
EntriesOf(d) ==
  IF Size(mem, d) > 0 THEN {[name |-> mem[n].name, node |-> n] : n \in KidSet(mem, d)}
  ELSE ToSet(dev[d].kids)

TreeNow ==
  LET deep[k \in 0 .. Cardinality(Nodes)] ==
        IF k = 0 THEN {[path |-> <<>>, node |-> Root]}
        ELSE deep[k - 1] \cup
             UNION {{[path |-> Append(x.path, e.name), node |-> e.node] : e \in EntriesOf(x.node)}
                      : x \in {x \in deep[k - 1] : IsDir(x.node)}}
  IN deep[Cardinality(Nodes)]

\* The values the variables take.
TypeOK ==
  /\ phase \in {"up", "walking", "popping", "off", "astray"}
  /\ kind \in [Nodes -> {"free", "file", "dir"}]
  /\ filled \subseteq {n \in Nodes : kind[n] # "free"} \ {Root}
  /\ \A n \in Nodes : /\ mem[n].parent \in Nodes \cup {NoNode, Freed}
                      /\ mem[n].kids \in Seq(Nodes) /\ Len(mem[n].kids) <= MaxKids
                      /\ mem[n].dots \in BOOLEAN
  /\ \A n \in Nodes : Entries(n) \subseteq Nodes
  /\ rootBlocks \in Nat
  /\ cur \in Nodes \cup {Freed}
  /\ walk \in Seq(Nodes) /\ Len(walk) <= MaxWalk
  /\ doomed \in Nodes \cup {NoNode}
  /\ careful \in BOOLEAN

\* While only careful commands were given the cache is a tree: every node is in
\* the list of its parent and in no other, only directories have children, and
\* cur_dir is one of them.
CarefulCacheIsTree ==
  (careful /\ phase \in {"up", "walking", "popping"}) =>
     /\ IsTree(mem, Root)
     /\ \A d \in Below(mem, Root) : \A n \in KidSet(mem, d) : IsDir(d) /\ mem[n].parent = d
     /\ cur \in CachedDirs

\* While only careful commands were given no directory holds two files of one
\* name, in the cache or on the device.
CarefulNamesAreUnique ==
  (careful /\ phase # "astray") =>
     \A x, y \in TreeNow : x.path = y.path => x.node = y.node

\* While only careful commands were given, exactly the index nodes in use can be
\* reached by a path, across ends and starts of the program: none is lost, and
\* no entry leads to one that was given back.
CarefulFilesAreReachable ==
  (careful /\ phase # "astray") =>
     {x.node : x \in TreeNow} = {n \in Nodes : kind[n] # "free"}

\* Whatever the commands were, the walk of rm stays below the directory it is to
\* remove: through files that hang twice, files of one name, even cycles.
WalkStaysBelow == doomed # NoNode => ToSet(walk) \subseteq Below(mem, doomed)

\* Careful commands never make the program use a freed tree node.
CarefulStaysOnCourse == careful => phase # "astray"

\* The tree of FileTree: each path with the node it leads to.
Promise == INSTANCE FileTree WITH
  at <- LET T == TreeNow IN [p \in {x.path : x \in T} |-> (CHOOSE x \in T : x.path = p).node],
  Names <- {nm \in UNION {Range(p.names) : p \in Paths} : nm \notin {Here, Up}}

\* In careful hands the program keeps what FileTree promises: mkdir, touch, rm,
\* rmdir, mv, cp and format change the tree as FileTree says, all at once, and no
\* other step changes it: not reading a directory, not the walk of rm, not the
\* end of the program nor its next start.
KeepsPromise == Promise!Spec

\* del_dir's walk through the sub-directories of the one to remove comes to an end,
\* and with it the command, unless a directory hangs below itself: a user who gave
\* careful commands only is not left waiting for rm.
WalkEnds == (careful /\ phase = "walking") ~> (phase \in {"up", "astray"})

(***************************************************************************)
(* What the comments of the code say, and the code does not do.            *)
(***************************************************************************)
\* "A node of the directory tree, which caches the directory entries that were
\* visited" (Dtree_node.h): the entries of a directory that was not visited are
\* not lost with the cache.
UnvisitedSurvive ==
  [][phase = "up" /\ phase' = "off" =>
       \A d \in CachedDirs : Size(mem, d) = 0 => dev'[d] = dev[d]]_vars
=============================================================================
