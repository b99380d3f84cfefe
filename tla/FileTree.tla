------------------------------ MODULE FileTree ------------------------------
(***************************************************************************)
(* What the directory tree promises its user: files and directories found  *)
(* under paths, which stay as the commands left them, whatever is cached,  *)
(* written to the device or read back in between.  A path is the sequence  *)
(* of the names from the root; every path leads to an index node of its    *)
(* own.                                                                    *)
(***************************************************************************)
EXTENDS Sequences, SequencesExt, FiniteSets

CONSTANTS
  Nodes,    \* index nodes
  Root,     \* the root directory's
  Names     \* names of files and directories

VARIABLES
  at,       \* path -> index node
  kind      \* index node -> "free", "file", "dir"

vars == <<at, kind>>

Free == {n \in Nodes : kind[n] = "free"}
Tops(p) == {q \in DOMAIN at : IsPrefix(p, q)}        \* p and all that is below it
Dirs == {p \in DOMAIN at : kind[at[p]] = "dir"}
Moved(q, from, to) == to \o SubSeq(q, Len(from) + 1, Len(q))

Init ==
  /\ at = [p \in {<<>>} |-> Root]
  /\ kind = [n \in Nodes |-> IF n = Root THEN "dir" ELSE "free"]

\* mkdir, touch: a new file under a name its directory does not hold yet.
Make(d, nm, k, n) ==
  /\ d \in Dirs /\ Append(d, nm) \notin DOMAIN at /\ n \in Free
  /\ at' = [p \in DOMAIN at \cup {Append(d, nm)} |-> IF p \in DOMAIN at THEN at[p] ELSE n]
  /\ kind' = [kind EXCEPT ![n] = k]

\* rm, rmdir: a file, or a directory with all that is below it.
Erase(p) ==
  /\ p \in DOMAIN at /\ p # <<>>
  /\ at' = [q \in DOMAIN at \ Tops(p) |-> at[q]]
  /\ kind' = [n \in Nodes |-> IF \E q \in Tops(p) : at[q] = n THEN "free" ELSE kind[n]]

\* mv: the file or directory p, all that is below it included, becomes q.
Move(p, q) ==
  /\ p \in DOMAIN at /\ p # <<>> /\ Front(q) \in Dirs \ Tops(p)
  /\ q \notin DOMAIN at \ {p}
  /\ LET stay == DOMAIN at \ Tops(p)
         come == {Moved(r, p, q) : r \in Tops(p)}
     IN at' = [r \in stay \cup come |-> IF r \in stay THEN at[r] ELSE at[Moved(r, q, p)]]
  /\ UNCHANGED kind

\* What a copy leaves: the paths `paths` below p, again below q, with new nodes.
Copied(paths, p, q, new) ==
  /\ at' = [r \in DOMAIN at \cup {Moved(x, p, q) : x \in paths} |->
              IF r \in DOMAIN at THEN at[r] ELSE new[at[Moved(r, q, p)]]]
  /\ kind' = [n \in Nodes |->
                IF \E x \in paths : new[at[x]] = n
                THEN kind[at[CHOOSE x \in paths : new[at[x]] = n]] ELSE kind[n]]

\* cp of a file, to a name its new directory does not hold yet.
CopyFile(p, q) ==
  /\ p \in DOMAIN at \ Dirs /\ Front(q) \in Dirs /\ q \notin DOMAIN at
  /\ \E n \in Free : Copied({p}, p, q, [m \in {at[p]} |-> n])

\* cp of a directory: all that is below p, to the directory q.
CopyBelow(p, q) ==
  /\ p \in Dirs /\ q \in Dirs \ Tops(p)
  /\ LET below == Tops(p) \ {p}
     IN /\ \A x \in below : Moved(x, p, q) \notin DOMAIN at
        /\ \E new \in Injection({at[x] : x \in below}, Free) : Copied(below, p, q, new)

\* Both kinds of formatting.
Format == /\ at' = [p \in {<<>>} |-> Root]
          /\ kind' = [n \in Nodes |-> IF n = Root THEN "dir" ELSE "free"]

Targets == {Append(d, nm) : d \in Dirs, nm \in Names}

Next ==
  \/ \E d \in Dirs, nm \in Names, k \in {"file", "dir"}, n \in Nodes : Make(d, nm, k, n)
  \/ \E p \in DOMAIN at : Erase(p)
  \/ \E p \in DOMAIN at, q \in Targets : Move(p, q) \/ CopyFile(p, q)
  \/ \E p \in DOMAIN at, q \in Dirs : CopyBelow(p, q)
  \/ Format

Spec == Init /\ [][Next]_vars
=============================================================================
