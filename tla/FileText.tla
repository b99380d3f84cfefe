------------------------------ MODULE FileText ------------------------------
(***************************************************************************)
(* What open files promise: a file is a text, a descriptor a place in it.  *)
(* What is written is there until it is overwritten or the file removed, a *)
(* read returns what is there, one file never shows in another, and closing*)
(* files or ending the program changes no text.                            *)
(***************************************************************************)
EXTENDS Integers, SequencesExt

CONSTANTS
  Files,      \* files, the root directory left out
  Root,       \* the root directory
  RootText,   \* what is read from the root directory
  NoFile,     \* a descriptor that is not open
  Fds,        \* descriptors
  Texts,      \* what a user writes
  Nul,        \* what a hole holds
  MaxLen      \* the largest length of a file

VARIABLES
  text,       \* file -> text
  pos,        \* descriptor -> file, offset
  got         \* what the last read returned

vars == <<text, pos, got>>

IsOpen(f) == \E d \in Fds : pos[d].file = f
Shut == [file |-> NoFile, off |-> 0]
AtStart == [d \in Fds |-> IF d = 0 THEN [file |-> Root, off |-> 0] ELSE Shut]

\* s from its start, or t placed at the offset `off` of s.
Extended(s, n) == [p \in 1 .. Max({n, Len(s)}) |-> IF p <= Len(s) THEN s[p] ELSE Nul]
Overlaid(s, t, off) ==
  [p \in 1 .. Max({off + Len(t), Len(s)}) |-> IF p - off \in DOMAIN t THEN t[p - off] ELSE s[p]]

Init ==
  /\ text = [f \in {Root} |-> RootText]
  /\ pos = AtStart
  /\ got = <<>>

Touch(f) ==
  /\ f \in Files \ DOMAIN text
  /\ text' = [g \in DOMAIN text \cup {f} |-> IF g = f THEN <<>> ELSE text[g]]
  /\ UNCHANGED <<pos, got>>

Open(f, d, append) ==
  /\ f \in DOMAIN text \ {Root} /\ ~IsOpen(f) /\ pos[d] = Shut
  /\ pos' = [pos EXCEPT ![d] = [file |-> f, off |-> IF append THEN Len(text[f]) ELSE 0]]
  /\ UNCHANGED <<text, got>>

Close(d) ==
  /\ pos' = [pos EXCEPT ![d] = Shut]
  /\ UNCHANGED <<text, got>>

\* A seek behind the end leaves a hole.
Lseek(d, off) ==
  /\ pos[d].file # NoFile
  /\ pos' = [pos EXCEPT ![d].off = off]
  /\ text' = [text EXCEPT ![pos[d].file] = Extended(@, off)]
  /\ UNCHANGED got

Read(d, size) ==
  /\ pos[d].file # NoFile
  /\ got' = LET s == text[pos[d].file]
            IN SubSeq(s, pos[d].off + 1, Min({pos[d].off + size, Len(s)}))
  /\ pos' = [pos EXCEPT ![d].off = @ + Len(got')]
  /\ UNCHANGED text

Write(d, line) ==
  /\ pos[d].file # NoFile
  /\ LET t == SubSeq(line, 1, Min({Len(line), MaxLen - pos[d].off}))
     IN /\ text' = [text EXCEPT ![pos[d].file] = Overlaid(@, t, pos[d].off)]
        /\ pos' = [pos EXCEPT ![d].off = @ + Len(t)]
  /\ UNCHANGED got

Cp(f, g) ==
  /\ f \in DOMAIN text \ {Root} /\ g \in Files \ DOMAIN text
  /\ text' = [h \in DOMAIN text \cup {g} |-> IF h = g THEN text[f] ELSE text[h]]
  /\ UNCHANGED <<pos, got>>

Rm(f) ==
  /\ f \in DOMAIN text \ {Root} /\ ~IsOpen(f)
  /\ text' = [g \in DOMAIN text \ {f} |-> text[g]]
  /\ UNCHANGED <<pos, got>>

Restart == pos' = AtStart /\ UNCHANGED <<text, got>>

Next ==
  \/ \E f \in Files : Touch(f) \/ Rm(f)
  \/ \E f, g \in Files : Cp(f, g)
  \/ \E f \in Files, d \in Fds, append \in BOOLEAN : Open(f, d, append)
  \/ \E d \in Fds : Close(d)
  \/ \E d \in Fds, off \in 0 .. MaxLen - 1 : Lseek(d, off)
  \/ \E d \in Fds, size \in 1 .. MaxLen : Read(d, size)
  \/ \E d \in Fds, line \in Texts : Write(d, line)
  \/ Restart

Spec == Init /\ [][Next]_vars
=============================================================================
