------------------------------ MODULE MCFileIO ------------------------------
\* Constants of FileIO for TLC.
EXTENDS FileIO, TLC

MCTexts == {<<"a">>, <<"b", "a", "b">>}
MCSymmetry == Permutations(Files) \cup Permutations(Blocks \ {Zero})
=============================================================================
