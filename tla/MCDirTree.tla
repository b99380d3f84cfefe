----------------------------- MODULE MCDirTree -----------------------------
\* Constants of DirTree for TLC: paths over the names "a" and "b".
EXTENDS DirTree, TLC

Abs(names, slash) == [abs |-> TRUE, names |-> names, slash |-> slash]
Rel(names, slash) == [abs |-> FALSE, names |-> names, slash |-> slash]

MCSymmetry == Permutations(Nodes \ {Root})

MCPaths ==
  {Abs(<<>>, TRUE), Abs(<<"a">>, FALSE), Abs(<<"a">>, TRUE), Abs(<<"b">>, FALSE),
   Abs(<<"a", "b">>, FALSE), Abs(<<"a", "a">>, FALSE), Rel(<<"a">>, FALSE), Rel(<<"..">>, FALSE)}

\* Fewer, for the run that follows careless commands too.
MCFewPaths ==
  {Abs(<<>>, TRUE), Abs(<<"a">>, FALSE), Abs(<<"a">>, TRUE), Abs(<<"a", "a">>, FALSE),
   Rel(<<"a">>, FALSE), Rel(<<"..">>, FALSE)}

\* Absolute ones, for the larger instance.
MCAbsolutePaths ==
  {Abs(<<>>, TRUE), Abs(<<"a">>, FALSE), Abs(<<"b">>, FALSE), Abs(<<"b">>, TRUE),
   Abs(<<"a", "b">>, FALSE)}

\* Directories in directories.
MCNestedPaths ==
  {Abs(<<"a">>, FALSE), Abs(<<"a", "a">>, FALSE), Abs(<<"a", "a", "a">>, FALSE), Abs(<<"b">>, TRUE),
   Abs(<<"b">>, FALSE)}
=============================================================================
