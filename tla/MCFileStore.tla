----------------------------- MODULE MCFileStore -----------------------------
(***************************************************************************)
(* Instance of FileStore for TLC: the values of one process may call       *)
(* writeAsFile(), readFileAsString() and removeFile() in their toString(), *)
(* the other's not.                                                        *)
(***************************************************************************)
EXTENDS FileStore, TLC

CONSTANTS
    Nesting,    \* processes whose values call back, once
    v1, v2      \* values

MCCalls == Procs \X {0} \union Nesting \X {1}

\* A long value, and one that is shorter and may begin with a NUL.
MCStrings == {<<v1, Chunks>>, <<v2, Chunks - 1>>}

\* Which of the free inodes a file gets makes no difference.
Symmetry == Permutations(Inodes)
=============================================================================
