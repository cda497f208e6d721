---------------------------- MODULE MCScriptCalls ----------------------------
(***************************************************************************)
(* Small instances of ScriptCalls for TLC.                                 *)
(***************************************************************************)
EXTENDS ScriptCalls, Integers, Sequences, TLC

CONSTANTS
    main, library, leaf, \* scripts
    o1, o2, o3,          \* objects and arrays
    scalar, amp,         \* other values, one with an '&'
    Nothing              \* no file, no content, no vector

UpTo(n, S) == UNION {[1 .. k -> S] : k \in 0 .. n}

-----------------------------------------------------------------------------
(* Scripts that include each other: main includes library and leaf, guarded or not,  *)
(* library includes leaf or itself.  Every file may be any kind of file.             *)

Statement(does, file, guarded) == [does |-> does, file |-> file, guarded |-> guarded]
Run               == Statement("run", Nothing, FALSE)
Throw(guarded)    == Statement("throw", Nothing, guarded)
Include(f, guarded) == Statement("include", f, guarded)

File(bodies) ==
    [kind : {"missing", "special", "unreadable", "empty", "wrong", "broken"}, items : {<<>>}]
        \union [kind : {"script"}, items : bodies]

MainBodies    == UpTo(2, {Run, Include(library, FALSE), Include(library, TRUE), Include(leaf, TRUE)})
LibraryBodies == UpTo(2, {Run, Throw(FALSE), Include(leaf, FALSE), Include(leaf, TRUE), Include(library, FALSE)})
LeafBodies    == {<<Run>>, <<Throw(FALSE)>>, <<Run, Throw(TRUE), Run>>, <<Run, Throw(FALSE)>>}

FileSystems ==
    {(main :> m) @@ (library :> b) @@ (leaf :> l) :
        m \in File(MainBodies), b \in File(LibraryBodies), l \in File(LeafBodies)}

-----------------------------------------------------------------------------
(* Objects and arrays with up to two items, which may be each other.  *)

Built(items) == [kind : {"object", "array"}, items : items]

Heaps ==
    {(o1 :> x) @@ (o2 :> y) @@ (o3 :> z) :
        x \in Built(UpTo(2, {o1, o2, scalar})),
        y \in Built(UpTo(2, {o1, o2, o3, scalar}) \ UpTo(2, {o1, scalar})),
        z \in Built({<<amp>>, <<o1>>})}

-----------------------------------------------------------------------------
(* Texts of a block and a part of another, some with a NUL, and empty ones; keys and   *)
(* vectors of the right length for some ciphers, as buffers and as strings.            *)

Sample(kind, id, len, nul) == [kind |-> kind, id |-> id, len |-> len, nul |-> nul]

Texts     == {Sample("string", 1, 20, 15), Sample("buffer", 1, 16, 15),
              Sample("buffer", 1, 20, 15), Sample("string", 2, 0, 0)}
SomeKeys  == {Sample("string", 4, 16, 16), Sample("buffer", 5, 16, 3), Sample("string", 5, 16, 3)}
SomeIvs   == {Sample("string", 6, 16, 16), Sample("string", 6, 8, 8)}
=============================================================================
