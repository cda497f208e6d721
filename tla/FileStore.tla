------------------------------ MODULE FileStore ------------------------------
(***************************************************************************)
(* writeAsFile() and removeFile() of jse_jscommon.c and jse_read_file() of *)
(* jse_common.c, in processes that share a directory.  The directory maps  *)
(* names to inodes; a value is up to Chunks pieces long, and every write() *)
(* and read() moves one piece or fails.  writeAsFile() turns its value     *)
(* into a string after it has opened the file: for an object that runs a   *)
(* toString() of the script, which may make calls of its own.  A process   *)
(* may die at any step, and its process identifier be used again.          *)
(***************************************************************************)
EXTENDS Naturals

CONSTANTS
    Procs,      \* processes, by process identifier
    Calls,      \* <<p, n>>: the call p makes while n others of its calls wait for a toString()
    Files,      \* names scripts use
    Values,     \* values scripts write
    Strings,    \* <<v, n>>: n pieces of value v are written, up to its end or its first NUL
    Absent,     \* no such file
    Undefined,  \* what a file holds, once it is no longer promised
    Chunks,     \* pieces of the longest value
    Inodes,     \* inodes: enough for every name and every open descriptor
    None        \* no inode

ASSUME ChunksAssumption == Chunks \in Nat \ {0}
ASSUME StringsAssumption == Strings \subseteq Values \X (0 .. Chunks)
ASSUME CallsAssumption == Calls \subseteq Procs \X Nat

\* Faulty variant: one temporary name for all processes.
Tmp_Shared(p) == <<"tmp", Absent>>

\* "<directory>/tmp_<pid>"
Tmp(p) == <<"tmp", p>>

Names  == Files \union {Tmp(p) : p \in Procs}

\* Scripts leave the names alone that writeAsFile() makes up.
ASSUME NamesAssumption == \A p \in Procs : Tmp(p) \notin Files

\* What may be in a file, piece by piece, and what calls put there.
Contents == [piece : [1 .. Chunks -> Values \union {Absent}], len : 0 .. Chunks]
Text(v, n) == [piece |-> [k \in 1 .. Chunks |-> IF k <= n THEN v ELSE Absent], len |-> n]
Texts == {Text(s[1], s[2]) : s \in Strings}
Blank(n) == [piece |-> [k \in 1 .. Chunks |-> Absent], len |-> n]
Nothing == Blank(0)

ASSUME NoneAssumption == None \notin Inodes /\ Absent \notin Values \union Contents \union {Undefined}

VARIABLES
    dir,        \* dir[name]: its inode, or None
    inode,      \* inode[i]: what is in it
    call,       \* call[c]: how far call c has come
    mixed       \* history: inodes that writeAsFile() opened when called from a toString()

vars == <<dir, inode, call, mixed>>

Rest == [pc |-> "idle", file |-> Absent, data |-> Nothing, fd |-> None, off |-> 0]

Init ==
    /\ dir = [m \in Names |-> None]
    /\ inode = [i \in Inodes |-> Nothing]
    /\ call = [c \in Calls |-> Rest]
    /\ mixed = {}

\* Neither a name nor a descriptor refers to the inode.
Free(i) == (\A m \in Names : dir[m] # i) /\ (\A c \in Calls : call[c].fd # i)

\* The file system drops what is in an inode once it is free.
Reclaim ==
    /\ inode' = [i \in Inodes |-> IF Free(i)' THEN Nothing ELSE inode[i]]
    /\ mixed' = {i \in mixed : ~ Free(i)'}

\* The script of the process runs and can make this call: the ones around it are all in
\* the toString() of their value.
Runs(c) ==
    \A d \in Calls : d[1] = c[1] =>
        IF d[2] < c[2] THEN call[d].pc = "convert" ELSE call[d] = Rest

-----------------------------------------------------------------------------
(* writeAsFile() *)

\* Faulty variant: what an earlier call left in the temporary file is not cut off.
WriteOpen_NoTrunc(c, f, create) ==
    /\ Runs(c)
    /\ \E i \in Inodes :
        /\ \/ i = dir[Tmp(c[1])]
           \/ dir[Tmp(c[1])] = None /\ create /\ Free(i)
        /\ dir' = [dir EXCEPT ![Tmp(c[1])] = i]
        /\ mixed' = IF c[2] = 0 THEN mixed \ {i} ELSE mixed \union {i}
        /\ call' = [call EXCEPT ![c] =
                      [pc |-> "convert", file |-> f, data |-> Nothing, fd |-> i, off |-> 0]]
    /\ UNCHANGED inode

\* open() of the temporary file: O_TRUNC always, O_CREAT only if asked for.
WriteOpen(c, f, create) ==
    /\ Runs(c)
    /\ \E i \in Inodes :
        /\ \/ i = dir[Tmp(c[1])]
           \/ dir[Tmp(c[1])] = None /\ create /\ Free(i)
        /\ dir' = [dir EXCEPT ![Tmp(c[1])] = i]
        /\ inode' = [inode EXCEPT ![i] = Nothing]
        /\ mixed' = IF c[2] = 0 THEN mixed \ {i} ELSE mixed \union {i}
        /\ call' = [call EXCEPT ![c] =
                      [pc |-> "convert", file |-> f, data |-> Nothing, fd |-> i, off |-> 0]]

\* open() finds no temporary file and may not create one: ENOENT.
WriteRefused(c, f) ==
    /\ Runs(c)
    /\ dir[Tmp(c[1])] = None
    /\ call' = [call EXCEPT ![c] = [Rest EXCEPT !.pc = "refused", !.file = f]]
    /\ UNCHANGED <<dir, inode, mixed>>

\* The value is text now: at once for a buffer, a string, a number or a boolean, after
\* whatever its toString() did for an object.
Convert(c, s) ==
    /\ call[c].pc = "convert"
    /\ \A d \in Calls : d[1] = c[1] /\ d[2] > c[2] => call[d] = Rest
    /\ call' = [call EXCEPT ![c].pc = "write", ![c].data = Text(s[1], s[2])]
    /\ UNCHANGED <<dir, inode, mixed>>

\* write() goes where the descriptor leads, whatever names the inode has by now.
Written(old, c) ==
    [piece |-> [old.piece EXCEPT ![call[c].off + 1] = call[c].data.piece[call[c].off + 1]],
     len   |-> IF old.len > call[c].off THEN old.len ELSE call[c].off + 1]

\* Faulty variant: one piece more than there are.
WriteChunk_Overrun(c) ==
    /\ call[c].pc = "write" /\ call[c].off <= call[c].data.len
    /\ inode' = [inode EXCEPT ![call[c].fd] =
                   [piece |-> @.piece, len |-> IF @.len > call[c].off THEN @.len ELSE call[c].off + 1]]
    /\ call' = [call EXCEPT ![c].off = @ + 1]
    /\ UNCHANGED <<dir, mixed>>

WriteChunk(c) ==
    /\ call[c].pc = "write" /\ call[c].off < call[c].data.len
    /\ inode' = [inode EXCEPT ![call[c].fd] = Written(@, c)]
    /\ call' = [call EXCEPT ![c].off = @ + 1]
    /\ UNCHANGED <<dir, mixed>>

\* The call is over and its descriptor closed.
Close(c, rest) ==
    /\ call' = [call EXCEPT ![c] = rest]
    /\ Reclaim

\* write() fails, or rename(), also because a call made in the toString() has taken the
\* temporary file away: the call throws, and a temporary file that is there stays.
WriteFails(c) ==
    /\ call[c].pc = "write"
    /\ UNCHANGED dir
    /\ Close(c, Rest)

\* Whatever is the temporary file now gets the name.
Rename(c) ==
    /\ call[c].pc = "write" /\ call[c].off = call[c].data.len /\ dir[Tmp(c[1])] # None
    /\ dir' = [dir EXCEPT ![call[c].file] = dir[Tmp(c[1])], ![Tmp(c[1])] = None]
    /\ Close(c, Rest)

RemoveFile(c, f) ==
    /\ Runs(c) /\ dir[f] # None
    /\ dir' = [dir EXCEPT ![f] = None]
    /\ UNCHANGED call
    /\ Reclaim

-----------------------------------------------------------------------------
(* jse_read_file() *)

\* open() and lseek(): the size is that of the moment.
ReadOpen(c, f) ==
    /\ Runs(c) /\ dir[f] # None
    /\ call' = [call EXCEPT ![c] =
                  [pc |-> "read", file |-> f, data |-> Blank(inode[dir[f]].len), fd |-> dir[f], off |-> 0]]
    /\ UNCHANGED <<dir, inode, mixed>>

ReadChunk(c) ==
    /\ call[c].pc = "read" /\ call[c].off < call[c].data.len
    /\ call[c].off < inode[call[c].fd].len
    /\ call' = [call EXCEPT ![c].off = @ + 1,
                            ![c].data.piece[call[c].off + 1] = inode[call[c].fd].piece[call[c].off + 1]]
    /\ UNCHANGED <<dir, inode, mixed>>

\* All was read, or read() returned 0 early: the size found at first is returned
\* all the same, the rest of the buffer as malloc() left it.
ReadReturns(c) ==
    /\ call[c].pc = "read"
    /\ call[c].off = call[c].data.len \/ call[c].off >= inode[call[c].fd].len
    /\ UNCHANGED dir
    /\ Close(c, [Rest EXCEPT !.pc = "done", !.data = call[c].data])

\* read(), lseek() or malloc() fails.
ReadFails(c) ==
    /\ call[c].pc = "read"
    /\ UNCHANGED dir
    /\ Close(c, Rest)

-----------------------------------------------------------------------------
\* The exception, or the string that was read, is the script's.
Return(c) ==
    /\ call[c].pc \in {"refused", "done"}
    /\ call' = [call EXCEPT ![c] = Rest]
    /\ UNCHANGED <<dir, inode, mixed>>

\* The process is killed or exits in the middle of its calls.
Crash(p) ==
    /\ \E c \in Calls : c[1] = p /\ call[c] # Rest
    /\ call' = [c \in Calls |-> IF c[1] = p THEN Rest ELSE call[c]]
    /\ UNCHANGED dir
    /\ Reclaim

Next ==
    \/ \E c \in Calls :
        \/ WriteChunk(c) \/ WriteFails(c) \/ Rename(c)
        \/ ReadChunk(c) \/ ReadReturns(c) \/ ReadFails(c) \/ Return(c)
        \/ \E s \in Strings : Convert(c, s)
        \/ \E f \in Files :
            \/ WriteRefused(c, f) \/ RemoveFile(c, f) \/ ReadOpen(c, f)
            \/ \E create \in BOOLEAN : WriteOpen(c, f, create)
    \/ \E p \in Procs : Crash(p)

Spec == Init /\ [][Next]_vars

-----------------------------------------------------------------------------
(* Properties *)

TypeOK ==
    /\ dir \in [Names -> Inodes \union {None}]
    /\ inode \in [Inodes -> Contents]
    /\ call \in [Calls -> [pc : {"idle", "convert", "write", "refused", "read", "done"},
                           file : Files \union {Absent}, data : Contents,
                           fd : Inodes \union {None}, off : 0 .. Chunks]]
    /\ mixed \subseteq Inodes

Writes(c) == call[c].pc \in {"convert", "write"}

\* What is being written is nobody else's: no other process writes it, and no name but
\* the writer's temporary one leads to it and no other call has it open, so that cutting
\* off what an earlier call left behind harms no reader.  The second half is lost when the
\* toString() of the value calls writeAsFile() itself: the inner call gives a name to the
\* inode the outer one is still to write.
WriterExclusive ==
    \A c \in Calls : Writes(c) =>
        /\ \A d \in Calls : Writes(d) /\ call[d].fd = call[c].fd => d[1] = c[1]
        /\ call[c].fd \notin mixed =>
              /\ \A f \in Files : dir[f] # call[c].fd
              /\ \A d \in Calls \ {c} : call[d].fd # call[c].fd

\* What the shared files look like from outside: what each holds, and the calls.  Nothing
\* is promised of a file that was written from within a toString(), nor of one that a
\* call with such a toString() writes.
Seen(i, text) == IF i \in mixed THEN Undefined ELSE text

Atomic == INSTANCE AtomicFiles WITH
    value <- [f \in Files |-> IF dir[f] = None THEN Absent ELSE Seen(dir[f], inode[dir[f]])],
    call  <- [c \in Calls |->
        CASE call[c].pc \in {"idle", "refused"} -> [op |-> "idle"]
          [] call[c].pc = "convert" -> [op |-> "convert", file |-> call[c].file,
                                        entered |-> call[c].fd \in mixed]
          [] call[c].pc = "write"   -> [op |-> "write", file |-> call[c].file,
                                        text |-> Seen(call[c].fd, call[c].data)]
          [] call[c].pc = "read"    -> [op |-> "read", text |-> Seen(call[c].fd, inode[call[c].fd])]
          [] call[c].pc = "done"    -> [op |-> "done", text |-> call[c].data]]

\* Writing to a temporary file and renaming it makes writeAsFile() atomic: the processes
\* behave as if files changed in one step, from one complete text to another, and reads
\* took what they return when they opened the file, whichever call failed or died in
\* between and whatever it left behind.  The only files that may be seen half written are
\* those of writeAsFile() calls that are nested in each other by a toString().
AtomicSpec == Atomic!Spec

=============================================================================
