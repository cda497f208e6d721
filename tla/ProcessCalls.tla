---------------------------- MODULE ProcessCalls ----------------------------
(***************************************************************************)
(* The bindings execProcess() and sendSignal() of jse_jsprocess.c: the     *)
(* arguments and the environment are copied from JavaScript into two       *)
(* arrays of strings, a child gets them, and what it leaves is returned    *)
(* with its process identifier, which the script may signal later.  How    *)
(* the child's output is read is the subject of ExecProcess; here          *)
(* fork_exec_read_and_wait() is three steps: fork, wait, or an error.      *)
(*                                                                         *)
(* The kernel's process table is shared with processes of others.  Each    *)
(* process has a number of its own (gen), which an identifier has not.     *)
(***************************************************************************)
EXTENDS Naturals, Sequences, FiniteSets

CONSTANTS
    Pids,        \* the process identifiers there are
    InitSize,    \* elements of a fresh array, 16 in the code
    MaxItems,    \* bound: arguments, and variables of the environment
    MaxCalls,    \* bound: calls of execProcess()
    MaxStarts    \* bound: processes started, by JSE and by others

ASSUME PidsAssumption == IsFiniteSet(Pids) /\ 0 \notin Pids
ASSUME SizeAssumption ==
    InitSize \in Nat /\ InitSize >= 4 /\ {MaxItems, MaxCalls, MaxStarts} \subseteq Nat

VARIABLES
    pc,         \* where do_exec_process() is; "idle" between calls
    arr,        \* arr["args"], arr["env"]: the arrays
    todo,       \* todo[a]: items still to be copied into array a
    live,       \* blocks of this call that are allocated
    wrongFree,  \* this call freed a block that is not allocated
    overflow,   \* this call wrote beyond the end of an array
    damaged,    \* history: realloc() failed in this call
    given,      \* history: the items the script passed in this call
    seen,       \* what the child was started with
    lost,       \* history: the way out of this call that left blocks behind
    table,      \* the process table
    child,      \* pid of the child of this call, 0 if there is none
    known,      \* results the script has: [pid, gen]
    abandoned,  \* children left without waitpid()
    hits,       \* history: [meant, hit]: process meant by a signal, process that got it
    calls, starts

table_vars == <<table, known, hits, starts>>
array_vars == <<arr, todo, live, wrongFree, overflow>>
vars == <<pc, array_vars, damaged, given, seen, lost, table_vars, child, abandoned, calls>>

Arrays == {"args", "env"}
PCs    == {"idle", "calloc_args", "args", "calloc_env", "env", "fork", "wait", "result"}

\* A cell has the number of a string (an argument, a variable) or one of these.
Null    == 0
Junk    == MaxItems + 2    \* memory realloc() gave and nobody wrote
NoArray == [cells |-> <<>>, length |-> 0, size |-> 0]

\* A block is named by what it is for: <<a, 0>> is the array a itself and <<a, i>>
\* the copy of its i-th string; argument 1 is the name of the file.
Block(a, i) == <<a, i>>
Buffers     == {<<"out", 0>>, <<"err", 0>>}

Gone      == [state |-> "none", gen |-> 0]
Processes == [state : {"none", "running", "zombie", "other"}, gen : 0 .. MaxStarts]

Init ==
    /\ pc = "idle"
    /\ arr = [a \in Arrays |-> NoArray] /\ todo = [a \in Arrays |-> 0]
    /\ live = {} /\ wrongFree = FALSE /\ overflow = FALSE /\ damaged = FALSE
    /\ given = [a \in Arrays |-> 0] /\ seen = [a \in Arrays |-> <<>>] /\ lost = "none"
    /\ table = [p \in Pids |-> Gone] /\ child = 0 /\ known = {} /\ abandoned = 0
    /\ hits = {} /\ calls = 0 /\ starts = 0

-----------------------------------------------------------------------------
(* Arrays of strings *)

\* Faulty variant: the NULL is taken for a string.
Strings_WithNull(a) ==
    LET cells == arr[a].cells
        Ends  == {i \in DOMAIN cells : cells[i] = Null}
    IN  IF Ends = {} THEN cells
        ELSE SubSeq(cells, 1, CHOOSE e \in Ends : \A i \in Ends : e <= i)

\* What a reader of the array finds: the cells before the first NULL.
Strings(a) ==
    LET cells == arr[a].cells
        Ends  == {i \in DOMAIN cells : cells[i] = Null}
    IN  IF Ends = {} THEN cells
        ELSE SubSeq(cells, 1, (CHOOSE e \in Ends : \A i \in Ends : e <= i) - 1)

\* free_string_array() frees what it finds and then the array; free_string_array(NULL)
\* does nothing.
Frees(a) ==
    IF arr[a] = NoArray THEN {}
    ELSE {Block(a, Strings(a)[i]) : i \in DOMAIN Strings(a)} \union {Block(a, 0)}

\* Faulty variant: no room is left for the terminating NULL.
Grown_NoRoomForNull(x) == IF x.length >= x.size THEN 2 * x.size ELSE x.size

\* The number of elements after room was made for one more and the NULL.
Grown(x) == IF x.length + 2 >= x.size THEN 2 * x.size ELSE x.size

\* cells after realloc() to n elements
Resized(cells, n) == [i \in 1 .. n |-> IF i <= Len(cells) THEN cells[i] ELSE Junk]

\* The string s is stored behind the last one, and a NULL behind it, as far as
\* there are cells; size is what *pSize says, whatever the array really has.
Stored(x, s, cells, size) ==
    [cells  |-> [i \in DOMAIN cells |->
                    IF i = x.length + 1 THEN s ELSE IF i = x.length + 2 THEN Null ELSE cells[i]],
     length |-> x.length + 1, size |-> size]

\* Faulty variant: the elements are taken from the end of the JavaScript array.
NextItem_Backwards(a) == todo[a]

\* The next item of array a: items are numbered in the order they are passed.
NextItem(a) == given[a] - todo[a] + 1

AddString(a) ==
    LET x == arr[a]
        size  == Grown(x)
        cells == IF size = x.size THEN x.cells ELSE Resized(x.cells, size)
    IN  /\ arr' = [arr EXCEPT ![a] = Stored(x, NextItem(a), cells, size)]
        /\ overflow' = (overflow \/ x.length + 2 > Len(cells))
        /\ live' = live \union {Block(a, NextItem(a))}

\* realloc() fails: the copy is freed, and stored nevertheless, and *pSize counts
\* elements the array has not got.
AddStringUnresized(a) ==
    LET x == arr[a]
    IN  /\ Grown(x) # x.size
        /\ arr' = [arr EXCEPT ![a] = Stored(x, NextItem(a), x.cells, Grown(x))]
        /\ overflow' = (overflow \/ x.length + 2 > Len(x.cells))
        /\ UNCHANGED live

-----------------------------------------------------------------------------
(* execProcess() *)

\* The call is over; blocks leaves those it did not free, by the way out given.
Leave(blocks, way) ==
    /\ pc' = "idle" /\ live' = {}
    /\ lost' = IF blocks = {} THEN "none" ELSE way
    /\ arr' = [a \in Arrays |-> NoArray] /\ todo' = [a \in Arrays |-> 0]
    /\ child' = 0

\* free() of some blocks on the way out.
Release(blocks, way) ==
    /\ wrongFree' = (wrongFree \/ ~(blocks \subseteq live))
    /\ Leave(live \ blocks, way)

Call ==
    /\ pc = "idle" /\ calls < MaxCalls
    /\ \E n, m \in 0 .. MaxItems :
        /\ given' = [a \in Arrays |-> IF a = "args" THEN n + 1 ELSE m]
        /\ todo' = given'
    /\ calls' = calls + 1
    /\ damaged' = FALSE /\ wrongFree' = FALSE /\ overflow' = FALSE /\ lost' = "none"
    /\ seen' = [a \in Arrays |-> <<>>]
    /\ pc' = "calloc_args"
    /\ UNCHANGED <<arr, live, table_vars, child, abandoned>>

\* Where calloc() is called for array a.
Wanted(a) == IF a = "args" THEN "calloc_args" ELSE "calloc_env"

NewArray(a) ==
    /\ pc = Wanted(a)
    /\ arr' = [arr EXCEPT ![a] = [cells |-> [i \in 1 .. InitSize |-> Null], length |-> 0, size |-> InitSize]]
    /\ live' = live \union {Block(a, 0)}
    /\ pc' = a
    /\ UNCHANGED <<todo, wrongFree, overflow, damaged, given, seen, lost, table_vars, child,
                   abandoned, calls>>

\* What is freed when the array a cannot be made: for the environment, the arguments.
FreedFor(a) == IF a = "env" THEN Frees("args") ELSE {}

NoArrayForWant(a) ==
    /\ pc = Wanted(a)
    /\ Release(FreedFor(a), "calloc")
    /\ UNCHANGED <<overflow, damaged, given, seen, table_vars, abandoned, calls>>

CopyItem(a) ==
    /\ pc = a /\ todo[a] > 0
    /\ todo' = [todo EXCEPT ![a] = @ - 1]
    /\ \/ AddString(a) /\ UNCHANGED damaged
       \/ AddStringUnresized(a) /\ damaged' = TRUE
    /\ UNCHANGED <<pc, wrongFree, given, seen, lost, table_vars, child, abandoned, calls>>

\* strdup() fails: the array a itself is not freed.
CopyFails(a) ==
    /\ pc = a /\ todo[a] > 0
    /\ Release(FreedFor(a), "strdup")
    /\ UNCHANGED <<overflow, damaged, given, seen, table_vars, abandoned, calls>>

\* Getting an item from JavaScript runs code of the script (a getter, toString()),
\* which may throw: the error goes straight to the caller.
ItemThrows(a) ==
    /\ pc = a /\ todo[a] > 0 /\ (a = "args" => NextItem(a) > 1)
    /\ Leave(live, "item")
    /\ UNCHANGED <<wrongFree, overflow, damaged, given, seen, table_vars, abandoned, calls>>

Copied(a) ==
    /\ pc = a /\ todo[a] = 0
    /\ pc' = IF a = "args" THEN "calloc_env" ELSE "fork"
    /\ UNCHANGED <<array_vars, damaged, given, seen, lost, table_vars, child, abandoned, calls>>

\* The child is forked, with copies of both arrays, and the two buffers exist.
Fork ==
    /\ pc = "fork" /\ starts < MaxStarts
    /\ \E p \in Pids :
        /\ table[p] = Gone
        /\ table' = [table EXCEPT ![p] = [state |-> "running", gen |-> starts + 1]]
        /\ child' = p
    /\ starts' = starts + 1
    /\ seen' = [a \in Arrays |-> Strings(a)]
    /\ live' = live \union Buffers
    /\ pc' = "wait"
    /\ UNCHANGED <<arr, todo, wrongFree, overflow, damaged, given, lost, known, hits, abandoned, calls>>

\* calloc(), pipe() or fork() fails; both arrays are freed.
ForkFails ==
    /\ pc = "fork"
    /\ Release(Frees("env") \union Frees("args"), "fork")
    /\ UNCHANGED <<overflow, damaged, given, seen, table_vars, abandoned, calls>>

\* Faulty variant: the child's end is noticed, and its entry in the table stays.
Reap_NotAtAll ==
    /\ pc = "wait" /\ table[child].state = "zombie"
    /\ known' = known \union {[pid |-> child, gen |-> table[child].gen]}
    /\ child' = 0
    /\ pc' = "result"
    /\ UNCHANGED <<array_vars, damaged, given, seen, lost, table, hits, starts, abandoned, calls>>

\* Both streams ended and waitpid() gives the child's status.
Reap ==
    /\ pc = "wait" /\ table[child].state = "zombie"
    /\ known' = known \union {[pid |-> child, gen |-> table[child].gen]}
    /\ table' = [table EXCEPT ![child] = Gone]
    /\ child' = 0
    /\ pc' = "result"
    /\ UNCHANGED <<array_vars, damaged, given, seen, lost, hits, starts, abandoned, calls>>

\* select(), read() or waitpid(), which is not repeated after a signal, fails: the
\* call fails and nobody will wait for the child.
WaitFails ==
    /\ pc = "wait"
    /\ abandoned' = abandoned + 1
    /\ Release(Frees("env") \union Frees("args") \union Buffers, "wait")
    /\ UNCHANGED <<overflow, damaged, given, seen, table_vars, calls>>

\* The object with pid, status and output is returned.
Return ==
    /\ pc = "result"
    /\ Release(Frees("env") \union Frees("args") \union Buffers, "return")
    /\ UNCHANGED <<overflow, damaged, given, seen, table_vars, abandoned, calls>>

\* JavaScript has no memory for the object.
ResultThrows ==
    /\ pc = "result"
    /\ Leave(live, "result")
    /\ UNCHANGED <<wrongFree, overflow, damaged, given, seen, table_vars, abandoned, calls>>

-----------------------------------------------------------------------------
(* sendSignal(), for an identifier execProcess() returned.  Without a process  *)
(* of that identifier kill() fails, and the script gets an error.              *)

\* A signal may end a process; its parent decides when the entry goes.
Killed(entry) ==
    CASE entry.state = "running" -> [entry EXCEPT !.state = "zombie"]
      [] entry.state = "zombie"  -> entry
      [] OTHER                   -> Gone

SendSignal ==
    /\ pc = "idle"
    /\ \E r \in known :
        /\ table[r.pid] # Gone
        /\ hits' = hits \union {[meant |-> r.gen, hit |-> table[r.pid].gen]}
        /\ table' \in {table, [table EXCEPT ![r.pid] = Killed(@)]}
    /\ UNCHANGED <<pc, array_vars, damaged, given, seen, lost, known, starts, child, abandoned, calls>>

-----------------------------------------------------------------------------
(* The kernel and other processes *)

Exits(p) ==
    /\ table[p].state = "running"
    /\ table' = [table EXCEPT ![p].state = "zombie"]
    /\ UNCHANGED <<known, hits, starts>>

OtherStarts(p) ==
    /\ table[p] = Gone /\ starts < MaxStarts
    /\ table' = [table EXCEPT ![p] = [state |-> "other", gen |-> starts + 1]]
    /\ starts' = starts + 1
    /\ UNCHANGED <<known, hits>>

OtherEnds(p) ==
    /\ table[p].state = "other"
    /\ table' = [table EXCEPT ![p] = Gone]
    /\ UNCHANGED <<known, hits, starts>>

Kernel ==
    /\ \E p \in Pids : Exits(p) \/ OtherStarts(p) \/ OtherEnds(p)
    /\ UNCHANGED <<pc, array_vars, damaged, given, seen, lost, child, abandoned, calls>>

Next ==
    \/ Call \/ Fork \/ ForkFails \/ Reap \/ WaitFails \/ Return \/ ResultThrows \/ SendSignal
    \/ \E a \in Arrays :
        NewArray(a) \/ NoArrayForWant(a) \/ CopyItem(a) \/ CopyFails(a) \/ ItemThrows(a) \/ Copied(a)
    \/ Kernel

Spec == Init /\ [][Next]_vars

-----------------------------------------------------------------------------
(* Properties *)

TypeOK ==
    /\ pc \in PCs /\ child \in Pids \union {0}
    /\ todo \in [Arrays -> 0 .. MaxItems + 1] /\ given \in [Arrays -> 0 .. MaxItems + 1]
    /\ \A a \in Arrays :
        /\ arr[a].length \in 0 .. MaxItems + 1 /\ arr[a].size \in Nat
        /\ arr[a].cells \in Seq(0 .. Junk) /\ seen[a] \in Seq(1 .. Junk)
    /\ live \subseteq (Arrays \X (0 .. MaxItems + 1)) \union Buffers
    /\ lost \in {"none", "calloc", "strdup", "item", "fork", "wait", "return", "result"}
    /\ table \in [Pids -> Processes]
    /\ known \subseteq [pid : Pids, gen : 1 .. MaxStarts]
    /\ abandoned \in 0 .. MaxCalls /\ calls \in 0 .. MaxCalls /\ starts \in 0 .. MaxStarts
    /\ wrongFree \in BOOLEAN /\ overflow \in BOOLEAN /\ damaged \in BOOLEAN

\* The child is started with the file name and all arguments, and with all variables,
\* each once and in the order of the script, whatever sizes the arrays went
\* through; realloc() not having failed.
ArgumentsExact ==
    pc \in {"wait", "result"} /\ ~damaged => \A a \in Arrays : seen[a] = [i \in 1 .. given[a] |-> i]

\* As long as realloc() works no array is written beyond its end, and on every way
\* out all that was allocated is freed once: only a copy that fails, and errors
\* JavaScript throws on its own, leave blocks behind.
MemorySound ==
    ~damaged => ~overflow /\ ~wrongFree /\ lost \in {"none", "strdup", "item", "result"}

\* Children that nobody waited for, running or zombies, are exactly those of the calls
\* that failed after the fork: no other call leaves a process behind, and these
\* keep their entries in the process table as long as JSE runs.
ChildrenLedger ==
    abandoned = Cardinality({p \in Pids \ {child} : table[p].state \in {"running", "zombie"}})

\* A signal to the pid of a result never reaches the process of that result: it was
\* reaped before the script got the pid, and who has the pid now is someone else.
SignalTooLate == \A h \in hits : h.meant # h.hit

=============================================================================
