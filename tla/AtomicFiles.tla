----------------------------- MODULE AtomicFiles -----------------------------
(***************************************************************************)
(* What writeAsFile(), readFileAsString() and removeFile() promise to      *)
(* processes that share a directory: a file changes in one step, from one  *)
(* complete text to another, a call that fails changes nothing, and a read *)
(* returns what the file held when the read started.  The promise ends     *)
(* where writeAsFile() is called from the toString() of a value that is    *)
(* being written: what these calls write is undefined.                     *)
(***************************************************************************)
EXTENDS Naturals

CONSTANTS
    Procs,      \* processes
    Calls,      \* <<process, calls of the process that are in progress around it>>
    Files,      \* names in the directory
    Texts,      \* what scripts write
    Contents,   \* what a file may hold at all
    Absent,     \* no such file
    Undefined   \* anything

VARIABLES
    value,      \* value[f]: what file f holds
    call        \* call[c]: what call c is doing

vars == <<value, call>>

Idle == [op |-> "idle"]
Converting(f, entered) == [op |-> "convert", file |-> f, entered |-> entered]
Writing(f, t) == [op |-> "write", file |-> f, text |-> t]
Reading(t) == [op |-> "read", text |-> t]
Returned(t) == [op |-> "done", text |-> t]

Init ==
    /\ value = [f \in Files |-> Absent]
    /\ call = [c \in Calls |-> Idle]

\* A call from within a toString() enters those of the same process that wait for it.
BeginWrite(c, f) ==
    /\ call[c] = Idle
    /\ call' = [d \in Calls |->
                  IF d = c THEN Converting(f, c[2] > 0)
                  ELSE IF c[2] > 0 /\ d[1] = c[1] /\ call[d].op = "convert"
                  THEN Converting(call[d].file, TRUE)
                  ELSE call[d]]
    /\ UNCHANGED value

\* The value is text.
Decide(c, t) ==
    /\ call[c].op = "convert"
    /\ call' = [call EXCEPT ![c] = Writing(@.file, IF @.entered THEN Undefined ELSE t)]
    /\ UNCHANGED value

Commit(c) ==
    /\ call[c].op = "write"
    /\ value' = [value EXCEPT ![call[c].file] = call[c].text]
    /\ call' = [call EXCEPT ![c] = Idle]

\* The call throws, or the script has what was read.
Done(c) ==
    /\ call[c].op \in {"write", "read", "done"}
    /\ call' = [call EXCEPT ![c] = Idle]
    /\ UNCHANGED value

\* A process dies, in the middle of its calls.
Die(p) ==
    /\ call' = [c \in Calls |-> IF c[1] = p THEN Idle ELSE call[c]]
    /\ UNCHANGED value

Remove(f) ==
    /\ value[f] # Absent
    /\ value' = [value EXCEPT ![f] = Absent]
    /\ UNCHANGED call

BeginRead(c, f) ==
    /\ call[c] = Idle /\ value[f] # Absent
    /\ call' = [call EXCEPT ![c] = Reading(value[f])]
    /\ UNCHANGED value

Return(c) ==
    /\ call[c].op = "read"
    /\ \E t \in IF call[c].text = Undefined THEN Contents ELSE {call[c].text} :
         call' = [call EXCEPT ![c] = Returned(t)]
    /\ UNCHANGED value

Next ==
    \/ \E c \in Calls :
        \/ Commit(c) \/ Done(c) \/ Return(c)
        \/ \E f \in Files : BeginWrite(c, f) \/ BeginRead(c, f)
        \/ \E t \in Texts : Decide(c, t)
    \/ \E f \in Files : Remove(f)
    \/ \E p \in Procs : Die(p)

Spec == Init /\ [][Next]_vars
=============================================================================
