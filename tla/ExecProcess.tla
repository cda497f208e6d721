---------------------------- MODULE ExecProcess ----------------------------
(***************************************************************************)
(* execProcess() of jse_jsprocess.c: JSE forks a child whose stdout and    *)
(* stderr are two pipes, reads both pipes until end of file with select()  *)
(* and jse_read_fd_once(), then waits for the child and returns what it    *)
(* captured.  Three processes run side by side: JSE, the child and a       *)
(* daemon the child may leave behind with the write ends it inherited.     *)
(* Bytes are counted, never represented.                                   *)
(***************************************************************************)
EXTENDS Naturals, FiniteSets

CONSTANTS
    PipeCapacity,   \* bytes a pipe of the kernel holds before write() blocks
    InitialSize,    \* outlen and errlen as allocated (4096 in the code)
    MaxStdio,       \* bytes JSE's own stdio buffer may hold unflushed
    FdLimit,        \* descriptors JSE may have open for pipes (RLIMIT_NOFILE)
    MaxOutput,      \* bound: bytes a child wants to write to one stream
    MaxCalls        \* bound: calls of execProcess()

ASSUME CapacityAssumption == PipeCapacity \in Nat \ {0}
ASSUME SizeAssumption     == InitialSize \in Nat \ {0}
ASSUME StdioAssumption    == MaxStdio \in Nat /\ MaxStdio <= PipeCapacity
ASSUME BoundAssumption    == FdLimit \in Nat /\ MaxOutput \in Nat /\ MaxCalls \in Nat

Streams  == {"out", "err"}
Children == {"child", "daemon"}
Procs    == {"jse"} \union Children

VARIABLES
    pc,        \* where JSE is in fork_exec_read_and_wait()
    fd,        \* fd[s]: outfd, errfd are not -1; until fork(), outfds, errfds are open
    ready,     \* rfds as select() left it
    off,       \* outoff, erroff
    size,      \* *pOutlen, *pErrlen
    pipe,      \* pipe[s]: bytes in the kernel's buffer
    holds,     \* holds[p]: streams whose write end process p has open
    life,      \* life[p]: what a forked process is doing
    todo,      \* todo[p][s]: bytes process p still means to write to s
    code,      \* exit status of the child
    stdio,     \* bytes print() left in JSE's stdio buffer
    opened,    \* descriptors of pipes open in JSE
    calls,     \* calls made
    result,    \* what the last call returned
    written,   \* history: bytes put in the pipe of s in this call
    foreign,   \* history: those that were JSE's stdio buffer, not the program's
    lost       \* history: descriptors forgotten without close()

parent  == <<pc, fd, ready, off, size, opened, calls, result, lost>>
world   == <<pipe, holds, life, todo, code, stdio, written, foreign>>
vars    == <<pc, fd, ready, off, size, opened, calls, result, lost,
             pipe, holds, life, todo, code, stdio, written, foreign>>

PCs     == {"idle", "fork", "parent", "select", "out", "err", "check", "wait", "fail"}
Lives   == {"none", "forked", "run", "exited", "killed"}
Dead    == {"exited", "killed"}
Codes   == {0, 1}                       \* EXIT_SUCCESS and any failure

Failure == [ok |-> FALSE, len |-> [s \in Streams |-> 0], status |-> 0]

AllStreams(v) == [s \in Streams |-> v]
Before(s)     == IF s = "out" THEN {} ELSE {"out"}
Writers(s)    == {p \in Procs : s \in holds[p]}
OpenFds       == {s \in Streams : fd[s]}

Readable(s)   == pipe[s] > 0 \/ Writers(s) = {}

Init ==
    /\ pc = "idle" /\ fd = AllStreams(FALSE) /\ ready = {}
    /\ off = AllStreams(0) /\ size = AllStreams(0)
    /\ pipe = AllStreams(0) /\ holds = [p \in Procs |-> {}]
    /\ life = [p \in Children |-> "none"]
    /\ todo = [p \in Children |-> AllStreams(0)]
    /\ code = 0 /\ stdio = 0 /\ opened = 0 /\ calls = 0
    /\ result = Failure
    /\ written = AllStreams(0) /\ foreign = 0 /\ lost = 0

-----------------------------------------------------------------------------
(* JSE: fork_exec_read_and_wait() and fork_and_exec() *)

\* A script prints outside of HTTP mode: fwrite() fills the stdio buffer.
DoPrint ==
    /\ pc = "idle" /\ stdio < MaxStdio
    /\ stdio' = stdio + 1
    /\ UNCHANGED parent
    /\ UNCHANGED <<pipe, holds, life, todo, code, written, foreign>>

Call ==
    /\ pc = "idle" /\ calls < MaxCalls
    /\ calls' = calls + 1
    /\ pc' = "fork"
    /\ off' = AllStreams(0) /\ size' = AllStreams(InitialSize)
    /\ UNCHANGED <<fd, ready, opened, result, lost>> /\ UNCHANGED world

\* pipe(), for stdout and then for stderr: both ends are JSE's.
Pipe(s) ==
    /\ pc = "fork" /\ OpenFds = Before(s) /\ opened + 2 <= FdLimit
    /\ opened' = opened + 2
    /\ fd' = [fd EXCEPT ![s] = TRUE]
    /\ holds' = [holds EXCEPT !["jse"] = @ \union {s}]
    /\ UNCHANGED <<pc, ready, off, size, calls, result, lost>>
    /\ UNCHANGED <<pipe, life, todo, code, stdio, written, foreign>>

\* The call fails with so many descriptors closed; the arrays of fork_and_exec() that
\* named them are gone.
Abandon(closed) ==
    /\ opened' = opened - closed
    /\ fd' = AllStreams(FALSE)
    /\ holds' = [holds EXCEPT !["jse"] = {}]
    /\ off' = AllStreams(0) /\ size' = AllStreams(0)
    /\ result' = Failure
    /\ pc' = "idle"
    /\ UNCHANGED <<ready, calls, lost>>
    /\ UNCHANGED <<pipe, life, todo, code, stdio, written, foreign>>

\* calloc() or the first pipe() fails.
StartFails == pc = "fork" /\ OpenFds = {} /\ Abandon(0)

\* Faulty variant: the first pipe is not closed when the second one fails.
PipeFails_KeepsFirst == pc = "fork" /\ OpenFds = {"out"} /\ Abandon(0)

\* The second pipe() fails: the first one is closed again.
PipeFails == pc = "fork" /\ OpenFds = {"out"} /\ Abandon(2)

\* fork() fails: both pipes are closed again.
ForkFails == pc = "fork" /\ OpenFds = Streams /\ Abandon(4)

Fork ==
    /\ pc = "fork" /\ OpenFds = Streams
    /\ pipe' = AllStreams(0) /\ written' = AllStreams(0) /\ foreign' = 0
    /\ holds' = [holds EXCEPT !["child"] = Streams, !["daemon"] = {}]
    /\ life' = [p \in Children |-> IF p = "child" THEN "forked" ELSE "none"]
    /\ todo' = [p \in Children |-> AllStreams(0)]
    /\ code' = 0
    /\ pc' = "parent"
    /\ UNCHANGED <<fd, ready, off, size, opened, stdio, calls, result, lost>>

\* Faulty variant: JSE keeps the write ends, so no pipe ever ends.
CloseWriteEnds_Forgotten ==
    /\ pc = "parent"
    /\ pc' = "select"
    /\ UNCHANGED <<fd, ready, off, size, opened, calls, result, lost>>
    /\ UNCHANGED world

CloseWriteEnds ==
    /\ pc = "parent"
    /\ holds' = [holds EXCEPT !["jse"] = {}]
    /\ opened' = opened - 2
    /\ pc' = "select"
    /\ UNCHANGED <<fd, ready, off, size, calls, result, lost>>
    /\ UNCHANGED <<pipe, life, todo, code, stdio, written, foreign>>

-----------------------------------------------------------------------------
(* JSE: the loop of read_and_wait() *)

Select ==
    /\ pc = "select"
    /\ \E s \in OpenFds : Readable(s)
    /\ ready' = {s \in OpenFds : Readable(s)}
    /\ pc' = "out"
    /\ UNCHANGED <<fd, off, size, opened, calls, result, lost>> /\ UNCHANGED world

SelectFails ==
    /\ pc = "select"
    /\ pc' = "fail"
    /\ UNCHANGED <<fd, ready, off, size, opened, calls, result, lost>>
    /\ UNCHANGED world

\* stdout is looked at first, then stderr, then the end-of-file test.
AfterStream(s) == IF s = "out" THEN "err" ELSE "check"

ToRead(s) == fd[s] /\ s \in ready

Skip(s) ==
    /\ pc = s /\ ~ToRead(s)
    /\ pc' = AfterStream(s)
    /\ UNCHANGED <<fd, ready, off, size, opened, calls, result, lost>>
    /\ UNCHANGED world

\* What one read() may return: at most the room behind the offset.
Chunks(s) == {n \in 1 .. pipe[s] : n <= size[s] - off[s]}

\* Faulty variant: the offset is not moved by the read that fills the buffer.
ReadData_LostOffset(s) ==
    /\ pc = s /\ ToRead(s)
    /\ \E n \in Chunks(s) :
        /\ pipe' = [pipe EXCEPT ![s] = @ - n]
        /\ off' = [off EXCEPT ![s] = IF @ + n = size[s] THEN @ ELSE @ + n]
        /\ size' = [size EXCEPT ![s] = IF off[s] + n = @ THEN 2 * @ ELSE @]
    /\ pc' = AfterStream(s)
    /\ UNCHANGED <<fd, ready, opened, calls, result, lost>>
    /\ UNCHANGED <<holds, life, todo, code, stdio, written, foreign>>

\* jse_read_fd_once() got data; a buffer that became full is doubled at once.
ReadData(s) ==
    /\ pc = s /\ ToRead(s)
    /\ \E n \in Chunks(s) :
        /\ pipe' = [pipe EXCEPT ![s] = @ - n]
        /\ off' = [off EXCEPT ![s] = @ + n]
        /\ size' = [size EXCEPT ![s] = IF off[s] + n = @ THEN 2 * @ ELSE @]
    /\ pc' = AfterStream(s)
    /\ UNCHANGED <<fd, ready, opened, calls, result, lost>>
    /\ UNCHANGED <<holds, life, todo, code, stdio, written, foreign>>

\* End of file: the buffer is cut to its contents and the descriptor variable
\* set to -1.  Nothing closes the descriptor.
ReadEof(s) ==
    /\ pc = s /\ ToRead(s)
    /\ pipe[s] = 0 /\ Writers(s) = {}
    /\ size' = [size EXCEPT ![s] = off[s]]
    /\ fd' = [fd EXCEPT ![s] = FALSE]
    /\ lost' = lost + 1
    /\ pc' = AfterStream(s)
    /\ UNCHANGED <<ready, off, opened, calls, result>> /\ UNCHANGED world

\* read() fails or the buffer cannot be resized.  In the second case the bytes
\* have left the pipe and the offset stays where it was.
ReadFails(s) ==
    /\ pc = s /\ ToRead(s)
    /\ \E n \in {0} \union {m \in Chunks(s) : off[s] + m = size[s]} :
        pipe' = [pipe EXCEPT ![s] = @ - n]
    /\ pc' = "fail"
    /\ UNCHANGED <<fd, ready, off, size, opened, calls, result, lost>>
    /\ UNCHANGED <<holds, life, todo, code, stdio, written, foreign>>

\* Faulty variants: JSE waits as soon as one stream ended, or as soon as the
\* process has, whatever the pipes still hold.
CheckEof_Either ==
    /\ pc = "check"
    /\ pc' = IF OpenFds # Streams THEN "wait" ELSE "select"
    /\ ready' = {}
    /\ UNCHANGED <<fd, off, size, opened, calls, result, lost>>
    /\ UNCHANGED world

CheckEof_OnExit ==
    /\ pc = "check"
    /\ pc' = IF OpenFds = {} \/ life["child"] \in Dead THEN "wait" ELSE "select"
    /\ ready' = {}
    /\ UNCHANGED <<fd, off, size, opened, calls, result, lost>>
    /\ UNCHANGED world

\* Only when both descriptors are -1 does JSE wait for the process; a new round
\* starts from an empty descriptor set.
CheckEof ==
    /\ pc = "check"
    /\ pc' = IF OpenFds = {} THEN "wait" ELSE "select"
    /\ ready' = {}
    /\ UNCHANGED <<fd, off, size, opened, calls, result, lost>>
    /\ UNCHANGED world

\* Faulty variant: the raw wait status.
WExitStatus_Raw == IF life["child"] = "exited" THEN 256 * code ELSE 9

\* WEXITSTATUS() of a process ended by a signal is 0.
WExitStatus == IF life["child"] = "exited" THEN code ELSE 0

Wait ==
    /\ pc = "wait" /\ life["child"] \in Dead
    /\ result' = [ok |-> TRUE, len |-> size, status |-> WExitStatus]
    /\ life' = [life EXCEPT !["child"] = "none"]
    /\ off' = AllStreams(0) /\ size' = AllStreams(0)
    /\ pc' = "idle"
    /\ UNCHANGED <<fd, ready, opened, calls, lost>>
    /\ UNCHANGED <<pipe, holds, todo, code, stdio, written, foreign>>

\* waitpid() fails: it is not repeated after EINTR.
WaitFails ==
    /\ pc = "wait"
    /\ pc' = "fail"
    /\ UNCHANGED <<fd, ready, off, size, opened, calls, result, lost>>
    /\ UNCHANGED world

\* The way out after an error: the descriptors that are not -1 are closed, the
\* buffers freed.  Nobody waits for the child; what it and the daemon do from
\* here on is invisible to JSE, so they leave the model.
GiveUp ==
    /\ pc = "fail"
    /\ opened' = opened - Cardinality(OpenFds)
    /\ fd' = AllStreams(FALSE)
    /\ holds' = [p \in Procs |-> {}]
    /\ life' = [p \in Children |-> "none"]
    /\ pipe' = AllStreams(0) /\ written' = AllStreams(0) /\ foreign' = 0
    /\ todo' = [p \in Children |-> AllStreams(0)] /\ code' = 0
    /\ off' = AllStreams(0) /\ size' = AllStreams(0) /\ ready' = {}
    /\ result' = Failure
    /\ pc' = "idle"
    /\ UNCHANGED <<stdio, calls, lost>>

-----------------------------------------------------------------------------
(* The child and the daemon *)

\* execve() works; the program means to write some amount to each stream.
ChildExec ==
    /\ life["child"] = "forked"
    /\ \E amount \in [Streams -> 0 .. MaxOutput] :
        todo' = [todo EXCEPT !["child"] = amount]
    /\ life' = [life EXCEPT !["child"] = "run"]
    /\ UNCHANGED parent /\ UNCHANGED <<pipe, holds, code, stdio, written, foreign>>

\* dup2() of stderr or execve() fails and the child calls exit(), which flushes
\* the stdio buffer it inherited from JSE into its new stdout.
ChildExecFails ==
    /\ life["child"] = "forked"
    /\ pipe' = [pipe EXCEPT !["out"] = @ + stdio]
    /\ written' = [written EXCEPT !["out"] = @ + stdio]
    /\ foreign' = stdio
    /\ code' = 1
    /\ life' = [life EXCEPT !["child"] = "exited"]
    /\ holds' = [holds EXCEPT !["child"] = {}]
    /\ UNCHANGED parent /\ UNCHANGED <<todo, stdio>>

\* dup2() of stdout fails: exit() flushes to JSE's own stdout, not to the pipe.
ChildDupFails ==
    /\ life["child"] = "forked"
    /\ code' = 1
    /\ life' = [life EXCEPT !["child"] = "exited"]
    /\ holds' = [holds EXCEPT !["child"] = {}]
    /\ UNCHANGED parent /\ UNCHANGED <<pipe, todo, stdio, written, foreign>>

Write(p) ==
    /\ life[p] = "run"
    /\ \E s \in holds[p] :
        /\ todo[p][s] > 0 /\ pipe[s] < PipeCapacity
        /\ pipe' = [pipe EXCEPT ![s] = @ + 1]
        /\ written' = [written EXCEPT ![s] = @ + 1]
        /\ todo' = [todo EXCEPT ![p][s] = @ - 1]
    /\ UNCHANGED parent /\ UNCHANGED <<holds, life, code, stdio, foreign>>

\* The program closes a stream it is done with and keeps running.
CloseStream(p) ==
    /\ life[p] = "run"
    /\ \E s \in holds[p] : todo[p][s] = 0 /\ holds' = [holds EXCEPT ![p] = @ \ {s}]
    /\ UNCHANGED parent /\ UNCHANGED <<pipe, life, todo, code, stdio, written, foreign>>

\* The child forks: the process it leaves behind has some of its streams and
\* means to write there what the child still means to write.
SpawnDaemon ==
    /\ life["child"] = "run" /\ life["daemon"] = "none"
    /\ \E kept \in SUBSET holds["child"] :
        /\ holds' = [holds EXCEPT !["daemon"] = kept]
        /\ todo' = [todo EXCEPT !["daemon"] = [s \in Streams |-> IF s \in kept THEN todo["child"][s] ELSE 0]]
    /\ life' = [life EXCEPT !["daemon"] = "run"]
    /\ UNCHANGED parent /\ UNCHANGED <<pipe, code, stdio, written, foreign>>

\* A program ends when all it meant to write is written.
Exit(p) ==
    /\ life[p] = "run"
    /\ \A s \in holds[p] : todo[p][s] = 0
    /\ life' = [life EXCEPT ![p] = "exited"]
    /\ holds' = [holds EXCEPT ![p] = {}]
    /\ code' \in IF p = "child" THEN Codes ELSE {code}
    /\ UNCHANGED parent /\ UNCHANGED <<pipe, todo, stdio, written, foreign>>

Killed(p) ==
    /\ life[p] \in {"forked", "run"}
    /\ life' = [life EXCEPT ![p] = "killed"]
    /\ holds' = [holds EXCEPT ![p] = {}]
    /\ todo' = [todo EXCEPT ![p] = AllStreams(0)]
    /\ UNCHANGED parent /\ UNCHANGED <<pipe, code, stdio, written, foreign>>

-----------------------------------------------------------------------------
\* What JSE does when the system calls in the loop succeed.
Proceed ==
    \/ StartFails \/ PipeFails \/ ForkFails \/ Fork \/ CloseWriteEnds \/ Select
    \/ \E s \in Streams : Pipe(s) \/ Skip(s) \/ ReadData(s) \/ ReadEof(s)
    \/ CheckEof \/ Wait \/ GiveUp

Program(p) == Write(p) \/ Exit(p)

Next ==
    \/ DoPrint \/ Call \/ Proceed
    \/ SelectFails \/ WaitFails \/ \E s \in Streams : ReadFails(s)
    \/ ChildExec \/ ChildExecFails \/ ChildDupFails \/ SpawnDaemon
    \/ \E p \in Children : Program(p) \/ CloseStream(p) \/ Killed(p)

Spec == Init /\ [][Next]_vars

-----------------------------------------------------------------------------
(* Invariants *)

TypeOK ==
    /\ pc \in PCs
    /\ fd \in [Streams -> BOOLEAN] /\ ready \in SUBSET Streams
    /\ off \in [Streams -> Nat] /\ size \in [Streams -> Nat]
    /\ pipe \in [Streams -> Nat] /\ written \in [Streams -> Nat]
    /\ holds \in [Procs -> SUBSET Streams]
    /\ life \in [Children -> Lives]
    /\ todo \in [Children -> [Streams -> Nat]]
    /\ code \in Codes /\ stdio \in 0 .. MaxStdio /\ foreign \in 0 .. MaxStdio
    /\ opened \in Nat /\ calls \in Nat /\ lost \in Nat
    /\ result \in [ok : BOOLEAN, len : [Streams -> Nat], status : Codes]

Running == pc \notin {"idle", "fork"}

\* No byte is lost or invented between a program's write() and the buffer: what
\* was written is in the buffer or still in the pipe, as long as no read failed.
Conserved ==
    pc \notin {"idle", "fork", "fail"} => \A s \in Streams : off[s] + pipe[s] = written[s]

\* The buffer of an open stream always has room, so that read() is never asked
\* for zero bytes and a return of 0 can only mean end of file.
RoomToRead ==
    Running => \A s \in OpenFds : off[s] < size[s]

\* Nothing that is written gets lost on its way to a buffer, nor does a buffer
\* that is full pass for the end of the stream.
OutputKept == Conserved /\ RoomToRead

\* A stream select() reported stays readable until it is read: the second read
\* of a round never blocks JSE while the child waits for the first pipe.
ReadNeverBlocks ==
    pc \in Streams => \A s \in OpenFds \cap ready :
                        (pc = s \/ AfterStream(pc) = s) => Readable(s)

\* waitpid() is called only when no one can write any more, so that JSE never
\* waits for a child that is itself blocked on a full pipe.
WaitOnlyAtEof ==
    pc = "wait" => \A s \in Streams : Writers(s) = {} /\ pipe[s] = 0

\* No system call of JSE outside of select() can block on what the child does
\* next: the two never wait for each other.
NeverBlocked == ReadNeverBlocks /\ WaitOnlyAtEof

\* A call that succeeds returns on each stream exactly as many bytes as were
\* ever written to it, by the child and by what the child left behind.
CompleteCapture ==
    pc = "idle" /\ result.ok => \A s \in Streams : result.len[s] = written[s]

\* Every pipe descriptor open in JSE is one a variable still names, a write end not closed
\* yet, or one of those forgotten at end of file; a call that fails leaves nothing else
\* behind, whether it is the second pipe(), fork() or a later step that fails.
FdLedger ==
    opened = lost + Cardinality(OpenFds) + Cardinality(holds["jse"])

-----------------------------------------------------------------------------
(* Fairness: the kernel schedules every runnable process.  JSE's loop has no  *)
(* step it could put off (and no error it may count on: a failing system call *)
(* is never forced), a started child reaches exec() or exit(), and a program  *)
(* that is not blocked writes what it means to write and ends.                *)

JseFair     == WF_vars(Proceed)
ChildFair   == /\ WF_vars(ChildExec \/ ChildExecFails \/ ChildDupFails)
               /\ WF_vars(Program("child"))
DaemonFair  == WF_vars(Program("daemon"))

\* Whatever the child leaves behind ends too.
LiveSpec == Spec /\ JseFair /\ ChildFair /\ DaemonFair

\* Every call returns: JSE, blocked in select() or waitpid(), and a child
\* blocked on a full pipe never wait for each other.
CallReturns == pc # "idle" ~> pc = "idle"

\* What GUIDE.md says of the result: "stdout" comprises the data written to
\* standard output, by the process that was run.
StdoutIsOfProgram == pc = "idle" /\ result.ok => foreign = 0
=============================================================================
