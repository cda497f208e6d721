------------------------- MODULE ExecProcessProofs -------------------------
(***************************************************************************)
(* What ExecProcess promises, proved for every capacity, buffer size,      *)
(* descriptor limit and amount of output.                                  *)
(***************************************************************************)
EXTENDS ExecProcess, FiniteSetTheorems, TLAPS

USE CapacityAssumption, SizeAssumption, StdioAssumption, BoundAssumption

\* A stream whose descriptor variable is -1 has ended: its pipe is empty and
\* has no writer, so that nothing can be added to it any more.
EofIsFinal ==
    Running => \A s \in Streams : ~fd[s] => pipe[s] = 0 /\ Writers(s) = {}

\* The buffer of a stream that has ended was cut to its contents.
CutToContents ==
    Running => \A s \in Streams : ~fd[s] => size[s] = off[s]

\* The child still to exec() has both streams: only then may it flush the stdio
\* buffer into a pipe.
ForkedHoldsAll == life["child"] = "forked" => holds["child"] = Streams

\* Before fork() no other process can write to a pipe.
IdleIsQuiet == pc \in {"idle", "fork"} => \A p \in Children : holds[p] = {}

\* Room for the first read, before there is a descriptor to read from.
FreshBuffers == pc = "fork" => \A s \in Streams : off[s] = 0 /\ size[s] = InitialSize

\* JSE has the write ends from pipe() until it closes them and none otherwise; it has no
\* read end outside of a call, nor when it waits for the child.
JseHolds ==
    /\ holds["jse"] = IF pc \in {"fork", "parent"} THEN OpenFds ELSE {}
    /\ pc \in {"idle", "wait"} => OpenFds = {}
    /\ pc = "fork" => OpenFds \in {{}, {"out"}, Streams}
    /\ pc = "parent" => OpenFds = Streams

\* The inductive invariant has three layers: the types, with the count of
\* descriptors that keeps the counter a natural number; what the other two
\* processes can still do to a pipe; and what JSE has captured.
Typed == TypeOK /\ FdLedger /\ JseHolds

Quiet == EofIsFinal /\ ForkedHoldsAll /\ IdleIsQuiet /\ ReadNeverBlocks

Captured == Conserved /\ RoomToRead /\ CutToContents /\ FreshBuffers /\ CompleteCapture

IInv == Typed /\ Quiet /\ Captured

-----------------------------------------------------------------------------
(* The two streams as a set. *)

\* Counting a set of streams, such as the open descriptors, is counting its two
\* possible members.
LEMMA StreamCount ==
    ASSUME NEW S \in SUBSET Streams
    PROVE  Cardinality(S) = (IF "out" \in S THEN 1 ELSE 0) + (IF "err" \in S THEN 1 ELSE 0)
<1>1. Cardinality({}) = 0
  BY FS_EmptySet
<1>2. Cardinality({"out"}) = 1 /\ Cardinality({"err"}) = 1
  BY FS_Singleton
<1>3. Cardinality({"out", "err"}) = 2
  <2>1. IsFiniteSet({"out"})
    BY FS_Singleton
  <2>2. Cardinality({"out"} \union {"err"}) = Cardinality({"out"}) + 1
    BY <2>1, FS_AddElement
  <2>3. {"out"} \union {"err"} = {"out", "err"}
    OBVIOUS
  <2> QED
    BY <1>2, <2>2, <2>3
<1>4. S \in {{}, {"out"}, {"err"}, {"out", "err"}}
  BY DEF Streams
<1> QED
  BY <1>1, <1>2, <1>3, <1>4

\* What FdLedger says, without cardinalities.
Count(S) == (IF "out" \in S THEN 1 ELSE 0) + (IF "err" \in S THEN 1 ELSE 0)

\* The two cardinalities of the ledger, as sums over the two streams.
LEMMA LedgerCount ==
    ASSUME TypeOK
    PROVE  /\ Cardinality(OpenFds) = Count(OpenFds)
           /\ Cardinality(holds["jse"]) = Count(holds["jse"])
BY StreamCount DEF TypeOK, OpenFds, Count, Procs

-----------------------------------------------------------------------------
(* Types *)

\* The types, the ledger and who holds write ends: at the start.
LEMMA InitTyped == Init => Typed
<1> SUFFICES ASSUME Init PROVE Typed
  OBVIOUS
<1>1. TypeOK
  BY DEF Init, TypeOK, PCs, AllStreams, Codes, Lives, Failure, Procs, Children
<1>2. JseHolds
  BY DEF Init, JseHolds, Procs, OpenFds, AllStreams
<1>3. FdLedger
  BY <1>1, LedgerCount DEF Init, FdLedger, OpenFds, AllStreams, Count, Procs
<1> QED
  BY <1>1, <1>2, <1>3 DEF Typed

\* The steps of JSE keep the types.
LEMMA JseTyped ==
    ASSUME Typed, Proceed \/ SelectFails \/ WaitFails \/ \E s \in Streams : ReadFails(s)
    PROVE  TypeOK'
<1> USE DEF Typed, TypeOK, AllStreams, PCs, Procs, Children
<1>1. CASE StartFails \/ PipeFails \/ ForkFails
  <2>1. opened - 0 \in Nat /\ (OpenFds = {"out"} => opened >= 2) /\ (OpenFds = Streams => opened >= 4)
    BY <1>1, LedgerCount DEF FdLedger, JseHolds, Count, Streams, StartFails, PipeFails, ForkFails
  <2> HIDE DEF OpenFds
  <2>2. CASE StartFails
    BY <2>2 DEF StartFails, Abandon, Failure, Lives, Codes
  <2>3. CASE PipeFails
    BY <2>1, <2>3 DEF PipeFails, Abandon, Failure, Lives, Codes
  <2>4. CASE ForkFails
    BY <2>1, <2>4 DEF ForkFails, Abandon, Failure, Lives, Codes
  <2> QED
    BY <1>1, <2>2, <2>3, <2>4
<1>2. CASE Fork
  BY <1>2 DEF Fork, Lives, Codes
<1>13. ASSUME NEW s \in Streams, Pipe(s) PROVE TypeOK'
  BY <1>13 DEF Pipe
<1>3. CASE CloseWriteEnds
  <2>1. opened >= 2
    BY <1>3, LedgerCount DEF CloseWriteEnds, FdLedger, JseHolds, Count, Streams
  <2> QED
    BY <1>3, <2>1 DEF CloseWriteEnds
<1>4. CASE Select
  BY <1>4 DEF Select, OpenFds, world
<1>5. CASE SelectFails \/ WaitFails
  BY <1>5 DEF SelectFails, WaitFails, world
<1>6. ASSUME NEW s \in Streams, Skip(s) PROVE TypeOK'
  BY <1>6 DEF Skip, AfterStream, world
<1>7. ASSUME NEW s \in Streams, ReadData(s) PROVE TypeOK'
  <2> PICK n \in Chunks(s) :
        /\ pipe' = [pipe EXCEPT ![s] = @ - n]
        /\ off' = [off EXCEPT ![s] = @ + n]
        /\ size' = [size EXCEPT ![s] = IF off[s] + n = @ THEN 2 * @ ELSE @]
    BY <1>7 DEF ReadData
  <2> QED
    BY <1>7 DEF ReadData, Chunks, AfterStream
<1>8. ASSUME NEW s \in Streams, ReadEof(s) PROVE TypeOK'
  BY <1>8 DEF ReadEof, AfterStream, world
<1>9. ASSUME NEW s \in Streams, ReadFails(s) PROVE TypeOK'
  <2> PICK n \in {0} \union {m \in Chunks(s) : off[s] + m = size[s]} :
        pipe' = [pipe EXCEPT ![s] = @ - n]
    BY <1>9 DEF ReadFails
  <2> n \in Nat /\ n <= pipe[s]
    BY DEF Chunks
  <2> QED
    BY <1>9 DEF ReadFails
<1>10. CASE CheckEof
  BY <1>10 DEF CheckEof, world
<1>11. CASE Wait
  BY <1>11 DEF Wait, WExitStatus, Codes, Lives
<1>12. CASE GiveUp
  <2>1. Cardinality(OpenFds) \in Nat /\ opened >= Cardinality(OpenFds)
    BY LedgerCount DEF FdLedger, Count
  <2> QED
    BY <1>12, <2>1 DEF GiveUp, Failure, Lives, Codes
<1> QED
  BY <1>1, <1>2, <1>3, <1>4, <1>5, <1>6, <1>7, <1>8, <1>9, <1>10, <1>11, <1>12, <1>13 DEF Proceed

\* The steps of the script between calls and of the other two processes do too.
Others ==
    \/ DoPrint \/ Call
    \/ ChildExec \/ ChildExecFails \/ ChildDupFails \/ SpawnDaemon
    \/ \E p \in Children : Program(p) \/ CloseStream(p) \/ Killed(p)

\* A step of a script between calls, of the child or of the daemon keeps the types.
LEMMA OthersTyped ==
    ASSUME Typed, Others \/ UNCHANGED vars
    PROVE  TypeOK'
<1> USE DEF Typed, TypeOK, AllStreams, PCs, Procs, Children
<1>1. CASE DoPrint
  BY <1>1 DEF DoPrint, parent
<1>2. CASE Call
  BY <1>2 DEF Call, world
<1>3. CASE ChildExec
  BY <1>3 DEF ChildExec, parent, Lives
<1>4. CASE ChildExecFails
  BY <1>4 DEF ChildExecFails, parent, Lives, Codes, Streams
<1>5. CASE ChildDupFails
  BY <1>5 DEF ChildDupFails, parent, Lives, Codes
<1>6. CASE SpawnDaemon
  BY <1>6 DEF SpawnDaemon, parent, Lives
<1>7. ASSUME NEW p \in Children, Write(p) PROVE TypeOK'
  <2> PICK s \in holds[p] :
        /\ todo[p][s] > 0
        /\ pipe' = [pipe EXCEPT ![s] = @ + 1]
        /\ written' = [written EXCEPT ![s] = @ + 1]
        /\ todo' = [todo EXCEPT ![p][s] = @ - 1]
    BY <1>7 DEF Write
  <2>1. s \in Streams
    OBVIOUS
  <2>2. todo' \in [Children -> [Streams -> Nat]]
    BY <2>1
  <2> QED
    BY <1>7, <2>1, <2>2 DEF Write, parent
<1>8. ASSUME NEW p \in Children, Exit(p) PROVE TypeOK'
  BY <1>8 DEF Exit, parent, Lives, Codes
<1>9. ASSUME NEW p \in Children, CloseStream(p) PROVE TypeOK'
  BY <1>9 DEF CloseStream, parent
<1>10. ASSUME NEW p \in Children, Killed(p) PROVE TypeOK'
  BY <1>10 DEF Killed, parent, Lives
<1>11. CASE UNCHANGED vars
  BY <1>11 DEF vars
<1> QED
  BY <1>1, <1>2, <1>3, <1>4, <1>5, <1>6, <1>7, <1>8, <1>9, <1>10, <1>11 DEF Others, Program

JseStep == Proceed \/ SelectFails \/ WaitFails \/ \E s \in Streams : ReadFails(s)

\* Next, seen as the steps of JSE's call and everybody else's.
LEMMA NextSplit == [Next]_vars => JseStep \/ Others \/ UNCHANGED vars
BY DEF Next, JseStep, Others

\* Every step keeps the types, the ledger and what JSE itself holds.
LEMMA TypedStep ==
    ASSUME Typed, [Next]_vars
    PROVE  Typed'
<1>1. TypeOK'
  BY NextSplit, JseTyped, OthersTyped DEF JseStep
<1>2. ASSUME Others \/ UNCHANGED vars
      PROVE  /\ UNCHANGED <<pc, fd, opened, lost>> \/ Call
             /\ holds'["jse"] = holds["jse"]
  <2> USE DEF Typed, TypeOK, Procs, Children
  <2>1. CASE DoPrint \/ Call \/ ChildExec
    BY <2>1 DEF DoPrint, Call, ChildExec, parent, world
  <2>2. CASE ChildExecFails \/ ChildDupFails \/ SpawnDaemon
    BY <2>2 DEF ChildExecFails, ChildDupFails, SpawnDaemon, parent
  <2>3. ASSUME NEW p \in Children, Program(p) \/ CloseStream(p) \/ Killed(p)
        PROVE  UNCHANGED <<pc, fd, opened, lost>> /\ holds'["jse"] = holds["jse"]
    BY <2>3 DEF Program, Write, Exit, CloseStream, Killed, parent
  <2>4. CASE UNCHANGED vars
    BY <2>4 DEF vars
  <2> QED
    BY <1>2, <2>1, <2>2, <2>3, <2>4 DEF Others
<1>3. ASSUME Others \/ UNCHANGED vars PROVE FdLedger' /\ JseHolds'
  BY <1>2, <1>3 DEF Typed, FdLedger, JseHolds, OpenFds, Call
<1>4. ASSUME JseStep PROVE JseHolds'
  <2> USE DEF Typed, TypeOK, JseHolds, Procs, Children, Streams, OpenFds, AllStreams
  <2>1. CASE StartFails \/ PipeFails \/ ForkFails
    BY <2>1 DEF StartFails, PipeFails, ForkFails, Abandon
  <2>6. CASE Fork
    BY <2>6 DEF Fork
  <2>7. CASE CloseWriteEnds
    BY <2>7 DEF CloseWriteEnds
  <2>4. CASE Select \/ CheckEof \/ Wait \/ GiveUp
    BY <2>4 DEF Select, CheckEof, Wait, GiveUp, world
  <2>5. ASSUME NEW s \in Streams, Pipe(s) PROVE JseHolds'
    BY <2>5 DEF Pipe, Before
  <2>2. CASE SelectFails \/ WaitFails
    BY <2>2 DEF SelectFails, WaitFails, world
  <2>3. ASSUME NEW s \in Streams, Skip(s) \/ ReadData(s) \/ ReadEof(s) \/ ReadFails(s)
        PROVE  JseHolds'
    BY <2>3 DEF Skip, ReadData, ReadEof, ReadFails, AfterStream, world
  <2> QED
    BY <1>4, <2>1, <2>2, <2>3, <2>4, <2>5, <2>6, <2>7 DEF JseStep, Proceed
<1>5. ASSUME JseStep PROVE opened' = lost' + Count(OpenFds') + Count(holds'["jse"])
  <2>1. opened = lost + Count(OpenFds) + Count(holds["jse"])
    BY LedgerCount DEF Typed, FdLedger
  <2> USE DEF Typed, TypeOK, OpenFds, Procs, Children, Streams, Count, AllStreams
  <2>2. CASE Select \/ CheckEof \/ Wait \/ SelectFails \/ WaitFails
    BY <2>1, <2>2 DEF Select, CheckEof, Wait, SelectFails, WaitFails, world
  <2>3. CASE Fork
    BY <2>1, <2>3 DEF Fork
  <2>8. CASE StartFails \/ PipeFails \/ ForkFails
    BY <2>1, <2>8 DEF StartFails, PipeFails, ForkFails, Abandon, JseHolds
  <2>9. ASSUME NEW s \in Streams, Pipe(s)
        PROVE  opened' = lost' + Count(OpenFds') + Count(holds'["jse"])
    BY <2>1, <2>9 DEF Pipe, Before, JseHolds
  <2>4. CASE CloseWriteEnds
    BY <2>1, <2>4 DEF CloseWriteEnds, JseHolds
  <2>5. CASE GiveUp
    BY <2>1, <2>5, LedgerCount DEF GiveUp, JseHolds
  <2>6. ASSUME NEW s \in Streams, Skip(s) \/ ReadData(s) \/ ReadFails(s)
        PROVE  opened' = lost' + Count(OpenFds') + Count(holds'["jse"])
    BY <2>1, <2>6 DEF Skip, ReadData, ReadFails, world
  <2>7. ASSUME NEW s \in Streams, ReadEof(s)
        PROVE  opened' = lost' + Count(OpenFds') + Count(holds'["jse"])
    BY <2>1, <2>7 DEF ReadEof, ToRead, world
  <2> QED
    BY <1>5, <2>2, <2>3, <2>4, <2>5, <2>6, <2>7, <2>8, <2>9 DEF JseStep, Proceed
<1>6. ASSUME JseStep PROVE FdLedger'
  <2>1. Cardinality(OpenFds') = Count(OpenFds') /\ Cardinality(holds'["jse"]) = Count(holds'["jse"])
    BY <1>1, StreamCount DEF TypeOK, OpenFds, Count, Procs
  <2> QED
    BY <1>5, <1>6, <2>1 DEF FdLedger
<1> QED
  BY <1>1, <1>3, <1>4, <1>6, NextSplit DEF Typed

-----------------------------------------------------------------------------
(* What the other processes can do to JSE: only add bytes to a pipe they     *)
(* hold, and never open a pipe that has ended.                               *)

OnlyAdds ==
    \A s \in Streams :
        /\ pipe'[s] >= pipe[s]
        /\ pipe'[s] + written[s] = pipe[s] + written'[s]
        /\ Writers(s) = {} => Writers(s)' = {} /\ pipe'[s] = pipe[s]

\* What a step that is not one of the call can do to it: add to pipes, as a holder of
\* write ends, or begin a call, and nothing else.
LEMMA OthersEffect ==
    ASSUME TypeOK, ForkedHoldsAll, Others \/ UNCHANGED vars
    PROVE  /\ OnlyAdds /\ ForkedHoldsAll'
           /\ UNCHANGED <<fd, ready, result>>
           /\ UNCHANGED <<pc, off, size>> \/ (Call /\ UNCHANGED holds)
           /\ (\A p \in Children : holds[p] = {}) => (\A p \in Children : holds'[p] = {})
<1> USE DEF TypeOK, OnlyAdds, ForkedHoldsAll, Writers, Procs, Children
<1>1. CASE DoPrint
  BY <1>1 DEF DoPrint, parent
<1>2. CASE Call
  BY <1>2 DEF Call, world
<1>3. CASE ChildExec
  BY <1>3 DEF ChildExec, parent
<1>4. CASE ChildExecFails
  BY <1>4 DEF ChildExecFails, parent, Streams
<1>5. CASE ChildDupFails
  BY <1>5 DEF ChildDupFails, parent
<1>6. CASE SpawnDaemon
  BY <1>6 DEF SpawnDaemon, parent
<1>7. ASSUME NEW p \in Children, Write(p)
      PROVE  /\ OnlyAdds /\ ForkedHoldsAll'
             /\ UNCHANGED <<fd, ready, result, pc, off, size, holds>>
  <2>1. PICK s \in holds[p] :
          /\ pipe' = [pipe EXCEPT ![s] = @ + 1]
          /\ written' = [written EXCEPT ![s] = @ + 1]
    BY <1>7 DEF Write
  <2>2. s \in Streams /\ Writers(s) # {} /\ holds' = holds
    BY <1>7 DEF Write
  <2>3. OnlyAdds
    BY <2>1, <2>2
  <2> QED
    BY <1>7, <2>2, <2>3 DEF Write, parent
<1>8. ASSUME NEW p \in Children, Exit(p)
      PROVE  /\ OnlyAdds /\ ForkedHoldsAll'
             /\ UNCHANGED <<fd, ready, result, pc, off, size>>
             /\ (\A q \in Children : holds[q] = {}) => (\A q \in Children : holds'[q] = {})
  BY <1>8 DEF Exit, parent
<1>9. ASSUME NEW p \in Children, CloseStream(p)
      PROVE  /\ OnlyAdds /\ ForkedHoldsAll'
             /\ UNCHANGED <<fd, ready, result, pc, off, size>>
             /\ (\A q \in Children : holds[q] = {}) => (\A q \in Children : holds'[q] = {})
  BY <1>9 DEF CloseStream, parent
<1>10. ASSUME NEW p \in Children, Killed(p)
      PROVE  /\ OnlyAdds /\ ForkedHoldsAll'
             /\ UNCHANGED <<fd, ready, result, pc, off, size>>
             /\ (\A q \in Children : holds[q] = {}) => (\A q \in Children : holds'[q] = {})
  BY <1>10 DEF Killed, parent
<1>11. CASE UNCHANGED vars
  BY <1>11 DEF vars
<1> QED
  BY <1>1, <1>2, <1>3, <1>4, <1>5, <1>6, <1>7, <1>8, <1>9, <1>10, <1>11 DEF Others, Program

\* Hence they disturb neither what has ended nor what is readable.
LEMMA OthersQuiet ==
    ASSUME TypeOK, TypeOK', Quiet, Others \/ UNCHANGED vars
    PROVE  Quiet'
<1>1. OnlyAdds /\ ForkedHoldsAll' /\ UNCHANGED <<fd, ready>>
  BY OthersEffect DEF Quiet
<1>2. UNCHANGED pc \/ (pc = "idle" /\ pc' = "fork" /\ UNCHANGED holds)
  BY OthersEffect DEF Quiet, Call
<1>3. EofIsFinal'
  BY <1>1, <1>2 DEF Quiet, EofIsFinal, OnlyAdds, Running
<1>4. IdleIsQuiet'
  BY <1>2, OthersEffect DEF Quiet, IdleIsQuiet
<1>5. ReadNeverBlocks'
  <2> SUFFICES ASSUME pc' \in Streams, NEW s \in (OpenFds \cap ready)',
                      pc' = s \/ AfterStream(pc') = s
               PROVE  Readable(s)'
    BY DEF ReadNeverBlocks
  <2>1. s \in Streams /\ s \in OpenFds \cap ready
    BY <1>1 DEF OpenFds
  <2>2. pc' = pc
    BY <1>2 DEF Streams
  <2>3. Readable(s)
    BY <2>1, <2>2 DEF Quiet, ReadNeverBlocks
  <2>4. pipe'[s] >= pipe[s] /\ (Writers(s) = {} => Writers(s)' = {})
    BY <1>1, <2>1 DEF OnlyAdds
  <2>5. pipe[s] \in Nat /\ pipe'[s] \in Nat
    BY <2>1 DEF TypeOK
  <2> QED
    BY <2>3, <2>4, <2>5 DEF Readable
<1> QED
  BY <1>1, <1>3, <1>4, <1>5 DEF Quiet

\* They leave JSE's account of the bytes right.
LEMMA OthersCaptured ==
    ASSUME TypeOK, TypeOK', JseHolds, Quiet, Captured, Others \/ UNCHANGED vars
    PROVE  Captured'
<1>1. OnlyAdds /\ UNCHANGED <<fd, result>>
  BY OthersEffect DEF Quiet
<1>2. CASE UNCHANGED <<pc, off, size>>
  <2>1. RoomToRead' /\ CutToContents' /\ FreshBuffers'
    BY <1>1, <1>2 DEF Captured, RoomToRead, CutToContents, FreshBuffers, Running, OpenFds
  <2>3. Conserved'
    <3> SUFFICES ASSUME pc' \notin {"idle", "fork", "fail"}, NEW s \in Streams
                 PROVE  (off[s] + pipe[s] = written[s])'
      BY DEF Conserved
    <3>1. off[s] + pipe[s] = written[s]
      BY <1>2 DEF Captured, Conserved
    <3>2. pipe'[s] + written[s] = pipe[s] + written'[s]
      BY <1>1 DEF OnlyAdds
    <3>3. /\ off[s] \in Nat /\ pipe[s] \in Nat /\ written[s] \in Nat
          /\ pipe'[s] \in Nat /\ written'[s] \in Nat
      BY DEF TypeOK
    <3> QED
      BY <1>2, <3>1, <3>2, <3>3
  <2>2. CompleteCapture'
    <3>1. pc = "idle" => \A s \in Streams : Writers(s) = {}
      BY DEF JseHolds, Quiet, IdleIsQuiet, Writers, Procs
    <3>2. ASSUME pc = "idle", NEW s \in Streams PROVE written'[s] = written[s]
      <4>1. pipe'[s] = pipe[s] /\ pipe'[s] + written[s] = pipe[s] + written'[s]
        BY <1>1, <3>1, <3>2 DEF OnlyAdds
      <4>2. pipe[s] \in Nat /\ written[s] \in Nat /\ written'[s] \in Nat
        BY DEF TypeOK
      <4> QED
        BY <4>1, <4>2
    <3> QED
      BY <1>1, <1>2, <3>2 DEF Captured, CompleteCapture
  <2> QED
    BY <2>1, <2>2, <2>3 DEF Captured
<1>3. CASE Call
  BY <1>3 DEF Call, Captured, Conserved, RoomToRead, CutToContents, FreshBuffers,
              CompleteCapture, Running, AllStreams
<1> QED
  BY <1>2, <1>3, OthersEffect DEF Quiet

-----------------------------------------------------------------------------
(* The steps of JSE *)

\* The steps of JSE keep what is known about who can still write.
LEMMA JseQuiet ==
    ASSUME Typed, Quiet, Captured, JseStep
    PROVE  Quiet'
<1> USE DEF Typed, TypeOK, Quiet, EofIsFinal, ForkedHoldsAll, IdleIsQuiet, ReadNeverBlocks,
            Running, Writers, Procs, Children
<1>1. CASE StartFails \/ PipeFails \/ ForkFails
  BY <1>1 DEF StartFails, PipeFails, ForkFails, Abandon, Streams
<1>2. CASE Fork
  BY <1>2 DEF Fork, AllStreams, OpenFds, Streams
<1>13. ASSUME NEW s \in Streams, Pipe(s) PROVE Quiet'
  BY <1>13 DEF Pipe, Streams
<1>3. CASE CloseWriteEnds
  <2>1. OpenFds = Streams
    BY <1>3 DEF CloseWriteEnds, JseHolds
  <2> QED
    BY <1>3, <2>1 DEF CloseWriteEnds, OpenFds, Streams
<1>4. CASE Select
  BY <1>4 DEF Select, world, Readable, OpenFds, Streams
<1>5. CASE SelectFails \/ WaitFails
  BY <1>5 DEF SelectFails, WaitFails, world, Streams
<1>6. ASSUME NEW s \in Streams, Skip(s) PROVE Quiet'
  BY <1>6 DEF Skip, world, Streams, AfterStream, Readable, OpenFds
<1>7. ASSUME NEW s \in Streams, ReadData(s) PROVE Quiet'
  <2> PICK n \in Chunks(s) : pipe' = [pipe EXCEPT ![s] = @ - n]
    BY <1>7 DEF ReadData
  <2>1. fd[s] /\ n \in 1 .. pipe[s]
    BY <1>7 DEF ReadData, ToRead, Chunks
  <2>2. EofIsFinal'
    BY <1>7, <2>1 DEF ReadData, Streams
  <2>3. ReadNeverBlocks'
    <3>1. CASE s = "err"
      BY <1>7, <3>1 DEF ReadData, AfterStream, Streams
    <3>2. CASE s = "out"
      BY <1>7, <3>2 DEF ReadData, AfterStream, Streams, Readable, OpenFds
    <3> QED
      BY <3>1, <3>2 DEF Streams
  <2> QED
    BY <1>7, <2>2, <2>3 DEF ReadData, AfterStream, Streams
<1>8. ASSUME NEW s \in Streams, ReadEof(s) PROVE Quiet'
  BY <1>8 DEF ReadEof, ToRead, world, Streams, AfterStream, Readable, OpenFds
<1>9. ASSUME NEW s \in Streams, ReadFails(s) PROVE Quiet'
  <2> PICK n \in {0} \union {m \in Chunks(s) : off[s] + m = size[s]} :
        pipe' = [pipe EXCEPT ![s] = @ - n]
    BY <1>9 DEF ReadFails
  <2>1. EofIsFinal'
    BY <1>9 DEF ReadFails, ToRead, Streams
  <2> QED
    BY <1>9, <2>1 DEF ReadFails, Streams
<1>10. CASE CheckEof
  BY <1>10 DEF CheckEof, world, Streams
<1>11. CASE Wait
  <2>1. OpenFds = {} /\ \A s \in Streams : ~fd[s]
    BY <1>11 DEF Wait, JseHolds, OpenFds
  <2>2. IdleIsQuiet'
    BY <1>11, <2>1 DEF Wait
  <2> QED
    BY <1>11, <2>2 DEF Wait, Streams
<1>12. CASE GiveUp
  BY <1>12 DEF GiveUp, Streams
<1> QED
  BY <1>1, <1>2, <1>3, <1>4, <1>5, <1>6, <1>7, <1>8, <1>9, <1>10, <1>11, <1>12, <1>13 DEF JseStep, Proceed

\* The steps of JSE keep what is known about the bytes captured.
LEMMA JseCaptured ==
    ASSUME Typed, Quiet, Captured, JseStep
    PROVE  Captured'
<1> USE DEF Typed, TypeOK, Captured, Conserved, RoomToRead, CutToContents, FreshBuffers,
            CompleteCapture, Running, OpenFds
<1>1. CASE StartFails \/ PipeFails \/ ForkFails
  <2>1. pc' = "idle" /\ result' = Failure
    BY <1>1 DEF StartFails, PipeFails, ForkFails, Abandon
  <2> QED
    BY <2>1 DEF Failure
<1>11. ASSUME NEW s \in Streams, Pipe(s) PROVE Captured'
  BY <1>11 DEF Pipe
<1>2. CASE Fork
  BY <1>2 DEF Fork, AllStreams
<1>3. CASE CloseWriteEnds \/ Select \/ CheckEof
  BY <1>3 DEF CloseWriteEnds, Select, CheckEof, world
<1>4. CASE SelectFails \/ WaitFails
  BY <1>4 DEF SelectFails, WaitFails, world
<1>5. ASSUME NEW s \in Streams, Skip(s) PROVE Captured'
  BY <1>5 DEF Skip, world, Streams, AfterStream
<1>6. ASSUME NEW s \in Streams, ReadData(s) PROVE Captured'
  <2> PICK n \in Chunks(s) :
        /\ pipe' = [pipe EXCEPT ![s] = @ - n]
        /\ off' = [off EXCEPT ![s] = @ + n]
        /\ size' = [size EXCEPT ![s] = IF off[s] + n = @ THEN 2 * @ ELSE @]
    BY <1>6 DEF ReadData
  <2>1. n \in Nat \ {0} /\ n <= pipe[s] /\ off[s] + n <= size[s] /\ fd[s]
    BY <1>6 DEF ReadData, ToRead, Chunks
  <2>2. Conserved'
    BY <1>6, <2>1 DEF ReadData, AfterStream, Streams
  <2>3. RoomToRead'
    <3> SUFFICES ASSUME NEW t \in Streams, fd'[t] PROVE off'[t] < size'[t]
      OBVIOUS
    <3>1. off[t] < size[t]
      BY <1>6 DEF ReadData, Streams
    <3>2. CASE t = s
      <4>1. off'[s] = off[s] + n /\ size'[s] = IF off[s] + n = size[s] THEN 2 * size[s] ELSE size[s]
        OBVIOUS
      <4>2. off[s] \in Nat /\ size[s] \in Nat
        OBVIOUS
      <4>3. off'[s] < size'[s]
        <5> HIDE DEF Typed, TypeOK, Captured, Conserved, RoomToRead, CutToContents, CompleteCapture
        <5>1. CASE off[s] + n = size[s]
          BY <2>1, <4>1, <4>2, <5>1
        <5>2. CASE off[s] + n # size[s]
          BY <2>1, <4>1, <4>2, <5>2
        <5> QED
          BY <5>1, <5>2
      <4> QED
        BY <3>2, <4>3
    <3>3. CASE t # s
      BY <3>1, <3>3
    <3> QED
      BY <3>2, <3>3
  <2>4. CutToContents'
    BY <1>6, <2>1 DEF ReadData, AfterStream, Streams
  <2> QED
    BY <1>6, <2>2, <2>3, <2>4 DEF ReadData, AfterStream, Streams
<1>7. ASSUME NEW s \in Streams, ReadEof(s) PROVE Captured'
  BY <1>7 DEF ReadEof, AfterStream, Streams, world
<1>8. ASSUME NEW s \in Streams, ReadFails(s) PROVE Captured'
  BY <1>8 DEF ReadFails, Streams
<1>9. CASE Wait
  <2>1. \A s \in Streams : ~fd[s]
    BY <1>9 DEF Wait, JseHolds
  <2>2. \A s \in Streams : pipe[s] = 0 /\ size[s] = off[s]
    BY <1>9, <2>1 DEF Wait, Quiet, EofIsFinal
  <2>3. \A s \in Streams : size[s] = written[s]
    BY <1>9, <2>2 DEF Wait
  <2>4. CompleteCapture'
    BY <1>9, <2>3 DEF Wait
  <2> QED
    BY <1>9, <2>4 DEF Wait
<1>10. CASE GiveUp
  BY <1>10 DEF GiveUp, Failure
<1> QED
  BY <1>1, <1>2, <1>3, <1>4, <1>5, <1>6, <1>7, <1>8, <1>9, <1>10, <1>11 DEF JseStep, Proceed

-----------------------------------------------------------------------------
(* The theorems *)

\* The initial states.
LEMMA InitIInv == Init => IInv
<1> SUFFICES ASSUME Init PROVE IInv
  OBVIOUS
<1>1. Quiet
  BY DEF Init, Quiet, EofIsFinal, ForkedHoldsAll, IdleIsQuiet, ReadNeverBlocks, Running,
         Streams, Children, Procs
<1>2. Captured
  BY DEF Init, Captured, Conserved, RoomToRead, CutToContents, FreshBuffers, CompleteCapture,
         Running, Failure
<1> QED
  BY <1>1, <1>2, InitTyped DEF IInv

\* Every step keeps the invariant.
LEMMA StepIInv == IInv /\ [Next]_vars => IInv'
<1> SUFFICES ASSUME IInv, [Next]_vars PROVE IInv'
  OBVIOUS
<1>1. Typed'
  BY TypedStep DEF IInv
<1>2. CASE JseStep
  BY <1>1, <1>2, JseQuiet, JseCaptured DEF IInv
<1>3. CASE Others \/ UNCHANGED vars
  BY <1>1, <1>3, OthersQuiet, OthersCaptured DEF IInv, Typed
<1> QED
  BY <1>2, <1>3, NextSplit

\* The invariant holds in every state a run reaches.
LEMMA Inductive == Spec => []IInv
BY InitIInv, StepIInv, PTL DEF Spec

\* Every variable of execProcess() keeps its type.
THEOREM TypesKept == Spec => []TypeOK
<1>1. IInv => TypeOK
  BY DEF IInv, Typed
<1> QED
  BY <1>1, Inductive, PTL

\* Every pipe descriptor of JSE is accounted for, on the error paths too: what is
\* open is a read end a variable still names, a write end that is not closed yet, or
\* a read end that was forgotten at end of file.
THEOREM DescriptorsAccounted == Spec => []FdLedger
<1>1. IInv => FdLedger
  BY DEF IInv, Typed
<1> QED
  BY <1>1, Inductive, PTL

\* A call that succeeds returns all that was written to the two streams, whoever
\* wrote it, in whatever order the processes ran and however read() cut it up.
THEOREM CapturesAll == Spec => []CompleteCapture
<1>1. IInv => CompleteCapture
  BY DEF IInv, Captured
<1> QED
  BY <1>1, Inductive, PTL

\* No byte is lost between a pipe and its buffer, and a buffer always has room.
THEOREM LosesNothing == Spec => []OutputKept
<1>1. IInv => OutputKept
  BY DEF IInv, Captured, OutputKept
<1> QED
  BY <1>1, Inductive, PTL

\* read() never blocks JSE, and JSE waits for the child only when nobody can be
\* blocked on a pipe: the two never wait for each other.
THEOREM NeverStuck == Spec => []NeverBlocked
<1>1. IInv => NeverBlocked
  BY DEF NeverBlocked, IInv, Typed, Quiet, EofIsFinal, JseHolds, WaitOnlyAtEof, Running, OpenFds
<1> QED
  BY <1>1, Inductive, PTL
=============================================================================
