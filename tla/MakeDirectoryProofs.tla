------------------------- MODULE MakeDirectoryProofs -------------------------
(***************************************************************************)
(* What MakeDirectory promises, proved for every number of processes,      *)
(* every length of the path and whatever other processes do: the type of   *)
(* its variables, that a failure has a cause and that a success has seen   *)
(* the directory.                                                          *)
(***************************************************************************)
EXTENDS MakeDirectory, TLAPS

USE DepthAssumption, OthersAssumption

Calls == [pc : {"idle", "stat", "make", "final", "done"}, depth : Path,
          slash : BOOLEAN, at : Path, result : {"none", "ok", "error"},
          sawDir : BOOLEAN, sawTaken : BOOLEAN, sawRemoval : BOOLEAN,
          fault : BOOLEAN]

\* Nothing has happened that createDirectory() may fail for.
NoCause(c) == ~c.sawTaken /\ ~c.sawRemoval /\ ~c.fault

\* The loop stays within the path, and without a cause to fail what it has left
\* behind is there.
LoopSound(c, e) ==
    /\ c.pc = "stat" => c.at = 1
    /\ c.pc = "final" => c.at = c.depth
    /\ c.pc \in {"make", "final"} => c.at <= c.depth /\ (NoCause(c) => IsDir(e, c.at - 1))

ResultSound(c) ==
    /\ c.pc = "done" /\ c.result = "error" => ~NoCause(c)
    /\ c.pc = "done" /\ c.result = "ok" => c.sawDir \/ c.sawTaken

IInv ==
    /\ TypeOK
    /\ \A p \in Procs : LoopSound(proc[p], entry) /\ ResultSound(proc[p])

-----------------------------------------------------------------------------
(* Lemmas about the operators *)

\* TypeOK, with the set of records named.
LEMMA TypeOKCalls == TypeOK <=> entry \in [Path -> Entries] /\ proc \in [Procs -> Calls]
BY DEF TypeOK, Calls

\* The state between two calls.
LEMMA RestType == Rest \in Calls /\ Rest.pc = "idle" /\ Rest.at = 1
BY DEF Rest, Calls, Path

\* What one call has seen is added to what it saw before; nothing else of it changes.
Sees(c, d, e) ==
    /\ d.pc = c.pc /\ d.depth = c.depth /\ d.at = c.at /\ d.result = c.result
    /\ d.slash = c.slash /\ d.fault = c.fault
    /\ c.sawTaken => d.sawTaken
    /\ c.sawDir => d.sawDir
    /\ c.sawRemoval => d.sawRemoval
    /\ c.pc # "idle" => /\ IsDir(e, c.depth) => d.sawDir
                        /\ Taken(e, c.depth) => d.sawTaken
                        /\ (\E i \in Path : e[i] = "none" /\ entry[i] # "none") => d.sawRemoval

\* What all calls see after a step: each is still a call, and has seen the path.
LEMMA Witnesses ==
    ASSUME NEW pr \in [Procs -> Calls], NEW e
    PROVE  /\ Witness(pr, e) \in [Procs -> Calls]
           /\ \A p \in Procs : Sees(pr[p], Witness(pr, e)[p], e)
<1> DEFINE dir(c)     == c.sawDir \/ IsDir(e, c.depth)
           taken(c)   == c.sawTaken \/ Taken(e, c.depth)
           removal(c) == c.sawRemoval \/ \E i \in Path : e[i] = "none" /\ entry[i] # "none"
           d(c) == [c EXCEPT !.sawDir = dir(c), !.sawTaken = taken(c), !.sawRemoval = removal(c)]
<1>1. ASSUME NEW c \in Calls PROVE d(c) \in Calls /\ (c.pc # "idle" => Sees(c, d(c), e))
  <2>1. dir(c) \in BOOLEAN /\ taken(c) \in BOOLEAN /\ removal(c) \in BOOLEAN
    BY DEF Calls
  <2> HIDE DEF dir, taken, removal
  <2>2. /\ d(c) \in Calls
        /\ d(c).pc = c.pc /\ d(c).depth = c.depth /\ d(c).at = c.at /\ d(c).result = c.result
        /\ d(c).slash = c.slash /\ d(c).fault = c.fault
        /\ d(c).sawDir = dir(c) /\ d(c).sawTaken = taken(c) /\ d(c).sawRemoval = removal(c)
    BY <2>1 DEF Calls
  <2> HIDE DEF d
  <2> QED
    BY <2>2 DEF Sees, dir, taken, removal
<1>2. ASSUME NEW p \in Procs
      PROVE  /\ pr[p].pc = "idle" => Witness(pr, e)[p] = pr[p]
             /\ pr[p].pc # "idle" => Witness(pr, e)[p] = d(pr[p])
  BY DEF Witness
<1>3. DOMAIN Witness(pr, e) = Procs /\ Witness(pr, e) = [p \in Procs |-> Witness(pr, e)[p]]
  BY DEF Witness
<1> HIDE DEF d
<1>4. ASSUME NEW p \in Procs PROVE Witness(pr, e)[p] \in Calls /\ Sees(pr[p], Witness(pr, e)[p], e)
  <2>1. CASE pr[p].pc = "idle"
    BY <1>2, <2>1 DEF Sees
  <2>2. CASE pr[p].pc # "idle"
    BY <1>1, <1>2, <2>2
  <2> QED
    BY <2>1, <2>2
<1> QED
  BY <1>3, <1>4

\* The answers of mkdir(), and when they are given.
LEMMA MkdirAnswers ==
    ASSUME entry \in [Path -> Entries], NEW i \in Path, NEW m \in Mkdir(i)
    PROVE  /\ m[1] \in {"error", "exists", "made", "readonly", "fault"}
           /\ m[2] \in Entries
           /\ m[2] = entry[i] \/ (entry[i] = "none" /\ m[2] = "dir")
           /\ m[1] = "error" => i > 1 /\ ~IsDir(entry, i - 1)
           /\ m[1] # "error" => i = 1 \/ IsDir(entry, i - 1)
           /\ m[1] = "made" => m[2] = "dir"
           /\ m[1] = "exists" => entry[i] # "none" /\ m[2] = entry[i]
BY DEF Mkdir, Path, Entries

-----------------------------------------------------------------------------
(* The invariant *)

\* Entries of a path are made and removed, and change in no other way.
EntriesKept ==
    /\ entry' \in [Path -> Entries]
    /\ \A i \in Path : entry'[i] = entry[i] \/ entry[i] = "none" \/ entry'[i] = "none"

\* A step that is not its own leaves a call as sound as it was.
LEMMA OthersKeep ==
    ASSUME IInv, EntriesKept, NEW pr \in [Procs -> Calls], proc' = Witness(pr, entry'),
           NEW q \in Procs, pr[q] = proc[q]
    PROVE  LoopSound(proc'[q], entry') /\ ResultSound(proc'[q])
<1> DEFINE c == proc[q]
           d == proc'[q]
<1>1. c \in Calls /\ d \in Calls /\ Sees(c, d, entry')
  BY Witnesses
<1>2. LoopSound(c, entry) /\ ResultSound(c)
  BY DEF IInv
<1>3. c.depth \in Path /\ c.at \in Path /\ d.at = c.at /\ d.depth = c.depth
  BY <1>1 DEF Calls, Sees
<1>4. ASSUME d.pc \in {"make", "final"}, NoCause(d) PROVE IsDir(entry', d.at - 1)
  <2>1. c.pc \in {"make", "final"} /\ NoCause(c)
    BY <1>1, <1>4 DEF Sees, NoCause
  <2>2. IsDir(entry, c.at - 1) /\ c.at <= c.depth
    BY <1>2, <2>1 DEF LoopSound
  <2>3. \A i \in Path : entry'[i] = "none" => entry[i] = "none"
    BY <1>1, <1>4, <2>1 DEF Sees, NoCause
  <2>4. ASSUME NEW i \in 1 .. c.at - 1 PROVE entry'[i] = "dir"
    <3>1. i \in Path
      BY <1>3 DEF Path
    <3> QED
      BY <2>2, <2>3, <3>1 DEF IsDir, EntriesKept
  <2> QED
    BY <1>3, <2>4 DEF IsDir
<1>5. LoopSound(d, entry')
  BY <1>1, <1>2, <1>3, <1>4 DEF LoopSound, Sees, NoCause
<1>6. ResultSound(d)
  BY <1>1, <1>2 DEF ResultSound, Sees, NoCause
<1> QED
  BY <1>5, <1>6

\* A step of a call keeps the invariant if the call comes out of it sound.
LEMMA StepKeeps ==
    ASSUME IInv, EntriesKept, NEW p \in Procs, NEW c \in Calls, Becomes(p, c),
           LoopSound(proc'[p], entry') /\ ResultSound(proc'[p])
    PROVE  IInv'
<1> DEFINE pr == [proc EXCEPT ![p] = c]
<1>1. pr \in [Procs -> Calls] /\ proc' = Witness(pr, entry') /\ \A q \in Procs \ {p} : pr[q] = proc[q]
  BY TypeOKCalls DEF Becomes, IInv
<1> HIDE DEF pr
<1>2. proc' \in [Procs -> Calls]
  BY <1>1, Witnesses
<1>3. TypeOK'
  BY <1>2, TypeOKCalls DEF TypeOK, Calls, EntriesKept
<1>4. ASSUME NEW q \in Procs PROVE LoopSound(proc'[q], entry') /\ ResultSound(proc'[q])
  BY <1>1, OthersKeep
<1> QED
  BY <1>3, <1>4 DEF IInv

\* The call after the step, with what it has seen.
LEMMA BecomesSees ==
    ASSUME IInv, NEW p \in Procs, NEW c \in Calls, Becomes(p, c)
    PROVE  proc'[p] \in Calls /\ Sees(c, proc'[p], entry')
<1> DEFINE pr == [proc EXCEPT ![p] = c]
<1>1. pr \in [Procs -> Calls] /\ proc' = Witness(pr, entry') /\ pr[p] = c
  BY TypeOKCalls DEF Becomes, IInv
<1> HIDE DEF pr
<1> QED
  BY <1>1, Witnesses

\* The initial states.
LEMMA InitIInv == Init => IInv
<1> SUFFICES ASSUME Init PROVE IInv
  OBVIOUS
<1>1. TypeOK
  BY RestType, TypeOKCalls DEF Init
<1>2. \A p \in Procs : proc[p].pc = "idle"
  BY RestType DEF Init
<1> QED
  BY <1>1, <1>2 DEF IInv, LoopSound, ResultSound

\* A call that is over is sound if its result is.
LEMMA DoneKeeps ==
    ASSUME IInv, EntriesKept, NEW p \in Procs, NEW c \in Calls, Becomes(p, c),
           c.pc \in {"idle", "stat", "done"}, c.pc = "stat" => c.at = 1, ResultSound(proc'[p])
    PROVE  IInv'
BY BecomesSees, StepKeeps DEF LoopSound, Sees

\* Every step keeps the invariant, those of other programs on the path too.
LEMMA NextIInv == IInv /\ [Next]_vars => IInv'
<1> SUFFICES ASSUME IInv, [Next]_vars PROVE IInv'
  OBVIOUS
<1>0. entry \in [Path -> Entries] /\ proc \in [Procs -> Calls]
  BY TypeOKCalls DEF IInv
<1>a. \A i \in Path : i \in Nat /\ 1 <= i /\ i <= Depth
  BY DEF Path
<1>b. entry' = entry => EntriesKept
  BY <1>0 DEF EntriesKept
<1>1. ASSUME NEW p \in Procs, NEW d \in Path, NEW slash \in Slashes, Call(p, d, slash) PROVE IInv'
  <2> DEFINE c == [Rest EXCEPT !.pc = "stat", !.depth = d, !.slash = slash]
  <2>1. c \in Calls /\ c.pc = "stat" /\ c.at = 1
    BY RestType DEF Calls
  <2>2. entry' = entry /\ Becomes(p, c)
    BY <1>1 DEF Call
  <2> HIDE DEF c
  <2>3. ResultSound(proc'[p])
    BY <2>1, <2>2, BecomesSees DEF ResultSound, Sees
  <2> QED
    BY <1>b, <2>1, <2>2, <2>3, DoneKeeps
<1>2. ASSUME NEW p \in Procs, Stat(p) PROVE IInv'
  <2> DEFINE c == proc[p]
             c1 == [c EXCEPT !.pc = "done", !.result = "ok"]
             c2 == [c EXCEPT !.pc = "done", !.result = "error"]
             c3 == [c EXCEPT !.pc = "make"]
             c4 == [c EXCEPT !.pc = "done", !.result = "error", !.fault = TRUE]
  <2>1. c \in Calls /\ c.pc = "stat" /\ entry' = entry /\ c.depth \in Path
    BY <1>0, <1>2 DEF Stat, Calls
  <2>2. \/ IsDir(entry, c.depth) /\ Becomes(p, c1)
        \/ entry[c.depth] = "file" /\ Becomes(p, c2)
        \/ Becomes(p, c3)
        \/ Becomes(p, c4)
    BY <1>2 DEF Stat
  <2>3. CASE IsDir(entry, c.depth) /\ Becomes(p, c1)
    <3>1. c1 \in Calls /\ c1.pc = "done" /\ c1.result = "ok" /\ c1.depth = c.depth
      BY <2>1 DEF Calls
    <3> HIDE DEF c1
    <3>2. ResultSound(proc'[p])
      BY <2>1, <2>3, <3>1, BecomesSees DEF ResultSound, Sees
    <3> QED
      BY <1>b, <2>1, <2>3, <3>1, <3>2, DoneKeeps
  <2>4. CASE entry[c.depth] = "file" /\ Becomes(p, c2)
    <3>1. c2 \in Calls /\ c2.pc = "done" /\ c2.result = "error" /\ c2.depth = c.depth
      BY <2>1 DEF Calls
    <3> HIDE DEF c2
    <3>2. Taken(entry', c2.depth)
      BY <1>a, <2>1, <2>4, <3>1 DEF Taken
    <3>3. ResultSound(proc'[p])
      BY <2>1, <2>4, <3>1, <3>2, BecomesSees DEF ResultSound, Sees, NoCause
    <3> QED
      BY <1>b, <2>1, <2>4, <3>1, <3>3, DoneKeeps
  <2>5. CASE Becomes(p, c3)
    <3>1. c3 \in Calls /\ c3.pc = "make" /\ c3.depth = c.depth /\ c3.at = c.at
      BY <2>1 DEF Calls
    <3> HIDE DEF c3
    <3>2. c3.at = 1 /\ c3.at <= c3.depth
      BY <1>a, <2>1, <3>1 DEF IInv, LoopSound
    <3>3. LoopSound(proc'[p], entry')
      BY <2>5, <3>1, <3>2, BecomesSees DEF LoopSound, Sees, IsDir
    <3>4. ResultSound(proc'[p])
      BY <2>5, <3>1, BecomesSees DEF ResultSound, Sees
    <3> QED
      BY <1>b, <2>1, <2>5, <3>1, <3>3, <3>4, StepKeeps
  <2>6. CASE Becomes(p, c4)
    <3>1. c4 \in Calls /\ c4.pc = "done" /\ c4.result = "error" /\ c4.fault = TRUE
      BY <2>1 DEF Calls
    <3> HIDE DEF c4
    <3>2. ResultSound(proc'[p])
      BY <2>1, <2>6, <3>1, BecomesSees DEF ResultSound, Sees, NoCause
    <3> QED
      BY <1>b, <2>1, <2>6, <3>1, <3>2, DoneKeeps
  <2> QED
    BY <2>2, <2>3, <2>4, <2>5, <2>6
\* What mkdir() leaves of the path, and what the caller has seen of it.
<1>c. ASSUME NEW i \in Path, NEW m \in Mkdir(i), entry' = [entry EXCEPT ![i] = m[2]]
      PROVE  /\ EntriesKept
             /\ entry'[i] = m[2]
             /\ m[1] # "error" => i = 1 \/ IsDir(entry', i - 1)
  <2>1. EntriesKept /\ entry'[i] = m[2]
    BY <1>0, <1>c, MkdirAnswers DEF EntriesKept
  <2>2. \A j \in 1 .. i - 1 : j \in Path /\ j # i
    BY <1>a DEF Path
  <2>3. m[1] # "error" => i = 1 \/ IsDir(entry', i - 1)
    BY <1>0, <1>c, <2>2, MkdirAnswers DEF IsDir
  <2> QED
    BY <2>1, <2>3
<1>3. ASSUME NEW p \in Procs, MakeIntermediate(p) PROVE IInv'
  <2> DEFINE i == proc[p].at
  <2>1. PICK m \in Mkdir(i) :
          LET c == [proc[p] EXCEPT !.fault = @ \/ m[1] \in {"readonly", "fault"}]
          IN  /\ entry' = [entry EXCEPT ![c.at] = m[2]]
              /\ IF m[1] \in Tolerated
                   THEN Becomes(p, AfterIntermediate(c))
                   ELSE Becomes(p, [c EXCEPT !.pc = "done", !.result = "error"])
    BY <1>3 DEF MakeIntermediate
  <2> DEFINE hit == proc[p].fault \/ m[1] \in {"readonly", "fault"}
             c == [proc[p] EXCEPT !.fault = hit]
  <2>2. proc[p] \in Calls /\ proc[p].pc = "make" /\ i \in Path /\ hit \in BOOLEAN
    BY <1>0, <1>3 DEF MakeIntermediate, Calls
  <2>3. proc[p].at <= proc[p].depth /\ (NoCause(proc[p]) => IsDir(entry, i - 1))
    BY <2>2 DEF IInv, LoopSound
  <2>4. entry' = [entry EXCEPT ![c.at] = m[2]]
    BY <2>1
  <2>5. IF m[1] \in Tolerated THEN Becomes(p, AfterIntermediate(c))
                              ELSE Becomes(p, [c EXCEPT !.pc = "done", !.result = "error"])
    BY <2>1
  <2> HIDE DEF hit
  <2>6. /\ c \in Calls /\ c.pc = "make" /\ c.at = i /\ c.depth = proc[p].depth
        /\ c.fault = hit /\ c.sawTaken = proc[p].sawTaken /\ c.sawRemoval = proc[p].sawRemoval
    BY <2>2 DEF Calls
  <2> HIDE DEF c
  <2>7. /\ EntriesKept /\ entry'[i] = m[2] /\ m[2] \in Entries
        /\ m[1] # "error" => i = 1 \/ IsDir(entry', i - 1)
    BY <1>0, <1>c, <2>2, <2>4, <2>6, MkdirAnswers
  <2>8. CASE m[1] \in Tolerated
    <3> DEFINE d == AfterIntermediate(c)
    <3>1. c.depth \in Path /\ c.at \in Path /\ i <= c.depth
      BY <2>2, <2>3, <2>6 DEF Calls
    <3>2. /\ d \in Calls /\ d.pc \in {"make", "final"} /\ d.depth = c.depth
          /\ d.fault = hit /\ d.sawTaken = c.sawTaken /\ d.sawRemoval = c.sawRemoval
          /\ \/ d.at = i /\ i = c.depth
             \/ d.at = i + 1 /\ i # c.depth /\ d.pc = "make"
      <4>1. CASE c.at = c.depth
        BY <2>6, <3>1, <4>1 DEF AfterIntermediate, Calls
      <4>2. CASE c.at # c.depth
        <5>1. c.at + 1 \in Path
          BY <2>6, <3>1, <4>2 DEF Path
        <5> QED
          BY <2>6, <3>1, <4>2, <5>1 DEF AfterIntermediate, Calls
      <4> QED
        BY <4>1, <4>2
    <3>3. Becomes(p, d)
      BY <2>5, <2>8
    <3> HIDE DEF d
    <3>4. proc'[p] \in Calls /\ Sees(d, proc'[p], entry')
      BY <3>2, <3>3, BecomesSees
    <3>5. ASSUME NoCause(proc'[p]) PROVE IsDir(entry', d.at - 1)
      <4>1. ~hit /\ ~Taken(entry', c.depth)
        BY <3>2, <3>4, <3>5 DEF Sees, NoCause
      <4>2. entry'[i] = "dir"
        <5>1. m[1] \in {"made", "exists"}
          BY <2>8, <4>1 DEF hit, Tolerated
        <5>2. m[2] # "none"
          BY <1>0, <2>2, <5>1, MkdirAnswers
        <5>3. entry'[i] \notin {"file", "link"}
          BY <1>a, <2>2, <3>1, <4>1 DEF Taken
        <5> QED
          BY <2>7, <5>2, <5>3 DEF Entries
      <4>3. i = 1 \/ IsDir(entry', i - 1)
        BY <2>7, <2>8 DEF Tolerated
      <4> QED
        BY <1>a, <2>2, <3>2, <4>2, <4>3 DEF IsDir
    <3>6. LoopSound(proc'[p], entry')
      BY <1>a, <2>2, <3>1, <3>2, <3>4, <3>5 DEF LoopSound, Sees
    <3>7. ResultSound(proc'[p])
      BY <3>2, <3>4 DEF ResultSound, Sees
    <3> QED
      BY <2>7, <3>2, <3>3, <3>6, <3>7, StepKeeps
  <2>9. CASE m[1] \notin Tolerated
    <3> DEFINE d == [c EXCEPT !.pc = "done", !.result = "error"]
    <3>1. /\ d \in Calls /\ d.pc = "done" /\ d.result = "error" /\ d.depth = c.depth
          /\ d.fault = hit /\ d.sawTaken = c.sawTaken /\ d.sawRemoval = c.sawRemoval
      BY <2>6 DEF Calls
    <3>2. Becomes(p, d)
      BY <2>5, <2>9
    <3> HIDE DEF d
    <3>3. ~NoCause(d)
      <4>1. m[1] \in {"error", "fault"}
        BY <1>0, <2>2, <2>9, MkdirAnswers DEF Tolerated
      <4>2. CASE m[1] = "error"
        <5>1. ~IsDir(entry, i - 1)
          BY <1>0, <2>2, <4>2, MkdirAnswers
        <5> QED
          BY <2>3, <2>6, <3>1, <5>1 DEF NoCause, hit
      <4>3. CASE m[1] = "fault"
        BY <3>1, <4>3 DEF NoCause, hit
      <4> QED
        BY <4>1, <4>2, <4>3
    <3>4. ResultSound(proc'[p])
      BY <3>1, <3>2, <3>3, BecomesSees DEF ResultSound, Sees, NoCause
    <3> QED
      BY <2>7, <3>1, <3>2, <3>4, DoneKeeps
  <2> QED
    BY <2>8, <2>9
<1>4. ASSUME NEW p \in Procs, MakeFinal(p) PROVE IInv'
  <2> DEFINE i == proc[p].depth
  <2>1. PICK m \in Mkdir(i) :
          LET c == [proc[p] EXCEPT !.fault = @ \/ m[1] \in {"readonly", "fault"}]
          IN  /\ entry' = [entry EXCEPT ![c.depth] = m[2]]
              /\ Becomes(p, [c EXCEPT !.pc = "done",
                                      !.result = IF m[1] \in FinalOk THEN "ok" ELSE "error"])
    BY <1>4 DEF MakeFinal
  <2> DEFINE hit == proc[p].fault \/ m[1] \in {"readonly", "fault"}
             c == [proc[p] EXCEPT !.fault = hit]
             res == IF m[1] \in FinalOk THEN "ok" ELSE "error"
             d == [c EXCEPT !.pc = "done", !.result = res]
  <2>2. /\ proc[p] \in Calls /\ i \in Path /\ hit \in BOOLEAN /\ res \in {"ok", "error"}
        /\ proc[p].pc = "final" \/ (proc[p].pc = "make" /\ ~Intermediate(proc[p]))
    BY <1>0, <1>4 DEF MakeFinal, Calls
  <2>3. entry' = [entry EXCEPT ![c.depth] = m[2]] /\ Becomes(p, d)
    BY <2>1
  <2> HIDE DEF hit, res
  <2>4. /\ c \in Calls /\ c.depth = i
        /\ c.fault = hit /\ c.sawTaken = proc[p].sawTaken /\ c.sawRemoval = proc[p].sawRemoval
    BY <2>2 DEF Calls
  <2> HIDE DEF c
  <2>5. /\ d \in Calls /\ d.pc = "done" /\ d.result = res /\ d.depth = i
        /\ d.fault = hit /\ d.sawTaken = proc[p].sawTaken /\ d.sawRemoval = proc[p].sawRemoval
    BY <2>2, <2>4 DEF Calls
  <2> HIDE DEF d
  <2>6. /\ EntriesKept /\ entry'[i] = m[2] /\ m[2] \in Entries
        /\ m[1] # "error" => i = 1 \/ IsDir(entry', i - 1)
    BY <1>0, <1>c, <2>2, <2>3, <2>4, MkdirAnswers
  <2>7. proc'[p] \in Calls /\ Sees(d, proc'[p], entry')
    BY <2>3, <2>5, BecomesSees
  <2>8. CASE m[1] \in FinalOk
    <3>1. entry'[i] # "none"
      BY <1>0, <2>2, <2>6, <2>8, MkdirAnswers DEF FinalOk
    <3>2. i = 1 \/ IsDir(entry', i - 1)
      BY <2>6, <2>8 DEF FinalOk
    <3>3. entry'[i] = "dir" => IsDir(entry', i)
      BY <1>a, <2>2, <3>2 DEF IsDir
    <3>4. entry'[i] # "dir" => Taken(entry', i)
      BY <1>a, <2>2, <2>6, <3>1 DEF Taken, Entries
    <3>5. ResultSound(proc'[p])
      BY <2>5, <2>7, <2>8, <3>3, <3>4 DEF ResultSound, Sees, res
    <3> QED
      BY <2>3, <2>5, <2>6, <3>5, DoneKeeps
  <2>9. CASE m[1] \notin FinalOk
    <3>1. ~NoCause(d)
      <4>1. m[1] = "error" \/ hit
        BY <1>0, <2>2, <2>9, MkdirAnswers DEF FinalOk, hit
      <4>2. CASE m[1] = "error"
        <5>1. i > 1 /\ ~IsDir(entry, i - 1)
          BY <1>0, <2>2, <4>2, MkdirAnswers
        <5>2. proc[p].at \in Path /\ proc[p].at <= i
              /\ (NoCause(proc[p]) => IsDir(entry, proc[p].at - 1))
          BY <2>2 DEF IInv, LoopSound, Calls
        <5>3. proc[p].at = i
          BY <1>a, <2>2, <5>2 DEF IInv, LoopSound, Intermediate
        <5> QED
          BY <2>4, <2>5, <5>1, <5>2, <5>3 DEF NoCause, hit
      <4>3. CASE hit
        BY <2>5, <4>3 DEF NoCause
      <4> QED
        BY <4>1, <4>2, <4>3
    <3>2. ResultSound(proc'[p])
      BY <2>5, <2>7, <2>9, <3>1 DEF ResultSound, Sees, NoCause, res, FinalOk
    <3> QED
      BY <2>3, <2>5, <2>6, <3>2, DoneKeeps
  <2> QED
    BY <2>8, <2>9
<1>5. ASSUME NEW p \in Procs, Return(p) PROVE IInv'
  <2>1. entry' = entry /\ Becomes(p, Rest)
    BY <1>5 DEF Return
  <2>2. ResultSound(proc'[p])
    BY <2>1, RestType, BecomesSees DEF ResultSound, Sees
  <2> QED
    BY <1>b, <2>1, <2>2, RestType, DoneKeeps
<1>6. ASSUME NEW i \in Path, Remove(i) \/ \E what \in {"file", "link"} : Put(i, what) PROVE IInv'
  <2>1. EntriesKept /\ proc' = Witness(proc, entry')
    BY <1>0, <1>6 DEF Remove, Put, EntriesKept, Entries
  <2>2. proc' \in [Procs -> Calls]
    BY <1>0, <2>1, Witnesses
  <2>3. TypeOK'
    BY <2>1, <2>2, TypeOKCalls DEF TypeOK, Calls, EntriesKept
  <2>4. \A q \in Procs : LoopSound(proc'[q], entry') /\ ResultSound(proc'[q])
    BY <1>0, <2>1, OthersKeep
  <2> QED
    BY <2>3, <2>4 DEF IInv
<1>7. CASE UNCHANGED vars
  BY <1>7 DEF vars, IInv, TypeOK
<1> QED
  BY <1>1, <1>2, <1>3, <1>4, <1>5, <1>6, <1>7 DEF Next

\* The invariant holds in every state a run reaches.
LEMMA Inductive == Spec => []IInv
  BY InitIInv, NextIInv, PTL DEF Spec

-----------------------------------------------------------------------------
(* Theorems *)

\* The variables keep their types: in particular the loop over the intermediate
\* directories stays within the path.
THEOREM TypesKept == Spec => []TypeOK
<1>1. IInv => TypeOK
  BY DEF IInv
<1> QED
  BY <1>1, Inductive, PTL

\* createDirectory() fails only for a cause, however many processes race to make
\* the same directories.
THEOREM FailureHasCause == Spec => []FailsForCause
<1>1. IInv => FailsForCause
  BY DEF IInv, FailsForCause, Ended, ResultSound, NoCause
<1> QED
  BY <1>1, Inductive, PTL

\* When it succeeds the directory was there at some moment of the call, or
\* something that is no directory was in its way.
THEOREM SuccessIsReal == Spec => []SuccessSawDirectory
<1>1. IInv => SuccessSawDirectory
  BY DEF IInv, SuccessSawDirectory, Ended, ResultSound
<1> QED
  BY <1>1, Inductive, PTL
=============================================================================
