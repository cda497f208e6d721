------------------------- MODULE ProcessCallsProofs -------------------------
(***************************************************************************)
(* What ProcessCalls promises, proved for every number of items, calls and *)
(* processes and every initial size of the arrays: the type of its         *)
(* variables, the arguments a child is started with, the memory of a call, *)
(* the children left behind and the aim of a signal.                       *)
(***************************************************************************)
EXTENDS ProcessCalls, FiniteSetTheorems, SequenceTheorems, TLAPS

USE PidsAssumption, SizeAssumption

-----------------------------------------------------------------------------
(* Arrays of strings *)

Vectors == [cells : Seq(0 .. Junk), length : 0 .. MaxItems + 1, size : Nat]

\* The strings come before the first NULL, as far as there are cells for them.
CellsSound(x) ==
    \A i \in 1 .. Len(x.cells) :
        /\ i <= x.length => x.cells[i] # Null
        /\ i = x.length + 1 => x.cells[i] = Null

\* The array has the size it is said to have and the strings are the first items.
CellsExact(x) ==
    /\ Len(x.cells) = x.size /\ x.length + 2 <= x.size
    /\ \A i \in 1 .. x.length : x.cells[i] = i

\* An array of n elements, none used.
Empty(n) == [cells |-> [i \in 1 .. n |-> Null], length |-> 0, size |-> n]

\* A fresh array is sound.
LEMMA EmptySound ==
    /\ Empty(InitSize) \in Vectors /\ Empty(InitSize).length = 0 /\ Empty(InitSize).size = InitSize
    /\ CellsSound(Empty(InitSize)) /\ CellsExact(Empty(InitSize))
<1> DEFINE cells == [i \in 1 .. InitSize |-> Null]
<1>1. cells \in Seq(0 .. Junk) /\ Len(cells) = InitSize /\ \A i \in 1 .. InitSize : cells[i] = Null
  BY DEF Null, Junk
<1> HIDE DEF cells
<1>2. /\ Empty(InitSize).cells = cells /\ Empty(InitSize).length = 0
      /\ Empty(InitSize).size = InitSize /\ Empty(InitSize) \in Vectors
  BY <1>1 DEF Empty, Vectors, cells
<1> QED
  BY <1>1, <1>2 DEF CellsSound, CellsExact

\* realloc() keeps what is in an array.
LEMMA ResizedCells ==
    ASSUME NEW cells \in Seq(0 .. Junk), NEW n \in Nat
    PROVE  /\ Resized(cells, n) \in Seq(0 .. Junk) /\ Len(Resized(cells, n)) = n
           /\ \A i \in 1 .. n : Resized(cells, n)[i] = IF i <= Len(cells) THEN cells[i] ELSE Junk
<1>1. Junk \in 0 .. Junk /\ Len(cells) \in Nat
  BY DEF Junk
<1>2. \A i \in 1 .. n : (IF i <= Len(cells) THEN cells[i] ELSE Junk) \in 0 .. Junk
  BY <1>1
<1> QED
  BY <1>2 DEF Resized

\* A string is appended, in cells that have at least what the array had.
LEMMA StoredVector ==
    ASSUME NEW x \in Vectors, NEW s \in 1 .. MaxItems + 1, NEW cells \in Seq(0 .. Junk),
           NEW size \in Nat, x.length < MaxItems + 1
    PROVE  /\ Stored(x, s, cells, size) \in Vectors
           /\ Stored(x, s, cells, size).length = x.length + 1
           /\ Stored(x, s, cells, size).size = size
           /\ Len(Stored(x, s, cells, size).cells) = Len(cells)
           /\ \A i \in 1 .. Len(cells) :
                Stored(x, s, cells, size).cells[i] =
                    IF i = x.length + 1 THEN s ELSE IF i = x.length + 2 THEN Null ELSE cells[i]
<1> DEFINE c(i) == IF i = x.length + 1 THEN s ELSE IF i = x.length + 2 THEN Null ELSE cells[i]
           new == [i \in 1 .. Len(cells) |-> c(i)]
<1>1. s \in 0 .. Junk /\ Null \in 0 .. Junk /\ Len(cells) \in Nat /\ DOMAIN cells = 1 .. Len(cells)
  BY DEF Junk, Null
<1>0. \A i \in 1 .. Len(cells) : cells[i] \in 0 .. Junk
  BY ElementOfSeq
<1>2. \A i \in 1 .. Len(cells) : c(i) \in 0 .. Junk
  BY <1>0, <1>1
<1> HIDE DEF c
<1>3. new \in Seq(0 .. Junk) /\ Len(new) = Len(cells) /\ \A i \in 1 .. Len(cells) : new[i] = c(i)
  BY <1>1, <1>2
<1>4. Stored(x, s, cells, size) = [cells |-> new, length |-> x.length + 1, size |-> size]
  BY <1>1 DEF Stored, c
<1> HIDE DEF new
<1>5. x.length \in Nat /\ x.length + 1 \in 0 .. MaxItems + 1
  BY DEF Vectors
<1> QED
  BY <1>3, <1>4, <1>5 DEF Vectors, c

\* What reads a sound array finds strings, and of an exact one its items.
LEMMA StringsOf ==
    ASSUME NEW a \in Arrays, arr[a] \in Vectors, CellsSound(arr[a])
    PROVE  /\ Strings(a) \in Seq(1 .. Junk)
           /\ CellsExact(arr[a]) => /\ Len(Strings(a)) = arr[a].length
                                    /\ Strings(a) = [i \in 1 .. arr[a].length |-> i]
<1> DEFINE x == arr[a]
           cells == x.cells
           n == x.length
           Ends == {i \in DOMAIN cells : cells[i] = Null}
<1>1. cells \in Seq(0 .. Junk) /\ n \in Nat /\ DOMAIN cells = 1 .. Len(cells) /\ Len(cells) \in Nat
  BY DEF Vectors
<1>2. \A i \in 1 .. Len(cells) : (i <= n => cells[i] # Null) /\ (i = n + 1 => cells[i] = Null)
  BY DEF CellsSound
<1>0. \A i \in 1 .. Len(cells) : cells[i] \in 0 .. Junk
  BY <1>1, ElementOfSeq
<1>5. Junk \in Nat
  BY DEF Junk
<1> HIDE DEF x, cells, n
<1>3. CASE n < Len(cells)
  <2>1. n + 1 \in Ends /\ \A i \in Ends : n + 1 <= i
    BY <1>1, <1>2, <1>3
  <2>2. (CHOOSE e \in Ends : \A i \in Ends : e <= i) = n + 1
    <3>1. \A e, f \in Ends : (\A i \in Ends : e <= i) /\ (\A i \in Ends : f <= i) => e = f
      BY <1>1
    <3> HIDE DEF Ends
    <3> QED
      BY <2>1, <3>1
  <2>3. Strings(a) = SubSeq(cells, 1, n)
    <3>1. Strings(a) = IF Ends = {} THEN cells
                       ELSE SubSeq(cells, 1, (CHOOSE e \in Ends : \A i \in Ends : e <= i) - 1)
      BY DEF Strings, x, cells
    <3> HIDE DEF Ends
    <3> QED
      <4>1. (n + 1) - 1 = n /\ Ends # {}
        BY <1>1, <2>1
      <4> QED
        BY <2>2, <3>1, <4>1
  <2>4. /\ SubSeq(cells, 1, n) \in Seq(1 .. Junk) /\ Len(SubSeq(cells, 1, n)) = n
        /\ SubSeq(cells, 1, n) = [i \in 1 .. n |-> cells[i]]
    <3>1. SubSeq(cells, 1, n) = [i \in 1 .. n |-> cells[i]]
      BY <1>1, <1>3
    <3>2. \A i \in 1 .. n : cells[i] \in 1 .. Junk
      BY <1>0, <1>1, <1>2, <1>3, <1>5 DEF Null
    <3> QED
      BY <1>1, <3>1, <3>2
  <2>5. CellsExact(arr[a]) => [i \in 1 .. n |-> cells[i]] = [i \in 1 .. n |-> i]
    BY DEF CellsExact, x, cells, n
  <2> QED
    BY <2>3, <2>4, <2>5 DEF x, n
<1>4. CASE ~(n < Len(cells))
  <2>1. Ends = {}
    BY <1>1, <1>2, <1>4
  <2>2. Strings(a) = cells
    BY <2>1 DEF Strings, x, cells
  <2>3. \A i \in 1 .. Len(cells) : cells[i] \in 1 .. Junk
    BY <1>0, <1>1, <1>2, <1>4, <1>5 DEF Null
  <2>4. cells \in Seq(1 .. Junk)
    <3>1. cells = [i \in 1 .. Len(cells) |-> cells[i]]
      BY <1>1, LenProperties
    <3>2. [i \in 1 .. Len(cells) |-> cells[i]] \in Seq(1 .. Junk)
      BY <1>1, <2>3
    <3> QED
      BY <3>1, <3>2
  <2>5. ~CellsExact(arr[a])
    BY <1>1, <1>4 DEF CellsExact, x, cells, n, Vectors
  <2> QED
    BY <2>2, <2>4, <2>5
<1> QED
  BY <1>3, <1>4

-----------------------------------------------------------------------------
(* Processes *)

\* An entry of the table is free or has the number of a process that was started.
Numbered(t, n) == t = Gone \/ (t.state \in {"running", "zombie", "other"} /\ t.gen \in 1 .. n)

\* No two entries have one number, none has that of a result the script has, and
\* the child that is waited for is there.
ProcsSound ==
    /\ table \in [Pids -> Processes] /\ starts \in 0 .. MaxStarts
    /\ known \subseteq [pid : Pids, gen : 1 .. MaxStarts]
    /\ child \in Pids \union {0} /\ (pc = "wait" <=> child # 0)
    /\ \A p \in Pids : Numbered(table[p], starts)
    /\ \A p, q \in Pids : table[p].gen = table[q].gen /\ p # q => table[p] = Gone
    /\ \A r \in known : r.gen <= starts /\ \A p \in Pids : table[p].gen # r.gen
    /\ child # 0 => table[child].state \in {"running", "zombie"}

\* Children nobody will wait for.
Orphans == {p \in Pids \ {child} : table[p].state \in {"running", "zombie"}}

\* Every call leaves at most one of them.
LedgerSound ==
    /\ calls \in 0 .. MaxCalls /\ abandoned \in 0 .. MaxCalls
    /\ abandoned <= calls /\ (pc # "idle" => abandoned < calls)
    /\ ChildrenLedger

\* A free entry of the process table.
LEMMA GoneType == Gone \in Processes /\ Gone.state = "none" /\ Gone.gen = 0
BY DEF Gone, Processes

\* A signal leaves the number of a process and ends it, or frees an entry.
LEMMA KilledProcess ==
    ASSUME NEW t \in Processes
    PROVE  /\ Killed(t) \in Processes
           /\ t.state \in {"running", "zombie"} => Killed(t).state = "zombie" /\ Killed(t).gen = t.gen
           /\ t.state \notin {"running", "zombie"} => Killed(t) = Gone
<1>1. CASE t.state = "running"
  BY <1>1 DEF Killed, Processes
<1>2. CASE t.state = "zombie"
  BY <1>2 DEF Killed, Processes
<1>3. CASE t.state \notin {"running", "zombie"}
  BY <1>3, GoneType DEF Killed
<1> QED
  BY <1>1, <1>2, <1>3

\* An entry changes: it is freed, or the process in it keeps its number.
LEMMA EntryChanges ==
    ASSUME ProcsSound, NEW p \in Pids, NEW t \in Processes, table' = [table EXCEPT ![p] = t],
           t = Gone \/ (Numbered(t, starts) /\ t.gen = table[p].gen /\ table[p] # Gone),
           UNCHANGED <<known, starts, child, pc>>,
           child = p => t.state \in {"running", "zombie"}
    PROVE  ProcsSound'
<1>1. table' \in [Pids -> Processes] /\ table'[p] = t /\ \A q \in Pids \ {p} : table'[q] = table[q]
  BY DEF ProcsSound
<1>2. \A q \in Pids : Numbered(table'[q], starts')
  BY <1>1 DEF ProcsSound, Numbered
<1>3. \A q \in Pids : table'[q] = Gone \/ (table'[q].gen = table[q].gen /\ table[q] # Gone)
  BY <1>1 DEF ProcsSound
<1>4. \A q, x \in Pids : table'[q].gen = table'[x].gen /\ q # x => table'[q] = Gone
  <2>1. ASSUME NEW q \in Pids, NEW x \in Pids, table'[q].gen = table'[x].gen, q # x, table'[q] # Gone
        PROVE  FALSE
    <3>1. table'[q].gen = table[q].gen /\ table'[q].gen \in 1 .. starts /\ table[q] # Gone
      BY <1>2, <1>3, <2>1 DEF Numbered, ProcsSound
    <3>2. table'[x].gen = table[x].gen
      BY <1>3, <2>1, <3>1, GoneType
    <3> QED
      BY <2>1, <3>1, <3>2 DEF ProcsSound
  <2> QED
    BY <2>1
<1>5. \A r \in known' : r.gen <= starts' /\ \A q \in Pids : table'[q].gen # r.gen
  <2>1. ASSUME NEW r \in known, NEW q \in Pids PROVE r.gen <= starts /\ table'[q].gen # r.gen
    <3>1. r.gen >= 1 /\ r.gen <= starts /\ table[q].gen # r.gen
      BY DEF ProcsSound
    <3> QED
      BY <1>3, <3>1, GoneType
  <2> QED
    BY <2>1
<1>6. child' # 0 => table'[child'].state \in {"running", "zombie"}
  BY <1>1 DEF ProcsSound
<1> QED
  BY <1>1, <1>2, <1>4, <1>5, <1>6 DEF ProcsSound

\* A process starts in a free entry, with a number nobody had.
LEMMA EntryTaken ==
    ASSUME ProcsSound, NEW p \in Pids, NEW t \in Processes, table' = [table EXCEPT ![p] = t],
           table[p] = Gone, t.gen = starts + 1, t.state \in {"running", "other"},
           starts < MaxStarts, starts' = starts + 1, UNCHANGED known,
           \/ UNCHANGED <<child, pc>>
           \/ child = 0 /\ child' = p /\ pc' = "wait" /\ t.state = "running"
    PROVE  ProcsSound'
<1>1. table' \in [Pids -> Processes] /\ table'[p] = t /\ \A q \in Pids \ {p} : table'[q] = table[q]
  BY DEF ProcsSound
<1>2. starts \in Nat /\ starts' \in 0 .. MaxStarts
  BY DEF ProcsSound
<1>3. \A q \in Pids : table[q].gen <= starts
  BY <1>2, GoneType DEF ProcsSound, Numbered
<1>4. \A q \in Pids : Numbered(table'[q], starts')
  BY <1>1, <1>2 DEF ProcsSound, Numbered
<1>5. \A q, x \in Pids : table'[q].gen = table'[x].gen /\ q # x => table'[q] = Gone
  <2>1. ASSUME NEW q \in Pids, NEW x \in Pids, table'[q].gen = table'[x].gen, q # x
        PROVE  q # p /\ x # p
    <3>1. \A y \in Pids \ {p} : table'[y].gen <= starts
      BY <1>1, <1>3
    <3>2. table'[p].gen = starts + 1
      BY <1>1
    <3> QED
      BY <1>1, <1>2, <2>1, <3>1, <3>2 DEF Processes
  <2> QED
    BY <1>1, <2>1 DEF ProcsSound
<1>6. \A r \in known' : r.gen <= starts' /\ \A q \in Pids : table'[q].gen # r.gen
  BY <1>1, <1>2 DEF ProcsSound
<1>7. child' \in Pids \union {0} /\ (pc' = "wait" <=> child' # 0)
  BY DEF ProcsSound
<1>8. child' # 0 => table'[child'].state \in {"running", "zombie"}
  BY <1>1, GoneType DEF ProcsSound
<1> QED
  BY <1>1, <1>2, <1>4, <1>5, <1>6, <1>7, <1>8 DEF ProcsSound

\* A step that has nothing to do with processes.
LEMMA ProcsRest ==
    ASSUME ProcsSound, UNCHANGED <<table, known, starts>>,
           \/ UNCHANGED <<child, pc>>
           \/ pc' # "wait" /\ child' = 0
           \/ pc # "wait" /\ pc' # "wait" /\ UNCHANGED child
    PROVE  ProcsSound'
BY DEF ProcsSound

\* The steps that have nothing to do with processes.
QuietStep ==
    \/ Call \/ ForkFails \/ Return \/ ResultThrows
    \/ \E a \in Arrays :
        NewArray(a) \/ NoArrayForWant(a) \/ CopyItem(a) \/ CopyFails(a) \/ ItemThrows(a) \/ Copied(a)

\* They indeed leave the processes and what is known of them alone.
LEMMA Quiet ==
    ASSUME QuietStep
    PROVE  /\ UNCHANGED <<table, known, starts, hits, abandoned>>
           /\ pc # "wait" /\ pc' # "wait" /\ (child' = child \/ child' = 0)
           /\ \/ pc = "idle" /\ calls' = calls + 1 /\ calls < MaxCalls
              \/ pc # "idle" /\ calls' = calls
<1>1. CASE Call
  BY <1>1 DEF Call, table_vars
<1>2. CASE ForkFails \/ Return \/ ResultThrows
  BY <1>2 DEF ForkFails, Return, ResultThrows, Release, Leave, table_vars
<1>3. CASE \E a \in Arrays : NewArray(a) \/ NoArrayForWant(a)
  BY <1>3 DEF Arrays, NewArray, NoArrayForWant, Release, Leave, table_vars, Wanted
<1>4. CASE \E a \in Arrays : CopyItem(a) \/ CopyFails(a) \/ ItemThrows(a) \/ Copied(a)
  BY <1>4 DEF Arrays, CopyItem, CopyFails, ItemThrows, Copied, Release, Leave, table_vars
<1> QED
  BY <1>1, <1>2, <1>3, <1>4 DEF QuietStep

\* Every step keeps the process table and what scripts know of it sound.
LEMMA NextProcs == ProcsSound /\ [Next]_vars => ProcsSound'
<1> SUFFICES ASSUME ProcsSound, [Next]_vars PROVE ProcsSound'
  OBVIOUS
<1>0. table \in [Pids -> Processes]
  BY DEF ProcsSound
<1>1. CASE QuietStep
  BY <1>1, Quiet, ProcsRest
<1>2. CASE Fork
  <2>1. PICK p \in Pids :
          /\ table[p] = Gone
          /\ table' = [table EXCEPT ![p] = [state |-> "running", gen |-> starts + 1]]
          /\ child' = p
    BY <1>2 DEF Fork
  <2> DEFINE t == [state |-> "running", gen |-> starts + 1]
  <2>2. /\ pc = "fork" /\ pc' = "wait" /\ starts < MaxStarts /\ starts' = starts + 1
        /\ UNCHANGED known
    BY <1>2 DEF Fork
  <2>3. t \in Processes /\ t.state = "running" /\ t.gen = starts + 1
    BY <2>2 DEF Processes, ProcsSound
  <2>4. child = 0
    BY <2>2 DEF ProcsSound
  <2> HIDE DEF t
  <2> QED
    BY <2>1, <2>2, <2>3, <2>4, EntryTaken DEF t
<1>3. CASE Reap
  <2>1. /\ pc = "wait" /\ pc' = "result" /\ UNCHANGED starts /\ child' = 0
        /\ known' = known \union {[pid |-> child, gen |-> table[child].gen]}
        /\ table' = [table EXCEPT ![child] = Gone] /\ table[child].state = "zombie"
    BY <1>3 DEF Reap
  <2>2. child \in Pids /\ table[child] # Gone /\ table[child].gen \in 1 .. starts
    BY <2>1, GoneType DEF ProcsSound, Numbered
  <2>3. /\ table' \in [Pids -> Processes] /\ table'[child] = Gone
        /\ \A q \in Pids \ {child} : table'[q] = table[q]
    BY <1>0, <2>1, <2>2, GoneType
  <2> DEFINE r == [pid |-> child, gen |-> table[child].gen]
  <2>4. r \in [pid : Pids, gen : 1 .. MaxStarts] /\ r.gen = table[child].gen
    BY <2>2 DEF ProcsSound
  <2>5. known' = known \union {r}
    BY <2>1
  <2> HIDE DEF r
  <2>6. \A q \in Pids : table'[q].gen # table[child].gen
    BY <2>2, <2>3, GoneType DEF ProcsSound
  <2>7. \A x \in known : x.gen \in 1 .. MaxStarts /\ x.gen <= starts /\ \A q \in Pids : table'[q].gen # x.gen
    BY <2>3, GoneType DEF ProcsSound
  <2>8. \A x \in known' : x.gen <= starts' /\ \A q \in Pids : table'[q].gen # x.gen
    BY <2>1, <2>2, <2>4, <2>5, <2>6, <2>7
  <2>9. \A q \in Pids : Numbered(table'[q], starts')
    BY <2>1, <2>3 DEF ProcsSound, Numbered
  <2>10. \A q, x \in Pids : table'[q].gen = table'[x].gen /\ q # x => table'[q] = Gone
    <3>1. ASSUME NEW q \in Pids, NEW x \in Pids, table'[q].gen = table'[x].gen, q # x, table'[q] # Gone
          PROVE  FALSE
      <4>1. q # child /\ table'[q].gen # 0
        BY <2>1, <2>3, <2>9, <3>1 DEF Numbered
      <4>2. x # child
        BY <2>3, <3>1, <4>1, GoneType
      <4> QED
        BY <2>3, <3>1, <4>1, <4>2 DEF ProcsSound
    <3> QED
      BY <3>1
  <2> QED
    BY <2>1, <2>3, <2>4, <2>5, <2>8, <2>9, <2>10 DEF ProcsSound
<1>4. CASE WaitFails
  <2>1. UNCHANGED <<table, known, starts>> /\ pc' # "wait" /\ child' = 0
    BY <1>4 DEF WaitFails, Release, Leave, table_vars
  <2> QED
    BY <2>1, ProcsRest
<1>5. CASE SendSignal
  <2>1. PICK r \in known :
          /\ table[r.pid] # Gone
          /\ table' = table \/ table' = [table EXCEPT ![r.pid] = Killed(@)]
    BY <1>5 DEF SendSignal
  <2>2. pc = "idle" /\ UNCHANGED <<known, starts, child, pc>>
    BY <1>5 DEF SendSignal
  <2>3. r.pid \in Pids /\ child = 0
    BY <2>2 DEF ProcsSound
  <2>4. CASE table' = table
    BY <2>2, <2>4, ProcsRest
  <2>5. CASE table' = [table EXCEPT ![r.pid] = Killed(@)]
    <3> DEFINE t == Killed(table[r.pid])
    <3>1. t \in Processes /\ (t = Gone \/ (t.state = "zombie" /\ t.gen = table[r.pid].gen))
      BY <1>0, <2>3, KilledProcess
    <3>2. table' = [table EXCEPT ![r.pid] = t]
      BY <1>0, <2>3, <2>5
    <3> HIDE DEF t
    <3>3. t = Gone \/ Numbered(t, starts)
      BY <2>1, <2>3, <3>1 DEF ProcsSound, Numbered
    <3> QED
      BY <2>1, <2>2, <2>3, <3>1, <3>2, <3>3, EntryChanges
  <2> QED
    BY <2>1, <2>4, <2>5
<1>6. ASSUME NEW p \in Pids, Exits(p), UNCHANGED <<child, pc>> PROVE ProcsSound'
  <2> DEFINE t == [table[p] EXCEPT !.state = "zombie"]
  <2>1. table[p] \in Processes /\ table[p].state = "running"
    BY <1>0, <1>6 DEF Exits
  <2>2. t \in Processes /\ t.state = "zombie" /\ t.gen = table[p].gen
    BY <2>1 DEF Processes
  <2>3. table' = [table EXCEPT ![p] = t] /\ UNCHANGED <<known, starts>>
    BY <1>6 DEF Exits
  <2> HIDE DEF t
  <2>4. table[p] # Gone /\ Numbered(t, starts)
    BY <2>1, <2>2, GoneType DEF ProcsSound, Numbered
  <2> QED
    BY <1>6, <2>2, <2>3, <2>4, EntryChanges
<1>7. ASSUME NEW p \in Pids, OtherStarts(p), UNCHANGED <<child, pc>> PROVE ProcsSound'
  <2> DEFINE t == [state |-> "other", gen |-> starts + 1]
  <2>1. /\ table[p] = Gone /\ starts < MaxStarts /\ table' = [table EXCEPT ![p] = t]
        /\ starts' = starts + 1 /\ UNCHANGED known
    BY <1>7 DEF OtherStarts
  <2>2. t \in Processes /\ t.state = "other" /\ t.gen = starts + 1
    BY <2>1 DEF Processes, ProcsSound
  <2> HIDE DEF t
  <2> QED
    BY <1>7, <2>1, <2>2, EntryTaken
<1>8. ASSUME NEW p \in Pids, OtherEnds(p), UNCHANGED <<child, pc>> PROVE ProcsSound'
  <2>1. /\ table[p].state = "other" /\ table' = [table EXCEPT ![p] = Gone]
        /\ UNCHANGED <<known, starts>>
    BY <1>8 DEF OtherEnds
  <2>2. child # p
    BY <2>1 DEF ProcsSound
  <2> QED
    BY <1>8, <2>1, <2>2, GoneType, EntryChanges
<1>9. CASE UNCHANGED vars
  BY <1>9, ProcsRest DEF vars, table_vars
<1> QED
  BY <1>1, <1>2, <1>3, <1>4, <1>5, <1>6, <1>7, <1>8, <1>9 DEF Next, QuietStep, Kernel

\* A signal is sent to a process that has not the number of the result.
LEMMA NextHits == ProcsSound /\ SignalTooLate /\ [Next]_vars => SignalTooLate'
<1> SUFFICES ASSUME ProcsSound, SignalTooLate, [Next]_vars PROVE SignalTooLate'
  OBVIOUS
<1>1. CASE SendSignal
  <2>1. PICK r \in known : /\ table[r.pid] # Gone
                           /\ hits' = hits \union {[meant |-> r.gen, hit |-> table[r.pid].gen]}
    BY <1>1 DEF SendSignal
  <2>2. r.gen # table[r.pid].gen
    BY DEF ProcsSound
  <2> QED
    BY <2>1, <2>2 DEF SignalTooLate
<1>2. CASE hits' = hits
  BY <1>2 DEF SignalTooLate
<1>3. SendSignal \/ hits' = hits
  <2>1. Fork \/ Reap \/ WaitFails \/ Kernel => hits' = hits
    BY DEF Fork, Reap, WaitFails, Kernel, Exits, OtherStarts, OtherEnds, table_vars
  <2> QED
    BY <2>1, Quiet DEF Next, QuietStep, vars, table_vars
<1> QED
  BY <1>1, <1>2, <1>3

\* The set of children left behind changes when a wait fails, and then by one.
LEMMA OrphansFinite == IsFiniteSet(Orphans) /\ Cardinality(Orphans) \in Nat
<1>1. Orphans \subseteq Pids
  BY DEF Orphans
<1> QED
  BY <1>1, FS_Subset, FS_CardinalityType

\* Every step keeps the count of children left behind.
LEMMA NextLedger == ProcsSound /\ LedgerSound /\ [Next]_vars => LedgerSound'
<1> SUFFICES ASSUME ProcsSound, LedgerSound, [Next]_vars PROVE LedgerSound'
  OBVIOUS
<1>0. table \in [Pids -> Processes] /\ abandoned = Cardinality(Orphans)
  BY DEF ProcsSound, LedgerSound, ChildrenLedger, Orphans
<1>a. ASSUME Orphans' = Orphans, abandoned' = abandoned,
             \/ calls' = calls /\ (pc' # "idle" => pc # "idle")
             \/ pc = "idle" /\ calls' = calls + 1 /\ calls < MaxCalls
      PROVE  LedgerSound'
  <2>1. ChildrenLedger'
    BY <1>0, <1>a DEF ChildrenLedger, Orphans
  <2> QED
    BY <1>a, <2>1 DEF LedgerSound
<1>1. CASE QuietStep
  <2>1. child = 0
    BY <1>1, Quiet DEF ProcsSound
  <2>2. Orphans' = Orphans
    BY <1>1, <2>1, Quiet DEF Orphans
  <2> QED
    BY <1>1, <1>a, <2>2, Quiet
<1>2. CASE Fork
  <2>1. PICK p \in Pids :
          /\ table[p] = Gone
          /\ table' = [table EXCEPT ![p] = [state |-> "running", gen |-> starts + 1]]
          /\ child' = p
    BY <1>2 DEF Fork
  <2>2. pc = "fork" /\ UNCHANGED <<calls, abandoned>>
    BY <1>2 DEF Fork
  <2>3. child = 0
    BY <2>2 DEF ProcsSound
  <2>4. table[p].state = "none" /\ \A q \in Pids \ {p} : table'[q] = table[q]
    BY <1>0, <2>1, GoneType
  <2>5. Orphans' = Orphans
    BY <2>1, <2>3, <2>4 DEF Orphans
  <2> QED
    BY <1>a, <2>2, <2>5
<1>3. CASE Reap
  <2>1. /\ pc = "wait" /\ child' = 0 /\ table' = [table EXCEPT ![child] = Gone]
        /\ UNCHANGED <<calls, abandoned>>
    BY <1>3 DEF Reap
  <2>2. child \in Pids
    BY <2>1 DEF ProcsSound
  <2>3. table'[child].state = "none" /\ \A q \in Pids \ {child} : table'[q] = table[q]
    BY <1>0, <2>1, <2>2, GoneType
  <2>4. Orphans' = Orphans
    BY <2>1, <2>3 DEF Orphans
  <2> QED
    BY <1>a, <2>1, <2>4
<1>4. CASE WaitFails
  <2>1. /\ pc = "wait" /\ pc' = "idle" /\ child' = 0 /\ UNCHANGED <<table, calls>>
        /\ abandoned' = abandoned + 1
    BY <1>4 DEF WaitFails, Release, Leave, table_vars
  <2>2. child \in Pids /\ table[child].state \in {"running", "zombie"}
    BY <2>1 DEF ProcsSound
  <2>3. child \notin Orphans /\ Orphans' = Orphans \union {child}
    BY <2>1, <2>2 DEF Orphans
  <2>4. Cardinality(Orphans') = Cardinality(Orphans) + 1
    BY <2>3, OrphansFinite, FS_AddElement
  <2>5. ChildrenLedger'
    BY <1>0, <2>1, <2>4 DEF ChildrenLedger, Orphans
  <2> QED
    BY <2>1, <2>5 DEF LedgerSound
<1>5. CASE SendSignal
  <2>1. PICK r \in known :
          table' = table \/ table' = [table EXCEPT ![r.pid] = Killed(@)]
    BY <1>5 DEF SendSignal
  <2>2. UNCHANGED <<child, pc, calls, abandoned>>
    BY <1>5 DEF SendSignal
  <2>3. r.pid \in Pids /\ table[r.pid] \in Processes
    BY <1>0 DEF ProcsSound
  <2>4. \A q \in Pids : table'[q].state \in {"running", "zombie"}
                          <=> table[q].state \in {"running", "zombie"}
    BY <1>0, <2>1, <2>3, KilledProcess, GoneType
  <2>5. Orphans' = Orphans
    BY <2>2, <2>4 DEF Orphans
  <2> QED
    BY <1>a, <2>2, <2>5
<1>6. CASE Kernel
  <2>1. UNCHANGED <<child, pc, calls, abandoned>>
    BY <1>6 DEF Kernel
  <2>2. PICK p \in Pids :
          \/ table[p].state = "running" /\ table' = [table EXCEPT ![p].state = "zombie"]
          \/ table[p] = Gone /\ table' = [table EXCEPT ![p] = [state |-> "other", gen |-> starts + 1]]
          \/ table[p].state = "other" /\ table' = [table EXCEPT ![p] = Gone]
    BY <1>6 DEF Kernel, Exits, OtherStarts, OtherEnds
  <2>3. \A q \in Pids \ {p} : table'[q] = table[q]
    BY <1>0, <2>2
  <2>4. table'[p].state \in {"running", "zombie"} <=> table[p].state \in {"running", "zombie"}
    <3>1. CASE table[p].state = "running" /\ table' = [table EXCEPT ![p].state = "zombie"]
      <4>1. table[p] \in Processes
        BY <1>0
      <4>2. table'[p] = [table[p] EXCEPT !.state = "zombie"]
        BY <1>0, <3>1
      <4>3. table'[p].state = "zombie"
        BY <4>1, <4>2 DEF Processes
      <4> QED
        BY <3>1, <4>3
    <3>2. CASE table[p] = Gone /\ table' = [table EXCEPT ![p] = [state |-> "other", gen |-> starts + 1]]
      BY <1>0, <3>2, GoneType
    <3>3. CASE table[p].state = "other" /\ table' = [table EXCEPT ![p] = Gone]
      BY <1>0, <3>3, GoneType
    <3> QED
      BY <2>2, <3>1, <3>2, <3>3
  <2>5. Orphans' = Orphans
    BY <2>1, <2>3, <2>4 DEF Orphans
  <2> QED
    BY <1>a, <2>1, <2>5
<1>7. CASE UNCHANGED vars
  <2>1. Orphans' = Orphans /\ UNCHANGED <<pc, calls, abandoned>>
    BY <1>7 DEF Orphans, vars, table_vars
  <2> QED
    BY <1>a, <2>1
<1> QED
  BY <1>1, <1>2, <1>3, <1>4, <1>5, <1>6, <1>7 DEF Next, QuietStep

-----------------------------------------------------------------------------
(* Arguments *)

\* Where the array a is there.
Made(a) ==
    IF a = "args" THEN pc \in {"args", "calloc_env", "env", "fork", "wait", "result"}
                  ELSE pc \in {"env", "fork", "wait", "result"}

\* What is copied and what is still to be copied is what was given, and an array is
\* sound, and exact as long as realloc() works.
ArraysSound ==
    /\ pc \in PCs /\ damaged \in BOOLEAN
    /\ todo \in [Arrays -> 0 .. MaxItems + 1] /\ given \in [Arrays -> 0 .. MaxItems + 1]
    /\ arr \in [Arrays -> Vectors]
    /\ \A a \in Arrays :
        /\ Made(a) => /\ arr[a].length + todo[a] = given[a]
                      /\ CellsSound(arr[a]) /\ (~damaged => CellsExact(arr[a]))
        /\ ~Made(a) => arr[a] = NoArray /\ (pc # "idle" => todo[a] = given[a])
    /\ pc \in {"calloc_env", "env", "fork", "wait", "result"} => todo["args"] = 0
    /\ pc \in {"fork", "wait", "result"} => todo["env"] = 0

\* The array that is not there is empty.
LEMMA NoArrayType == NoArray \in Vectors /\ NoArray.size = 0
<1>1. <<>> \in Seq(0 .. Junk)
  OBVIOUS
<1> QED
  BY <1>1 DEF NoArray, Vectors

\* A call that is over has no arrays.
LEMMA LeaveArrays ==
    ASSUME ArraysSound, UNCHANGED <<given, damaged>>, NEW blocks, NEW way, Leave(blocks, way)
    PROVE  ArraysSound'
<1>1. /\ pc' = "idle" /\ arr' = [a \in Arrays |-> NoArray] /\ todo' = [a \in Arrays |-> 0]
  BY DEF Leave
<1> QED
  BY <1>1, NoArrayType DEF ArraysSound, PCs, Made

\* A step that goes on with the arrays as they are.
LEMMA ArraysRest ==
    ASSUME ArraysSound, UNCHANGED <<given, damaged, arr, todo>>, pc' \in PCs,
           \A a \in Arrays : Made(a)' <=> Made(a),
           pc' = "idle" <=> pc = "idle",
           pc' \in {"calloc_env", "env", "fork", "wait", "result"} => todo["args"] = 0,
           pc' \in {"fork", "wait", "result"} => todo["env"] = 0
    PROVE  ArraysSound'
BY DEF ArraysSound, Made

\* What appending a string to an exact array that grows leaves is exact.
LEMMA AddedExact ==
    ASSUME NEW x \in Vectors, CellsExact(x), x.length < MaxItems + 1
    PROVE  LET size  == Grown(x)
               cells == IF size = x.size THEN x.cells ELSE Resized(x.cells, size)
           IN  /\ x.length + 2 <= Len(cells)
               /\ CellsExact(Stored(x, x.length + 1, cells, size))
<1> DEFINE size  == Grown(x)
           cells == IF size = x.size THEN x.cells ELSE Resized(x.cells, size)
           y == Stored(x, x.length + 1, cells, size)
<1>0. x.length \in Nat /\ x.size \in Nat /\ x.cells \in Seq(0 .. Junk) /\ Len(x.cells) = x.size
      /\ x.length + 2 <= x.size /\ \A i \in 1 .. x.length : x.cells[i] = i
  BY DEF Vectors, CellsExact
<1>1. size \in Nat /\ size >= x.size /\ x.length + 3 <= size
  <2>1. \A l, s \in Nat : l + 2 <= s =>
          LET g == IF l + 2 >= s THEN 2 * s ELSE s
          IN  g \in Nat /\ g >= s /\ l + 3 <= g
    OBVIOUS
  <2> HIDE DEF cells, y
  <2>2. x.length \in Nat /\ x.size \in Nat /\ x.length + 2 <= x.size
    BY <1>0
  <2> QED
    BY <2>1, <2>2, Zenon DEF Grown
<1>2. /\ cells \in Seq(0 .. Junk) /\ Len(cells) = size
      /\ \A i \in 1 .. x.length : cells[i] = i
  <2>1. CASE size = x.size
    BY <1>0, <2>1
  <2>2. CASE size # x.size
    <3>1. cells = Resized(x.cells, size)
      BY <2>2
    <3> HIDE DEF cells, size
    <3>2. /\ cells \in Seq(0 .. Junk) /\ Len(cells) = size
          /\ \A i \in 1 .. size : cells[i] = IF i <= Len(x.cells) THEN x.cells[i] ELSE Junk
      <4> DEFINE xs == x.cells
      <4>1. xs \in Seq(0 .. Junk) /\ cells = Resized(xs, size)
        BY <1>0, <3>1
      <4> HIDE DEF xs
      <4>2. /\ cells \in Seq(0 .. Junk) /\ Len(cells) = size
            /\ \A i \in 1 .. size : cells[i] = IF i <= Len(xs) THEN xs[i] ELSE Junk
        BY <1>1, <4>1, ResizedCells
      <4> QED
        BY <4>2 DEF xs
    <3>3. ASSUME NEW i \in 1 .. x.length PROVE cells[i] = i
      <4>1. i \in 1 .. size /\ i <= Len(x.cells) /\ x.cells[i] = i
        BY <1>0, <1>1
      <4> QED
        BY <3>2, <4>1
    <3> QED
      BY <3>2, <3>3
  <2> QED
    BY <2>1, <2>2
<1> HIDE DEF size, cells
<1>3. x.length + 1 \in 1 .. MaxItems + 1
  BY <1>0
<1>4. /\ y.length = x.length + 1 /\ y.size = size /\ Len(y.cells) = Len(cells)
      /\ \A i \in 1 .. Len(cells) :
            y.cells[i] = IF i = x.length + 1 THEN x.length + 1
                         ELSE IF i = x.length + 2 THEN Null ELSE cells[i]
  BY <1>1, <1>2, <1>3, StoredVector, SMTT(30)
<1> HIDE DEF y
<1>5. CellsExact(y)
  <2>1. \A i \in 1 .. y.length : y.cells[i] = i
    <3>1. ASSUME NEW i \in 1 .. y.length PROVE y.cells[i] = i
      <4>1. i \in 1 .. Len(cells) /\ (i = x.length + 1 \/ i \in 1 .. x.length) /\ i # x.length + 2
        BY <1>0, <1>1, <1>2, <1>4
      <4> QED
        BY <1>2, <1>4, <4>1
    <3> QED
      BY <3>1
  <2> QED
    BY <1>0, <1>1, <1>2, <1>4, <2>1 DEF CellsExact
<1>6. x.length + 2 <= Len(cells)
  BY <1>0, <1>1, <1>2
<1> QED
  BY <1>5, <1>6, Zenon DEF size, cells, y

\* What appending a string leaves is sound, in whatever cells.
LEMMA StoredSound ==
    ASSUME NEW x \in Vectors, CellsSound(x), NEW s \in 1 .. MaxItems + 1, NEW size \in Nat,
           NEW cells, cells = x.cells \/ cells = Resized(x.cells, size), x.length < MaxItems + 1
    PROVE  /\ Stored(x, s, cells, size) \in Vectors
           /\ Stored(x, s, cells, size).length = x.length + 1
           /\ CellsSound(Stored(x, s, cells, size))
<1> DEFINE y == Stored(x, s, cells, size)
<1>0. x.length \in Nat /\ x.cells \in Seq(0 .. Junk) /\ Len(x.cells) \in Nat
  BY DEF Vectors
<1>1. cells \in Seq(0 .. Junk) /\ Len(cells) \in Nat
  BY <1>0, ResizedCells
<1>2. \A i \in 1 .. Len(cells) : i <= x.length => cells[i] # Null
  <2>1. CASE cells = x.cells
    BY <2>1 DEF CellsSound
  <2>2. CASE cells = Resized(x.cells, size)
    <3>1. Junk # Null
      BY DEF Junk, Null
    <3>2. ASSUME NEW i \in 1 .. Len(cells), i <= x.length PROVE cells[i] # Null
      <4>1. Len(cells) = size /\ cells[i] = IF i <= Len(x.cells) THEN x.cells[i] ELSE Junk
        BY <1>0, <2>2, ResizedCells
      <4>2. i <= Len(x.cells) => x.cells[i] # Null
        BY <1>0, <1>1, <3>2 DEF CellsSound
      <4> QED
        BY <3>1, <4>1, <4>2
    <3> QED
      BY <3>2
  <2> QED
    BY <2>1, <2>2
<1>3. /\ y \in Vectors /\ y.length = x.length + 1 /\ Len(y.cells) = Len(cells)
      /\ \A i \in 1 .. Len(cells) :
            y.cells[i] = IF i = x.length + 1 THEN s
                         ELSE IF i = x.length + 2 THEN Null ELSE cells[i]
  BY <1>1, StoredVector
<1> HIDE DEF y
<1>4. CellsSound(y)
  <2>1. ASSUME NEW i \in 1 .. Len(cells)
        PROVE  /\ i <= x.length + 1 => y.cells[i] # Null
               /\ i = x.length + 2 => y.cells[i] = Null
    <3>1. y.cells[i] = IF i = x.length + 1 THEN s ELSE IF i = x.length + 2 THEN Null ELSE cells[i]
      BY <1>3
    <3>2. i <= x.length + 1 => i = x.length + 1 \/ i <= x.length
      BY <1>0
    <3>3. i <= x.length => cells[i] # Null /\ i # x.length + 2
      BY <1>0, <1>2
    <3>4. s # Null /\ x.length + 2 # x.length + 1 /\ (i = x.length + 1 => i # x.length + 2)
      BY <1>0 DEF Null
    <3>5. ~(x.length + 2 <= x.length + 1)
      BY <1>0
    <3> QED
      BY <3>1, <3>2, <3>3, <3>4, <3>5
  <2> QED
    BY <1>0, <1>3, <2>1 DEF CellsSound
<1> QED
  BY <1>3, <1>4 DEF y

\* Every step keeps the arrays sound.
LEMMA NextArrays == ArraysSound /\ [Next]_vars => ArraysSound'
<1> SUFFICES ASSUME ArraysSound, [Next]_vars PROVE ArraysSound'
  OBVIOUS
<1>0. /\ pc \in PCs /\ arr \in [Arrays -> Vectors]
      /\ todo \in [Arrays -> 0 .. MaxItems + 1] /\ given \in [Arrays -> 0 .. MaxItems + 1]
  BY DEF ArraysSound
<1>1. CASE Call
  <2>1. PICK n \in 0 .. MaxItems, m \in 0 .. MaxItems :
          given' = [a \in Arrays |-> IF a = "args" THEN n + 1 ELSE m] /\ todo' = given'
    BY <1>1 DEF Call
  <2>2. pc = "idle" /\ pc' = "calloc_args" /\ damaged' = FALSE /\ arr' = arr
    BY <1>1 DEF Call
  <2>3. given' \in [Arrays -> 0 .. MaxItems + 1]
    BY <2>1
  <2>4. \A a \in Arrays : arr[a] = NoArray
    BY <2>2 DEF ArraysSound, Made
  <2> QED
    BY <1>0, <2>1, <2>2, <2>3, <2>4 DEF ArraysSound, PCs, Made
<1>2. ASSUME NEW a \in Arrays, NewArray(a) PROVE ArraysSound'
  <2>1. /\ pc = Wanted(a) /\ pc' = a /\ UNCHANGED <<todo, given, damaged>>
        /\ arr' = [arr EXCEPT ![a] = Empty(InitSize)]
    BY <1>2 DEF NewArray, Empty
  <2>2. /\ arr' \in [Arrays -> Vectors] /\ arr'[a] = Empty(InitSize)
        /\ \A b \in Arrays \ {a} : arr'[b] = arr[b]
    BY <1>0, <2>1, EmptySound
  <2>3. (a = "args" /\ pc = "calloc_args") \/ (a = "env" /\ pc = "calloc_env")
    BY <2>1 DEF Wanted, Arrays
  <2>4. todo[a] = given[a] /\ given[a] \in Nat
    BY <1>0, <2>3 DEF ArraysSound, Made
  <2>5. /\ \A b \in Arrays \ {a} : Made(b)' <=> Made(b)
        /\ Made(a)'
    BY <2>1, <2>3 DEF Made, Arrays
  <2>6. \A b \in Arrays :
          /\ Made(b)' => /\ arr'[b].length + todo'[b] = given'[b]
                         /\ CellsSound(arr'[b]) /\ (~damaged' => CellsExact(arr'[b]))
          /\ ~Made(b)' => arr'[b] = NoArray /\ (pc' # "idle" => todo'[b] = given'[b])
    <3>1. ASSUME NEW b \in Arrays, b # a
          PROVE  /\ Made(b)' => /\ arr'[b].length + todo'[b] = given'[b]
                                /\ CellsSound(arr'[b]) /\ (~damaged' => CellsExact(arr'[b]))
                 /\ ~Made(b)' => arr'[b] = NoArray /\ (pc' # "idle" => todo'[b] = given'[b])
      BY <2>1, <2>2, <2>3, <2>5, <3>1 DEF ArraysSound
    <3> QED
      BY <2>1, <2>2, <2>4, <2>5, <3>1, EmptySound
  <2> QED
    BY <1>0, <2>1, <2>2, <2>3, <2>6 DEF ArraysSound, PCs
<1>3. ASSUME NEW a \in Arrays, CopyItem(a) PROVE ArraysSound'
  <2> DEFINE x == arr[a]
  <2>1. /\ pc = a /\ todo[a] > 0 /\ todo' = [todo EXCEPT ![a] = @ - 1]
        /\ UNCHANGED <<pc, given>>
        /\ \/ AddString(a) /\ UNCHANGED damaged
           \/ AddStringUnresized(a) /\ damaged' = TRUE
    BY <1>3 DEF CopyItem
  <2>2. Made(a) /\ x \in Vectors /\ x.length + todo[a] = given[a] /\ CellsSound(x)
    BY <1>0, <2>1 DEF ArraysSound, Made, Arrays
  <2>3. x.length \in Nat /\ x.size \in Nat /\ x.length < MaxItems + 1 /\ NextItem(a) = x.length + 1
    BY <1>0, <2>1, <2>2 DEF Vectors, NextItem
  <2>4. NextItem(a) \in 1 .. MaxItems + 1 /\ Grown(x) \in Nat
    BY <2>3 DEF Grown
  <2>5. PICK y \in Vectors :
          /\ arr' = [arr EXCEPT ![a] = y] /\ y.length = x.length + 1 /\ CellsSound(y)
          /\ ~damaged' => CellsExact(y)
    <3>1. CASE AddString(a) /\ UNCHANGED damaged
      <4> DEFINE cells == IF Grown(x) = x.size THEN x.cells ELSE Resized(x.cells, Grown(x))
                 y == Stored(x, NextItem(a), cells, Grown(x))
      <4>1. arr' = [arr EXCEPT ![a] = y]
        BY <3>1 DEF AddString
      <4>2. y \in Vectors /\ y.length = x.length + 1 /\ CellsSound(y)
        BY <2>2, <2>3, <2>4, StoredSound
      <4>3. ~damaged' => CellsExact(y)
        BY <2>2, <2>3, <3>1, AddedExact DEF ArraysSound
      <4> QED
        BY <4>1, <4>2, <4>3
    <3>2. CASE AddStringUnresized(a) /\ damaged' = TRUE
      <4> DEFINE y == Stored(x, NextItem(a), x.cells, Grown(x))
      <4>1. arr' = [arr EXCEPT ![a] = y]
        BY <3>2 DEF AddStringUnresized
      <4>2. y \in Vectors /\ y.length = x.length + 1 /\ CellsSound(y)
        BY <2>2, <2>3, <2>4, StoredSound
      <4> QED
        BY <3>2, <4>1, <4>2
    <3> QED
      BY <2>1, <3>1, <3>2
  <2>6. /\ arr' \in [Arrays -> Vectors] /\ arr'[a] = y
        /\ \A b \in Arrays \ {a} : arr'[b] = arr[b] /\ todo'[b] = todo[b]
        /\ todo'[a] = todo[a] - 1 /\ todo' \in [Arrays -> 0 .. MaxItems + 1]
    BY <1>0, <2>1, <2>5
  <2>7. \A b \in Arrays : Made(b)' <=> Made(b)
    BY <2>1 DEF Made
  <2>8. arr'[a].length + todo'[a] = given'[a]
    BY <1>0, <2>1, <2>2, <2>3, <2>5, <2>6
  <2>9. damaged' \in BOOLEAN /\ (~damaged' => ~damaged)
    <3>1. damaged \in BOOLEAN
      BY DEF ArraysSound
    <3>2. damaged' = damaged \/ damaged' = TRUE
      BY <2>1
    <3> QED
      BY <3>1, <3>2, Zenon
  <2>10. \A b \in Arrays \ {a} :
          /\ Made(b) => /\ arr'[b].length + todo'[b] = given'[b]
                        /\ CellsSound(arr'[b]) /\ (~damaged' => CellsExact(arr'[b]))
          /\ ~Made(b) => arr'[b] = NoArray /\ (pc' # "idle" => todo'[b] = given'[b])
    BY <2>1, <2>6, <2>9 DEF ArraysSound
  <2>11. pc' \in {"calloc_env", "env", "fork", "wait", "result"} => todo'["args"] = 0
    BY <2>1, <2>6 DEF ArraysSound, Arrays
  <2>12. pc' \notin {"fork", "wait", "result"}
    BY <2>1 DEF Arrays
  <2>13. \A b \in Arrays :
          /\ Made(b)' => /\ arr'[b].length + todo'[b] = given'[b]
                         /\ CellsSound(arr'[b]) /\ (~damaged' => CellsExact(arr'[b]))
          /\ ~Made(b)' => arr'[b] = NoArray /\ (pc' # "idle" => todo'[b] = given'[b])
    <3> HIDE DEF x
    <3> QED
      BY <2>2, <2>5, <2>6, <2>7, <2>8, <2>10
  <2> QED
    BY <1>0, <2>1, <2>6, <2>9, <2>11, <2>12, <2>13 DEF ArraysSound
<1>4. ASSUME NEW a \in Arrays, Copied(a) PROVE ArraysSound'
  <2>1. /\ pc = a /\ todo[a] = 0 /\ pc' = IF a = "args" THEN "calloc_env" ELSE "fork"
        /\ UNCHANGED <<arr, todo, given, damaged>>
    BY <1>4 DEF Copied, array_vars
  <2>2. (a = "args" /\ pc' = "calloc_env") \/ (a = "env" /\ pc' = "fork")
    BY <2>1 DEF Arrays
  <2>3. pc = "env" => todo["args"] = 0
    BY DEF ArraysSound
  <2> QED
    BY <2>1, <2>2, <2>3, ArraysRest DEF Made, Arrays, PCs
<1>5. ASSUME NEW a \in Arrays, NoArrayForWant(a) \/ CopyFails(a) \/ ItemThrows(a) PROVE ArraysSound'
  BY <1>5, LeaveArrays DEF NoArrayForWant, CopyFails, ItemThrows, Release
<1>6. CASE ForkFails \/ WaitFails \/ Return \/ ResultThrows
  BY <1>6, LeaveArrays DEF ForkFails, WaitFails, Return, ResultThrows, Release
<1>7. CASE Fork \/ Reap
  <2>1. /\ UNCHANGED <<arr, todo, given, damaged>>
        /\ pc \in {"fork", "wait"} /\ pc' \in {"wait", "result"}
    BY <1>7 DEF Fork, Reap, array_vars
  <2>2. todo["args"] = 0 /\ todo["env"] = 0
    BY <2>1 DEF ArraysSound
  <2> QED
    BY <2>1, <2>2, ArraysRest DEF Made, PCs
<1>8. CASE SendSignal \/ Kernel \/ UNCHANGED vars
  BY <1>8 DEF SendSignal, Kernel, vars, array_vars, ArraysSound, Made
<1> QED
  BY <1>1, <1>2, <1>3, <1>4, <1>5, <1>6, <1>7, <1>8 DEF Next

\* A child was started with what was given.
SeenSound == seen \in [Arrays -> Seq(1 .. Junk)] /\ ArgumentsExact

\* Every step keeps it that children got what was given.
LEMMA NextSeen == ArraysSound /\ SeenSound /\ [Next]_vars => SeenSound'
<1> SUFFICES ASSUME ArraysSound, SeenSound, [Next]_vars PROVE SeenSound'
  OBVIOUS
<1>1. CASE Fork
  <2>1. /\ pc = "fork" /\ seen' = [a \in Arrays |-> Strings(a)] /\ UNCHANGED <<given, damaged>>
    BY <1>1 DEF Fork
  <2>2. ASSUME NEW a \in Arrays
        PROVE  /\ Strings(a) \in Seq(1 .. Junk)
               /\ ~damaged => Strings(a) = [i \in 1 .. given[a] |-> i]
    <3>1. Made(a) /\ todo[a] = 0
      BY <2>1 DEF Made, ArraysSound, Arrays
    <3>2. /\ arr[a] \in Vectors /\ CellsSound(arr[a]) /\ (~damaged => CellsExact(arr[a]))
          /\ arr[a].length + todo[a] = given[a]
      BY <3>1 DEF ArraysSound
    <3>3. arr[a].length = given[a]
      BY <3>1, <3>2 DEF Vectors
    <3> QED
      BY <3>2, <3>3, StringsOf
  <2> QED
    BY <2>1, <2>2 DEF SeenSound, ArgumentsExact
<1>2. CASE Call
  <2>1. <<>> \in Seq(1 .. Junk)
    OBVIOUS
  <2>2. pc' = "calloc_args" /\ seen' = [a \in Arrays |-> <<>>]
    BY <1>2 DEF Call
  <2> QED
    BY <2>1, <2>2 DEF SeenSound, ArgumentsExact
<1>3. CASE Reap
  BY <1>3 DEF Reap, SeenSound, ArgumentsExact
<1>4. ASSUME seen' = seen, pc' \notin {"wait", "result"} PROVE SeenSound'
  BY <1>4 DEF SeenSound, ArgumentsExact
<1>5. CASE \E a \in Arrays : NewArray(a) \/ NoArrayForWant(a) \/ CopyItem(a) \/ CopyFails(a)
                             \/ ItemThrows(a) \/ Copied(a)
  <2>1. seen' = seen
    BY <1>5 DEF NewArray, NoArrayForWant, CopyItem, CopyFails, ItemThrows, Copied
  <2>2. pc' \notin {"wait", "result"}
    BY <1>5 DEF NewArray, NoArrayForWant, CopyItem, CopyFails, ItemThrows, Copied, Release, Leave,
                Arrays
  <2> QED
    BY <1>4, <2>1, <2>2
<1>6. CASE ForkFails \/ WaitFails \/ Return \/ ResultThrows
  BY <1>4, <1>6 DEF ForkFails, WaitFails, Return, ResultThrows, Release, Leave
<1>7. CASE SendSignal \/ Kernel \/ UNCHANGED vars
  BY <1>7 DEF SendSignal, Kernel, vars, SeenSound, ArgumentsExact
<1> QED
  BY <1>1, <1>2, <1>3, <1>5, <1>6, <1>7 DEF Next

-----------------------------------------------------------------------------
(* Memory *)

Blocks == (Arrays \X (0 .. MaxItems + 1)) \union Buffers
Ways   == {"none", "calloc", "strdup", "item", "fork", "wait", "return", "result"}

\* The blocks of the array a, and those of what is read from the child.
Held(a)    == IF Made(a) THEN {Block(a, i) : i \in 0 .. arr[a].length} ELSE {}
HeldOutput == IF pc \in {"wait", "result"} THEN Buffers ELSE {}

\* As long as realloc() works, what is allocated is what is reachable.
MemoryExact ==
    /\ live \subseteq Blocks /\ lost \in Ways /\ wrongFree \in BOOLEAN /\ overflow \in BOOLEAN
    /\ pc \in {"idle", "calloc_args"} => live = {}
    /\ ~damaged => live = Held("args") \union Held("env") \union HeldOutput
    /\ MemorySound

\* Blocks are blocks.
LEMMA BlockType == \A a \in Arrays : \A i \in 0 .. MaxItems + 1 : Block(a, i) \in Blocks
BY DEF Block, Blocks

\* free_string_array() frees an exact array and everything in it.
LEMMA FreesHeld ==
    ASSUME ArraysSound, ~damaged, NEW a \in Arrays
    PROVE  Frees(a) = Held(a)
<1>1. CASE Made(a)
  <2>1. arr[a] \in Vectors /\ CellsSound(arr[a]) /\ CellsExact(arr[a])
    BY <1>1 DEF ArraysSound
  <2>2. arr[a].length \in Nat
    BY <2>1 DEF Vectors
  <2>3. arr[a].size # 0
    BY <2>1, <2>2 DEF CellsExact, Vectors
  <2>4. arr[a] # NoArray
    BY <2>3, NoArrayType
  <2>5. Strings(a) = [i \in 1 .. arr[a].length |-> i]
    BY <2>1, StringsOf
  <2>6. Frees(a) = {Block(a, i) : i \in 1 .. arr[a].length} \union {Block(a, 0)}
    <3>1. Frees(a) = {Block(a, Strings(a)[i]) : i \in DOMAIN Strings(a)} \union {Block(a, 0)}
      BY <2>4 DEF Frees
    <3> QED
      BY <2>2, <2>5, <3>1
  <2>7. {Block(a, i) : i \in 1 .. arr[a].length} \union {Block(a, 0)}
          = {Block(a, i) : i \in 0 .. arr[a].length}
    BY <2>2
  <2> QED
    BY <1>1, <2>6, <2>7 DEF Held
<1>2. CASE ~Made(a)
  BY <1>2 DEF Held, ArraysSound, Frees
<1> QED
  BY <1>1, <1>2

\* A call ends and frees blocks: nothing is lost if it frees everything, or ends in
\* a way that may lose something.
LEMMA ReleaseKeeps ==
    ASSUME MemoryExact, NEW blocks, NEW way \in Ways, Release(blocks, way),
           UNCHANGED <<overflow, damaged>>,
           ~damaged => blocks \subseteq live /\ (blocks = live \/ way \in {"strdup", "item", "result"})
    PROVE  MemoryExact'
<1>1. /\ pc' = "idle" /\ live' = {} /\ wrongFree' = (wrongFree \/ ~(blocks \subseteq live))
      /\ lost' = IF live \ blocks = {} THEN "none" ELSE way
  BY DEF Release, Leave
<1>2. lost' \in Ways /\ wrongFree' \in BOOLEAN /\ overflow' \in BOOLEAN
  BY <1>1 DEF Ways, MemoryExact
<1>3. ~damaged' => live' = Held("args")' \union Held("env")' \union HeldOutput'
  BY <1>1 DEF Held, HeldOutput, Made
<1>4. MemorySound'
  BY <1>1 DEF MemoryExact, MemorySound, Ways
<1> QED
  BY <1>1, <1>2, <1>3, <1>4 DEF MemoryExact

\* A call ends in an error of JavaScript and frees nothing.
LEMMA LeaveKeeps ==
    ASSUME MemoryExact, NEW way \in {"item", "result"}, Leave(live, way),
           UNCHANGED <<wrongFree, overflow, damaged>>
    PROVE  MemoryExact'
<1>1. pc' = "idle" /\ live' = {} /\ lost' \in {"none", way}
  BY DEF Leave
<1>2. ~damaged' => live' = Held("args")' \union Held("env")' \union HeldOutput'
  BY <1>1 DEF Held, HeldOutput, Made
<1>3. MemorySound'
  BY <1>1 DEF MemoryExact, MemorySound
<1> QED
  BY <1>1, <1>2, <1>3 DEF MemoryExact, Ways

\* Every step keeps the blocks accounted for.
LEMMA NextMemory == ArraysSound /\ MemoryExact /\ [Next]_vars => MemoryExact'
<1> SUFFICES ASSUME ArraysSound, MemoryExact, [Next]_vars PROVE MemoryExact'
  OBVIOUS
<1>0. /\ arr \in [Arrays -> Vectors] /\ pc \in PCs /\ damaged \in BOOLEAN
      /\ wrongFree \in BOOLEAN /\ overflow \in BOOLEAN /\ live \subseteq Blocks /\ lost \in Ways
  BY DEF ArraysSound, MemoryExact
<1>a. ~damaged => \A a \in Arrays : Frees(a) = Held(a)
  BY FreesHeld
<1>b. ~damaged => live = Held("args") \union Held("env") \union HeldOutput
  BY DEF MemoryExact
<1>c. "args" \in Arrays /\ "env" \in Arrays
  BY DEF Arrays
<1>1. CASE Call
  <2>1. /\ pc = "idle" /\ pc' = "calloc_args" /\ live' = live /\ damaged' = FALSE
        /\ wrongFree' = FALSE /\ overflow' = FALSE /\ lost' = "none"
    BY <1>1 DEF Call
  <2>2. live' = {}
    BY <2>1 DEF MemoryExact
  <2>3. ~damaged' => live' = Held("args")' \union Held("env")' \union HeldOutput'
    BY <2>1, <2>2 DEF Held, HeldOutput, Made
  <2> QED
    BY <2>1, <2>2, <2>3 DEF MemoryExact, MemorySound, Ways
<1>2. ASSUME NEW a \in Arrays, NewArray(a) PROVE MemoryExact'
  <2>1. /\ pc = Wanted(a) /\ pc' = a /\ UNCHANGED <<damaged, wrongFree, overflow, lost>>
        /\ arr' = [arr EXCEPT ![a] = Empty(InitSize)] /\ live' = live \union {Block(a, 0)}
    BY <1>2 DEF NewArray, Empty
  <2>2. (a = "args" /\ pc = "calloc_args") \/ (a = "env" /\ pc = "calloc_env")
    BY <2>1 DEF Wanted, Arrays
  <2>3. arr'[a].length = 0 /\ \A b \in Arrays \ {a} : arr'[b] = arr[b]
    BY <1>0, <2>1, EmptySound
  <2>4. Held(a)' = {Block(a, 0)}
    <3>1. Held(a)' = {Block(a, i) : i \in 0 .. 0}
      BY <2>1, <2>2, <2>3 DEF Held, Made
    <3> QED
      BY <3>1
  <2>5. \A b \in Arrays \ {a} : Held(b)' = Held(b)
    BY <2>1, <2>2, <2>3 DEF Held, Made, Arrays
  <2>6. Held(a) = {} /\ HeldOutput = {} /\ HeldOutput' = {}
    BY <2>1, <2>2 DEF Held, HeldOutput, Made
  <2>7. ~damaged' => live' = Held("args")' \union Held("env")' \union HeldOutput'
    BY <1>b, <1>c, <2>1, <2>2, <2>4, <2>5, <2>6
  <2>8. live' \subseteq Blocks /\ MemorySound'
    BY <1>0, <2>1, BlockType DEF MemorySound, MemoryExact
  <2> QED
    BY <1>0, <2>1, <2>2, <2>7, <2>8 DEF MemoryExact
<1>3. ASSUME NEW a \in Arrays, CopyItem(a) PROVE MemoryExact'
  <2> DEFINE x == arr[a]
  <2>1. /\ pc = a /\ todo[a] > 0 /\ UNCHANGED <<pc, wrongFree, lost>>
        /\ \/ AddString(a) /\ UNCHANGED damaged
           \/ AddStringUnresized(a) /\ damaged' = TRUE
    BY <1>3 DEF CopyItem
  <2>2. Made(a) /\ x \in Vectors /\ x.length + todo[a] = given[a]
    BY <1>0, <2>1 DEF ArraysSound, Made, Arrays
  <2>3. x.length \in Nat /\ x.length < MaxItems + 1 /\ NextItem(a) = x.length + 1
    BY <2>1, <2>2 DEF Vectors, NextItem, ArraysSound
  <2>4. pc' \notin {"idle", "calloc_args"}
    BY <2>1 DEF Arrays
  <2>5. CASE AddStringUnresized(a) /\ damaged' = TRUE
    <3>1. live' = live /\ overflow' \in BOOLEAN
      BY <2>5 DEF AddStringUnresized
    <3> QED
      BY <1>0, <2>1, <2>4, <2>5, <3>1 DEF MemoryExact, MemorySound
  <2>6. CASE AddString(a) /\ UNCHANGED damaged
    <3> DEFINE cells == IF Grown(x) = x.size THEN x.cells ELSE Resized(x.cells, Grown(x))
               y == Stored(x, NextItem(a), cells, Grown(x))
    <3>1. /\ arr' = [arr EXCEPT ![a] = y] /\ live' = live \union {Block(a, NextItem(a))}
          /\ overflow' = (overflow \/ x.length + 2 > Len(cells))
      BY <2>6 DEF AddString
    <3>2. ~damaged => x.length + 2 <= Len(cells)
      <4>1. ~damaged => CellsExact(x)
        BY <2>2 DEF ArraysSound
      <4> QED
        BY <2>2, <2>3, <4>1, AddedExact
    <3>3. y.length = x.length + 1
      BY DEF Stored, NextItem
    <3> HIDE DEF y
    <3>4. arr'[a].length = x.length + 1 /\ \A b \in Arrays \ {a} : arr'[b] = arr[b]
      BY <1>0, <3>1, <3>3
    <3>5. Held(a) = {Block(a, i) : i \in 0 .. x.length}
      BY <2>2 DEF Held
    <3>6. Held(a)' = {Block(a, i) : i \in 0 .. x.length + 1}
      BY <2>1, <2>2, <3>4 DEF Held, Made
    <3>7. Held(a)' = Held(a) \union {Block(a, x.length + 1)}
      <4>1. \A i : i \in 0 .. x.length + 1 <=> i \in 0 .. x.length \/ i = x.length + 1
        BY <2>3
      <4> QED
        BY <3>5, <3>6, <4>1
    <3>8. \A b \in Arrays \ {a} : Held(b)' = Held(b)
      BY <2>1, <3>4 DEF Held, Made
    <3>9. HeldOutput' = HeldOutput
      BY <2>1 DEF HeldOutput
    <3>10. ~damaged' => live' = Held("args")' \union Held("env")' \union HeldOutput'
      <4>1. a = "args" \/ a = "env"
        BY DEF Arrays
      <4> HIDE DEF x
      <4> QED
        BY <1>b, <1>c, <2>3, <2>6, <3>1, <3>7, <3>8, <3>9, <4>1
    <3>11. live' \subseteq Blocks /\ overflow' \in BOOLEAN
      BY <1>0, <2>3, <3>1, BlockType
    <3>12. ~damaged => (overflow' <=> overflow)
      <4>1. ~damaged => ~(x.length + 2 > Len(cells))
        <5>1. cells \in Seq(0 .. Junk)
          <6>1. x.cells \in Seq(0 .. Junk) /\ Grown(x) \in Nat
            BY <2>2, <2>3 DEF Vectors, Grown
          <6> QED
            BY <6>1, ResizedCells
        <5>2. Len(cells) \in Nat
          BY <5>1, LenProperties
        <5> HIDE DEF cells, x
        <5> QED
          BY <2>3, <3>2, <5>2
      <4> QED
        BY <1>0, <3>1, <4>1, Zenon
    <3>13. MemorySound'
      BY <1>0, <2>1, <2>6, <3>12 DEF MemorySound, MemoryExact
    <3> QED
      BY <1>0, <2>1, <2>4, <3>10, <3>11, <3>13 DEF MemoryExact
  <2> QED
    BY <2>1, <2>5, <2>6
<1>4. ASSUME NEW a \in Arrays, NoArrayForWant(a) \/ CopyFails(a) PROVE MemoryExact'
  <2>1. ~damaged => FreedFor(a) = IF a = "env" THEN Held("args") ELSE {}
    BY <1>a, <1>c DEF FreedFor
  <2>2. ~damaged => FreedFor(a) \subseteq live
    BY <1>b, <2>1
  <2>3. CASE NoArrayForWant(a)
    <3>1. /\ pc = Wanted(a) /\ Release(FreedFor(a), "calloc") /\ UNCHANGED <<overflow, damaged>>
      BY <2>3 DEF NoArrayForWant
    <3>2. (a = "args" /\ pc = "calloc_args") \/ (a = "env" /\ pc = "calloc_env")
      BY <3>1 DEF Wanted, Arrays
    <3>3. ~damaged => FreedFor(a) = live
      BY <1>b, <2>1, <3>2 DEF Held, HeldOutput, Made
    <3> QED
      BY <2>2, <3>1, <3>3, ReleaseKeeps DEF Ways
  <2>4. CASE CopyFails(a)
    BY <2>2, <2>4, ReleaseKeeps DEF CopyFails, Ways
  <2> QED
    BY <1>4, <2>3, <2>4
<1>5. ASSUME NEW a \in Arrays, ItemThrows(a) PROVE MemoryExact'
  BY <1>5, LeaveKeeps DEF ItemThrows
<1>6. ASSUME NEW a \in Arrays, Copied(a) PROVE MemoryExact'
  <2>1. /\ pc = a /\ pc' = IF a = "args" THEN "calloc_env" ELSE "fork"
        /\ UNCHANGED <<arr, live, wrongFree, overflow, damaged, lost>>
    BY <1>6 DEF Copied, array_vars
  <2>2. (a = "args" /\ pc' = "calloc_env") \/ (a = "env" /\ pc' = "fork")
    BY <2>1 DEF Arrays
  <2>3. Held("args")' = Held("args") /\ Held("env")' = Held("env") /\ HeldOutput' = HeldOutput
    BY <2>1, <2>2 DEF Held, HeldOutput, Made
  <2> QED
    BY <1>0, <1>b, <2>1, <2>2, <2>3 DEF MemoryExact, MemorySound
<1>7. CASE ForkFails
  <2>1. pc = "fork" /\ Release(Frees("env") \union Frees("args"), "fork") /\ UNCHANGED <<overflow, damaged>>
    BY <1>7 DEF ForkFails
  <2>2. ~damaged => Frees("env") \union Frees("args") = live
    BY <1>a, <1>b, <1>c, <2>1 DEF HeldOutput
  <2> QED
    BY <2>1, <2>2, ReleaseKeeps DEF Ways
<1>8. CASE WaitFails \/ Return
  <2>1. /\ pc \in {"wait", "result"} /\ UNCHANGED <<overflow, damaged>>
        /\ \E way \in Ways : Release(Frees("env") \union Frees("args") \union Buffers, way)
    BY <1>8 DEF WaitFails, Return, Ways
  <2>2. ~damaged => Frees("env") \union Frees("args") \union Buffers = live
    BY <1>a, <1>b, <1>c, <2>1 DEF HeldOutput
  <2> QED
    BY <2>1, <2>2, ReleaseKeeps
<1>9. CASE ResultThrows
  BY <1>9, LeaveKeeps DEF ResultThrows
<1>10. CASE Fork \/ Reap
  <2>1. /\ UNCHANGED <<arr, wrongFree, overflow, damaged, lost>> /\ pc \in {"fork", "wait"}
        /\ pc' \in {"wait", "result"}
        /\ (pc = "fork" /\ live' = live \union Buffers) \/ (pc = "wait" /\ live' = live)
    BY <1>10 DEF Fork, Reap, array_vars
  <2>2. Held("args")' = Held("args") /\ Held("env")' = Held("env")
    BY <2>1 DEF Held, Made
  <2>3. ~damaged' => live' = Held("args")' \union Held("env")' \union HeldOutput'
    BY <1>b, <2>1, <2>2 DEF HeldOutput
  <2>4. live' \subseteq Blocks
    BY <1>0, <2>1 DEF Blocks
  <2> QED
    BY <1>0, <2>1, <2>3, <2>4 DEF MemoryExact, MemorySound
<1>11. CASE SendSignal \/ Kernel \/ UNCHANGED vars
  <2>1. UNCHANGED <<pc, arr, live, wrongFree, overflow, damaged, lost>>
    BY <1>11 DEF SendSignal, Kernel, vars, array_vars
  <2>2. Held("args")' = Held("args") /\ Held("env")' = Held("env") /\ HeldOutput' = HeldOutput
    BY <2>1 DEF Held, HeldOutput, Made
  <2> QED
    BY <1>0, <1>b, <2>1, <2>2 DEF MemoryExact, MemorySound
<1> QED
  BY <1>1, <1>2, <1>3, <1>4, <1>5, <1>6, <1>7, <1>8, <1>9, <1>10, <1>11 DEF Next

-----------------------------------------------------------------------------
(* Theorems *)

IInv ==
    /\ ProcsSound /\ LedgerSound /\ SignalTooLate
    /\ ArraysSound /\ SeenSound /\ MemoryExact

\* The initial states.
LEMMA InitIInv == Init => IInv
<1> SUFFICES ASSUME Init PROVE IInv
  OBVIOUS
<1>1. ProcsSound
  BY GoneType DEF Init, ProcsSound, Numbered
<1>2. LedgerSound
  <2>1. Orphans = {}
    BY GoneType DEF Init, Orphans
  <2>2. Cardinality(Orphans) = 0
    BY <2>1, FS_EmptySet
  <2>3. ChildrenLedger
    BY <2>2 DEF Init, ChildrenLedger, Orphans
  <2> QED
    BY <2>3 DEF Init, LedgerSound
<1>3. SignalTooLate
  BY DEF Init, SignalTooLate
<1>4. ArraysSound
  <2>1. todo = [a \in Arrays |-> 0] /\ given = [a \in Arrays |-> 0] /\ 0 \in 0 .. MaxItems + 1
    BY DEF Init
  <2>2. /\ todo \in [Arrays -> 0 .. MaxItems + 1] /\ given \in [Arrays -> 0 .. MaxItems + 1]
    BY <2>1
  <2>3. arr = [a \in Arrays |-> NoArray] /\ pc = "idle" /\ damaged = FALSE
    BY DEF Init
  <2> QED
    BY <2>2, <2>3, NoArrayType DEF ArraysSound, PCs, Made
<1>5. SeenSound
  <2>1. <<>> \in Seq(1 .. Junk)
    OBVIOUS
  <2> QED
    BY <2>1 DEF Init, SeenSound, ArgumentsExact
<1>6. MemoryExact
  BY DEF Init, MemoryExact, MemorySound, Ways, Held, HeldOutput, Made
<1> QED
  BY <1>1, <1>2, <1>3, <1>4, <1>5, <1>6 DEF IInv

\* The invariant holds in every state a run reaches.
LEMMA Inductive == Spec => []IInv
<1>1. IInv /\ [Next]_vars => IInv'
  BY NextProcs, NextLedger, NextHits, NextArrays, NextSeen, NextMemory DEF IInv
<1> QED
  BY <1>1, InitIInv, PTL DEF Spec

\* The variables keep their types: no array holds more than was given, and what a
\* child is started with are strings or what realloc() left.
THEOREM TypesKept == Spec => []TypeOK
<1>1. IInv => TypeOK
  <2> SUFFICES ASSUME IInv PROVE TypeOK
    OBVIOUS
  <2>1. ProcsSound /\ LedgerSound /\ ArraysSound /\ SeenSound /\ MemoryExact
    BY DEF IInv
  <2>2. \A a \in Arrays :
          /\ arr[a].length \in 0 .. MaxItems + 1 /\ arr[a].size \in Nat
          /\ arr[a].cells \in Seq(0 .. Junk) /\ seen[a] \in Seq(1 .. Junk)
    BY <2>1 DEF ArraysSound, SeenSound, Vectors
  <2>3. /\ live \subseteq (Arrays \X (0 .. MaxItems + 1)) \union Buffers
        /\ lost \in {"none", "calloc", "strdup", "item", "fork", "wait", "return", "result"}
        /\ wrongFree \in BOOLEAN /\ overflow \in BOOLEAN
    BY <2>1 DEF MemoryExact, Blocks, Ways
  <2>4. /\ pc \in PCs /\ damaged \in BOOLEAN
        /\ todo \in [Arrays -> 0 .. MaxItems + 1] /\ given \in [Arrays -> 0 .. MaxItems + 1]
    BY <2>1 DEF ArraysSound
  <2>5. /\ child \in Pids \union {0} /\ table \in [Pids -> Processes]
        /\ known \subseteq [pid : Pids, gen : 1 .. MaxStarts]
        /\ starts \in 0 .. MaxStarts /\ abandoned \in 0 .. MaxCalls /\ calls \in 0 .. MaxCalls
    BY <2>1 DEF ProcsSound, LedgerSound
  <2> QED
    BY <2>2, <2>3, <2>4, <2>5, Zenon DEF TypeOK
<1> QED
  BY <1>1, Inductive, PTL

\* Whatever the number of items and the size an array starts with, the child gets
\* them all, once and in their order, unless realloc() failed.
THEOREM ArgumentsAreExact == Spec => []ArgumentsExact
<1>1. IInv => ArgumentsExact
  BY DEF IInv, SeenSound
<1> QED
  BY <1>1, Inductive, PTL

\* As long as realloc() works a call writes within its arrays, frees nothing twice
\* and loses blocks only by a copy that fails or an error of JavaScript.
THEOREM MemoryIsSound == Spec => []MemorySound
<1>1. IInv => MemorySound
  BY DEF IInv, MemoryExact
<1> QED
  BY <1>1, Inductive, PTL

\* The children nobody waited for are those of the calls that failed after the fork.
THEOREM ChildrenAreCounted == Spec => []ChildrenLedger
<1>1. IInv => ChildrenLedger
  BY DEF IInv, LedgerSound
<1> QED
  BY <1>1, Inductive, PTL

\* A signal never reaches the process whose result it is meant for.
THEOREM SignalsComeTooLate == Spec => []SignalTooLate
<1>1. IInv => SignalTooLate
  BY DEF IInv
<1> QED
  BY <1>1, Inductive, PTL
=============================================================================
