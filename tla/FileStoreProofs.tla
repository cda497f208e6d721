--------------------------- MODULE FileStoreProofs ---------------------------
(***************************************************************************)
(* What FileStore promises, proved for every number of processes, nested   *)
(* calls, files, values, pieces and inodes: the type of its variables,     *)
(* that what is being written is nobody else's, and that it implements     *)
(* AtomicFiles.                                                            *)
(***************************************************************************)
EXTENDS FileStore, TLAPS

USE ChunksAssumption, StringsAssumption, CallsAssumption, NoneAssumption, NamesAssumption

States == [pc : {"idle", "convert", "write", "refused", "read", "done"},
           file : Files \union {Absent}, data : Contents,
           fd : Inodes \union {None}, off : 0 .. Chunks]

\* The first k pieces of a text: alone, and in a buffer for all of it.
Front(t, k)  == [j \in 1 .. Chunks |-> IF j <= k THEN t.piece[j] ELSE Absent]
Part(t, k)   == [piece |-> Front(t, k), len |-> k]
Buffer(t, k) == [piece |-> Front(t, k), len |-> t.len]

\* Calls of one process.
Inner(c, d) == c[1] = d[1] /\ c[2] < d[2]

\* A call has a descriptor while it writes or reads, a file it does it to, and from
\* a point on the text it writes.
DescriptorsHeld ==
    \A c \in Calls :
        /\ (Writes(c) \/ call[c].pc = "read") <=> call[c].fd # None
        /\ Writes(c) => call[c].file \in Files
        /\ call[c].pc = "convert" => call[c].data = Nothing /\ call[c].off = 0
        /\ call[c].pc = "write" => call[c].data \in Texts

\* The calls around a call are all in the toString() of their value.
CallsNested == \A c, d \in Calls : Inner(c, d) /\ call[d] # Rest => call[c].pc = "convert"

\* The temporary file of a process has no other name, and only calls of that process
\* have it open, to write it: this holds of one that an earlier call left behind too.
TmpExclusive ==
    \A p \in Procs : dir[Tmp(p)] # None =>
        /\ \A m \in Names : dir[m] = dir[Tmp(p)] => m = Tmp(p)
        /\ \A c \in Calls : call[c].fd = dir[Tmp(p)] => c[1] = p /\ Writes(c)

\* A call that wrote from within a toString(), and one around it, writes a mixed inode.
NestedIsMixed ==
    \A c \in Calls : Writes(c) =>
        /\ c[2] > 0 => call[c].fd \in mixed
        /\ \A d \in Calls : Inner(c, d) /\ Writes(d) => call[c].fd \in mixed

\* Any other writes the file under its temporary name, as far as it has come.
WriterHasTmp ==
    \A c \in Calls : Writes(c) /\ call[c].fd \notin mixed =>
        /\ call[c].fd = dir[Tmp(c[1])]
        /\ inode[call[c].fd] = Part(call[c].data, call[c].off)

\* A mixed inode is not confused with one that is not: what has the temporary name now
\* is mixed too.
TmpIsMixed ==
    \A c \in Calls : Writes(c) /\ call[c].fd \in mixed => dir[Tmp(c[1])] \in mixed \union {None}

\* No two processes write the same inode.
WritersApart ==
    \A c, d \in Calls : Writes(c) /\ Writes(d) /\ call[c].fd = call[d].fd => c[1] = d[1]

\* Under the names that scripts use there are complete texts only, but for mixed inodes.
FilesComplete == \A f \in Files : dir[f] # None /\ dir[f] \notin mixed => inode[dir[f]] \in Texts

\* So a reader has a complete text too, which does not change while it is read.
ReadersComplete ==
    \A c \in Calls : call[c].pc = "read" /\ call[c].fd \notin mixed =>
        /\ inode[call[c].fd] \in Texts
        /\ call[c].off <= inode[call[c].fd].len
        /\ call[c].data = Buffer(inode[call[c].fd], call[c].off)

Types == /\ dir \in [Names -> Inodes \union {None}]
         /\ inode \in [Inodes -> Contents]
         /\ call \in [Calls -> States]
         /\ mixed \subseteq Inodes

IInv ==
    /\ Types /\ DescriptorsHeld /\ CallsNested /\ TmpExclusive /\ NestedIsMixed
    /\ WriterHasTmp /\ TmpIsMixed /\ WritersApart /\ FilesComplete /\ ReadersComplete

-----------------------------------------------------------------------------
(* Names, texts and records *)

\* Temporary names differ from each other and from the names of scripts.
LEMMA NamesDiffer ==
    /\ \A p \in Procs : Tmp(p) \in Names /\ Tmp(p) \notin Files
    /\ \A p, q \in Procs : Tmp(p) = Tmp(q) => p = q
    /\ Files \subseteq Names
BY DEF Tmp, Names

\* A call belongs to a process and has a depth, and the two make it up.
LEMMA CallParts ==
    /\ \A c \in Calls : c[1] \in Procs /\ c[2] \in Nat
    /\ \A c, d \in Calls : c[1] = d[1] /\ c[2] = d[2] => c = d
BY DEF Inner

\* Buffers of contents are contents.
LEMMA PartTypes ==
    ASSUME NEW t \in Contents, NEW k \in 0 .. Chunks
    PROVE  /\ Front(t, k) \in [1 .. Chunks -> Values \union {Absent}]
           /\ Part(t, k) \in Contents /\ Buffer(t, k) \in Contents
<1>1. t.piece \in [1 .. Chunks -> Values \union {Absent}] /\ t.len \in 0 .. Chunks
  BY DEF Contents
<1>2. Front(t, k) \in [1 .. Chunks -> Values \union {Absent}]
  BY <1>1 DEF Front
<1> QED
  BY <1>1, <1>2 DEF Part, Buffer, Contents

\* Nothing is there to begin with.
LEMMA NothingType ==
    /\ Nothing \in Contents
    /\ \A n \in 0 .. Chunks : Blank(n) \in Contents /\ Blank(n).len = n
<1>1. \A n \in 0 .. Chunks : Blank(n) \in Contents /\ Blank(n).len = n
  BY DEF Blank, Contents
<1> QED
  BY <1>1 DEF Nothing

\* Before the first piece.
LEMMA PartNone ==
    ASSUME NEW t \in Contents
    PROVE  Part(t, 0) = Nothing /\ Buffer(t, 0) = Blank(t.len)
<1>1. Front(t, 0) = [j \in 1 .. Chunks |-> Absent]
  BY DEF Front
<1> QED
  BY <1>1 DEF Part, Buffer, Nothing, Blank

\* The text of a value: of the right type, and all of it are its pieces up to its length.
LEMMA TextWhole ==
    ASSUME NEW t \in Texts
    PROVE  t \in Contents /\ Part(t, t.len) = t /\ Buffer(t, t.len) = t
<1>1. PICK s \in Strings : t = Text(s[1], s[2])
  BY DEF Texts
<1>2. s[1] \in Values /\ s[2] \in 0 .. Chunks
  OBVIOUS
<1> DEFINE w == s[1]
           n == s[2]
<1>3. w \in Values /\ n \in 0 .. Chunks /\ t = Text(w, n)
  BY <1>1, <1>2
<1> HIDE DEF w, n
<1>4. t.piece = [k \in 1 .. Chunks |-> IF k <= n THEN w ELSE Absent] /\ t.len = n
  BY <1>3 DEF Text
<1>5. t \in Contents
  BY <1>3 DEF Text, Contents
<1>6. Front(t, n) = t.piece
  BY <1>3, <1>4 DEF Front
<1>7. t = [piece |-> t.piece, len |-> t.len]
  BY <1>3 DEF Text
<1> QED
  BY <1>4, <1>5, <1>6, <1>7 DEF Part, Buffer

\* One piece more.
LEMMA FrontNext ==
    ASSUME NEW t \in Contents, NEW k \in Nat, k < Chunks
    PROVE  Front(t, k + 1) = [Front(t, k) EXCEPT ![k + 1] = t.piece[k + 1]]
<1> DEFINE F == Front(t, k)
           G == Front(t, k + 1)
           H == [F EXCEPT ![k + 1] = t.piece[k + 1]]
<1>1. F = [j \in 1 .. Chunks |-> IF j <= k THEN t.piece[j] ELSE Absent]
  BY DEF Front
<1>2. G = [j \in 1 .. Chunks |-> IF j <= k + 1 THEN t.piece[j] ELSE Absent]
  BY DEF Front
<1> HIDE DEF F, G
<1>3. H = [j \in 1 .. Chunks |-> IF j = k + 1 THEN t.piece[k + 1] ELSE F[j]]
  BY <1>1
<1>4. ASSUME NEW j \in 1 .. Chunks PROVE G[j] = H[j]
  <2>1. CASE j = k + 1
    BY <1>2, <1>3, <2>1
  <2>2. CASE j # k + 1
    <3>1. j <= k + 1 <=> j <= k
      BY <2>2
    <3> QED
      BY <1>1, <1>2, <1>3, <2>2, <3>1
  <2> QED
    BY <2>1, <2>2
<1>5. H = [j \in 1 .. Chunks |-> H[j]] /\ G = [j \in 1 .. Chunks |-> G[j]]
  BY <1>2, <1>3
<1> HIDE DEF H
<1> QED
  BY <1>4, <1>5 DEF F, G, H

\* The state between two calls, without a descriptor.
LEMMA RestType ==
    /\ Rest \in States
    /\ Rest.pc = "idle" /\ Rest.fd = None
BY NothingType DEF Rest, States

\* TypeOK, with the set of records named.
LEMMA TypesAreOK == Types <=> TypeOK
BY DEF TypeOK, Types, States

\* What a name or a descriptor leads to.
Held(i) == (\E m \in Names : dir[m] = i) \/ (\E c \in Calls : call[c].fd = i)

\* Reclaiming what is free keeps the types and everything that is held.
LEMMA ReclaimKeeps ==
    ASSUME inode \in [Inodes -> Contents], mixed \subseteq Inodes,
           Reclaim \/ UNCHANGED <<inode, mixed>>
    PROVE  /\ inode' \in [Inodes -> Contents] /\ mixed' \subseteq Inodes
           /\ \A i \in Inodes : Held(i)' => inode'[i] = inode[i] /\ (i \in mixed' <=> i \in mixed)
BY NothingType DEF Reclaim, Free, Held

-----------------------------------------------------------------------------
(* The invariant *)

\* The initial states.
LEMMA InitIInv == Init => IInv
<1> SUFFICES ASSUME Init PROVE IInv
  OBVIOUS
<1>1. \A c \in Calls : call[c] = Rest
  BY DEF Init
<1>2. \A m \in Names : dir[m] = None
  BY DEF Init
<1>3. Types
  BY NothingType, RestType DEF Init, Types
<1>4. \A c \in Calls : ~ Writes(c) /\ call[c].pc # "read" /\ call[c].fd = None
  BY <1>1, RestType DEF Writes
<1> QED
  BY <1>1, <1>2, <1>3, <1>4, NamesDiffer, RestType
     DEF IInv, DescriptorsHeld, CallsNested, TmpExclusive, NestedIsMixed, WriterHasTmp, TmpIsMixed,
         WritersApart, FilesComplete, ReadersComplete, Writes

\* Calls that are over: they have no descriptor any more, and no name changes.
LEMMA CallsOver ==
    ASSUME IInv, NEW S \in SUBSET Calls, NEW r \in States, r.fd = None,
           r.pc \in {"idle", "refused", "done"},
           \A c \in S, d \in Calls \ S : Inner(c, d) => call[d] = Rest,
           r = Rest \/ \A c \in S, d \in Calls : Inner(d, c) => d \notin S /\ call[d].pc = "convert",
           call' = [c \in Calls |-> IF c \in S THEN r ELSE call[c]],
           dir' = dir, Reclaim \/ UNCHANGED <<inode, mixed>>
    PROVE  IInv'
<1> USE DEF IInv
<1>1. /\ dir \in [Names -> Inodes \union {None}] /\ inode \in [Inodes -> Contents]
      /\ call \in [Calls -> States] /\ mixed \subseteq Inodes
  BY DEF Types
<1>2. /\ call' \in [Calls -> States]
      /\ \A c \in S : call'[c] = r
      /\ \A c \in Calls \ S : call'[c] = call[c]
  BY <1>1
<1>3. /\ inode' \in [Inodes -> Contents] /\ mixed' \subseteq Inodes
      /\ \A i \in Inodes : Held(i)' => inode'[i] = inode[i] /\ (i \in mixed' <=> i \in mixed)
  BY <1>1, ReclaimKeeps
<1>4. \A c \in Calls : call'[c].fd \in Inodes =>
          /\ inode'[call'[c].fd] = inode[call'[c].fd]
          /\ call'[c].fd \in mixed' <=> call'[c].fd \in mixed
  BY <1>3 DEF Held
<1>5. \A m \in Names : dir'[m] \in Inodes =>
          /\ inode'[dir'[m]] = inode[dir'[m]]
          /\ dir'[m] \in mixed' <=> dir'[m] \in mixed
  BY <1>3 DEF Held
<1>6. \A c \in Calls : Writes(c)' \/ call'[c].pc = "read" =>
          c \notin S /\ call'[c] = call[c] /\ call[c].fd \in Inodes
  <2> SUFFICES ASSUME NEW c \in Calls, Writes(c)' \/ call'[c].pc = "read"
               PROVE  c \notin S /\ call'[c] = call[c] /\ call[c].fd \in Inodes
    OBVIOUS
  <2>1. c \notin S /\ call'[c] = call[c]
    BY <1>2 DEF Writes
  <2>2. call[c] \in States /\ call[c].fd # None
    BY <1>1, <2>1 DEF DescriptorsHeld, Writes
  <2> QED
    BY <2>1, <2>2 DEF States
<1>7. \A c \in Calls : Writes(c)' <=> Writes(c) /\ c \notin S
  BY <1>2 DEF Writes
<1>8. Types'
  BY <1>1, <1>2, <1>3 DEF Types
<1>9. DescriptorsHeld'
  BY <1>2, <1>7 DEF DescriptorsHeld, Writes
<1>10. CallsNested'
  <2> SUFFICES ASSUME NEW c \in Calls, NEW d \in Calls, Inner(c, d), call'[d] # Rest
               PROVE  call'[c].pc = "convert"
    BY DEF CallsNested, Inner
  <2>1. CASE d \in S
    <3>1. c \notin S /\ call[c].pc = "convert"
      BY <1>2, <2>1
    <3> QED
      BY <1>2, <3>1
  <2>2. CASE d \notin S
    <3>1. call[d] # Rest /\ c \notin S
      BY <1>2, <2>2
    <3> QED
      BY <1>2, <3>1 DEF CallsNested
  <2> QED
    BY <2>1, <2>2
<1>11. TmpExclusive'
  <2> SUFFICES ASSUME NEW p \in Procs, dir[Tmp(p)] # None
               PROVE  /\ \A m \in Names : dir[m] = dir[Tmp(p)] => m = Tmp(p)
                      /\ \A c \in Calls : call'[c].fd = dir[Tmp(p)] => c[1] = p /\ Writes(c)'
    BY DEF TmpExclusive, Tmp
  <2>1. \A c \in Calls : call'[c].fd = dir[Tmp(p)] => c \notin S /\ call'[c] = call[c]
    BY <1>2
  <2> QED
    BY <1>7, <2>1 DEF TmpExclusive
<1>12. NestedIsMixed'
  BY <1>4, <1>6, <1>7 DEF NestedIsMixed, Inner
<1>13. WriterHasTmp'
  BY <1>4, <1>6, <1>7 DEF WriterHasTmp, Part, Front, Tmp
<1>14. TmpIsMixed'
  BY <1>1, <1>4, <1>5, <1>6, <1>7, NamesDiffer, CallParts DEF TmpIsMixed, Tmp
<1>15. WritersApart'
  BY <1>6, <1>7 DEF WritersApart
<1>16. FilesComplete'
  BY <1>1, <1>5, NamesDiffer DEF FilesComplete
<1>17. ReadersComplete'
  <2> SUFFICES ASSUME NEW c \in Calls, call'[c].pc = "read", call'[c].fd \notin mixed'
               PROVE  /\ inode'[call'[c].fd] \in Texts
                      /\ call'[c].off <= inode'[call'[c].fd].len
                      /\ call'[c].data = Buffer(inode'[call'[c].fd], call'[c].off)
    BY DEF ReadersComplete, Buffer, Front
  <2>1. /\ call'[c] = call[c] /\ inode'[call[c].fd] = inode[call[c].fd]
        /\ call[c].fd \notin mixed
    BY <1>4, <1>6
  <2> QED
    BY <2>1 DEF ReadersComplete
<1> QED
  BY <1>8, <1>9, <1>10, <1>11, <1>12, <1>13, <1>14, <1>15, <1>16, <1>17

\* One call is over.
LEMMA CallOver ==
    ASSUME IInv, NEW c \in Calls, NEW r \in States, r.fd = None, r.pc \in {"idle", "refused", "done"},
           \A d \in Calls : Inner(c, d) => call[d] = Rest,
           r = Rest \/ \A d \in Calls : Inner(d, c) => call[d].pc = "convert",
           call' = [call EXCEPT ![c] = r], dir' = dir, Reclaim \/ UNCHANGED <<inode, mixed>>
    PROVE  IInv'
<1> DEFINE S == {c}
<1>1. S \in SUBSET Calls /\ call' = [d \in Calls |-> IF d \in S THEN r ELSE call[d]]
  BY DEF IInv, Types
<1>2. \A x \in S, d \in Calls \ S : Inner(x, d) => call[d] = Rest
  OBVIOUS
<1>3. r = Rest \/ \A x \in S, d \in Calls : Inner(d, x) => d \notin S /\ call[d].pc = "convert"
  BY CallParts DEF Inner
<1> HIDE DEF S
<1> QED
  BY <1>1, <1>2, <1>3, CallsOver

\* Ways out of a call, and of all calls of a process.
LEMMA OverIInv ==
    ASSUME IInv, NEW c \in Calls
    PROVE  /\ WriteFails(c) \/ ReadFails(c) \/ Return(c) => IInv'
           /\ ReadReturns(c) => IInv'
           /\ \A f \in Files : WriteRefused(c, f) => IInv'
           /\ \A p \in Procs : Crash(p) => IInv'
<1>0. call[c] \in States /\ call[c].data \in Contents
  BY DEF IInv, Types, States
<1>1. ASSUME WriteFails(c) \/ ReadFails(c) \/ Return(c) PROVE IInv'
  <2>1. \A d \in Calls : Inner(c, d) => call[d] = Rest
    BY <1>1, RestType DEF IInv, CallsNested, WriteFails, ReadFails, Return
  <2>2. call' = [call EXCEPT ![c] = Rest] /\ dir' = dir /\ (Reclaim \/ UNCHANGED <<inode, mixed>>)
    BY <1>1 DEF WriteFails, ReadFails, Return, Close
  <2> QED
    BY <2>1, <2>2, RestType, CallOver
<1>2. ASSUME ReadReturns(c) PROVE IInv'
  <2> DEFINE r == [Rest EXCEPT !.pc = "done", !.data = call[c].data]
  <2>1. \A d \in Calls : Inner(c, d) => call[d] = Rest
    BY <1>2, RestType DEF IInv, CallsNested, ReadReturns
  <2>2. call' = [call EXCEPT ![c] = r] /\ dir' = dir /\ Reclaim
    BY <1>2 DEF ReadReturns, Close
  <2>3. r \in States /\ r.pc = "done" /\ r.fd = None
    BY <1>0, RestType DEF States
  <2>4. \A d \in Calls : Inner(d, c) => call[d].pc = "convert"
    BY <1>2, RestType DEF IInv, CallsNested, ReadReturns
  <2> HIDE DEF r
  <2> QED
    BY <2>1, <2>2, <2>3, <2>4, CallOver
<1>3. ASSUME NEW f \in Files, WriteRefused(c, f) PROVE IInv'
  <2> DEFINE r == [Rest EXCEPT !.pc = "refused", !.file = f]
  <2>1. /\ \A d \in Calls : Inner(c, d) => call[d] = Rest
        /\ \A d \in Calls : Inner(d, c) => call[d].pc = "convert"
    BY <1>3, CallParts DEF WriteRefused, Runs, Inner
  <2>2. call' = [call EXCEPT ![c] = r] /\ dir' = dir /\ UNCHANGED <<inode, mixed>>
    BY <1>3 DEF WriteRefused
  <2>3. r \in States /\ r.pc = "refused" /\ r.fd = None
    BY RestType DEF States
  <2> HIDE DEF r
  <2> QED
    BY <2>1, <2>2, <2>3, CallOver
<1>4. ASSUME NEW p \in Procs, Crash(p) PROVE IInv'
  <2> DEFINE S == {x \in Calls : x[1] = p}
  <2>1. call' = [x \in Calls |-> IF x \in S THEN Rest ELSE call[x]] /\ dir' = dir /\ Reclaim
    BY <1>4 DEF Crash
  <2>2. S \in SUBSET Calls /\ \A x \in S, d \in Calls \ S : Inner(x, d) => call[d] = Rest
    BY DEF Inner
  <2> HIDE DEF S
  <2> QED
    BY <2>1, <2>2, RestType, CallsOver
<1> QED
  BY <1>1, <1>2, <1>3, <1>4

\* A call that can be made has the ones around it in their toString() and none in it.
LEMMA RunsMeans ==
    ASSUME NEW c \in Calls, Runs(c)
    PROVE  /\ call[c] = Rest
           /\ \A d \in Calls : Inner(c, d) => call[d] = Rest
           /\ \A d \in Calls : Inner(d, c) => call[d].pc = "convert"
           /\ \A d \in Calls : d[1] = c[1] => Inner(d, c) \/ call[d] = Rest
BY CallParts DEF Runs, Inner

\* Opening the temporary file: it has no other name, and nobody has it open but calls
\* around this one.
LEMMA OpenIInv ==
    ASSUME IInv, NEW c \in Calls, NEW f \in Files, NEW create \in BOOLEAN, WriteOpen(c, f, create)
    PROVE  IInv'
<1> DEFINE t == Tmp(c[1])
           r(i) == [pc |-> "convert", file |-> f, data |-> Nothing, fd |-> i, off |-> 0]
<1>0. /\ dir \in [Names -> Inodes \union {None}] /\ inode \in [Inodes -> Contents]
      /\ call \in [Calls -> States] /\ mixed \subseteq Inodes
      /\ c[1] \in Procs /\ c[2] \in Nat /\ t \in Names
  BY NamesDiffer, CallParts DEF IInv, Types
<1>1. PICK i \in Inodes :
        /\ i = dir[t] \/ (dir[t] = None /\ Free(i))
        /\ dir' = [dir EXCEPT ![t] = i]
        /\ inode' = [inode EXCEPT ![i] = Nothing]
        /\ mixed' = IF c[2] = 0 THEN mixed \ {i} ELSE mixed \union {i}
        /\ call' = [call EXCEPT ![c] = r(i)]
  BY DEF WriteOpen
<1>2. /\ Runs(c) /\ call[c] = Rest
      /\ \A d \in Calls : Inner(c, d) => call[d] = Rest
      /\ \A d \in Calls : Inner(d, c) => call[d].pc = "convert"
      /\ \A d \in Calls : d[1] = c[1] => Inner(d, c) \/ call[d] = Rest
  BY RunsMeans DEF WriteOpen
<1>3. /\ r(i) \in States /\ r(i).pc = "convert" /\ r(i).fd = i /\ r(i).file = f
      /\ r(i).data = Nothing /\ r(i).off = 0 /\ r(i) # Rest
  BY NothingType, RestType DEF States
<1> HIDE DEF r
<1>4. /\ dir'[t] = i /\ \A m \in Names \ {t} : dir'[m] = dir[m]
      /\ inode'[i] = Nothing /\ \A j \in Inodes \ {i} : inode'[j] = inode[j]
      /\ call'[c] = r(i) /\ \A d \in Calls \ {c} : call'[d] = call[d]
      /\ \A j \in Inodes \ {i} : j \in mixed' <=> j \in mixed
      /\ i \in mixed' <=> c[2] > 0
  BY <1>0, <1>1
<1>5. /\ \A m \in Names : dir[m] = i => m = t
      /\ \A d \in Calls : call[d].fd = i => d[1] = c[1] /\ Writes(d) /\ dir[t] = i
  BY <1>0, <1>1 DEF IInv, TmpExclusive, Free
<1>6. \A d \in Calls \ {c} : call[d].fd = i => Inner(d, c) /\ c[2] > 0
  BY <1>0, <1>2, <1>5, RestType, CallParts DEF Writes, Inner
\* The calls around this one are mixed now.
<1>7. \A d \in Calls : Inner(d, c) => call[d].fd \in mixed'
  <2> SUFFICES ASSUME NEW d \in Calls, Inner(d, c) PROVE call[d].fd \in mixed'
    OBVIOUS
  <2>1. Writes(d) /\ c[2] > 0 /\ d[1] = c[1] /\ d # c
    BY <1>0, <1>2, CallParts DEF Writes, Inner
  <2>2. CASE call[d].fd \in mixed
    BY <1>0, <1>1, <2>1, <2>2
  <2>3. CASE call[d].fd \notin mixed
    <3>1. call[d].fd = dir[t] /\ call[d].fd # None
      BY <2>1, <2>3 DEF IInv, WriterHasTmp, DescriptorsHeld
    <3> QED
      BY <1>1, <1>4, <2>1, <3>1
  <2> QED
    BY <2>2, <2>3
<1>8. Types'
  BY <1>0, <1>1, <1>3, NothingType DEF Types
<1>9. \A d \in Calls \ {c} : Writes(d)' <=> Writes(d)
  BY <1>4 DEF Writes
<1>10. Writes(c)'
  BY <1>3, <1>4 DEF Writes
<1>11. \A d \in Calls \ {c} : Writes(d) \/ call[d].pc = "read" => call[d].fd \in Inodes
  BY <1>0 DEF IInv, DescriptorsHeld, States
<1>12. DescriptorsHeld'
  BY <1>3, <1>4 DEF IInv, DescriptorsHeld, Writes
<1>13. CallsNested'
  BY <1>2, <1>3, <1>4, RestType DEF IInv, CallsNested, Inner
<1>14. TmpExclusive'
  <2> SUFFICES ASSUME NEW p \in Procs, dir'[Tmp(p)] # None
               PROVE  /\ \A m \in Names : dir'[m] = dir'[Tmp(p)] => m = Tmp(p)
                      /\ \A d \in Calls : call'[d].fd = dir'[Tmp(p)] => d[1] = p /\ Writes(d)'
    BY DEF TmpExclusive, Tmp
  <2>1. CASE p = c[1]
    BY <1>3, <1>4, <1>5, <1>9, <1>10, <2>1
  <2>2. CASE p # c[1]
    <3>1. Tmp(p) # t /\ Tmp(p) \in Names /\ dir'[Tmp(p)] = dir[Tmp(p)] /\ dir[Tmp(p)] # i
      BY <1>0, <1>4, <1>5, <2>2, NamesDiffer
    <3> QED
      BY <1>3, <1>4, <1>9, <3>1 DEF IInv, TmpExclusive
  <2> QED
    BY <2>1, <2>2
<1>15. NestedIsMixed'
  <2> SUFFICES ASSUME NEW x \in Calls, Writes(x)'
               PROVE  /\ x[2] > 0 => call'[x].fd \in mixed'
                      /\ \A d \in Calls : Inner(x, d) /\ Writes(d)' => call'[x].fd \in mixed'
    BY DEF NestedIsMixed, Inner
  <2>1. CASE x = c
    <3>1. \A d \in Calls : Inner(c, d) => ~ Writes(d)'
      BY <1>2, <1>4, RestType, CallParts DEF Writes, Inner
    <3> QED
      BY <1>3, <1>4, <2>1, <3>1
  <2>2. CASE Inner(x, c)
    <3>1. x # c
      BY <2>2, CallParts DEF Inner
    <3> QED
      BY <1>4, <1>7, <2>2, <3>1
  <2>3. CASE x # c /\ ~ Inner(x, c)
    <3>1. Writes(x) /\ call'[x] = call[x] /\ call[x].fd \in Inodes
      BY <1>4, <1>9, <1>11, <2>3
    <3>2. call[x].fd # i
      BY <1>6, <2>3
    <3>3. \A d \in Calls : Inner(x, d) /\ Writes(d)' => Writes(d)
      BY <1>9, <2>3
    <3> QED
      BY <1>4, <3>1, <3>2, <3>3 DEF IInv, NestedIsMixed
  <2> QED
    BY <2>1, <2>2, <2>3
<1>16. WriterHasTmp'
  <2> SUFFICES ASSUME NEW x \in Calls, Writes(x)', call'[x].fd \notin mixed'
               PROVE  /\ call'[x].fd = dir'[Tmp(x[1])]
                      /\ inode'[call'[x].fd] = Part(call'[x].data, call'[x].off)
    BY DEF WriterHasTmp, Part, Front, Tmp
  <2>1. CASE x = c
    BY <1>3, <1>4, <2>1, NothingType, PartNone
  <2>2. CASE x # c
    <3>1. Writes(x) /\ call'[x] = call[x] /\ call[x].fd \in Inodes /\ ~ Inner(x, c)
      BY <1>4, <1>7, <1>9, <1>11, <2>2
    <3>2. call[x].fd # i /\ x[1] # c[1]
      BY <1>2, <1>6, <2>2, <3>1, RestType DEF Writes
    <3>3. Tmp(x[1]) # t /\ Tmp(x[1]) \in Names /\ call[x].fd \notin mixed
      BY <1>0, <1>4, <3>1, <3>2, NamesDiffer, CallParts
    <3> QED
      BY <1>4, <3>1, <3>2, <3>3 DEF IInv, WriterHasTmp
  <2> QED
    BY <2>1, <2>2
<1>17. TmpIsMixed'
  <2> SUFFICES ASSUME NEW x \in Calls, Writes(x)', call'[x].fd \in mixed'
               PROVE  dir'[Tmp(x[1])] \in mixed' \union {None}
    BY DEF TmpIsMixed, Tmp
  <2>1. CASE x[1] = c[1]
    <3>1. c[2] > 0
      <4>1. CASE x = c
        BY <1>3, <1>4, <4>1
      <4>2. CASE x # c
        <5>1. Inner(x, c)
          BY <1>2, <1>9, <2>1, <4>2, RestType DEF Writes
        <5> QED
          BY <1>0, <5>1, CallParts DEF Inner
      <4> QED
        BY <4>1, <4>2
    <3> QED
      BY <1>4, <2>1, <3>1
  <2>2. CASE x[1] # c[1]
    <3>1. x # c /\ Writes(x) /\ call'[x] = call[x] /\ call[x].fd \in Inodes
      BY <1>4, <1>9, <1>11, <2>2
    <3>2. call[x].fd # i /\ call[x].fd \in mixed
      BY <1>4, <1>5, <2>2, <3>1
    <3>3. Tmp(x[1]) # t /\ Tmp(x[1]) \in Names
      BY <1>0, <2>2, NamesDiffer, CallParts
    <3>4. dir'[Tmp(x[1])] = dir[Tmp(x[1])] /\ dir[Tmp(x[1])] # i
      BY <1>4, <1>5, <3>3
    <3>5. dir[Tmp(x[1])] \in mixed \union {None} /\ dir[Tmp(x[1])] \in Inodes \union {None}
      BY <1>0, <3>1, <3>2, <3>3 DEF IInv, TmpIsMixed
    <3> QED
      BY <1>4, <3>4, <3>5
  <2> QED
    BY <2>1, <2>2
<1>18. WritersApart'
  BY <1>3, <1>4, <1>5, <1>9 DEF IInv, WritersApart
<1>19. FilesComplete'
  BY <1>0, <1>4, <1>5, NamesDiffer DEF IInv, FilesComplete
<1>20. ReadersComplete'
  <2> SUFFICES ASSUME NEW x \in Calls, call'[x].pc = "read", call'[x].fd \notin mixed'
               PROVE  /\ inode'[call'[x].fd] \in Texts
                      /\ call'[x].off <= inode'[call'[x].fd].len
                      /\ call'[x].data = Buffer(inode'[call'[x].fd], call'[x].off)
    BY DEF ReadersComplete, Buffer, Front
  <2>1. x # c /\ call'[x] = call[x] /\ call[x].pc = "read" /\ call[x].fd \in Inodes
    BY <1>3, <1>4, <1>11
  <2>2. call[x].fd # i
    BY <1>5, <2>1 DEF Writes
  <2>3. call[x].fd \notin mixed /\ inode'[call[x].fd] = inode[call[x].fd]
    BY <1>4, <2>1, <2>2
  <2> QED
    BY <2>1, <2>3 DEF IInv, ReadersComplete
<1> QED
  BY <1>8, <1>12, <1>13, <1>14, <1>15, <1>16, <1>17, <1>18, <1>19, <1>20 DEF IInv

\* A step of one call that keeps its descriptor, and no name and no inode changes.
LEMMA CallMovesOn ==
    ASSUME IInv, NEW c \in Calls, NEW r \in States,
           call' = [call EXCEPT ![c] = r], UNCHANGED <<dir, inode, mixed>>,
           \A d \in Calls : Inner(c, d) => call[d] = Rest,
           \/ call[c].pc = "convert" /\ r.pc = "write" /\ r.data \in Texts /\ r.off = 0
           \/ /\ call[c].pc = "read" /\ r.pc = "read"
              /\ call[c].fd \notin mixed => /\ r.off <= inode[call[c].fd].len
                                           /\ r.data = Buffer(inode[call[c].fd], r.off),
           r.fd = call[c].fd, r.file = call[c].file
    PROVE  IInv'
<1>0. /\ dir \in [Names -> Inodes \union {None}] /\ inode \in [Inodes -> Contents]
      /\ call \in [Calls -> States] /\ mixed \subseteq Inodes
  BY DEF IInv, Types
<1>1. call'[c] = r /\ \A d \in Calls \ {c} : call'[d] = call[d]
  BY <1>0
<1>2. \A d \in Calls : call'[d].fd = call[d].fd /\ (Writes(d)' <=> Writes(d))
  BY <1>1 DEF Writes
<1>3. call[c] # Rest /\ r # Rest
  BY RestType
<1>4. Types'
  BY <1>0, <1>1 DEF Types
<1>5. DescriptorsHeld'
  BY <1>1, <1>2 DEF IInv, DescriptorsHeld, Writes
<1>6. CallsNested'
  BY <1>1, <1>3, CallParts DEF IInv, CallsNested, Inner
<1>7. TmpExclusive'
  BY <1>2 DEF IInv, TmpExclusive, Tmp
<1>8. NestedIsMixed'
  BY <1>2 DEF IInv, NestedIsMixed, Inner
<1>9. WriterHasTmp'
  <2> SUFFICES ASSUME NEW x \in Calls, Writes(x)', call'[x].fd \notin mixed
               PROVE  /\ call'[x].fd = dir[Tmp(x[1])]
                      /\ inode[call'[x].fd] = Part(call'[x].data, call'[x].off)
    BY DEF WriterHasTmp, Part, Front, Tmp
  <2>1. CASE x = c
    <3>1. Writes(c) /\ call[c].fd \notin mixed /\ call[c].pc = "convert"
      BY <1>1, <1>2, <2>1 DEF Writes
    <3>2. call[c].data = Nothing /\ call[c].off = 0 /\ r.data \in Contents /\ r.off = 0
      BY <3>1 DEF IInv, DescriptorsHeld, States
    <3>3. Part(Nothing, 0) = Nothing /\ Part(r.data, 0) = Nothing
      BY <3>2, PartNone, NothingType
    <3> QED
      BY <1>1, <2>1, <3>1, <3>2, <3>3 DEF IInv, WriterHasTmp
  <2>2. CASE x # c
    BY <1>1, <1>2, <2>2 DEF IInv, WriterHasTmp
  <2> QED
    BY <2>1, <2>2
<1>10. TmpIsMixed'
  BY <1>2 DEF IInv, TmpIsMixed, Tmp
<1>11. WritersApart'
  BY <1>2 DEF IInv, WritersApart
<1>12. FilesComplete'
  BY DEF IInv, FilesComplete
<1>13. ReadersComplete'
  <2> SUFFICES ASSUME NEW x \in Calls, call'[x].pc = "read", call'[x].fd \notin mixed
               PROVE  /\ inode[call'[x].fd] \in Texts
                      /\ call'[x].off <= inode[call'[x].fd].len
                      /\ call'[x].data = Buffer(inode[call'[x].fd], call'[x].off)
    BY DEF ReadersComplete, Buffer, Front
  <2>1. CASE x = c
    BY <1>1, <1>2, <2>1 DEF IInv, ReadersComplete
  <2>2. CASE x # c
    BY <1>1, <2>2 DEF IInv, ReadersComplete
  <2> QED
    BY <2>1, <2>2
<1> QED
  BY <1>4, <1>5, <1>6, <1>7, <1>8, <1>9, <1>10, <1>11, <1>12, <1>13 DEF IInv

\* The value becomes text, and pieces are read.
LEMMA MovesOnIInv ==
    ASSUME IInv, NEW c \in Calls
    PROVE  /\ \A s \in Strings : Convert(c, s) => IInv'
           /\ ReadChunk(c) => IInv'
<1>0. call[c] \in States /\ inode \in [Inodes -> Contents]
  BY DEF IInv, Types
<1>1. ASSUME NEW s \in Strings, Convert(c, s) PROVE IInv'
  <2> DEFINE t == Text(s[1], s[2])
             x == call[c]
             d == [x EXCEPT !.pc = "write"]
             r == [d EXCEPT !.data = t]
  <2>1. t \in Texts /\ t \in Contents
    BY TextWhole DEF Texts
  <2>2. call' = [call EXCEPT ![c] = r] /\ UNCHANGED <<dir, inode, mixed>> /\ x.pc = "convert"
    BY <1>1 DEF Convert
  <2>3. \A y \in Calls : Inner(c, y) => call[y] = Rest
    BY <1>1, CallParts DEF Convert, Inner
  <2>4. x.off = 0 /\ x \in States
    BY <1>0, <2>2 DEF IInv, DescriptorsHeld
  <2> HIDE DEF t, x
  <2>5. /\ d \in States /\ d.pc = "write" /\ d.fd = x.fd /\ d.file = x.file /\ d.off = 0
    BY <2>4 DEF States
  <2> HIDE DEF d
  <2>6. /\ r \in States /\ r.pc = "write" /\ r.fd = x.fd /\ r.file = x.file /\ r.off = 0
        /\ r.data = t
    BY <2>1, <2>5 DEF States
  <2> HIDE DEF r
  <2> QED
    BY <2>1, <2>2, <2>3, <2>6, CallMovesOn DEF x
<1>2. ASSUME ReadChunk(c) PROVE IInv'
  <2> DEFINE x == call[c]
             n == inode[call[c].fd]
             k == call[c].off
             d == [x EXCEPT !.off = k + 1]
             w == [x.data EXCEPT !.piece = [x.data.piece EXCEPT ![k + 1] = n.piece[k + 1]]]
             r == [d EXCEPT !.data.piece[k + 1] = n.piece[k + 1]]
  <2>1. call' = [call EXCEPT ![c] = r] /\ UNCHANGED <<dir, inode, mixed>>
    BY <1>2 DEF ReadChunk
  <2>2. x.pc = "read" /\ k < x.data.len /\ k < n.len /\ x \in States
    BY <1>0, <1>2 DEF ReadChunk
  <2>3. \A y \in Calls : Inner(c, y) => call[y] = Rest
    BY <2>2 DEF IInv, CallsNested
  <2>4. n \in Contents
    BY <1>0, <2>2 DEF IInv, DescriptorsHeld, States
  <2>5. k \in Nat /\ k < Chunks /\ x.data \in Contents /\ n.piece[k + 1] \in Values \union {Absent}
    <3>1. x.data \in Contents /\ k \in 0 .. Chunks
      BY <2>2 DEF States
    <3>2. x.data.len \in 0 .. Chunks /\ n.piece \in [1 .. Chunks -> Values \union {Absent}]
      BY <2>4, <3>1 DEF Contents
    <3> HIDE DEF x, k, n
    <3>3. k + 1 \in 1 .. Chunks
      BY <2>2, <3>1, <3>2
    <3> QED
      BY <3>1, <3>2, <3>3
  <2>6. /\ x.data.piece \in [1 .. Chunks -> Values \union {Absent}]
        /\ w \in Contents /\ w.len = x.data.len
        /\ w.piece = [x.data.piece EXCEPT ![k + 1] = n.piece[k + 1]]
    BY <2>5 DEF Contents
  <2>7. r = [d EXCEPT !.data = w]
    BY <2>2, <2>5, <2>6 DEF States, Contents
  <2>8. call[c].fd \notin mixed => /\ k + 1 <= n.len /\ w = Buffer(n, k + 1)
    <3> SUFFICES ASSUME call[c].fd \notin mixed PROVE k + 1 <= n.len /\ w = Buffer(n, k + 1)
      OBVIOUS
    <3>1. x.data = Buffer(n, k)
      BY <2>2 DEF IInv, ReadersComplete
    <3>2. x.data.piece = Front(n, k) /\ x.data.len = n.len
      BY <3>1 DEF Buffer
    <3> HIDE DEF k, n, x
    <3>3. Front(n, k + 1) = w.piece
      BY <2>4, <2>5, <2>6, <3>2, FrontNext
    <3>4. w = [piece |-> w.piece, len |-> w.len]
      BY <2>6 DEF Contents
    <3>5. n.len \in Nat
      BY <2>4 DEF Contents
    <3> HIDE DEF w
    <3>6. k + 1 <= n.len
      BY <2>2, <2>5, <3>5
    <3> QED
      BY <2>6, <3>2, <3>3, <3>4, <3>6 DEF Buffer
  <2> HIDE DEF w, n
  <2>9. /\ d \in States /\ d.pc = "read" /\ d.fd = x.fd /\ d.file = x.file /\ d.off = k + 1
    BY <2>2, <2>5 DEF States
  <2> HIDE DEF d, x, k
  <2>10. /\ r \in States /\ r.pc = "read" /\ r.fd = x.fd /\ r.file = x.file /\ r.off = k + 1
         /\ r.data = w
    BY <2>6, <2>7, <2>9 DEF States
  <2> HIDE DEF r
  <2> QED
    BY <2>1, <2>2, <2>3, <2>8, <2>10, CallMovesOn DEF x, n
<1> QED
  BY <1>1, <1>2

\* A piece is written: into the temporary file, or into an inode that is mixed.
LEMMA WriteIInv == ASSUME IInv, NEW c \in Calls, WriteChunk(c) PROVE IInv'
<1> DEFINE i == call[c].fd
           t == call[c].data
           k == call[c].off
           e == Written(inode[i], c)
           r == [call[c] EXCEPT !.off = k + 1]
<1>0. /\ dir \in [Names -> Inodes \union {None}] /\ inode \in [Inodes -> Contents]
      /\ call \in [Calls -> States] /\ mixed \subseteq Inodes
  BY DEF IInv, Types
<1>1. /\ call[c] \in States /\ call[c].pc = "write" /\ Writes(c) /\ i \in Inodes
      /\ t \in Texts /\ t \in Contents /\ k < t.len
  BY <1>0, TextWhole DEF WriteChunk, IInv, DescriptorsHeld, Writes, States
<1>2. k \in Nat /\ k < Chunks /\ k + 1 \in 1 .. Chunks
  <2>1. k \in 0 .. Chunks /\ t.len \in 0 .. Chunks
    BY <1>1 DEF States, Contents
  <2> HIDE DEF k, t
  <2> QED
    BY <1>1, <2>1
<1>3. /\ r \in States /\ r.pc = "write" /\ r.fd = i /\ r.off = k + 1 /\ r.file = call[c].file
      /\ r.data = t
  BY <1>1, <1>2 DEF States
<1>4. /\ e \in Contents
      /\ e.piece = [inode[i].piece EXCEPT ![k + 1] = t.piece[k + 1]]
      /\ e.len = IF inode[i].len > k THEN inode[i].len ELSE k + 1
  <2>1. inode[i] \in Contents
    BY <1>0, <1>1
  <2> DEFINE o == inode[i]
  <2>2. /\ o.piece \in [1 .. Chunks -> Values \union {Absent}] /\ o.len \in 0 .. Chunks
        /\ t.piece \in [1 .. Chunks -> Values \union {Absent}]
    BY <1>1, <2>1 DEF Contents
  <2>3. e = [piece |-> [o.piece EXCEPT ![k + 1] = t.piece[k + 1]],
             len |-> IF o.len > k THEN o.len ELSE k + 1]
    BY DEF Written
  <2> HIDE DEF o, t, k, e
  <2>4. t.piece[k + 1] \in Values \union {Absent} /\ (k + 1) \in 0 .. Chunks
    BY <1>2, <2>2
  <2>5. [o.piece EXCEPT ![k + 1] = t.piece[k + 1]] \in [1 .. Chunks -> Values \union {Absent}]
    BY <2>2, <2>4
  <2>6. (IF o.len > k THEN o.len ELSE k + 1) \in 0 .. Chunks
    BY <2>2, <2>4
  <2>7. e \in Contents
    BY <2>3, <2>5, <2>6 DEF Contents
  <2> QED
    BY <2>3, <2>7 DEF o
<1>5. dir' = dir /\ mixed' = mixed /\ inode' = [inode EXCEPT ![i] = e] /\ call' = [call EXCEPT ![c] = r]
  BY DEF WriteChunk
<1> HIDE DEF r
<1>6. /\ inode'[i] = e /\ \A j \in Inodes \ {i} : inode'[j] = inode[j]
      /\ call'[c] = r /\ \A d \in Calls \ {c} : call'[d] = call[d]
  BY <1>0, <1>1, <1>5
<1> HIDE DEF e
<1>7. \A d \in Calls : /\ call'[d].fd = call[d].fd /\ (Writes(d)' <=> Writes(d))
                       /\ call'[d].pc = call[d].pc
  BY <1>1, <1>3, <1>6 DEF Writes
\* If it is not mixed nothing else leads to it.
<1>8. i \notin mixed =>
        /\ i = dir[Tmp(c[1])] /\ inode[i] = Part(t, k)
        /\ \A m \in Names : dir[m] = i => m = Tmp(c[1])
        /\ \A d \in Calls : call[d].fd = i => d = c
  <2> SUFFICES ASSUME i \notin mixed
               PROVE  /\ i = dir[Tmp(c[1])] /\ inode[i] = Part(t, k)
                      /\ \A m \in Names : dir[m] = i => m = Tmp(c[1])
                      /\ \A d \in Calls : call[d].fd = i => d = c
    OBVIOUS
  <2>1. i = dir[Tmp(c[1])] /\ inode[i] = Part(t, k)
    BY <1>1 DEF IInv, WriterHasTmp
  <2>2. /\ \A m \in Names : dir[m] = i => m = Tmp(c[1])
        /\ \A d \in Calls : call[d].fd = i => d[1] = c[1] /\ Writes(d)
    BY <1>1, <2>1, CallParts DEF IInv, TmpExclusive
  <2>3. ASSUME NEW d \in Calls, call[d].fd = i, d # c PROVE FALSE
    <3>1. d[1] = c[1] /\ Writes(d) /\ c[2] \in Nat /\ d[2] \in Nat /\ d[2] # c[2]
      BY <2>2, <2>3, CallParts
    <3>2. Inner(c, d) \/ Inner(d, c)
      BY <3>1 DEF Inner
    <3> QED
      BY <1>1, <2>3, <3>1, <3>2 DEF IInv, NestedIsMixed
  <2> QED
    BY <2>1, <2>2, <2>3
<1>9. i \notin mixed => e = Part(t, k + 1)
  <2> SUFFICES ASSUME i \notin mixed PROVE e = Part(t, k + 1)
    OBVIOUS
  <2>1. inode[i].piece = Front(t, k) /\ inode[i].len = k
    BY <1>8 DEF Part
  <2>2. e = [piece |-> e.piece, len |-> e.len]
    BY <1>4 DEF Contents
  <2> HIDE DEF i, t, k
  <2>3. e.piece = Front(t, k + 1)
    <3>1. Front(t, k + 1) = [Front(t, k) EXCEPT ![k + 1] = t.piece[k + 1]]
      BY <1>1, <1>2, FrontNext
    <3>2. e.piece = [inode[i].piece EXCEPT ![k + 1] = t.piece[k + 1]]
      BY <1>4
    <3> QED
      BY <2>1, <3>1, <3>2
  <2>4. e.len = k + 1
    BY <1>2, <1>4, <2>1
  <2> QED
    BY <2>2, <2>3, <2>4 DEF Part
<1>10. Types'
  BY <1>0, <1>1, <1>3, <1>4, <1>5 DEF Types
<1>11. DescriptorsHeld'
  BY <1>1, <1>3, <1>6, <1>7 DEF IInv, DescriptorsHeld
<1>12. CallsNested'
  <2>1. call[c] # Rest
    BY <1>1, RestType
  <2> QED
    BY <1>1, <1>6, <1>7, <2>1 DEF IInv, CallsNested, Inner
<1>13. TmpExclusive'
  BY <1>5, <1>7 DEF IInv, TmpExclusive, Tmp
<1>14. NestedIsMixed'
  BY <1>5, <1>7 DEF IInv, NestedIsMixed, Inner
<1>15. WriterHasTmp'
  <2> SUFFICES ASSUME NEW x \in Calls, Writes(x)', call'[x].fd \notin mixed
               PROVE  /\ call'[x].fd = dir[Tmp(x[1])]
                      /\ inode'[call'[x].fd] = Part(call'[x].data, call'[x].off)
    BY <1>5 DEF WriterHasTmp, Part, Front, Tmp
  <2>1. CASE x = c
    BY <1>3, <1>6, <1>8, <1>9, <2>1
  <2>2. CASE x # c
    <3>1. call'[x] = call[x] /\ Writes(x) /\ call[x].fd \in Inodes
      BY <1>0, <1>6, <1>7, <2>2 DEF IInv, DescriptorsHeld, States
    <3>2. call[x].fd # i
      BY <1>8, <2>2, <3>1
    <3> QED
      BY <1>6, <3>1, <3>2 DEF IInv, WriterHasTmp
  <2> QED
    BY <2>1, <2>2
<1>16. TmpIsMixed'
  BY <1>5, <1>7 DEF IInv, TmpIsMixed, Tmp
<1>17. WritersApart'
  BY <1>7 DEF IInv, WritersApart
<1>18. FilesComplete'
  <2> SUFFICES ASSUME NEW f \in Files, dir[f] # None, dir[f] \notin mixed
               PROVE  inode'[dir[f]] \in Texts
    BY <1>5 DEF FilesComplete
  <2>1. dir[f] \in Inodes /\ dir[f] # i
    BY <1>0, <1>8, NamesDiffer, CallParts
  <2> QED
    BY <1>6, <2>1 DEF IInv, FilesComplete
<1>19. ReadersComplete'
  <2> SUFFICES ASSUME NEW x \in Calls, call'[x].pc = "read", call'[x].fd \notin mixed
               PROVE  /\ inode'[call'[x].fd] \in Texts
                      /\ call'[x].off <= inode'[call'[x].fd].len
                      /\ call'[x].data = Buffer(inode'[call'[x].fd], call'[x].off)
    BY <1>5 DEF ReadersComplete, Buffer, Front
  <2>1. x # c /\ call'[x] = call[x] /\ call[x].fd \in Inodes
    BY <1>0, <1>3, <1>6 DEF IInv, DescriptorsHeld, States
  <2>2. call[x].fd # i
    BY <1>8, <2>1
  <2> QED
    BY <1>6, <2>1, <2>2 DEF IInv, ReadersComplete
<1> QED
  BY <1>10, <1>11, <1>12, <1>13, <1>14, <1>15, <1>16, <1>17, <1>18, <1>19 DEF IInv

\* A file loses its name.
LEMMA RemoveIInv == ASSUME IInv, NEW c \in Calls, NEW f \in Files, RemoveFile(c, f) PROVE IInv'
<1>0. /\ dir \in [Names -> Inodes \union {None}] /\ inode \in [Inodes -> Contents]
      /\ call \in [Calls -> States] /\ mixed \subseteq Inodes
  BY DEF IInv, Types
<1>1. dir' = [dir EXCEPT ![f] = None] /\ call' = call /\ Reclaim
  BY DEF RemoveFile
<1>2. /\ dir'[f] = None /\ \A m \in Names \ {f} : dir'[m] = dir[m]
      /\ \A p \in Procs : dir'[Tmp(p)] = dir[Tmp(p)]
  BY <1>0, <1>1, NamesDiffer
<1>3. /\ inode' \in [Inodes -> Contents] /\ mixed' \subseteq Inodes
      /\ \A i \in Inodes : Held(i)' => inode'[i] = inode[i] /\ (i \in mixed' <=> i \in mixed)
  BY <1>0, <1>1, ReclaimKeeps
<1>4. \A d \in Calls : call[d].fd \in Inodes =>
          /\ inode'[call[d].fd] = inode[call[d].fd]
          /\ call[d].fd \in mixed' <=> call[d].fd \in mixed
  BY <1>1, <1>3 DEF Held
<1>5. \A m \in Names : dir'[m] \in Inodes =>
          /\ inode'[dir'[m]] = inode[dir'[m]]
          /\ dir'[m] \in mixed' <=> dir'[m] \in mixed
  BY <1>3 DEF Held
<1>6. \A d \in Calls : Writes(d) \/ call[d].pc = "read" => call[d].fd \in Inodes
  BY <1>0 DEF IInv, DescriptorsHeld, States
<1>7. \A d \in Calls : Writes(d)' <=> Writes(d)
  BY <1>1 DEF Writes
<1>8. Types'
  BY <1>0, <1>1, <1>3 DEF Types
<1>9. DescriptorsHeld'
  BY <1>1, <1>7 DEF IInv, DescriptorsHeld
<1>10. CallsNested'
  BY <1>1 DEF IInv, CallsNested, Inner
<1>11. TmpExclusive'
  <2> SUFFICES ASSUME NEW p \in Procs, dir'[Tmp(p)] # None
               PROVE  /\ \A m \in Names : dir'[m] = dir'[Tmp(p)] => m = Tmp(p)
                      /\ \A d \in Calls : call'[d].fd = dir'[Tmp(p)] => d[1] = p /\ Writes(d)'
    BY DEF TmpExclusive, Tmp
  <2> QED
    BY <1>1, <1>2, <1>7 DEF IInv, TmpExclusive
<1>12. NestedIsMixed'
  BY <1>1, <1>4, <1>6, <1>7 DEF IInv, NestedIsMixed, Inner
<1>13. WriterHasTmp'
  <2> SUFFICES ASSUME NEW x \in Calls, Writes(x), call[x].fd \notin mixed'
               PROVE  /\ call[x].fd = dir'[Tmp(x[1])]
                      /\ inode'[call[x].fd] = Part(call[x].data, call[x].off)
    BY <1>1, <1>7 DEF WriterHasTmp, Part, Front, Tmp
  <2> QED
    BY <1>2, <1>4, <1>6, CallParts DEF IInv, WriterHasTmp
<1>14. TmpIsMixed'
  <2> SUFFICES ASSUME NEW x \in Calls, Writes(x), call[x].fd \in mixed'
               PROVE  dir'[Tmp(x[1])] \in mixed' \union {None}
    BY <1>1, <1>7 DEF TmpIsMixed, Tmp
  <2>1. dir[Tmp(x[1])] \in mixed \union {None}
    BY <1>4, <1>6 DEF IInv, TmpIsMixed
  <2>2. Tmp(x[1]) \in Names /\ dir'[Tmp(x[1])] = dir[Tmp(x[1])]
    BY <1>2, NamesDiffer, CallParts
  <2> QED
    BY <1>0, <1>5, <2>1, <2>2
<1>15. WritersApart'
  BY <1>1, <1>7 DEF IInv, WritersApart
<1>16. FilesComplete'
  BY <1>0, <1>2, <1>5, NamesDiffer DEF IInv, FilesComplete
<1>17. ReadersComplete'
  <2> SUFFICES ASSUME NEW x \in Calls, call[x].pc = "read", call[x].fd \notin mixed'
               PROVE  /\ inode'[call[x].fd] \in Texts
                      /\ call[x].off <= inode'[call[x].fd].len
                      /\ call[x].data = Buffer(inode'[call[x].fd], call[x].off)
    BY <1>1 DEF ReadersComplete, Buffer, Front
  <2>1. inode'[call[x].fd] = inode[call[x].fd] /\ call[x].fd \notin mixed
    BY <1>4, <1>6
  <2> QED
    BY <2>1 DEF IInv, ReadersComplete
<1> QED
  BY <1>8, <1>9, <1>10, <1>11, <1>12, <1>13, <1>14, <1>15, <1>16, <1>17 DEF IInv

\* What is renamed: a complete text that nobody else has, or a mixed inode.
LEMMA Renamed ==
    ASSUME IInv, NEW c \in Calls, Rename(c)
    PROVE  /\ call[c].pc = "write" /\ Writes(c) /\ call[c].fd \in Inodes /\ call[c].file \in Files
           /\ dir[Tmp(c[1])] \in Inodes
           /\ call[c].fd \in mixed <=> dir[Tmp(c[1])] \in mixed
           /\ dir[Tmp(c[1])] \notin mixed =>
                /\ inode[dir[Tmp(c[1])]] = call[c].data /\ call[c].data \in Texts
<1>0. /\ dir \in [Names -> Inodes \union {None}] /\ call \in [Calls -> States]
      /\ Tmp(c[1]) \in Names /\ dir[Tmp(c[1])] # None
  BY NamesDiffer, CallParts DEF IInv, Types, Rename
<1>1. /\ call[c].pc = "write" /\ Writes(c) /\ call[c].fd \in Inodes /\ call[c].file \in Files
      /\ call[c].data \in Texts /\ call[c].off = call[c].data.len /\ dir[Tmp(c[1])] \in Inodes
  BY <1>0 DEF Rename, IInv, DescriptorsHeld, Writes, States
<1>2. CASE call[c].fd \in mixed
  BY <1>0, <1>1, <1>2 DEF IInv, TmpIsMixed
<1>3. CASE call[c].fd \notin mixed
  <2>1. call[c].fd = dir[Tmp(c[1])] /\ inode[call[c].fd] = Part(call[c].data, call[c].data.len)
    BY <1>1, <1>3 DEF IInv, WriterHasTmp
  <2> QED
    BY <1>1, <1>3, <2>1, TextWhole
<1> QED
  BY <1>1, <1>2, <1>3

\* A rename gives the temporary file the name of a script's file.
LEMMA RenameIInv == ASSUME IInv, NEW c \in Calls, Rename(c) PROVE IInv'
<1> DEFINE t == Tmp(c[1])
           i == dir[t]
           g == call[c].file
<1>0. /\ dir \in [Names -> Inodes \union {None}] /\ inode \in [Inodes -> Contents]
      /\ call \in [Calls -> States] /\ mixed \subseteq Inodes
      /\ t \in Names /\ t \notin Files /\ c[1] \in Procs /\ g \in Files /\ g \in Names /\ i \in Inodes
  BY Renamed, NamesDiffer, CallParts DEF IInv, Types
<1>1. dir' = [dir EXCEPT ![g] = i, ![t] = None] /\ call' = [call EXCEPT ![c] = Rest] /\ Reclaim
  BY DEF Rename, Close
<1>2. /\ dir'[g] = i /\ dir'[t] = None /\ \A m \in Names \ {g, t} : dir'[m] = dir[m]
      /\ call'[c] = Rest /\ \A d \in Calls \ {c} : call'[d] = call[d]
      /\ dir' \in [Names -> Inodes \union {None}]
  BY <1>0, <1>1
<1>3. /\ inode' \in [Inodes -> Contents] /\ mixed' \subseteq Inodes
      /\ \A j \in Inodes : Held(j)' => inode'[j] = inode[j] /\ (j \in mixed' <=> j \in mixed)
  BY <1>0, <1>1, ReclaimKeeps
<1>4. \A d \in Calls : call'[d].fd \in Inodes =>
          /\ inode'[call'[d].fd] = inode[call'[d].fd]
          /\ call'[d].fd \in mixed' <=> call'[d].fd \in mixed
  BY <1>3 DEF Held
<1>5. \A m \in Names : dir'[m] \in Inodes =>
          /\ inode'[dir'[m]] = inode[dir'[m]]
          /\ dir'[m] \in mixed' <=> dir'[m] \in mixed
  BY <1>3 DEF Held
<1>6. \A d \in Calls : Writes(d)' \/ call'[d].pc = "read" =>
          d # c /\ call'[d] = call[d] /\ call[d].fd \in Inodes
  <2> SUFFICES ASSUME NEW d \in Calls, Writes(d)' \/ call'[d].pc = "read"
               PROVE  d # c /\ call'[d] = call[d] /\ call[d].fd \in Inodes
    OBVIOUS
  <2>1. d # c /\ call'[d] = call[d]
    BY <1>2, RestType DEF Writes
  <2>2. call[d] \in States /\ call[d].fd # None
    BY <1>0, <2>1 DEF IInv, DescriptorsHeld, Writes
  <2> QED
    BY <2>1, <2>2 DEF States
<1>7. \A d \in Calls : Writes(d)' <=> Writes(d) /\ d # c
  BY <1>2, RestType DEF Writes
\* Calls of the process that go on are around this one, and write mixed inodes.
<1>8. \A d \in Calls : Writes(d)' /\ d[1] = c[1] => Inner(d, c) /\ call[d].fd \in mixed
  <2> SUFFICES ASSUME NEW d \in Calls, Writes(d)', d[1] = c[1] PROVE Inner(d, c) /\ call[d].fd \in mixed
    OBVIOUS
  <2>1. Writes(d) /\ d # c /\ Writes(c) /\ call[c].pc = "write" /\ call[d] # Rest
    BY <1>7, Renamed, RestType DEF Writes
  <2>2. Inner(c, d) \/ Inner(d, c)
    BY <2>1, CallParts DEF Inner
  <2>3. ~ Inner(c, d)
    BY <2>1 DEF IInv, CallsNested
  <2> QED
    BY <2>1, <2>2, <2>3 DEF IInv, NestedIsMixed
<1>9. Types'
  BY <1>0, <1>1, <1>2, <1>3, RestType DEF Types
<1>10. DescriptorsHeld'
  BY <1>2, <1>7, RestType DEF IInv, DescriptorsHeld
<1>11. CallsNested'
  <2> SUFFICES ASSUME NEW x \in Calls, NEW d \in Calls, Inner(x, d), call'[d] # Rest
               PROVE  call'[x].pc = "convert"
    BY DEF CallsNested, Inner
  <2>1. d # c /\ call[d] # Rest
    BY <1>2
  <2>2. call[x].pc = "convert"
    BY <2>1 DEF IInv, CallsNested
  <2>3. x # c
    BY <2>2, Renamed
  <2> QED
    BY <1>2, <2>2, <2>3
<1>12. TmpExclusive'
  <2> SUFFICES ASSUME NEW p \in Procs, dir'[Tmp(p)] # None
               PROVE  /\ \A m \in Names : dir'[m] = dir'[Tmp(p)] => m = Tmp(p)
                      /\ \A d \in Calls : call'[d].fd = dir'[Tmp(p)] => d[1] = p /\ Writes(d)'
    BY DEF TmpExclusive, Tmp
  <2>1. p # c[1] /\ Tmp(p) # t /\ Tmp(p) # g /\ Tmp(p) \in Names
    BY <1>0, <1>2, NamesDiffer
  <2>2. dir'[Tmp(p)] = dir[Tmp(p)] /\ dir[Tmp(p)] # None
    BY <1>2, <2>1
  <2>3. dir[Tmp(p)] # i
    BY <1>0, <2>1, <2>2 DEF IInv, TmpExclusive
  <2>4. ASSUME NEW m \in Names, dir'[m] = dir'[Tmp(p)] PROVE m = Tmp(p)
    <3>1. m # g /\ m # t
      BY <1>2, <2>2, <2>3, <2>4
    <3> QED
      BY <1>2, <2>2, <2>4, <3>1 DEF IInv, TmpExclusive
  <2>5. ASSUME NEW d \in Calls, call'[d].fd = dir'[Tmp(p)] PROVE d[1] = p /\ Writes(d)'
    <3>1. d # c
      BY <1>2, <2>2, <2>5, RestType
    <3>2. call[d].fd = dir[Tmp(p)]
      BY <1>2, <2>2, <2>5, <3>1
    <3> QED
      BY <1>7, <2>2, <3>1, <3>2 DEF IInv, TmpExclusive
  <2> QED
    BY <2>4, <2>5
<1>13. NestedIsMixed'
  BY <1>4, <1>6, <1>7 DEF IInv, NestedIsMixed, Inner
<1>14. WriterHasTmp'
  <2> SUFFICES ASSUME NEW x \in Calls, Writes(x)', call'[x].fd \notin mixed'
               PROVE  /\ call'[x].fd = dir'[Tmp(x[1])]
                      /\ inode'[call'[x].fd] = Part(call'[x].data, call'[x].off)
    BY DEF WriterHasTmp, Part, Front, Tmp
  <2>1. /\ Writes(x) /\ call'[x] = call[x] /\ inode'[call[x].fd] = inode[call[x].fd]
        /\ call[x].fd \notin mixed
    BY <1>4, <1>6, <1>7
  <2>2. x[1] # c[1] /\ x[1] \in Procs
    BY <1>8, <2>1, CallParts
  <2>3. dir'[Tmp(x[1])] = dir[Tmp(x[1])]
    BY <1>0, <1>2, <2>2, NamesDiffer
  <2> QED
    BY <2>1, <2>3 DEF IInv, WriterHasTmp
<1>15. TmpIsMixed'
  <2> SUFFICES ASSUME NEW x \in Calls, Writes(x)', call'[x].fd \in mixed'
               PROVE  dir'[Tmp(x[1])] \in mixed' \union {None}
    BY DEF TmpIsMixed, Tmp
  <2>1. CASE x[1] = c[1]
    BY <1>2, <2>1
  <2>2. CASE x[1] # c[1]
    <3>1. Writes(x) /\ call[x].fd \in mixed
      BY <1>4, <1>6, <1>7
    <3>2. Tmp(x[1]) \in Names /\ dir'[Tmp(x[1])] = dir[Tmp(x[1])]
      BY <1>0, <1>2, <2>2, NamesDiffer, CallParts
    <3>3. dir[Tmp(x[1])] \in mixed \union {None}
      BY <3>1 DEF IInv, TmpIsMixed
    <3> QED
      BY <1>0, <1>5, <3>2, <3>3
  <2> QED
    BY <2>1, <2>2
<1>16. WritersApart'
  BY <1>6, <1>7 DEF IInv, WritersApart
<1>17. FilesComplete'
  <2> SUFFICES ASSUME NEW f \in Files, dir'[f] # None, dir'[f] \notin mixed'
               PROVE  inode'[dir'[f]] \in Texts
    BY DEF FilesComplete
  <2>1. f \in Names /\ f # t /\ dir'[f] \in Inodes
    BY <1>0, <1>2, NamesDiffer
  <2>2. inode'[dir'[f]] = inode[dir'[f]] /\ dir'[f] \notin mixed
    BY <1>5, <2>1
  <2>3. CASE f = g
    BY <1>2, <2>2, <2>3, Renamed
  <2>4. CASE f # g
    BY <1>2, <2>1, <2>2, <2>4 DEF IInv, FilesComplete
  <2> QED
    BY <2>3, <2>4
<1>18. ReadersComplete'
  <2> SUFFICES ASSUME NEW x \in Calls, call'[x].pc = "read", call'[x].fd \notin mixed'
               PROVE  /\ inode'[call'[x].fd] \in Texts
                      /\ call'[x].off <= inode'[call'[x].fd].len
                      /\ call'[x].data = Buffer(inode'[call'[x].fd], call'[x].off)
    BY DEF ReadersComplete, Buffer, Front
  <2>1. /\ call'[x] = call[x] /\ inode'[call[x].fd] = inode[call[x].fd]
        /\ call[x].fd \notin mixed
    BY <1>4, <1>6
  <2> QED
    BY <2>1 DEF IInv, ReadersComplete
<1> QED
  BY <1>9, <1>10, <1>11, <1>12, <1>13, <1>14, <1>15, <1>16, <1>17, <1>18 DEF IInv

\* A file is opened to be read.
LEMMA ReadOpenIInv == ASSUME IInv, NEW c \in Calls, NEW f \in Files, ReadOpen(c, f) PROVE IInv'
<1> DEFINE i == dir[f]
           r == [pc |-> "read", file |-> f, data |-> Blank(inode[i].len), fd |-> i, off |-> 0]
<1>0. /\ dir \in [Names -> Inodes \union {None}] /\ inode \in [Inodes -> Contents]
      /\ call \in [Calls -> States] /\ mixed \subseteq Inodes /\ f \in Names
  BY NamesDiffer DEF IInv, Types
<1>1. i \in Inodes /\ inode[i] \in Contents /\ inode[i].len \in 0 .. Chunks
  BY <1>0 DEF ReadOpen, Contents
<1>2. UNCHANGED <<dir, inode, mixed>> /\ call' = [call EXCEPT ![c] = r]
  BY DEF ReadOpen
<1>3. /\ call[c] = Rest
      /\ \A d \in Calls : Inner(c, d) => call[d] = Rest
      /\ \A d \in Calls : Inner(d, c) => call[d].pc = "convert"
  BY RunsMeans DEF ReadOpen
<1>4. /\ r \in States /\ r.pc = "read" /\ r.fd = i /\ r.off = 0 /\ r.data = Blank(inode[i].len)
  BY <1>1, NothingType DEF States
<1> HIDE DEF r
<1>5. call'[c] = r /\ \A d \in Calls \ {c} : call'[d] = call[d]
  BY <1>0, <1>2
<1>6. \A d \in Calls : Writes(d)' <=> Writes(d)
  BY <1>3, <1>4, <1>5, RestType DEF Writes
<1>7. ~ Writes(c)
  BY <1>3, RestType DEF Writes
<1>8. Types'
  BY <1>0, <1>2, <1>4 DEF Types
<1>9. DescriptorsHeld'
  BY <1>1, <1>4, <1>5, <1>6, <1>7 DEF IInv, DescriptorsHeld
<1>10. CallsNested'
  BY <1>3, <1>4, <1>5, RestType DEF IInv, CallsNested, Inner
<1>11. TmpExclusive'
  <2> SUFFICES ASSUME NEW p \in Procs, dir[Tmp(p)] # None
               PROVE  /\ \A m \in Names : dir[m] = dir[Tmp(p)] => m = Tmp(p)
                      /\ \A d \in Calls : call'[d].fd = dir[Tmp(p)] => d[1] = p /\ Writes(d)'
    BY <1>2 DEF TmpExclusive, Tmp
  <2>1. dir[Tmp(p)] # i
    BY <1>0, NamesDiffer DEF IInv, TmpExclusive
  <2> QED
    BY <1>4, <1>5, <1>6, <2>1 DEF IInv, TmpExclusive
<1>12. NestedIsMixed'
  BY <1>2, <1>5, <1>6, <1>7 DEF IInv, NestedIsMixed, Inner
<1>13. WriterHasTmp'
  <2> SUFFICES ASSUME NEW x \in Calls, Writes(x)', call'[x].fd \notin mixed
               PROVE  /\ call'[x].fd = dir[Tmp(x[1])]
                      /\ inode[call'[x].fd] = Part(call'[x].data, call'[x].off)
    BY <1>2 DEF WriterHasTmp, Part, Front, Tmp
  <2>1. Writes(x) /\ x # c
    BY <1>6, <1>7
  <2> QED
    BY <1>5, <2>1 DEF IInv, WriterHasTmp
<1>14. TmpIsMixed'
  BY <1>2, <1>5, <1>6, <1>7 DEF IInv, TmpIsMixed, Tmp
<1>15. WritersApart'
  BY <1>5, <1>6, <1>7 DEF IInv, WritersApart
<1>16. FilesComplete'
  BY <1>2 DEF IInv, FilesComplete
<1>17. ReadersComplete'
  <2> SUFFICES ASSUME NEW x \in Calls, call'[x].pc = "read", call'[x].fd \notin mixed'
               PROVE  /\ inode'[call'[x].fd] \in Texts
                      /\ call'[x].off <= inode'[call'[x].fd].len
                      /\ call'[x].data = Buffer(inode'[call'[x].fd], call'[x].off)
    BY DEF ReadersComplete, Buffer, Front
  <2>0. inode' = inode /\ mixed' = mixed
    BY <1>2
  <2>1. CASE x = c
    <3>1. inode[i] \in Texts
      BY <1>1, <1>4, <1>5, <2>0, <2>1 DEF IInv, FilesComplete
    <3>2. Buffer(inode[i], 0) = Blank(inode[i].len)
      BY <1>1, PartNone
    <3> QED
      BY <1>1, <1>4, <1>5, <2>0, <2>1, <3>1, <3>2
  <2>2. CASE x # c
    BY <1>5, <2>0, <2>2 DEF IInv, ReadersComplete
  <2> QED
    BY <2>1, <2>2
<1> QED
  BY <1>8, <1>9, <1>10, <1>11, <1>12, <1>13, <1>14, <1>15, <1>16, <1>17 DEF IInv

\* Every step keeps the invariant.
LEMMA NextIInv == IInv /\ [Next]_vars => IInv'
<1> SUFFICES ASSUME IInv, [Next]_vars PROVE IInv'
  OBVIOUS
<1>1. ASSUME NEW c \in Calls, WriteFails(c) \/ ReadFails(c) \/ Return(c) \/ ReadReturns(c) PROVE IInv'
  BY <1>1, OverIInv
<1>2. ASSUME NEW c \in Calls, NEW f \in Files, WriteRefused(c, f) PROVE IInv'
  BY <1>2, OverIInv
<1>3. ASSUME NEW p \in Procs, Crash(p) PROVE IInv'
  <2>1. PICK c \in Calls : c[1] = p
    BY <1>3 DEF Crash
  <2> QED
    BY <1>3, <2>1, OverIInv
<1>4. ASSUME NEW c \in Calls, NEW f \in Files, NEW create \in BOOLEAN, WriteOpen(c, f, create) PROVE IInv'
  BY <1>4, OpenIInv
<1>5. ASSUME NEW c \in Calls, NEW s \in Strings, Convert(c, s) PROVE IInv'
  BY <1>5, MovesOnIInv
<1>6. ASSUME NEW c \in Calls, ReadChunk(c) PROVE IInv'
  BY <1>6, MovesOnIInv
<1>7. ASSUME NEW c \in Calls, WriteChunk(c) PROVE IInv'
  BY <1>7, WriteIInv
<1>8. ASSUME NEW c \in Calls, Rename(c) PROVE IInv'
  BY <1>8, RenameIInv
<1>9. ASSUME NEW c \in Calls, NEW f \in Files, RemoveFile(c, f) PROVE IInv'
  BY <1>9, RemoveIInv
<1>10. ASSUME NEW c \in Calls, NEW f \in Files, ReadOpen(c, f) PROVE IInv'
  BY <1>10, ReadOpenIInv
<1>11. CASE UNCHANGED vars
  BY <1>11 DEF vars, IInv, Types, DescriptorsHeld, CallsNested, TmpExclusive, NestedIsMixed, WriterHasTmp,
     TmpIsMixed, WritersApart, FilesComplete, ReadersComplete, Writes, Part, Buffer, Front, Tmp, Inner
<1> QED
  BY <1>1, <1>2, <1>3, <1>4, <1>5, <1>6, <1>7, <1>8, <1>9, <1>10, <1>11 DEF Next

\* The invariant holds in every state a run reaches.
LEMMA Inductive == Spec => []IInv
  BY InitIInv, NextIInv, PTL DEF Spec

-----------------------------------------------------------------------------
(* Theorems *)

\* The variables keep their types: in particular the count of what is written stays
\* within the value, and every descriptor is one of an inode.
THEOREM TypesKept == Spec => []TypeOK
<1>1. IInv => TypeOK
  BY TypesAreOK DEF IInv
<1> QED
  BY <1>1, Inductive, PTL

\* In a state of the invariant nobody else has what a call writes, but for mixed inodes.
LEMMA AloneIfUnmixed == IInv => WriterExclusive
<1> SUFFICES ASSUME IInv, NEW c \in Calls, Writes(c)
             PROVE  /\ \A d \in Calls : Writes(d) /\ call[d].fd = call[c].fd => d[1] = c[1]
                    /\ call[c].fd \notin mixed =>
                          /\ \A f \in Files : dir[f] # call[c].fd
                          /\ \A d \in Calls \ {c} : call[d].fd # call[c].fd
  BY DEF WriterExclusive
<1>1. \A d \in Calls : Writes(d) /\ call[d].fd = call[c].fd => d[1] = c[1]
  BY DEF IInv, WritersApart
<1>2. ASSUME call[c].fd \notin mixed PROVE \A f \in Files : dir[f] # call[c].fd
  <2>1. call[c].fd = dir[Tmp(c[1])] /\ call[c].fd # None /\ c[1] \in Procs
    BY <1>2, CallParts DEF IInv, WriterHasTmp, DescriptorsHeld
  <2> QED
    BY <2>1, NamesDiffer DEF IInv, TmpExclusive
<1>3. ASSUME call[c].fd \notin mixed, NEW d \in Calls \ {c}, call[d].fd = call[c].fd PROVE FALSE
  <2>1. call[c].fd = dir[Tmp(c[1])] /\ call[c].fd # None /\ c[1] \in Procs
    BY <1>3, CallParts DEF IInv, WriterHasTmp, DescriptorsHeld
  <2>2. d[1] = c[1] /\ Writes(d) /\ c[2] \in Nat /\ d[2] \in Nat /\ d[2] # c[2]
    BY <1>3, <2>1, CallParts DEF IInv, TmpExclusive
  <2>3. Inner(c, d) \/ Inner(d, c)
    BY <2>2 DEF Inner
  <2> QED
    BY <1>3, <2>2, <2>3 DEF IInv, NestedIsMixed
<1> QED
  BY <1>1, <1>2, <1>3

\* What a process is writing no other process writes, and nobody else can see it, whatever
\* earlier calls of this or of another process with the same identifier left behind,
\* unless the toString() of the value called writeAsFile() again.
THEOREM WritesAlone == Spec => []WriterExclusive
BY AloneIfUnmixed, Inductive, PTL

-----------------------------------------------------------------------------
(* The refinement *)

\* What the shared files and the calls are from outside: the mapping of Atomic.
FileValue == [f \in Files |-> IF dir[f] = None THEN Absent ELSE Seen(dir[f], inode[dir[f]])]
CallOf(k, m, n) ==
    CASE k.pc \in {"idle", "refused"} -> [op |-> "idle"]
      [] k.pc = "convert" -> [op |-> "convert", file |-> k.file, entered |-> k.fd \in m]
      [] k.pc = "write"   -> [op |-> "write", file |-> k.file,
                              text |-> IF k.fd \in m THEN Undefined ELSE k.data]
      [] k.pc = "read"    -> [op |-> "read", text |-> IF k.fd \in m THEN Undefined ELSE n[k.fd]]
      [] k.pc = "done"    -> [op |-> "done", text |-> k.data]
CallMap == [c \in Calls |-> CallOf(call[c], mixed, inode)]

\* The mapping of a call, by what it is doing.
LEMMA CallOfShapes ==
    ASSUME NEW k, NEW m, NEW n
    PROVE  /\ k.pc \in {"idle", "refused"} => CallOf(k, m, n) = Atomic!Idle
           /\ k.pc = "convert" => CallOf(k, m, n) = Atomic!Converting(k.file, k.fd \in m)
           /\ k.pc = "write" /\ k.fd \in m => CallOf(k, m, n) = Atomic!Writing(k.file, Undefined)
           /\ k.pc = "write" /\ k.fd \notin m => CallOf(k, m, n) = Atomic!Writing(k.file, k.data)
           /\ k.pc = "read" /\ k.fd \in m => CallOf(k, m, n) = Atomic!Reading(Undefined)
           /\ k.pc = "read" /\ k.fd \notin m => CallOf(k, m, n) = Atomic!Reading(n[k.fd])
           /\ k.pc = "done" => CallOf(k, m, n) = Atomic!Returned(k.data)
<1>1. k.pc \in {"idle", "refused"} => CallOf(k, m, n) = Atomic!Idle
  BY DEF CallOf, Atomic!Idle
<1>2. k.pc = "convert" => CallOf(k, m, n) = Atomic!Converting(k.file, k.fd \in m)
  BY DEF CallOf, Atomic!Converting
<1>3. k.pc = "write" => CallOf(k, m, n) = Atomic!Writing(k.file, IF k.fd \in m THEN Undefined ELSE k.data)
  BY DEF CallOf, Atomic!Writing
<1>4. k.pc = "read" => CallOf(k, m, n) = Atomic!Reading(IF k.fd \in m THEN Undefined ELSE n[k.fd])
  BY DEF CallOf, Atomic!Reading
<1>5. k.pc = "done" => CallOf(k, m, n) = Atomic!Returned(k.data)
  BY DEF CallOf, Atomic!Returned
<1> QED
  BY <1>1, <1>2, <1>3, <1>4, <1>5

\* The calls of AtomicFiles differ, and have their fields.
LEMMA CallShapes ==
    /\ Atomic!Idle.op = "idle"
    /\ \A f, b : /\ Atomic!Converting(f, b).op = "convert"
                 /\ Atomic!Converting(f, b).file = f /\ Atomic!Converting(f, b).entered = b
    /\ \A f, t : /\ Atomic!Writing(f, t).op = "write"
                 /\ Atomic!Writing(f, t).file = f /\ Atomic!Writing(f, t).text = t
    /\ \A t : Atomic!Reading(t).op = "read" /\ Atomic!Reading(t).text = t
    /\ \A t : Atomic!Returned(t).op = "done"
<1>1. Atomic!Idle.op = "idle"
  BY DEF Atomic!Idle
<1>2. \A f, b : /\ Atomic!Converting(f, b).op = "convert"
               /\ Atomic!Converting(f, b).file = f /\ Atomic!Converting(f, b).entered = b
  BY DEF Atomic!Converting
<1>3. \A f, t : /\ Atomic!Writing(f, t).op = "write"
               /\ Atomic!Writing(f, t).file = f /\ Atomic!Writing(f, t).text = t
  BY DEF Atomic!Writing
<1>4. \A t : Atomic!Reading(t).op = "read" /\ Atomic!Reading(t).text = t
  BY DEF Atomic!Reading
<1>5. \A t : Atomic!Returned(t).op = "done"
  BY DEF Atomic!Returned
<1> QED
  BY <1>1, <1>2, <1>3, <1>4, <1>5

\* The mapping of a call does not depend on inodes that it has not open, nor on what is
\* in a mixed one.
LEMMA CallOfSame ==
    ASSUME NEW k, NEW m1, NEW m2, NEW n1, NEW n2,
           k.pc \in {"idle", "refused", "done"} \/ (k.fd \in m1 <=> k.fd \in m2),
           k.pc = "read" /\ k.fd \notin m1 => n1[k.fd] = n2[k.fd]
    PROVE  CallOf(k, m1, n1) = CallOf(k, m2, n2)
<1>1. CASE k.pc \in {"idle", "refused", "done"}
  BY <1>1 DEF CallOf
<1>2. CASE k.pc \notin {"idle", "refused", "done"}
  <2>1. CASE k.fd \in m1
    <3>1. (k.fd \in m1) = TRUE /\ (k.fd \in m2) = TRUE
      BY <1>2, <2>1
    <3> QED
      BY <1>2, <3>1 DEF CallOf
  <2>2. CASE k.fd \notin m1
    <3>1. (k.fd \in m1) = FALSE /\ (k.fd \in m2) = FALSE
      BY <1>2, <2>2
    <3>2. k.pc = "read" => n1[k.fd] = n2[k.fd]
      BY <2>2
    <3> QED
      BY <1>2, <3>1, <3>2 DEF CallOf
  <2> QED
    BY <2>1, <2>2
<1> QED
  BY <1>1, <1>2

\* A step that keeps the names of scripts, what they lead to and which of it is mixed
\* changes no value.
LEMMA ValueStays ==
    ASSUME \A f \in Files : /\ dir'[f] = dir[f]
                            /\ dir[f] # None => /\ dir[f] \in mixed' <=> dir[f] \in mixed
                                                /\ dir[f] \notin mixed => inode'[dir[f]] = inode[dir[f]]
    PROVE  FileValue' = FileValue
BY DEF FileValue, Seen

\* The value of a file.
LEMMA ValueOf ==
    ASSUME IInv, NEW f \in Files
    PROVE  /\ dir[f] = None => FileValue[f] = Absent
           /\ dir[f] # None /\ dir[f] \in mixed => FileValue[f] = Undefined
           /\ dir[f] # None /\ dir[f] \notin mixed => FileValue[f] = inode[dir[f]]
           /\ dir[f] # None => FileValue[f] # Absent
<1>1. dir[f] # None /\ dir[f] \notin mixed => inode[dir[f]] \in Contents
  BY TextWhole DEF IInv, FilesComplete
<1> QED
  BY <1>1 DEF FileValue, Seen

\* Other calls, and the values of files, stay what they are from outside when inodes that
\* are held are kept.
LEMMA MapStays ==
    ASSUME IInv, Reclaim \/ UNCHANGED <<inode, mixed>>
    PROVE  /\ dir' = dir => FileValue' = FileValue
           /\ \A c \in Calls : call'[c] = call[c] => CallMap'[c] = CallMap[c]
<1>1. /\ dir \in [Names -> Inodes \union {None}] /\ call \in [Calls -> States]
      /\ inode \in [Inodes -> Contents] /\ mixed \subseteq Inodes
  BY DEF IInv, Types
<1>2. /\ \A m \in Names : dir'[m] \in Inodes =>
            inode'[dir'[m]] = inode[dir'[m]] /\ (dir'[m] \in mixed' <=> dir'[m] \in mixed)
      /\ \A c \in Calls : call'[c].fd \in Inodes =>
            inode'[call'[c].fd] = inode[call'[c].fd] /\ (call'[c].fd \in mixed' <=> call'[c].fd \in mixed)
  BY <1>1, ReclaimKeeps DEF Held
<1>3. ASSUME dir' = dir PROVE FileValue' = FileValue
  <2>1. ASSUME NEW f \in Files, dir[f] # None
        PROVE  inode'[dir[f]] = inode[dir[f]] /\ (dir[f] \in mixed' <=> dir[f] \in mixed)
    <3>1. dir[f] \in Inodes /\ f \in Names
      BY <1>1, <2>1, NamesDiffer
    <3> QED
      BY <1>2, <1>3, <3>1
  <2> QED
    BY <1>3, <2>1, ValueStays
<1>4. ASSUME NEW c \in Calls, call'[c] = call[c] PROVE CallMap'[c] = CallMap[c]
  <2> DEFINE k == call[c]
  <2>1. k.pc \in {"idle", "refused", "done"} \/ k.fd \in Inodes
    BY <1>1 DEF IInv, DescriptorsHeld, Writes, States
  <2>2. k.fd \in Inodes => inode'[k.fd] = inode[k.fd] /\ (k.fd \in mixed' <=> k.fd \in mixed)
    BY <1>2, <1>4
  <2>3. k.pc = "read" => k.fd \in Inodes
    BY <2>1
  <2> HIDE DEF k
  <2>4. CallOf(k, mixed', inode') = CallOf(k, mixed, inode)
    <3>1. k.pc \in {"idle", "refused", "done"} \/ (k.fd \in mixed' <=> k.fd \in mixed)
      BY <2>1, <2>2
    <3>2. k.pc = "read" /\ k.fd \notin mixed' => inode'[k.fd] = inode[k.fd]
      BY <2>2, <2>3
    <3> QED
      BY <3>1, <3>2, CallOfSame
  <2> QED
    BY <1>4, <2>4 DEF CallMap, k
<1> QED
  BY <1>3, <1>4

\* A step of one call changes the mapping of that call only.
LEMMA MapChanges ==
    ASSUME IInv, NEW c \in Calls, NEW r, call' = [call EXCEPT ![c] = r],
           Reclaim \/ UNCHANGED <<inode, mixed>>
    PROVE  CallMap' = [CallMap EXCEPT ![c] = CallOf(r, mixed', inode')]
<1>1. call'[c] = r /\ \A d \in Calls \ {c} : call'[d] = call[d]
  BY DEF IInv, Types
<1>2. \A d \in Calls \ {c} : CallMap'[d] = CallMap[d]
  BY <1>1, MapStays
<1>3. CallMap'[c] = CallOf(r, mixed', inode')
  BY <1>1 DEF CallMap
<1>4. CallMap = [d \in Calls |-> CallMap[d]] /\ CallMap' = [d \in Calls |-> CallMap'[d]]
  BY DEF CallMap
<1> QED
  BY <1>2, <1>3, <1>4

\* What each call is from outside, by what it is doing.
LEMMA MapOf ==
    ASSUME NEW c \in Calls
    PROVE  /\ CallMap[c] = CallOf(call[c], mixed, inode)
           /\ call[c].pc \in {"idle", "refused"} => CallMap[c] = Atomic!Idle
           /\ call[c] = Rest => CallMap[c] = Atomic!Idle
           /\ call[c].pc = "convert" => /\ CallMap[c].op = "convert" /\ CallMap[c].file = call[c].file
                                        /\ CallMap[c].entered = (call[c].fd \in mixed)
           /\ call[c].pc = "write" => CallMap[c].op = "write" /\ CallMap[c].file = call[c].file
           /\ call[c].pc = "write" /\ call[c].fd \in mixed => CallMap[c].text = Undefined
           /\ call[c].pc = "write" /\ call[c].fd \notin mixed => CallMap[c].text = call[c].data
           /\ call[c].pc = "read" => CallMap[c].op = "read"
           /\ call[c].pc = "read" /\ call[c].fd \in mixed => CallMap[c].text = Undefined
           /\ call[c].pc = "read" /\ call[c].fd \notin mixed => CallMap[c].text = inode[call[c].fd]
           /\ call[c].pc = "done" => CallMap[c].op = "done"
<1> DEFINE k == call[c]
<1>1. CallMap[c] = CallOf(k, mixed, inode)
  BY DEF CallMap
<1>2. k = Rest => k.pc = "idle"
  BY RestType
<1> HIDE DEF k
<1>3. k.pc \in {"idle", "refused"} => CallMap[c] = Atomic!Idle
  BY <1>1, CallOfShapes
<1>4. k.pc = "convert" => /\ CallMap[c].op = "convert" /\ CallMap[c].file = k.file
                          /\ CallMap[c].entered = (k.fd \in mixed)
  BY <1>1, CallOfShapes, CallShapes
<1>5. k.pc = "write" => /\ CallMap[c].op = "write" /\ CallMap[c].file = k.file
                        /\ k.fd \in mixed => CallMap[c].text = Undefined
                        /\ k.fd \notin mixed => CallMap[c].text = k.data
  BY <1>1, CallOfShapes, CallShapes
<1>6. k.pc = "read" => /\ CallMap[c].op = "read"
                       /\ k.fd \in mixed => CallMap[c].text = Undefined
                       /\ k.fd \notin mixed => CallMap[c].text = inode[k.fd]
  BY <1>1, CallOfShapes, CallShapes
<1>7. k.pc = "done" => CallMap[c].op = "done"
  BY <1>1, CallOfShapes, CallShapes
<1> QED
  BY <1>1, <1>2, <1>3, <1>4, <1>5, <1>6, <1>7 DEF k

\* The steps of AtomicFiles, in terms of the mapping.
FileStep ==
    \/ FileValue' = FileValue /\ CallMap' = CallMap
    \/ \E c \in Calls :
        \/ /\ CallMap[c].op = "write"
           /\ FileValue' = [FileValue EXCEPT ![CallMap[c].file] = CallMap[c].text]
           /\ CallMap' = [CallMap EXCEPT ![c] = Atomic!Idle]
        \/ /\ CallMap[c].op \in {"write", "read", "done"}
           /\ CallMap' = [CallMap EXCEPT ![c] = Atomic!Idle]
           /\ FileValue' = FileValue
        \/ /\ CallMap[c].op = "read"
           /\ \E t \in IF CallMap[c].text = Undefined THEN Contents ELSE {CallMap[c].text} :
                CallMap' = [CallMap EXCEPT ![c] = Atomic!Returned(t)]
           /\ FileValue' = FileValue
        \/ \E f \in Files :
            /\ CallMap[c] = Atomic!Idle
            /\ CallMap' = [d \in Calls |->
                  IF d = c THEN Atomic!Converting(f, c[2] > 0)
                  ELSE IF c[2] > 0 /\ d[1] = c[1] /\ CallMap[d].op = "convert"
                  THEN Atomic!Converting(CallMap[d].file, TRUE)
                  ELSE CallMap[d]]
            /\ FileValue' = FileValue
        \/ \E f \in Files :
            /\ CallMap[c] = Atomic!Idle /\ FileValue[f] # Absent
            /\ CallMap' = [CallMap EXCEPT ![c] = Atomic!Reading(FileValue[f])]
            /\ FileValue' = FileValue
        \/ \E t \in Texts :
            /\ CallMap[c].op = "convert"
            /\ CallMap' = [CallMap EXCEPT ![c] =
                             Atomic!Writing(CallMap[c].file, IF CallMap[c].entered THEN Undefined ELSE t)]
            /\ FileValue' = FileValue
    \/ \E f \in Files :
        /\ FileValue[f] # Absent
        /\ FileValue' = [FileValue EXCEPT ![f] = Absent]
        /\ CallMap' = CallMap
    \/ \E p \in Procs :
        /\ CallMap' = [c \in Calls |-> IF c[1] = p THEN Atomic!Idle ELSE CallMap[c]]
        /\ FileValue' = FileValue

\* A call that is over: only its result is seen from outside.
LEMMA OverAtomic ==
    ASSUME IInv, NEW c \in Calls, WriteFails(c) \/ ReadFails(c) \/ Return(c)
    PROVE  FileStep
<1>1. call[c].pc \in {"write", "read", "refused", "done"}
  BY DEF WriteFails, ReadFails, Return
<1>2. call' = [call EXCEPT ![c] = Rest] /\ dir' = dir /\ (Reclaim \/ UNCHANGED <<inode, mixed>>)
  BY DEF WriteFails, ReadFails, Return, Close
<1>3. FileValue' = FileValue
  BY <1>2, MapStays
<1>4. CallMap' = [CallMap EXCEPT ![c] = Atomic!Idle]
  <2>1. CallMap' = [CallMap EXCEPT ![c] = CallOf(Rest, mixed', inode')]
    BY <1>2, MapChanges
  <2>2. CallOf(Rest, mixed', inode') = Atomic!Idle
    BY RestType, CallOfShapes
  <2> QED
    BY <2>1, <2>2
<1>5. CASE call[c].pc = "refused"
  <2>1. CallMap[c] = Atomic!Idle
    BY <1>5, MapOf
  <2>2. CallMap = [d \in Calls |-> CallMap[d]]
    BY DEF CallMap
  <2>3. CallMap' = CallMap
    BY <1>4, <2>1, <2>2
  <2> QED
    BY <1>3, <2>3, Zenon DEF FileStep
<1>6. CASE call[c].pc # "refused"
  <2>1. CallMap[c].op \in {"write", "read", "done"}
    BY <1>1, <1>6, MapOf
  <2> QED
    BY <1>3, <1>4, <2>1, Zenon DEF FileStep
<1> QED
  BY <1>5, <1>6

\* A read that ends returns what the file held when it was opened.
LEMMA ReturnAtomic == ASSUME IInv, NEW c \in Calls, ReadReturns(c) PROVE FileStep
<1> DEFINE i == call[c].fd
           t == call[c].data
           r == [Rest EXCEPT !.pc = "done", !.data = t]
<1>1. /\ call[c] \in States /\ call[c].pc = "read" /\ i \in Inodes /\ t \in Contents
      /\ call[c].off \in 0 .. Chunks
  BY DEF ReadReturns, IInv, Types, DescriptorsHeld, States
<1>2. call' = [call EXCEPT ![c] = r] /\ dir' = dir /\ Reclaim
  BY DEF ReadReturns, Close
<1>3. i \notin mixed => t = inode[i]
  <2> SUFFICES ASSUME i \notin mixed PROVE t = inode[i]
    OBVIOUS
  <2>1. inode[i] \in Texts /\ call[c].off <= inode[i].len /\ t = Buffer(inode[i], call[c].off)
    BY <1>1 DEF IInv, ReadersComplete
  <2>2. t.len = inode[i].len /\ inode[i].len \in 0 .. Chunks
    BY <2>1, TextWhole DEF Buffer, Contents
  <2>3. call[c].off = inode[i].len
    BY <1>1, <2>1, <2>2 DEF ReadReturns
  <2> QED
    BY <2>1, <2>3, TextWhole
<1>4. r.pc = "done" /\ r.data = t
  BY <1>1, RestType DEF States
<1> HIDE DEF r
<1>5. CallMap' = [CallMap EXCEPT ![c] = Atomic!Returned(t)]
  <2>1. CallMap' = [CallMap EXCEPT ![c] = CallOf(r, mixed', inode')]
    BY <1>2, MapChanges
  <2>2. CallOf(r, mixed', inode') = Atomic!Returned(t)
    BY <1>4, CallOfShapes
  <2> QED
    BY <2>1, <2>2
<1>6. FileValue' = FileValue
  BY <1>2, MapStays
<1>7. CallMap[c].op = "read"
  BY <1>1, MapOf
<1>8. t \in IF CallMap[c].text = Undefined THEN Contents ELSE {CallMap[c].text}
  <2>1. CASE i \in mixed
    BY <1>1, <2>1, MapOf
  <2>2. CASE i \notin mixed
    BY <1>1, <1>3, <2>2, MapOf
  <2> QED
    BY <2>1, <2>2
<1> HIDE DEF t
<1> QED
  BY <1>5, <1>6, <1>7, <1>8, Zenon DEF FileStep

\* A call that is refused has not happened.
LEMMA RefusedAtomic == ASSUME IInv, NEW c \in Calls, NEW f \in Files, WriteRefused(c, f) PROVE FileStep
<1> DEFINE r == [Rest EXCEPT !.pc = "refused", !.file = f]
<1>1. call[c] = Rest
  BY CallParts, RunsMeans DEF WriteRefused
<1>2. r.pc = "refused"
  BY RestType DEF States
<1>3. call' = [call EXCEPT ![c] = r] /\ UNCHANGED <<dir, inode, mixed>>
  BY DEF WriteRefused
<1> HIDE DEF r
<1>4. CallMap' = [CallMap EXCEPT ![c] = Atomic!Idle]
  <2>1. CallMap' = [CallMap EXCEPT ![c] = CallOf(r, mixed', inode')]
    BY <1>3, MapChanges
  <2>2. CallOf(r, mixed', inode') = Atomic!Idle
    BY <1>2, CallOfShapes
  <2> QED
    BY <2>1, <2>2
<1>5. CallMap' = CallMap
  <2>1. CallMap[c] = Atomic!Idle
    BY <1>1, MapOf
  <2>2. CallMap = [d \in Calls |-> CallMap[d]]
    BY DEF CallMap
  <2> QED
    BY <1>4, <2>1, <2>2
<1>6. FileValue' = FileValue
  BY <1>3, MapStays
<1> QED
  BY <1>5, <1>6, Zenon DEF FileStep

\* A process that dies leaves the files alone.
LEMMA CrashAtomic == ASSUME IInv, NEW p \in Procs, Crash(p) PROVE FileStep
<1>1. dir' = dir /\ Reclaim /\ call' = [c \in Calls |-> IF c[1] = p THEN Rest ELSE call[c]]
  BY DEF Crash
<1>2. FileValue' = FileValue
  BY <1>1, MapStays
<1>3. CallMap' = [c \in Calls |-> IF c[1] = p THEN Atomic!Idle ELSE CallMap[c]]
  <2>1. ASSUME NEW c \in Calls, c[1] = p PROVE CallMap'[c] = Atomic!Idle
    <3>1. CallMap'[c] = CallOf(Rest, mixed', inode')
      BY <1>1, <2>1 DEF CallMap
    <3> QED
      BY <3>1, RestType, CallOfShapes
  <2>2. ASSUME NEW c \in Calls, c[1] # p PROVE CallMap'[c] = CallMap[c]
    BY <1>1, <2>2, MapStays
  <2>3. CallMap' = [c \in Calls |-> CallMap'[c]]
    BY DEF CallMap
  <2> QED
    BY <2>1, <2>2, <2>3
<1> QED
  BY <1>2, <1>3, Zenon DEF FileStep

\* A value that is text now is what will be written, unless a call from its toString()
\* has entered the write.
LEMMA ConvertAtomic == ASSUME IInv, NEW c \in Calls, NEW s \in Strings, Convert(c, s) PROVE FileStep
<1> DEFINE k == call[c]
           t == Text(s[1], s[2])
           d == [k EXCEPT !.pc = "write"]
           r == [d EXCEPT !.data = t]
<1>1. k \in States /\ k.pc = "convert"
  BY DEF Convert, IInv, Types
<1>2. t \in Texts
  BY DEF Texts
<1>3. t \in Contents
  BY <1>2, TextWhole
<1>4. call' = [call EXCEPT ![c] = r] /\ UNCHANGED <<dir, inode, mixed>>
  BY DEF Convert, IInv, Types
<1> HIDE DEF t, k
<1>5. d \in States /\ d.pc = "write" /\ d.file = k.file /\ d.fd = k.fd
  BY <1>1 DEF States
<1> HIDE DEF d
<1>6. r.pc = "write" /\ r.file = k.file /\ r.fd = k.fd /\ r.data = t
  BY <1>3, <1>5 DEF States
<1> HIDE DEF r
<1>7. CallMap[c].op = "convert" /\ CallMap[c].file = k.file /\ CallMap[c].entered = (k.fd \in mixed)
  BY <1>1, MapOf DEF k
<1>8. CallOf(r, mixed', inode') = Atomic!Writing(k.file, IF CallMap[c].entered THEN Undefined ELSE t)
  <2>1. CASE k.fd \in mixed
    <3>1. (k.fd \in mixed) = TRUE
      BY <2>1
    <3>2. CallOf(r, mixed', inode') = Atomic!Writing(k.file, Undefined)
      BY <1>4, <1>6, <2>1, CallOfShapes
    <3> QED
      BY <1>7, <3>1, <3>2
  <2>2. CASE k.fd \notin mixed
    <3>1. (k.fd \in mixed) = FALSE
      BY <2>2
    <3>2. CallOf(r, mixed', inode') = Atomic!Writing(k.file, t)
      BY <1>4, <1>6, <2>2, CallOfShapes
    <3> QED
      BY <1>7, <3>1, <3>2
  <2> QED
    BY <2>1, <2>2
<1>9. CallMap' = [CallMap EXCEPT ![c] =
                    Atomic!Writing(CallMap[c].file, IF CallMap[c].entered THEN Undefined ELSE t)]
  <2>1. CallMap' = [CallMap EXCEPT ![c] = CallOf(r, mixed', inode')]
    BY <1>4, MapChanges
  <2> QED
    BY <1>7, <1>8, <2>1
<1>10. FileValue' = FileValue
  BY <1>4, MapStays
<1> QED
  BY <1>2, <1>7, <1>9, <1>10, Zenon DEF FileStep

\* Reading a piece is not seen from outside.
LEMMA ReadChunkAtomic == ASSUME IInv, NEW c \in Calls, ReadChunk(c) PROVE FileStep
<1> DEFINE k == call[c]
           o == call[c].off
           n == inode[call[c].fd]
           d == [k EXCEPT !.off = o + 1]
           r == [d EXCEPT !.data.piece[o + 1] = n.piece[o + 1]]
<1>1. k \in States /\ k.pc = "read" /\ k.fd \in Inodes /\ k.off \in 0 .. Chunks /\ k.off < k.data.len
  BY DEF ReadChunk, IInv, Types, DescriptorsHeld, States
<1>2. call' = [call EXCEPT ![c] = r] /\ UNCHANGED <<dir, inode, mixed>>
  BY DEF ReadChunk
<1> HIDE DEF k, n, o
<1>3. d.pc = k.pc /\ d.fd = k.fd /\ DOMAIN d = DOMAIN k
  BY <1>1 DEF States
<1>4. DOMAIN k = {"pc", "file", "data", "fd", "off"}
  BY <1>1 DEF States
<1> HIDE DEF d
<1>5. r.pc = "read" /\ r.fd = k.fd
  BY <1>1, <1>3, <1>4
<1> HIDE DEF r
<1>6. CallOf(r, mixed', inode') = CallMap[c]
  <2>1. CASE k.fd \in mixed
    <3>1. CallOf(r, mixed', inode') = Atomic!Reading(Undefined)
      BY <1>2, <1>5, <2>1, CallOfShapes
    <3>2. CallOf(k, mixed, inode) = Atomic!Reading(Undefined)
      BY <1>1, <2>1, CallOfShapes
    <3> QED
      BY <3>1, <3>2, MapOf DEF k
  <2>2. CASE k.fd \notin mixed
    <3>1. CallOf(r, mixed', inode') = Atomic!Reading(inode[k.fd])
      BY <1>2, <1>5, <2>2, CallOfShapes
    <3>2. CallOf(k, mixed, inode) = Atomic!Reading(inode[k.fd])
      BY <1>1, <2>2, CallOfShapes
    <3> QED
      BY <3>1, <3>2, MapOf DEF k
  <2> QED
    BY <2>1, <2>2
<1>7. CallMap' = CallMap
  <2>1. CallMap' = [CallMap EXCEPT ![c] = CallOf(r, mixed', inode')]
    BY <1>2, MapChanges
  <2>2. CallMap = [e \in Calls |-> CallMap[e]]
    BY DEF CallMap
  <2> QED
    BY <1>6, <2>1, <2>2
<1>8. FileValue' = FileValue
  BY <1>2, MapStays
<1> QED
  BY <1>7, <1>8, Zenon DEF FileStep

\* What a read will return is what the file holds when it is opened.
LEMMA ReadOpenAtomic == ASSUME IInv, NEW c \in Calls, NEW f \in Files, ReadOpen(c, f) PROVE FileStep
<1> DEFINE i == dir[f]
           r == [pc |-> "read", file |-> f, data |-> Blank(inode[i].len), fd |-> i, off |-> 0]
<1>1. call[c] = Rest /\ i # None
  BY CallParts, RunsMeans DEF ReadOpen
<1>2. call' = [call EXCEPT ![c] = r] /\ UNCHANGED <<dir, inode, mixed>>
  BY DEF ReadOpen
<1>3. r.pc = "read" /\ r.fd = i
  OBVIOUS
<1> HIDE DEF r
<1>4. CallOf(r, mixed', inode') = Atomic!Reading(FileValue[f])
  <2>1. CASE i \in mixed
    BY <1>1, <1>2, <1>3, <2>1, CallOfShapes, ValueOf
  <2>2. CASE i \notin mixed
    BY <1>1, <1>2, <1>3, <2>2, CallOfShapes, ValueOf
  <2> QED
    BY <2>1, <2>2
<1>5. CallMap' = [CallMap EXCEPT ![c] = Atomic!Reading(FileValue[f])]
  <2>1. CallMap' = [CallMap EXCEPT ![c] = CallOf(r, mixed', inode')]
    BY <1>2, MapChanges
  <2> QED
    BY <1>4, <2>1
<1>6. FileValue' = FileValue
  BY <1>2, MapStays
<1>7. CallMap[c] = Atomic!Idle /\ FileValue[f] # Absent
  BY <1>1, MapOf, ValueOf
<1> QED
  BY <1>5, <1>6, <1>7, Zenon DEF FileStep

\* Writing a piece is not seen from outside: nobody else has the inode, or it is mixed.
LEMMA WriteChunkAtomic == ASSUME IInv, NEW c \in Calls, WriteChunk(c) PROVE FileStep
<1> DEFINE k == call[c]
           o == call[c].off
           i == call[c].fd
           w == Written(inode[i], c)
           r == [k EXCEPT !.off = o + 1]
<1>1. k \in States /\ k.pc = "write" /\ Writes(c) /\ i \in Inodes /\ inode \in [Inodes -> Contents]
      /\ dir \in [Names -> Inodes \union {None}] /\ call \in [Calls -> States]
  BY DEF WriteChunk, IInv, Types, DescriptorsHeld, Writes, States
<1>2. call' = [call EXCEPT ![c] = r] /\ inode' = [inode EXCEPT ![i] = w] /\ UNCHANGED <<dir, mixed>>
  BY DEF WriteChunk
<1> HIDE DEF w
<1>3. r.pc = "write" /\ r.file = k.file /\ r.fd = i /\ r.data = k.data
  BY <1>1 DEF States
<1> HIDE DEF r
<1>4. i \notin mixed => /\ \A f \in Files : dir[f] # i
                        /\ \A d \in Calls \ {c} : call[d].fd # i
  BY <1>1, AloneIfUnmixed DEF WriterExclusive
<1>5. FileValue' = FileValue
  <2>1. ASSUME NEW f \in Files, dir[f] # None, dir[f] \notin mixed PROVE inode'[dir[f]] = inode[dir[f]]
    <3>1. dir[f] # i /\ dir[f] \in Inodes
      BY <1>1, <1>4, <2>1, NamesDiffer
    <3> QED
      BY <1>1, <1>2, <3>1
  <2> QED
    BY <1>2, <2>1, ValueStays
<1>6. CallMap' = CallMap
  <2>1. CallMap'[c] = CallMap[c]
    <3>1. CallMap'[c] = CallOf(r, mixed, inode') /\ CallMap[c] = CallOf(k, mixed, inode)
      BY <1>1, <1>2 DEF CallMap
    <3> HIDE DEF k
    <3>2. CallOf(r, mixed, inode') = CallOf(k, mixed, inode)
      <4>1. k.fd = i
        BY DEF k
      <4>2. CASE i \in mixed
        BY <1>1, <1>3, <4>1, <4>2, CallOfShapes
      <4>3. CASE i \notin mixed
        BY <1>1, <1>3, <4>1, <4>3, CallOfShapes
      <4> QED
        BY <4>2, <4>3
    <3> QED
      BY <3>1, <3>2
  <2>2. ASSUME NEW d \in Calls \ {c} PROVE CallMap'[d] = CallMap[d]
    <3> DEFINE x == call[d]
    <3>1. CallMap'[d] = CallOf(x, mixed, inode') /\ CallMap[d] = CallOf(x, mixed, inode)
      BY <1>1, <1>2 DEF CallMap
    <3>2. x.pc = "read" /\ x.fd \notin mixed => inode'[x.fd] = inode[x.fd]
      <4> SUFFICES ASSUME x.pc = "read", x.fd \notin mixed PROVE inode'[x.fd] = inode[x.fd]
        OBVIOUS
      <4>1. x.fd \in Inodes
        BY <1>1 DEF IInv, DescriptorsHeld, States
      <4>2. x.fd # i
        BY <1>4
      <4> QED
        BY <1>1, <1>2, <4>1, <4>2
    <3> HIDE DEF x
    <3>3. CallOf(x, mixed, inode') = CallOf(x, mixed, inode)
      BY <3>2, CallOfSame
    <3> QED
      BY <3>1, <3>3
  <2>3. CallMap = [d \in Calls |-> CallMap[d]] /\ CallMap' = [d \in Calls |-> CallMap'[d]]
    BY DEF CallMap
  <2> QED
    BY <2>1, <2>2, <2>3
<1> QED
  BY <1>5, <1>6, Zenon DEF FileStep

\* A name that is taken away or given changes the value of that file only.
LEMMA ValueChanges ==
    ASSUME IInv, NEW f \in Files, dir' \in [Names -> Inodes \union {None}],
           \A g \in Files \ {f} : dir'[g] = dir[g], Reclaim
    PROVE  /\ FileValue' = [FileValue EXCEPT ![f] = FileValue'[f]]
           /\ dir'[f] = None => FileValue'[f] = Absent
           /\ dir'[f] # None /\ dir'[f] \in mixed => FileValue'[f] = Undefined
           /\ dir'[f] # None /\ dir'[f] \notin mixed => FileValue'[f] = inode[dir'[f]]
<1>1. inode \in [Inodes -> Contents] /\ mixed \subseteq Inodes
  BY DEF IInv, Types
<1>2. \A m \in Names : dir'[m] \in Inodes =>
        inode'[dir'[m]] = inode[dir'[m]] /\ (dir'[m] \in mixed' <=> dir'[m] \in mixed)
  BY <1>1, ReclaimKeeps DEF Held
<1>3. ASSUME NEW g \in Files
      PROVE  /\ dir'[g] = None => FileValue'[g] = Absent
             /\ dir'[g] # None /\ dir'[g] \in mixed => FileValue'[g] = Undefined
             /\ dir'[g] # None /\ dir'[g] \notin mixed => FileValue'[g] = inode[dir'[g]]
  <2>1. g \in Names /\ (dir'[g] # None => dir'[g] \in Inodes)
    BY <1>3, NamesDiffer
  <2>2. FileValue'[g] = IF dir'[g] = None THEN Absent
                        ELSE IF dir'[g] \in mixed' THEN Undefined ELSE inode'[dir'[g]]
    BY DEF FileValue, Seen
  <2> QED
    BY <1>2, <2>1, <2>2
<1>4. ASSUME NEW g \in Files \ {f} PROVE FileValue'[g] = FileValue[g]
  <2>1. dir'[g] = dir[g]
    BY <1>4
  <2>2. CASE dir[g] = None
    BY <1>3, <2>1, <2>2, ValueOf
  <2>3. CASE dir[g] # None /\ dir[g] \in mixed
    BY <1>3, <2>1, <2>3, ValueOf
  <2>4. CASE dir[g] # None /\ dir[g] \notin mixed
    BY <1>3, <2>1, <2>4, ValueOf
  <2> QED
    BY <2>2, <2>3, <2>4
<1>5. FileValue = [g \in Files |-> FileValue[g]] /\ FileValue' = [g \in Files |-> FileValue'[g]]
  BY DEF FileValue
<1>6. FileValue' = [FileValue EXCEPT ![f] = FileValue'[f]]
  BY <1>4, <1>5
<1> QED
  BY <1>3, <1>6

\* The rename is the one step at which the file changes.
LEMMA RenameAtomic == ASSUME IInv, NEW c \in Calls, Rename(c) PROVE FileStep
<1> DEFINE t == Tmp(c[1])
           i == dir[t]
           g == call[c].file
<1>0. /\ dir \in [Names -> Inodes \union {None}]
      /\ t \in Names /\ t \notin Files /\ g \in Files /\ g \in Names /\ i \in Inodes
  BY Renamed, NamesDiffer, CallParts DEF IInv, Types
<1>1. dir' = [dir EXCEPT ![g] = i, ![t] = None] /\ call' = [call EXCEPT ![c] = Rest] /\ Reclaim
  BY DEF Rename, Close
<1> HIDE DEF t
<1>2. /\ dir'[g] = i /\ \A m \in Files \ {g} : dir'[m] = dir[m]
      /\ dir' \in [Names -> Inodes \union {None}]
  BY <1>0, <1>1, NamesDiffer
<1>3. CallMap[c].op = "write" /\ CallMap[c].file = g
  BY Renamed, MapOf
<1>4. FileValue'[g] = CallMap[c].text
  <2>1. i \in mixed => FileValue'[g] = Undefined
    BY <1>0, <1>1, <1>2, ValueChanges
  <2>2. i \notin mixed => FileValue'[g] = inode[i]
    BY <1>0, <1>1, <1>2, ValueChanges
  <2>3. i \in mixed => CallMap[c].text = Undefined
    BY Renamed, MapOf DEF t
  <2>4. i \notin mixed => CallMap[c].text = inode[i]
    BY Renamed, MapOf DEF t
  <2> QED
    BY <2>1, <2>2, <2>3, <2>4
<1>5. FileValue' = [FileValue EXCEPT ![CallMap[c].file] = CallMap[c].text]
  <2>1. FileValue' = [FileValue EXCEPT ![g] = FileValue'[g]]
    BY <1>0, <1>1, <1>2, ValueChanges
  <2> QED
    BY <1>3, <1>4, <2>1
<1>6. CallMap' = [CallMap EXCEPT ![c] = Atomic!Idle]
  <2>1. CallMap' = [CallMap EXCEPT ![c] = CallOf(Rest, mixed', inode')]
    BY <1>1, MapChanges
  <2>2. CallOf(Rest, mixed', inode') = Atomic!Idle
    BY RestType, CallOfShapes
  <2> QED
    BY <2>1, <2>2
<1> QED
  BY <1>3, <1>5, <1>6, Zenon DEF FileStep

\* A file that is removed is gone at once.
LEMMA RemoveAtomic == ASSUME IInv, NEW c \in Calls, NEW f \in Files, RemoveFile(c, f) PROVE FileStep
<1>1. dir' = [dir EXCEPT ![f] = None] /\ call' = call /\ dir[f] # None /\ Reclaim
  BY DEF RemoveFile
<1>2. dir'[f] = None /\ (\A g \in Files \ {f} : dir'[g] = dir[g]) /\ dir' \in [Names -> Inodes \union {None}]
  BY <1>1, NamesDiffer DEF IInv, Types
<1>3. FileValue' = [FileValue EXCEPT ![f] = Absent]
  <2>1. FileValue' = [FileValue EXCEPT ![f] = FileValue'[f]] /\ FileValue'[f] = Absent
    BY <1>1, <1>2, ValueChanges
  <2> QED
    BY <2>1
<1>4. FileValue[f] # Absent
  BY <1>1, ValueOf
<1>5. CallMap' = CallMap
  <2>1. \A d \in Calls : CallMap'[d] = CallMap[d]
    BY <1>1, MapStays
  <2>2. CallMap = [d \in Calls |-> CallMap[d]] /\ CallMap' = [d \in Calls |-> CallMap'[d]]
    BY DEF CallMap
  <2> QED
    BY <2>1, <2>2
<1> QED
  BY <1>3, <1>4, <1>5, Zenon DEF FileStep

\* Opening the temporary file begins a write, and enters the ones around it.
LEMMA OpenAtomic ==
    ASSUME IInv, NEW c \in Calls, NEW f \in Files, NEW create \in BOOLEAN, WriteOpen(c, f, create)
    PROVE  FileStep
<1> DEFINE t == Tmp(c[1])
           r(j) == [pc |-> "convert", file |-> f, data |-> Nothing, fd |-> j, off |-> 0]
<1>0. /\ dir \in [Names -> Inodes \union {None}] /\ call \in [Calls -> States]
      /\ inode \in [Inodes -> Contents] /\ mixed \subseteq Inodes
      /\ t \in Names /\ t \notin Files /\ c[1] \in Procs /\ c[2] \in Nat
  BY NamesDiffer, CallParts DEF IInv, Types
<1>1. PICK i \in Inodes :
        /\ i = dir[t] \/ (dir[t] = None /\ Free(i))
        /\ dir' = [dir EXCEPT ![t] = i]
        /\ inode' = [inode EXCEPT ![i] = Nothing]
        /\ mixed' = IF c[2] = 0 THEN mixed \ {i} ELSE mixed \union {i}
        /\ call' = [call EXCEPT ![c] = r(i)]
  BY DEF WriteOpen
<1>2. r(i).pc = "convert" /\ r(i).file = f /\ r(i).fd = i
  OBVIOUS
<1> HIDE DEF r
<1>3. Runs(c)
  BY DEF WriteOpen
<1>4. \A m \in Files : dir[m] # i
  BY <1>0, <1>1, NamesDiffer DEF IInv, TmpExclusive, Free
<1>5. \A d \in Calls : call[d].fd = i => d[1] = c[1]
  BY <1>0, <1>1 DEF IInv, TmpExclusive, Free
<1>6. /\ call'[c] = r(i) /\ \A d \in Calls \ {c} : call'[d] = call[d]
      /\ \A j \in Inodes \ {i} : inode'[j] = inode[j] /\ (j \in mixed' <=> j \in mixed)
      /\ i \in mixed' <=> c[2] > 0
  BY <1>0, <1>1
<1>7. FileValue' = FileValue
  <2>1. ASSUME NEW g \in Files
        PROVE  /\ dir'[g] = dir[g]
               /\ dir[g] # None => /\ inode'[dir[g]] = inode[dir[g]]
                                   /\ dir[g] \in mixed' <=> dir[g] \in mixed
    BY <1>0, <1>1, <1>4, <1>6, NamesDiffer
  <2> QED
    BY <2>1, ValueStays
<1>8. CallMap'[c] = Atomic!Converting(f, c[2] > 0)
  <2>1. CallMap'[c] = CallOf(r(i), mixed', inode')
    BY <1>6 DEF CallMap
  <2>2. CallMap'[c] = Atomic!Converting(f, i \in mixed')
    BY <1>2, <2>1, CallOfShapes
  <2>3. (i \in mixed') = (c[2] > 0)
    BY <1>6
  <2> QED
    BY <2>2, <2>3
\* The calls around it write what is mixed now.
<1>9. ASSUME NEW d \in Calls \ {c}, c[2] > 0, d[1] = c[1], CallMap[d].op = "convert"
      PROVE  CallMap'[d] = Atomic!Converting(CallMap[d].file, TRUE)
  <2>1. Inner(d, c)
    <3>1. call[d] # Rest
      BY <1>9, MapOf, CallShapes
    <3> QED
      BY <1>3, <1>9, <3>1, RunsMeans
  <2>2. call[d].pc = "convert" /\ call'[d] = call[d]
    BY <1>3, <1>6, <2>1, RunsMeans
  <2>3. call'[d].fd \in mixed'
    <3>1. IInv'
      BY OpenIInv
    <3>2. Writes(c)' /\ Writes(d)'
      BY <1>2, <1>6, <2>2 DEF Writes
    <3> QED
      BY <2>1, <3>1, <3>2 DEF IInv, NestedIsMixed, Inner
  <2>4. CallMap'[d] = CallOf(call[d], mixed', inode')
    BY <2>2 DEF CallMap
  <2>5. CallOf(call[d], mixed', inode') = Atomic!Converting(call[d].file, call[d].fd \in mixed')
    BY <2>2, CallOfShapes
  <2>6. (call[d].fd \in mixed') = TRUE
    BY <2>2, <2>3
  <2>7. CallMap[d].file = call[d].file
    BY <2>2, MapOf
  <2> QED
    BY <2>4, <2>5, <2>6, <2>7
<1>10. ASSUME NEW d \in Calls \ {c}, ~ (c[2] > 0 /\ d[1] = c[1] /\ CallMap[d].op = "convert")
       PROVE  CallMap'[d] = CallMap[d]
  <2> DEFINE k == call[d]
  <2>1. CallMap'[d] = CallOf(k, mixed', inode') /\ CallMap[d] = CallOf(k, mixed, inode)
    BY <1>6 DEF CallMap
  <2>2. k.pc \in {"idle", "refused", "done"} \/ (k.fd \in Inodes /\ k.fd # i)
    <3>1. CASE d[1] = c[1]
      <4>1. CASE k = Rest
        BY <4>1, RestType
      <4>2. CASE Inner(d, c)
        <5>1. k.pc = "convert" /\ c[2] > 0
          BY <1>0, <1>3, <4>2, CallParts, RunsMeans DEF Inner
        <5> QED
          BY <1>10, <3>1, <5>1, MapOf
      <4> QED
        BY <1>3, <3>1, <4>1, <4>2, RunsMeans
    <3>2. CASE d[1] # c[1]
      BY <1>0, <1>5, <3>2 DEF IInv, DescriptorsHeld, Writes, States
    <3> QED
      BY <3>1, <3>2
  <2> HIDE DEF k
  <2>3. CallOf(k, mixed', inode') = CallOf(k, mixed, inode)
    <3>1. k.pc \in {"idle", "refused", "done"} \/ (k.fd \in mixed' <=> k.fd \in mixed)
      BY <1>6, <2>2
    <3>2. k.pc = "read" /\ k.fd \notin mixed' => inode'[k.fd] = inode[k.fd]
      BY <1>6, <2>2
    <3> QED
      BY <3>1, <3>2, CallOfSame
  <2> QED
    BY <2>1, <2>3
<1>11. CallMap' = [d \in Calls |->
                  IF d = c THEN Atomic!Converting(f, c[2] > 0)
                  ELSE IF c[2] > 0 /\ d[1] = c[1] /\ CallMap[d].op = "convert"
                  THEN Atomic!Converting(CallMap[d].file, TRUE)
                  ELSE CallMap[d]]
  <2>1. CallMap' = [d \in Calls |-> CallMap'[d]]
    BY DEF CallMap
  <2> QED
    BY <1>8, <1>9, <1>10, <2>1
<1>12. CallMap[c] = Atomic!Idle
  BY <1>3, RunsMeans, MapOf
<1> QED
  BY <1>7, <1>11, <1>12, Zenon DEF FileStep

\* A step of FileStore is one of AtomicFiles, or changes nothing there.
LEMMA NextAtomic == IInv /\ [Next]_vars => FileStep
<1> SUFFICES ASSUME IInv, [Next]_vars PROVE FileStep
  OBVIOUS
<1>1. ASSUME NEW c \in Calls, WriteFails(c) \/ ReadFails(c) \/ Return(c) PROVE FileStep
  BY <1>1, OverAtomic
<1>2. ASSUME NEW c \in Calls, ReadReturns(c) PROVE FileStep
  BY <1>2, ReturnAtomic
<1>3. ASSUME NEW c \in Calls, NEW f \in Files, WriteRefused(c, f) PROVE FileStep
  BY <1>3, RefusedAtomic
<1>4. ASSUME NEW p \in Procs, Crash(p) PROVE FileStep
  BY <1>4, CrashAtomic
<1>5. ASSUME NEW c \in Calls, NEW s \in Strings, Convert(c, s) PROVE FileStep
  BY <1>5, ConvertAtomic
<1>6. ASSUME NEW c \in Calls, ReadChunk(c) PROVE FileStep
  BY <1>6, ReadChunkAtomic
<1>7. ASSUME NEW c \in Calls, NEW f \in Files, ReadOpen(c, f) PROVE FileStep
  BY <1>7, ReadOpenAtomic
<1>8. ASSUME NEW c \in Calls, WriteChunk(c) PROVE FileStep
  BY <1>8, WriteChunkAtomic
<1>9. ASSUME NEW c \in Calls, Rename(c) PROVE FileStep
  BY <1>9, RenameAtomic
<1>10. ASSUME NEW c \in Calls, NEW f \in Files, RemoveFile(c, f) PROVE FileStep
  BY <1>10, RemoveAtomic
<1>11. ASSUME NEW c \in Calls, NEW f \in Files, NEW create \in BOOLEAN, WriteOpen(c, f, create) PROVE FileStep
  BY <1>11, OpenAtomic
<1>12. CASE UNCHANGED vars
  <2>1. FileValue' = FileValue /\ CallMap' = CallMap
    BY <1>12 DEF vars, FileValue, CallMap, Seen
  <2> QED
    BY <2>1, Zenon DEF FileStep
<1> QED
  BY <1>1, <1>2, <1>3, <1>4, <1>5, <1>6, <1>7, <1>8, <1>9, <1>10, <1>11, <1>12 DEF Next

\* Processes that share a directory behave as if files changed in one step and a read
\* took what the file held at that moment: writeAsFile(), jse_read_file() and removeFile()
\* implement AtomicFiles, whichever call fails or dies.  What a writeAsFile() leaves that
\* is called from the toString() of another one's value is undefined in AtomicFiles.
THEOREM FilesAreAtomic == Spec => AtomicSpec
<1>1. Init => Atomic!Init
  <2> SUFFICES ASSUME Init PROVE Atomic!Init
    OBVIOUS
  <2>1. FileValue = [f \in Files |-> Absent]
    BY NamesDiffer DEF Init, FileValue
  <2>2. CallMap = [c \in Calls |-> Atomic!Idle]
    <3>1. \A c \in Calls : CallMap[c] = Atomic!Idle
      BY MapOf DEF Init
    <3> QED
      BY <3>1 DEF CallMap
  <2> QED
    BY <2>1, <2>2, Zenon DEF Atomic!Init, FileValue, CallMap, CallOf, Seen
<1>2. IInv /\ [Next]_vars => [Atomic!Next]_(Atomic!vars)
  <2> SUFFICES ASSUME IInv, [Next]_vars PROVE [Atomic!Next]_(Atomic!vars)
    OBVIOUS
  <2>1. CASE FileValue' = FileValue /\ CallMap' = CallMap
    BY <2>1, Zenon DEF FileValue, CallMap, CallOf, Seen, Atomic!vars
  <2>2. ASSUME NEW c \in Calls, CallMap[c].op = "write",
               FileValue' = [FileValue EXCEPT ![CallMap[c].file] = CallMap[c].text],
               CallMap' = [CallMap EXCEPT ![c] = Atomic!Idle]
        PROVE  Atomic!Commit(c)
    BY <2>2, Zenon DEF FileValue, CallMap, CallOf, Seen, Atomic!Commit
  <2>3. ASSUME NEW c \in Calls, CallMap[c].op \in {"write", "read", "done"},
               CallMap' = [CallMap EXCEPT ![c] = Atomic!Idle], FileValue' = FileValue
        PROVE  Atomic!Done(c)
    BY <2>3, Zenon DEF FileValue, CallMap, CallOf, Seen, Atomic!Done
  <2>4. ASSUME NEW c \in Calls, CallMap[c].op = "read", FileValue' = FileValue,
               \E t \in IF CallMap[c].text = Undefined THEN Contents ELSE {CallMap[c].text} :
                 CallMap' = [CallMap EXCEPT ![c] = Atomic!Returned(t)]
        PROVE  Atomic!Return(c)
    BY <2>4, Zenon DEF FileValue, CallMap, CallOf, Seen, Atomic!Return
  <2>5. ASSUME NEW c \in Calls, NEW f \in Files, CallMap[c] = Atomic!Idle, FileValue' = FileValue,
               CallMap' = [d \in Calls |->
                  IF d = c THEN Atomic!Converting(f, c[2] > 0)
                  ELSE IF c[2] > 0 /\ d[1] = c[1] /\ CallMap[d].op = "convert"
                  THEN Atomic!Converting(CallMap[d].file, TRUE)
                  ELSE CallMap[d]]
        PROVE  Atomic!BeginWrite(c, f)
    BY <2>5, Zenon DEF FileValue, CallMap, CallOf, Seen, Atomic!BeginWrite
  <2>6. ASSUME NEW c \in Calls, NEW f \in Files, CallMap[c] = Atomic!Idle, FileValue[f] # Absent,
               CallMap' = [CallMap EXCEPT ![c] = Atomic!Reading(FileValue[f])], FileValue' = FileValue
        PROVE  Atomic!BeginRead(c, f)
    BY <2>6, Zenon DEF FileValue, CallMap, CallOf, Seen, Atomic!BeginRead
  <2>7. ASSUME NEW c \in Calls, NEW t \in Texts, CallMap[c].op = "convert", FileValue' = FileValue,
               CallMap' = [CallMap EXCEPT ![c] =
                  Atomic!Writing(CallMap[c].file, IF CallMap[c].entered THEN Undefined ELSE t)]
        PROVE  Atomic!Decide(c, t)
    BY <2>7, Zenon DEF FileValue, CallMap, CallOf, Seen, Atomic!Decide
  <2>8. ASSUME NEW f \in Files, FileValue[f] # Absent, CallMap' = CallMap,
               FileValue' = [FileValue EXCEPT ![f] = Absent]
        PROVE  Atomic!Remove(f)
    BY <2>8, Zenon DEF FileValue, CallMap, CallOf, Seen, Atomic!Remove
  <2>9. ASSUME NEW p \in Procs, FileValue' = FileValue,
               CallMap' = [c \in Calls |-> IF c[1] = p THEN Atomic!Idle ELSE CallMap[c]]
        PROVE  Atomic!Die(p)
    BY <2>9, Zenon DEF FileValue, CallMap, CallOf, Seen, Atomic!Die
  <2>10. FileStep
    BY NextAtomic
  <2> QED
    BY <2>1, <2>2, <2>3, <2>4, <2>5, <2>6, <2>7, <2>8, <2>9, <2>10, Zenon DEF FileStep, Atomic!Next
<1> QED
  BY <1>1, <1>2, Inductive, PTL DEF Spec, AtomicSpec, Atomic!Spec
=============================================================================
