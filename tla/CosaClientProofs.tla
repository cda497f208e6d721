-------------------------- MODULE CosaClientProofs --------------------------
(***************************************************************************)
(* What CosaClient promises, proved for every data model, every number of  *)
(* items and rows and every size of the buffer: what is allocated on every *)
(* way through the functions of Cosa, what a batch of values leaves in the *)
(* data model, and which rows are listed.                                  *)
(***************************************************************************)
EXTENDS CosaClient, FiniteSetTheorems, SequenceTheorems, TLAPS

USE NamesAssumption, IdsAssumption

-----------------------------------------------------------------------------
(* The inductive invariant *)

Calls ==
    [fn : Functions \union {"none"}, name : Keys \union Objects \union {Absent},
     val : Values \union {Absent}, items : Seq(Items \union Keys \union Objects \union {Absent})]

\* The call has the arguments of its function, and the items handled so far are items.
CallSound ==
    /\ call \in Calls /\ Len(call.items) <= MaxItems
    /\ call.fn = Sets => call.items \in Seq(Items \union {Absent})
    /\ pc \in {"items", "send"} =>
        /\ call.fn \in {Gets, Sets} /\ built <= Len(call.items)
        /\ \A i \in 1 .. built : call.items[i] # Absent
    /\ pc = "items" /\ call.fn = Gets => built = 0
    /\ pc \in {"read", "set"} => call.fn = "setStr"
    /\ pc = "set" => call.name \in Keys /\ typed \in DOMAIN Stored
    /\ pc \in {"discover", "list"} => built = 0
    /\ pc = "list" => call.fn \in {Gets, Sets}
    /\ pc = "call" => call.fn \notin {"setStr", Sets}
    /\ pc = "send" => call.fn = Sets /\ ~noMemory /\ built = Len(call.items)

\* The copies of the values of the first items.
CopiesOf(n) == {<<"copy", i>> : i \in 1 .. n}

\* What is allocated at each place of a call; copies may be missing when there was no
\* memory for one.
HeapSound ==
    /\ ~wrongFree /\ BlocksFreed
    /\ pc \notin {"idle", "dead"} => outcome = "none"
    /\ pc = "discover" => heap = IF call.fn = "setStr" THEN {Value} ELSE {}
    /\ pc = "list" => heap = Dest
    /\ pc = "call" => heap = IF call.fn = Gets THEN Dest \union {List} ELSE Dest
    /\ pc = "read" => heap = Dest \union {Value}
    /\ pc = "set" => heap = Dest \union {Value, Reply}
    /\ pc \in {"items", "send"} =>
        /\ Dest \union {List} \subseteq heap /\ heap \subseteq Dest \union {List} \union CopiesOf(built)
        /\ ~noMemory => CopiesOf(built) \subseteq heap

IInv == TypeOK /\ CallSound /\ HeapSound

-----------------------------------------------------------------------------
(* Values and items *)

\* Cells, items and their two types.
LEMMA CellTypes ==
    /\ \A c : c \in Cells <=> \/ c \in [type : {"string"}, val : Values]
                              \/ c \in [type : {"bool"}, val : {"true", "false"}]
    /\ \A x : x \in Items <=>
            \/ x \in [key : Keys, type : {"string"}, val : Values]
            \/ x \in [key : Keys, type : {"bool"}, val : {"true", "false", "1", "0"}]
<1>1. DOMAIN Stored = {"string", "bool"} /\ DOMAIN Written = {"string", "bool"}
  BY DEF Stored, Written
<1>2. /\ Stored["string"] = Values /\ Stored["bool"] = {"true", "false"}
      /\ Written["string"] = Values /\ Written["bool"] = {"true", "false", "1", "0"}
  BY DEF Stored, Written
<1>3. ASSUME NEW c
      PROVE  c \in Cells <=> \/ c \in [type : {"string"}, val : Values]
                             \/ c \in [type : {"bool"}, val : {"true", "false"}]
  <2>1. c \in Cells <=> \E t \in {"string", "bool"} : c \in [type : {t}, val : Stored[t]]
    BY <1>1, Zenon DEF Cells
  <2>2. c \in Cells <=> \/ c \in [type : {"string"}, val : Stored["string"]]
                        \/ c \in [type : {"bool"}, val : Stored["bool"]]
    BY <2>1, Zenon
  <2> QED
    BY <1>2, <2>2, Zenon
<1>4. ASSUME NEW x
      PROVE  x \in Items <=>
                \/ x \in [key : Keys, type : {"string"}, val : Values]
                \/ x \in [key : Keys, type : {"bool"}, val : {"true", "false", "1", "0"}]
  <2>1. x \in Items <=> \E t \in {"string", "bool"} : x \in [key : Keys, type : {t}, val : Written[t]]
    BY <1>1, Zenon DEF Items
  <2>2. x \in Items <=> \/ x \in [key : Keys, type : {"string"}, val : Written["string"]]
                        \/ x \in [key : Keys, type : {"bool"}, val : Written["bool"]]
    BY <2>1, Zenon
  <2> QED
    BY <1>2, <2>2, Zenon
<1> QED
  BY <1>3, <1>4

\* What is sent for an item is a value of its type, whichever form of a boolean it has.
LEMMA SentType ==
    ASSUME NEW x \in Items
    PROVE  Sent(x) \in Cells /\ x.key \in Keys
<1>1. CASE x \in [key : Keys, type : {"string"}, val : Values]
  <2>1. Sent(x) = [type |-> "string", val |-> x.val] /\ x.val \in Values /\ x.key \in Keys
    BY <1>1 DEF Sent
  <2> QED
    BY <2>1, CellTypes
<1>2. CASE x \in [key : Keys, type : {"bool"}, val : {"true", "false", "1", "0"}]
  <2>1. /\ x.type = "bool" /\ x.val \in {"true", "false", "1", "0"} /\ x.key \in Keys
    BY <1>2
  <2>2. Sent(x) \in [type : {"bool"}, val : {"true", "false"}]
    BY <2>1 DEF Sent
  <2> QED
    BY <2>1, <2>2, CellTypes
<1> QED
  BY <1>1, <1>2, CellTypes

\* A type and a value of it are what a parameter can have.
LEMMA NewCell ==
    ASSUME NEW t \in DOMAIN Stored, NEW v \in Stored[t]
    PROVE  [type |-> t, val |-> v] \in Cells
<1>1. DOMAIN Stored = {"string", "bool"}
  BY DEF Stored
<1>2. Stored["string"] = Values /\ Stored["bool"] = {"true", "false"}
  BY DEF Stored
<1>3. CASE t = "string"
  <2>1. v \in Values
    BY <1>2, <1>3
  <2> QED
    BY <1>3, <2>1, CellTypes
<1>4. CASE t = "bool"
  <2>1. v \in {"true", "false"}
    BY <1>2, <1>4
  <2> QED
    BY <1>4, <2>1, CellTypes
<1> QED
  BY <1>1, <1>3, <1>4

-----------------------------------------------------------------------------
(* What a sequence of values leaves in the data model *)

\* Induction: a set with 0 that has the successor of each of its numbers has them all.
LEMMA AllNumbers ==
    ASSUME NEW S, 0 \in S, \A n \in Nat : n \in S => n + 1 \in S
    PROVE  \A n \in Nat : n \in S
<1> DEFINE T == {n \in Nat : n \notin S}
<1> SUFFICES ASSUME T # {} PROVE FALSE
  OBVIOUS
<1>1. PICK n \in T : \A i \in T : ~(<<i, n>> \in OpToRel(<, Nat))
  <2>1. T \subseteq Nat
    OBVIOUS
  <2> HIDE DEF T
  <2> QED
    BY <2>1, NatLessThanWellFounded, WFMin
<1>2. \A i \in Nat : i < n => i \in S
  BY <1>1 DEF OpToRel
<1> QED
  BY <1>2

Models  == [Keys -> Cells \union {Absent}]
Entries == [key : Keys, cell : Cells]

\* The function in Applied: the data model after each of the first n values.
After(m, batch, n, f) ==
    f = [i \in 0 .. n |-> IF i = 0 THEN m ELSE [f[i - 1] EXCEPT ![batch[i].key] = batch[i].cell]]

\* There is such a function.
LEMMA AppliedDef ==
    ASSUME NEW m, NEW batch, NEW n \in Nat, Len(batch) = n
    PROVE  \E f : After(m, batch, n, f) /\ Applied(m, batch) = f[n]
<1> DEFINE T == {k \in Nat : \E f : After(m, batch, k, f)}
<1>1. 0 \in T
  <2> DEFINE f == [i \in 0 .. 0 |-> m]
  <2>1. f = [i \in 0 .. 0 |-> IF i = 0 THEN m
                              ELSE [f[i - 1] EXCEPT ![batch[i].key] = batch[i].cell]]
    OBVIOUS
  <2> QED
    BY <2>1 DEF After
<1>2. ASSUME NEW k \in Nat, k \in T PROVE k + 1 \in T
  <2> PICK f : After(m, batch, k, f)
    BY <1>2
  <2> DEFINE Changed(d, i) == [d EXCEPT ![batch[i].key] = batch[i].cell]
             g == [i \in 0 .. k + 1 |-> IF i = k + 1 THEN Changed(f[k], k + 1) ELSE f[i]]
  <2>1. \A i \in 0 .. k : f[i] = IF i = 0 THEN m ELSE Changed(f[i - 1], i)
    BY DEF After
  <2> HIDE DEF Changed
  <2>2. \A i \in 0 .. k : g[i] = f[i]
    OBVIOUS
  <2>3. g[k + 1] = Changed(f[k], k + 1)
    OBVIOUS
  <2>4. DOMAIN g = 0 .. k + 1 /\ g = [i \in DOMAIN g |-> g[i]]
    OBVIOUS
  <2> HIDE DEF g
  <2>5. \A i \in 0 .. k + 1 : g[i] = IF i = 0 THEN m ELSE Changed(g[i - 1], i)
    <3>1. ASSUME NEW i \in 0 .. k, i # 0 PROVE g[i] = Changed(g[i - 1], i)
      <4>1. i - 1 \in 0 .. k
        BY <3>1
      <4> QED
        BY <2>1, <2>2, <3>1, <4>1
    <3>2. g[0] = m
      BY <2>1, <2>2
    <3>3. k + 1 # 0 /\ (k + 1) - 1 = k /\ g[k] = f[k]
      BY <2>2
    <3> QED
      BY <2>3, <3>1, <3>2, <3>3
  <2>6. g = [i \in 0 .. k + 1 |-> IF i = 0 THEN m ELSE Changed(g[i - 1], i)]
    BY <2>4, <2>5
  <2>7. After(m, batch, k + 1, g)
    BY <2>6 DEF After, Changed
  <2> QED
    BY <2>7
<1>3. n \in T
  <2> HIDE DEF T
  <2>1. \A k \in Nat : k \in T => k + 1 \in T
    BY <1>2
  <2> QED
    BY <1>1, <2>1, AllNumbers
<1>4. PICK f : After(m, batch, n, f)
  BY <1>3
<1> DEFINE Eq(g) == g = [i \in 0 .. Len(batch) |-> IF i = 0 THEN m
                            ELSE [g[i - 1] EXCEPT ![batch[i].key] = batch[i].cell]]
           c == CHOOSE g : Eq(g)
<1>5. Eq(f)
  BY <1>4 DEF After
<1>6. Applied(m, batch) = c[n]
  BY DEF Applied
<1> HIDE DEF Eq
<1>7. Eq(c)
  BY <1>5
<1>8. After(m, batch, n, c)
  BY <1>7 DEF Eq, After
<1> HIDE DEF c
<1> QED
  BY <1>6, <1>8

\* What the first n values leave for a key: the last of them that is for it.
LastOf(m, batch, n, k, cell) ==
    IF \A i \in 1 .. n : batch[i].key # k THEN cell = m[k]
    ELSE \E i \in 1 .. n : /\ batch[i].key = k /\ cell = batch[i].cell
                           /\ \A j \in 1 .. n : batch[j].key = k => j <= i

\* Each key gets the value given last for it.
LEMMA AppliedLast ==
    ASSUME NEW m \in Models, NEW batch \in Seq(Entries)
    PROVE  /\ Applied(m, batch) \in Models
           /\ \A k \in Keys : LastOf(m, batch, Len(batch), k, Applied(m, batch)[k])
<1> DEFINE n == Len(batch)
<1>1. n \in Nat /\ \A i \in 1 .. n : batch[i] \in Entries
  BY LenProperties, ElementOfSeq
<1> HIDE DEF n
<1>2. PICK f : After(m, batch, n, f) /\ Applied(m, batch) = f[n]
  BY <1>1, AppliedDef DEF n
<1>3. f[0] = m /\ \A i \in 1 .. n : f[i] = [f[i - 1] EXCEPT ![batch[i].key] = batch[i].cell]
  <2> DEFINE Changed(d, i) == [d EXCEPT ![batch[i].key] = batch[i].cell]
  <2>1. f = [i \in 0 .. n |-> IF i = 0 THEN m ELSE Changed(f[i - 1], i)]
    BY <1>2 DEF After
  <2> HIDE DEF Changed
  <2>2. \A i \in 0 .. n : f[i] = IF i = 0 THEN m ELSE Changed(f[i - 1], i)
    BY <2>1
  <2>3. 0 \in 0 .. n /\ \A i \in 1 .. n : i \in 0 .. n /\ i # 0
    BY <1>1
  <2> QED
    BY <2>2, <2>3 DEF Changed
<1> DEFINE Good(i) == f[i] \in Models /\ \A k \in Keys : LastOf(m, batch, i, k, f[i][k])
           T == {i \in Nat : i <= n => Good(i)}
<1>4. 0 \in T
  <2>1. Good(0)
    BY <1>3 DEF LastOf
  <2> QED
    BY <2>1
<1>5. ASSUME NEW i \in Nat, i \in T PROVE i + 1 \in T
  <2> SUFFICES ASSUME i + 1 <= n PROVE Good(i + 1)
    OBVIOUS
  <2>1. Good(i) /\ i + 1 \in 1 .. n /\ (i + 1) - 1 = i
    BY <1>1, <1>5
  <2> PICK x \in Keys, c \in Cells : batch[i + 1].key = x /\ batch[i + 1].cell = c
    BY <1>1, <2>1 DEF Entries
  <2>2. f[i + 1] = [f[i] EXCEPT ![x] = c]
    BY <1>3, <2>1
  <2>3. f[i + 1] \in Models
    BY <2>1, <2>2 DEF Models
  <2>4. ASSUME NEW k \in Keys PROVE LastOf(m, batch, i + 1, k, f[i + 1][k])
    <3>1. \A j \in 1 .. i + 1 : j \in 1 .. i \/ j = i + 1
      OBVIOUS
    <3>2. CASE k = x
      <4>1. f[i + 1][k] = c
        BY <2>1, <2>2, <3>2 DEF Models
      <4>2. i + 1 \in 1 .. i + 1 /\ \A j \in 1 .. i + 1 : j <= i + 1
        OBVIOUS
      <4> QED
        BY <3>2, <4>1, <4>2 DEF LastOf
    <3>3. CASE k # x
      <4>1. f[i + 1][k] = f[i][k]
        BY <2>1, <2>2, <3>3 DEF Models
      <4>2. LastOf(m, batch, i, k, f[i][k])
        BY <2>1
      <4>3. \A j \in 1 .. i : j \in 1 .. i + 1
        OBVIOUS
      <4>4. batch[i + 1].key # k
        BY <3>3
      <4>5. CASE \A j \in 1 .. i : batch[j].key # k
        <5>1. \A j \in 1 .. i + 1 : batch[j].key # k
          BY <3>1, <4>4, <4>5
        <5>2. f[i][k] = m[k]
          BY <4>2, <4>5 DEF LastOf
        <5> QED
          BY <4>1, <5>1, <5>2 DEF LastOf
      <4>6. CASE ~ \A j \in 1 .. i : batch[j].key # k
        <5>1. PICK j \in 1 .. i : /\ batch[j].key = k /\ f[i][k] = batch[j].cell
                                  /\ \A l \in 1 .. i : batch[l].key = k => l <= j
          BY <4>2, <4>6, Zenon DEF LastOf
        <5>2. \A l \in 1 .. i + 1 : batch[l].key = k => l <= j
          BY <3>1, <4>4, <5>1
        <5>3. j \in 1 .. i + 1
          BY <4>3
        <5> QED
          BY <4>1, <5>1, <5>2, <5>3, Zenon DEF LastOf
      <4> QED
        BY <4>5, <4>6
    <3> QED
      BY <3>2, <3>3
  <2> QED
    BY <2>3, <2>4
<1>6. Good(n)
  <2> HIDE DEF Good
  <2>1. \A i \in Nat : i \in T => i + 1 \in T
    BY <1>5
  <2>2. \A i \in Nat : i \in T
    <3> HIDE DEF T
    <3> QED
      BY <1>4, <2>1, AllNumbers
  <2> QED
    BY <1>1, <2>2
<1> QED
  BY <1>2, <1>6 DEF n

-----------------------------------------------------------------------------
(* The list of the rows of a table *)

\* There is an ascending list of any finite set of numbers: a number comes after as
\* many as are not above it.
LEMMA AscendingExists ==
    ASSUME NEW S \in SUBSET Nat, IsFiniteSet(S)
    PROVE  \E s \in [1 .. Cardinality(S) -> S] :
              \A i, j \in 1 .. Cardinality(S) : i < j => s[i] < s[j]
<1> DEFINE n == Cardinality(S)
           Upto(x) == {y \in S : y <= x}
           rank == [x \in S |-> Cardinality(Upto(x))]
<1>1. n \in Nat
  BY FS_CardinalityType
<1>2. \A x \in S : Upto(x) \in SUBSET S /\ IsFiniteSet(Upto(x))
  <2>1. ASSUME NEW x \in S PROVE Upto(x) \in SUBSET S /\ IsFiniteSet(Upto(x))
    <3>1. Upto(x) \in SUBSET S
      OBVIOUS
    <3> HIDE DEF Upto
    <3> QED
      BY <3>1, FS_Subset
  <2> QED
    BY <2>1
<1>3. ASSUME NEW x \in S PROVE Cardinality(Upto(x)) \in 1 .. n
  <2>1. x \in Upto(x) /\ Upto(x) # {}
    OBVIOUS
  <2> HIDE DEF Upto
  <2>2. Cardinality(Upto(x)) \in Nat /\ Cardinality(Upto(x)) <= n
    BY <1>2, FS_Subset, FS_CardinalityType
  <2>3. Cardinality(Upto(x)) # 0
    BY <1>2, <2>1, FS_EmptySet
  <2> QED
    BY <1>1, <2>2, <2>3
<1>4. ASSUME NEW x \in S, NEW y \in S, x < y
      PROVE  Cardinality(Upto(x)) < Cardinality(Upto(y))
  <2>1. Upto(x) \in SUBSET Upto(y) /\ Upto(x) # Upto(y)
    <3>1. y \in Upto(y) /\ y \notin Upto(x)
      BY <1>4
    <3>2. \A z \in Upto(x) : z \in S /\ z <= x /\ z \in Nat /\ x \in Nat /\ y \in Nat
      OBVIOUS
    <3>3. \A z \in Upto(x) : z \in Upto(y)
      BY <1>4, <3>2
    <3> HIDE DEF Upto
    <3> QED
      BY <3>1, <3>3
  <2> HIDE DEF Upto
  <2>2. /\ Cardinality(Upto(x)) <= Cardinality(Upto(y))
        /\ Cardinality(Upto(y)) # Cardinality(Upto(x))
    BY <1>2, <2>1, FS_Subset
  <2>3. Cardinality(Upto(x)) \in Nat /\ Cardinality(Upto(y)) \in Nat
    BY <1>2, FS_CardinalityType
  <2> QED
    BY <2>2, <2>3
<1> HIDE DEF Upto
<1>5. /\ rank \in [S -> 1 .. n]
      /\ \A x, y \in S : x < y => rank[x] < rank[y]
  BY <1>3, <1>4
<1> HIDE DEF rank
<1>6. rank \in Injection(S, 1 .. n)
  <2>1. \A x, y \in S : rank[x] = rank[y] => x = y
    <3>1. ASSUME NEW x \in S, NEW y \in S, rank[x] = rank[y], x # y PROVE FALSE
      <4>1. x < y \/ y < x
        BY <3>1
      <4>2. rank[x] \in Nat /\ rank[y] \in Nat
        BY <1>1, <1>5
      <4> QED
        BY <1>5, <3>1, <4>1, <4>2
    <3> QED
      BY <3>1
  <2> QED
    BY <1>5, <2>1 DEF Injection, IsInjective
<1>7. rank \in Surjection(S, 1 .. n)
  <2>1. IsFiniteSet(1 .. n) /\ Cardinality(1 .. n) = n
    BY <1>1, FS_Interval
  <2> QED
    BY <1>6, <2>1, FS_Injection
<1>8. \A i \in 1 .. n : \E x \in S : rank[x] = i
  BY <1>7 DEF Surjection
<1> DEFINE s == [i \in 1 .. n |-> CHOOSE x \in S : rank[x] = i]
<1>9. s \in [1 .. n -> S] /\ \A i \in 1 .. n : rank[s[i]] = i
  BY <1>8
<1> HIDE DEF s
<1>10. ASSUME NEW i \in 1 .. n, NEW j \in 1 .. n, i < j PROVE s[i] < s[j]
  <2>1. s[i] \in S /\ s[j] \in S /\ rank[s[i]] = i /\ rank[s[j]] = j
    BY <1>9
  <2>2. ~(s[j] < s[i]) /\ s[i] # s[j]
    <3>1. ASSUME s[j] < s[i] PROVE FALSE
      <4>1. rank[s[j]] < rank[s[i]]
        BY <1>5, <2>1, <3>1
      <4> QED
        BY <1>10, <2>1, <4>1
    <3>2. s[i] # s[j]
      BY <1>10, <2>1
    <3> QED
      BY <3>1, <3>2
  <2>3. s[i] \in Nat /\ s[j] \in Nat
    BY <2>1
  <2> QED
    BY <2>2, <2>3
<1> QED
  BY <1>9, <1>10

\* The ascending list of a set has each of its numbers.
LEMMA AscendingOf ==
    ASSUME NEW S \in SUBSET Nat, IsFiniteSet(S)
    PROVE  /\ Ascending(S) \in [1 .. Cardinality(S) -> S] /\ Cardinality(S) \in Nat
           /\ Len(Ascending(S)) = Cardinality(S)
           /\ \A x \in S : \E i \in 1 .. Cardinality(S) : Ascending(S)[i] = x
<1> DEFINE n == Cardinality(S)
           s == Ascending(S)
<1>1. n \in Nat
  BY FS_CardinalityType
<1>2. s \in [1 .. n -> S] /\ \A i, j \in 1 .. n : i < j => s[i] < s[j]
  BY AscendingExists DEF Ascending
<1> HIDE DEF s
<1>3. s \in Injection(1 .. n, S)
  <2>1. \A i, j \in 1 .. n : s[i] = s[j] => i = j
    <3>1. ASSUME NEW i \in 1 .. n, NEW j \in 1 .. n, s[i] = s[j], i # j PROVE FALSE
      <4>1. i < j \/ j < i
        BY <3>1
      <4>2. s[i] \in Nat /\ s[j] \in Nat
        BY <1>2
      <4> QED
        BY <1>2, <3>1, <4>1, <4>2
    <3> QED
      BY <3>1
  <2> QED
    BY <1>2, <2>1 DEF Injection, IsInjective
<1>4. s \in Surjection(1 .. n, S)
  <2>1. Cardinality(1 .. n) = n
    BY <1>1, FS_Interval
  <2> QED
    BY <1>3, <2>1, FS_Injection
<1>5. Len(s) = n
  <2>1. s \in Seq(S) /\ DOMAIN s = 1 .. n
    BY <1>1, <1>2
  <2> QED
    BY <1>1, <2>1, LenProperties
<1>6. \A x \in S : \E i \in 1 .. n : s[i] = x
  BY <1>4 DEF Surjection
<1> QED
  BY <1>1, <1>2, <1>5, <1>6 DEF s

\* The function in Offset: where each of the first n numbers ends in the list.
EndsAt(s, n, e) == e = [i \in 0 .. n |-> IF i = 0 THEN 0 ELSE e[i - 1] + Digits(s[i]) + 1]

\* Where the numbers start: each after the one before it and a comma.
LEMMA OffsetSteps ==
    ASSUME NEW n \in Nat, NEW s, Len(s) = n
    PROVE  /\ Offset(s, 1) = 0
           /\ \A k \in 1 .. n : Offset(s, k + 1) = Offset(s, k) + Digits(s[k]) + 1
<1> DEFINE T == {k \in Nat : \E e : EndsAt(s, k, e)}
<1>1. 0 \in T
  <2> DEFINE e == [i \in 0 .. 0 |-> 0]
  <2>1. e = [i \in 0 .. 0 |-> IF i = 0 THEN 0 ELSE e[i - 1] + Digits(s[i]) + 1]
    OBVIOUS
  <2> QED
    BY <2>1 DEF EndsAt
<1>2. ASSUME NEW k \in Nat, k \in T PROVE k + 1 \in T
  <2> PICK e : EndsAt(s, k, e)
    BY <1>2
  <2> DEFINE Add(x, i) == x + Digits(s[i]) + 1
             g == [i \in 0 .. k + 1 |-> IF i = k + 1 THEN Add(e[k], k + 1) ELSE e[i]]
  <2>1. \A i \in 0 .. k : e[i] = IF i = 0 THEN 0 ELSE Add(e[i - 1], i)
    BY DEF EndsAt
  <2> HIDE DEF Add
  <2>2. \A i \in 0 .. k : g[i] = e[i]
    OBVIOUS
  <2>3. g[k + 1] = Add(e[k], k + 1)
    OBVIOUS
  <2>4. DOMAIN g = 0 .. k + 1 /\ g = [i \in DOMAIN g |-> g[i]]
    OBVIOUS
  <2> HIDE DEF g
  <2>5. \A i \in 0 .. k + 1 : g[i] = IF i = 0 THEN 0 ELSE Add(g[i - 1], i)
    <3>1. ASSUME NEW i \in 0 .. k, i # 0 PROVE g[i] = Add(g[i - 1], i)
      <4>1. i - 1 \in 0 .. k
        BY <3>1
      <4> QED
        BY <2>1, <2>2, <3>1, <4>1
    <3>2. g[0] = 0
      BY <2>1, <2>2
    <3>3. k + 1 # 0 /\ (k + 1) - 1 = k /\ g[k] = e[k]
      BY <2>2
    <3> QED
      BY <2>3, <3>1, <3>2, <3>3
  <2>6. g = [i \in 0 .. k + 1 |-> IF i = 0 THEN 0 ELSE Add(g[i - 1], i)]
    BY <2>4, <2>5
  <2>7. EndsAt(s, k + 1, g)
    BY <2>6 DEF EndsAt, Add
  <2> QED
    BY <2>7
<1>3. n \in T
  <2> HIDE DEF T
  <2>1. \A k \in Nat : k \in T => k + 1 \in T
    BY <1>2
  <2> QED
    BY <1>1, <2>1, AllNumbers
<1>4. PICK e : EndsAt(s, n, e)
  BY <1>3
<1> DEFINE Eq(g) == g = [i \in 0 .. Len(s) |-> IF i = 0 THEN 0 ELSE g[i - 1] + Digits(s[i]) + 1]
           c == CHOOSE g : Eq(g)
<1>5. Eq(e)
  BY <1>4 DEF EndsAt
<1>6. \A k : Offset(s, k) = c[k - 1]
  BY DEF Offset
<1> HIDE DEF Eq
<1>7. Eq(c)
  BY <1>5
<1> HIDE DEF c
<1>8. \A i \in 0 .. n : c[i] = IF i = 0 THEN 0 ELSE c[i - 1] + Digits(s[i]) + 1
  <2> DEFINE Add(x, i) == x + Digits(s[i]) + 1
  <2>1. c = [i \in 0 .. n |-> IF i = 0 THEN 0 ELSE Add(c[i - 1], i)]
    BY <1>7 DEF Eq
  <2> HIDE DEF Add
  <2>2. \A i \in 0 .. n : c[i] = IF i = 0 THEN 0 ELSE Add(c[i - 1], i)
    BY <2>1
  <2> QED
    BY <2>2 DEF Add
<1>9. Offset(s, 1) = 0
  BY <1>6, <1>8
<1>10. ASSUME NEW k \in 1 .. n PROVE Offset(s, k + 1) = Offset(s, k) + Digits(s[k]) + 1
  <2>1. k \in 0 .. n /\ k # 0 /\ (k + 1) - 1 = k
    OBVIOUS
  <2> QED
    BY <1>6, <1>8, <2>1
<1> QED
  BY <1>9, <1>10

\* A number starts before the end of the list by more than its digits.
LEMMA OffsetGrows ==
    ASSUME NEW n \in Nat, NEW s, Len(s) = n, NEW k \in 1 .. n
    PROVE  /\ Offset(s, k) \in Nat /\ Offset(s, n + 1) \in Nat
           /\ Offset(s, k) + Digits(s[k]) + 1 <= Offset(s, n + 1)
<1>0. \A i : Digits(i) \in 1 .. 2
  BY DEF Digits
<1>1. \A i \in 1 .. n : Offset(s, i + 1) = Offset(s, i) + Digits(s[i]) + 1
  BY OffsetSteps
<1> DEFINE T == {i \in Nat : i <= n => Offset(s, i + 1) \in Nat}
<1>2. \A i \in 0 .. n : Offset(s, i + 1) \in Nat
  <2>1. 0 \in T
    BY OffsetSteps
  <2>2. ASSUME NEW i \in Nat, i \in T PROVE i + 1 \in T
    <3> SUFFICES ASSUME i + 1 <= n PROVE Offset(s, (i + 1) + 1) \in Nat
      OBVIOUS
    <3>1. i + 1 \in 1 .. n /\ Offset(s, i + 1) \in Nat
      BY <2>2
    <3> QED
      BY <1>0, <1>1, <3>1
  <2>3. \A i \in Nat : i \in T
    <3> HIDE DEF T
    <3> QED
      BY <2>1, <2>2, AllNumbers
  <2> QED
    BY <2>3
<1> DEFINE U == {i \in Nat : k + i <= n => Offset(s, k + 1) <= Offset(s, (k + i) + 1)}
<1>3. Offset(s, k + 1) <= Offset(s, n + 1)
  <2>1. 0 \in U
    BY <1>2
  <2>2. ASSUME NEW i \in Nat, i \in U PROVE i + 1 \in U
    <3> SUFFICES ASSUME k + (i + 1) <= n PROVE Offset(s, k + 1) <= Offset(s, (k + (i + 1)) + 1)
      OBVIOUS
    <3> DEFINE j == k + (i + 1)
    <3>1. j \in 1 .. n /\ (k + i) + 1 = j /\ k + i <= n
      OBVIOUS
    <3>2. Offset(s, k + 1) <= Offset(s, j)
      BY <2>2, <3>1
    <3>3. j - 1 \in 0 .. n /\ (j - 1) + 1 = j /\ k \in 0 .. n
      OBVIOUS
    <3>4. Offset(s, j) \in Nat /\ Offset(s, k + 1) \in Nat
      BY <1>2, <3>3
    <3>5. Offset(s, j + 1) = Offset(s, j) + Digits(s[j]) + 1
      BY <1>1, <3>1
    <3> QED
      BY <1>0, <3>2, <3>4, <3>5
  <2>3. \A i \in Nat : i \in U
    <3> HIDE DEF U
    <3> QED
      BY <2>1, <2>2, AllNumbers
  <2> PICK d \in Nat : k + d = n
    <3>1. n - k \in Nat /\ k + (n - k) = n
      OBVIOUS
    <3> QED
      BY <3>1
  <2>4. d \in U
    BY <2>3
  <2> QED
    BY <2>4
<1>4. k - 1 \in 0 .. n /\ (k - 1) + 1 = k /\ n \in 0 .. n
  OBVIOUS
<1>5. Offset(s, k) \in Nat /\ Offset(s, n + 1) \in Nat
  BY <1>2, <1>4
<1> QED
  BY <1>1, <1>3, <1>5

\* A list that fits in the buffer is listed.
LEMMA ListedAll ==
    ASSUME rows \subseteq Ids, Length < BufferSize
    PROVE  Listed(Ascending(rows)) = rows
<1> DEFINE s == Ascending(rows)
           n == Cardinality(rows)
<1>1. rows \in SUBSET Nat /\ IsFiniteSet(rows)
  <2>1. rows \in SUBSET Nat /\ 99 \in Nat /\ \A i \in rows : i <= 99
    OBVIOUS
  <2> QED
    BY <2>1, FS_BoundedSetOfNaturals
<1>2. /\ s \in [1 .. n -> rows] /\ n \in Nat /\ Len(s) = n
      /\ \A x \in rows : \E i \in 1 .. n : s[i] = x
  BY <1>1, AscendingOf
<1>3. Offset(s, n + 1) < BufferSize
  BY DEF Length
<1> HIDE DEF s, n
<1>4. ASSUME NEW k \in 1 .. n
      PROVE  /\ Offset(s, k) < BufferSize - 1
             /\ Cut(s[k], BufferSize - 1 - Offset(s, k)) = s[k]
  <2>1. /\ Offset(s, k) \in Nat /\ Offset(s, n + 1) \in Nat
        /\ Offset(s, k) + Digits(s[k]) + 1 <= Offset(s, n + 1)
    BY <1>2, OffsetGrows
  <2>2. Digits(s[k]) \in 1 .. 2
    BY DEF Digits
  <2>3. Digits(s[k]) <= BufferSize - 1 - Offset(s, k) /\ Offset(s, k) < BufferSize - 1
    BY <1>3, <2>1, <2>2
  <2> QED
    BY <2>3 DEF Cut
<1>5. Listed(s) = {s[k] : k \in 1 .. n}
  <2>1. {j \in 1 .. Len(s) : Offset(s, j) < BufferSize - 1} = 1 .. n
    BY <1>2, <1>4
  <2>2. Listed(s) = {Cut(s[k], BufferSize - 1 - Offset(s, k)) : k \in 1 .. n}
    BY <2>1 DEF Listed
  <2> QED
    BY <1>4, <2>2
<1>6. {s[k] : k \in 1 .. n} = rows
  <2>1. \A k \in 1 .. n : s[k] \in rows
    BY <1>2
  <2>2. \A x \in rows : \E k \in 1 .. n : s[k] = x
    BY <1>2
  <2> QED
    BY <2>1, <2>2
<1> QED
  BY <1>5, <1>6 DEF s

-----------------------------------------------------------------------------
(* Types *)

\* Changing a parameter keeps the type of the data model.
LEMMA ModelChanged ==
    ASSUME NEW m \in Models, NEW k \in Keys, NEW c \in Cells \union {Absent}
    PROVE  [m EXCEPT ![k] = c] \in Models
BY DEF Models

\* The items handled so far, as they are sent.
LEMMA BatchTyped ==
    ASSUME CallSound, TypeOK, pc = "send"
    PROVE  /\ Batch \in Seq(Entries) /\ Len(Batch) = built
           /\ \A i \in 1 .. built : /\ call.items[i] \in Items
                                    /\ Batch[i].key = call.items[i].key
                                    /\ Batch[i].cell = Sent(call.items[i])
<1> DEFINE e(i) == [key |-> call.items[i].key, cell |-> Sent(call.items[i])]
<1>1. built \in Nat /\ built <= Len(call.items) /\ call.items \in Seq(Items \union {Absent})
  BY DEF CallSound, TypeOK
<1>2. ASSUME NEW i \in 1 .. built PROVE call.items[i] \in Items
  <2>1. call.items[i] \in Items \union {Absent} /\ call.items[i] # Absent
    <3>1. i \in 1 .. Len(call.items)
      BY <1>1, LenProperties
    <3> QED
      BY <1>1, <3>1, ElementOfSeq DEF CallSound
  <2> QED
    BY <2>1
<1>3. \A i \in 1 .. built : e(i) \in Entries
  <2>1. ASSUME NEW i \in 1 .. built PROVE e(i) \in Entries
    <3>1. Sent(call.items[i]) \in Cells /\ call.items[i].key \in Keys
      BY <1>2, SentType
    <3> QED
      BY <3>1 DEF Entries
  <2> QED
    BY <2>1
<1>4. \A i \in 1 .. built : e(i).key = call.items[i].key /\ e(i).cell = Sent(call.items[i])
  OBVIOUS
<1>5. Batch = [i \in 1 .. built |-> e(i)]
  BY DEF Batch
<1> HIDE DEF e
<1>6. Batch \in Seq(Entries) /\ Len(Batch) = built /\ \A i \in 1 .. built : Batch[i] = e(i)
  <2> HIDE DEF Entries
  <2> QED
    BY <1>1, <1>3, <1>5
<1> QED
  BY <1>2, <1>4, <1>6

\* The arguments a call begins with.
LEMMA BeginCall ==
    ASSUME NEW f \in Functions, NEW n \in Names(f), NEW s \in Arrays(f),
           NEW v \in (IF f = "setStr" THEN Values ELSE {Absent})
    PROVE  LET c == [fn |-> f, name |-> n, val |-> v, items |-> s]
           IN  /\ c \in Calls /\ Len(c.items) <= MaxItems
               /\ c.fn = Sets => c.items \in Seq(Items \union {Absent})
<1> DEFINE All == Items \union Keys \union Objects \union {Absent}
<1>1. n \in Keys \union Objects
  BY DEF Names
<1>2. ASSUME NEW S, NEW t \in BoundedSeq(S, MaxItems) PROVE t \in Seq(S) /\ Len(t) <= MaxItems
  <2> PICK l \in 0 .. MaxItems : t \in [1 .. l -> S]
    BY <1>2 DEF BoundedSeq, SeqOf
  <2>1. t \in Seq(S) /\ DOMAIN t = 1 .. l
    OBVIOUS
  <2>2. Len(t) = l
    BY <2>1, LenProperties
  <2> QED
    BY <2>1, <2>2
<1>3. s \in Seq(All) /\ Len(s) <= MaxItems /\ (f = Sets => s \in Seq(Items \union {Absent}))
  <2>1. CASE f = Sets
    <3>1. s \in BoundedSeq(Items \union {Absent}, MaxItems)
      BY <2>1 DEF Arrays, Sets, Gets
    <3>2. s \in Seq(Items \union {Absent}) /\ Len(s) <= MaxItems
      BY <1>2, <3>1
    <3>3. s \in Seq(All)
      BY <3>2, SeqMonotonic
    <3> QED
      BY <3>2, <3>3
  <2>2. CASE f = Gets
    <3>1. s \in BoundedSeq(Keys \union Objects, MaxItems)
      BY <2>2 DEF Arrays, Gets
    <3>2. s \in Seq(Keys \union Objects) /\ Len(s) <= MaxItems
      BY <1>2, <3>1
    <3>3. s \in Seq(All)
      BY <3>2, SeqMonotonic
    <3> QED
      BY <2>2, <3>2, <3>3 DEF Gets, Sets
  <2>3. CASE f # Sets /\ f # Gets
    <3>1. s = <<>>
      BY <2>3 DEF Arrays, Sets, Gets
    <3>2. <<>> \in Seq(All) /\ Len(<<>>) = 0
      BY EmptySeq
    <3> QED
      BY <2>3, <3>1, <3>2
  <2> QED
    BY <2>1, <2>2, <2>3
<1>4. v \in Values \union {Absent}
  OBVIOUS
<1> DEFINE c == [fn |-> f, name |-> n, val |-> v, items |-> s]
<1>5. c.fn = f /\ c.items = s
  OBVIOUS
<1>6. c \in Calls
  BY <1>1, <1>3, <1>4 DEF Calls
<1> HIDE DEF c
<1>7. Len(c.items) <= MaxItems /\ (c.fn = Sets => c.items \in Seq(Items \union {Absent}))
  BY <1>3, <1>5
<1> QED
  BY <1>6, <1>7 DEF c

\* A call without arguments.
LEMMA NoArguments ==
    ASSUME NEW f \in Functions \union {"none"}
    PROVE  /\ [NoCall EXCEPT !.fn = f] \in Calls /\ [NoCall EXCEPT !.fn = f].fn = f
           /\ [NoCall EXCEPT !.fn = f].items = <<>>
<1> DEFINE All == Items \union Keys \union Objects \union {Absent}
<1>1. <<>> \in Seq(All)
  BY EmptySeq
<1> HIDE DEF All
<1>2. [NoCall EXCEPT !.fn = f] = [fn |-> f, name |-> Absent, val |-> Absent, items |-> <<>>]
  BY DEF NoCall
<1>3. [fn |-> f, name |-> Absent, val |-> Absent, items |-> <<>>]
        \in [fn : Functions \union {"none"}, name : Keys \union Objects \union {Absent},
             val : Values \union {Absent}, items : Seq(All)]
  BY <1>1
<1> QED
  BY <1>2, <1>3 DEF Calls, All

-----------------------------------------------------------------------------
(* The steps *)

\* Whatever a component or another client does, the data model holds well-formed values.
LEMMA NextModel ==
    ASSUME IInv, [Next]_vars
    PROVE  dm' \in Models /\ rows' \subseteq Ids
<1>0. dm \in Models /\ rows \subseteq Ids /\ CallSound /\ TypeOK
  BY DEF IInv, TypeOK, Models
<1>1. CASE UNCHANGED model
  BY <1>0, <1>1 DEF model
<1>2. CASE AddTblObj \/ DelTblObj
  BY <1>0, <1>2 DEF AddTblObj, DelTblObj
<1>3. CASE SetOne
  <2>1. PICK k \in Keys : k = call.name /\ typed \in DOMAIN Stored
    BY <1>0, <1>3 DEF SetOne, CallSound
  <2> DEFINE d == [type |-> typed, val |-> call.val]
  <2>2. dm' = [dm EXCEPT ![k] = d] /\ call.val \in Stored[typed] /\ rows' = rows
    BY <1>3, <2>1 DEF SetOne, Takes
  <2>3. d \in Cells
    BY <2>1, <2>2, NewCell
  <2> HIDE DEF d
  <2> QED
    BY <1>0, <2>2, <2>3, ModelChanged
<1>4. CASE SetBatch
  <2>1. Batch \in Seq(Entries)
    BY <1>0, <1>4, BatchTyped DEF SetBatch
  <2> QED
    BY <1>0, <1>4, <2>1, AppliedLast DEF SetBatch
<1>5. CASE SetBatchFails
  <2>1. Batch \in Seq(Entries) /\ Len(Batch) = built /\ built \in Nat
    BY <1>0, <1>5, BatchTyped DEF SetBatchFails, TypeOK
  <2> PICK n \in 0 .. built : dm' = Applied(dm, SubSeq(Batch, 1, n))
    BY <1>5 DEF SetBatchFails
  <2>2. SubSeq(Batch, 1, n) \in Seq(Entries)
    <3>1. n \in 0 .. Len(Batch)
      BY <2>1
    <3> HIDE DEF Batch, Entries
    <3>2. SubSeq(Batch, 1, n) = [i \in 1 .. n |-> Batch[i]]
      BY <2>1, <3>1
    <3>3. \A i \in 1 .. n : Batch[i] \in Entries
      BY <2>1, <3>1, ElementOfSeq
    <3>4. n \in Nat
      BY <2>1
    <3> QED
      BY <3>2, <3>3, <3>4
  <2> QED
    BY <1>0, <1>5, <2>2, AppliedLast DEF SetBatchFails
<1>6. CASE OtherClient
  BY <1>0, <1>6, ModelChanged DEF OtherClient
<1>7. CASE UNCHANGED vars
  BY <1>0, <1>7 DEF vars
<1>8. ASSUME ~UNCHANGED model, [Next]_vars
      PROVE  \/ AddTblObj \/ DelTblObj \/ SetOne \/ SetBatch \/ SetBatchFails \/ OtherClient
             \/ UNCHANGED vars
  BY <1>8 DEF Next, Begin, Rejected, Discover, DiscoverFails, CallFails, GetStr, InstanceIds,
              AnswerThrows, ReadBeforeSet, Mismatch, ReadFails, SetFails, AllocList, AllocListFails,
              ItemThrows, Collect, GetStrs, CopyItem, BadItem, ItemCrashes, Send
<1> QED
  BY <1>1, <1>2, <1>3, <1>4, <1>5, <1>6, <1>7, <1>8

\* The blocks of a call are distinct.
LEMMA BlockFacts ==
    /\ Dest \subseteq Blocks /\ {Value, Reply, List} \subseteq Blocks /\ Copies \subseteq Blocks
    /\ Value \notin Dest \union Copies /\ Reply \notin Dest \union Copies
    /\ List \notin Dest \union Copies /\ Dest \cap Copies = {}
    /\ Value # Reply /\ Value # List /\ Reply # List
    /\ CopiesOf(0) = {}
    /\ \A n \in Nat : /\ CopiesOf(n + 1) = CopiesOf(n) \union {<<"copy", n + 1>>}
                      /\ n <= MaxItems => CopiesOf(n) \subseteq Copies
<1>1. /\ Dest \subseteq Blocks /\ {Value, Reply, List} \subseteq Blocks /\ Copies \subseteq Blocks
  BY DEF Blocks
<1>2. /\ Value \notin Dest \union Copies /\ Reply \notin Dest \union Copies
      /\ List \notin Dest \union Copies /\ Dest \cap Copies = {}
  BY DEF Dest, Value, Reply, List, Copies
<1>3. Value # Reply /\ Value # List /\ Reply # List
  BY DEF Value, Reply, List
<1>4. CopiesOf(0) = {}
  BY DEF CopiesOf
<1>5. ASSUME NEW n \in Nat
      PROVE  /\ CopiesOf(n + 1) = CopiesOf(n) \union {<<"copy", n + 1>>}
             /\ n <= MaxItems => CopiesOf(n) \subseteq Copies
  <2>1. 1 .. n + 1 = (1 .. n) \union {n + 1}
    OBVIOUS
  <2>2. CopiesOf(n + 1) = CopiesOf(n) \union {<<"copy", n + 1>>}
    BY <2>1 DEF CopiesOf
  <2>3. n <= MaxItems => 1 .. n \subseteq 1 .. MaxItems
    OBVIOUS
  <2> QED
    BY <2>2, <2>3 DEF CopiesOf, Copies
<1> QED
  BY <1>1, <1>2, <1>3, <1>4, <1>5

\* What a call may leave that ends in this way, out of these blocks.
MayLeave(how, value, blocks) ==
    CASE how = "returned" /\ call.fn = Gets /\ value = {} -> {Reply}
      [] how = "thrown" /\ call.fn \in {"setStr", "getInstanceIds", Gets} -> {Reply}
      [] how = "thrown" /\ call.fn = Sets -> Copies
      [] how = "escaped" /\ call.fn \in {"getInstanceIds", "DmExtGetInstanceIds"} -> {Reply}
      [] how = "escaped" /\ call.fn = Gets ->
            IF Reply \in blocks THEN {List, Reply} ELSE Dest \union {List}
      [] how = "escaped" /\ call.fn = Sets -> Dest \union {List} \union Copies
      [] OTHER -> {}

\* A way out that frees blocks it has, and leaves no more than it may, keeps the invariant.
LEMMA Ended ==
    ASSUME IInv, NEW how \in {"returned", "thrown", "escaped"}, NEW value, NEW made, NEW blocks,
           Ends(how, value, made, blocks), made \subseteq {Reply}, blocks \subseteq heap \union made,
           (heap \union made) \ blocks \subseteq MayLeave(how, value, (heap \union made) \ blocks),
           dm' \in Models, rows' \subseteq Ids
    PROVE  IInv'
<1>1. TypeOK'
  BY BlockFacts DEF IInv, TypeOK, Ends, Models, PCs
<1>2. CallSound'
  BY DEF IInv, CallSound, Ends
<1>3. HeapSound'
  <2>1. /\ wrongFree' = (wrongFree \/ FALSE) /\ heap' = (heap \union made) \ blocks /\ pc' = "idle"
        /\ outcome' = how /\ result' = value /\ call' = call
    BY DEF Ends
  <2>2. ~wrongFree'
    BY <2>1 DEF IInv, HeapSound
  <2>3. Left' = MayLeave(how, value, heap')
    BY <2>1 DEF Left, MayLeave
  <2>4. BlocksFreed'
    BY <2>1, <2>3 DEF BlocksFreed
  <2> QED
    BY <2>1, <2>2, <2>4 DEF HeapSound
<1> QED
  BY <1>1, <1>2, <1>3 DEF IInv

\* What is allocated where a call can end.
LEMMA HeapAt ==
    ASSUME IInv
    PROVE  /\ pc = "discover" => heap = IF call.fn = "setStr" THEN {Value} ELSE {}
           /\ pc = "list" => heap = Dest
           /\ pc = "call" => heap = IF call.fn = Gets THEN Dest \union {List} ELSE Dest
           /\ pc = "read" => heap = Dest \union {Value}
           /\ pc = "set" => heap = Dest \union {Value, Reply}
           /\ pc \in {"items", "send"} =>
                /\ Dest \union {List} \subseteq heap
                /\ heap \subseteq Dest \union {List} \union Copies
                /\ heap = Own /\ Value \notin heap
<1>1. ASSUME pc \in {"items", "send"}
      PROVE  /\ Dest \union {List} \subseteq heap
             /\ heap \subseteq Dest \union {List} \union Copies
             /\ heap = Own /\ Value \notin heap
  <2>1. built \in Nat /\ built <= MaxItems
    BY DEF IInv, TypeOK
  <2>2. CopiesOf(built) \subseteq Copies
    BY <2>1, BlockFacts
  <2>3. Dest \union {List} \subseteq heap /\ heap \subseteq Dest \union {List} \union Copies
    BY <1>1, <2>2 DEF IInv, HeapSound
  <2> QED
    BY <2>3, BlockFacts DEF Own
<1> QED
  BY <1>1 DEF IInv, HeapSound

\* Every way out of a function keeps the invariant.
LEMMA EndSteps ==
    ASSUME IInv, dm' \in Models, rows' \subseteq Ids,
           \/ DiscoverFails \/ CallFails \/ AnswerThrows \/ GetStr \/ InstanceIds
           \/ AddTblObj \/ DelTblObj \/ Mismatch \/ ReadFails \/ SetOne \/ SetFails
           \/ AllocListFails \/ ItemThrows \/ GetStrs \/ BadItem
           \/ (Send /\ pc' = "idle") \/ SetBatch \/ SetBatchFails
    PROVE  IInv'
<1> DEFINE Way(how, value, made, blocks) ==
        /\ Ends(how, value, made, blocks) /\ made \subseteq {Reply}
        /\ blocks \subseteq heap \union made
        /\ (heap \union made) \ blocks \subseteq MayLeave(how, value, (heap \union made) \ blocks)
<1> SUFFICES \E how \in {"returned", "thrown", "escaped"} : \E value, made, blocks :
                Way(how, value, made, blocks)
  BY Ended
<1> HIDE DEF Way
<1>0. \A r \in Replies : r \subseteq {Reply}
  BY DEF Replies
<1>1. CASE DiscoverFails
  <2>1. Way("thrown", Absent, {}, IF call.fn = "setStr" THEN {Value} ELSE {})
    BY <1>1, HeapAt DEF DiscoverFails, Throws, Way
  <2> QED
    BY <2>1
<1>2. CASE CallFails
  <2> DEFINE freed(r) == Dest \union (CASE call.fn \in {"getStr", "DmExtGetInstanceIds"} -> r
                                        [] call.fn = Gets -> {List}
                                        [] OTHER -> {})
  <2>1. PICK r \in {{}, IF call.fn \in Asking THEN {Reply} ELSE {}} : Throws(r, freed(r)) /\ pc = "call"
    BY <1>2 DEF CallFails
  <2>2. /\ r \subseteq {Reply} /\ freed(r) \subseteq heap \union r
        /\ (heap \union r) \ freed(r) \subseteq MayLeave("thrown", Absent, (heap \union r) \ freed(r))
    <3>1. CASE call.fn \in {"getStr", "DmExtGetInstanceIds"}
      <4>1. heap = Dest /\ freed(r) = Dest \union r /\ r \subseteq {Reply}
        BY <2>1, <3>1, HeapAt DEF Gets
      <4> HIDE DEF freed
      <4> QED
        BY <4>1
    <3>2. CASE call.fn = Gets
      <4>1. heap = Dest \union {List} /\ freed(r) = Dest \union {List} /\ r \subseteq {Reply}
        BY <2>1, <3>2, HeapAt DEF Gets
      <4>2. \A b : MayLeave("thrown", Absent, b) = {Reply}
        BY <3>2 DEF MayLeave, Gets, Sets
      <4> HIDE DEF freed
      <4> QED
        BY <4>1, <4>2
    <3>3. CASE call.fn \notin {"getStr", "DmExtGetInstanceIds", Gets}
      <4>1. heap = Dest /\ freed(r) = Dest /\ r \subseteq {Reply}
        BY <2>1, <3>3, HeapAt
      <4>2. call.fn # "getInstanceIds" => r = {}
        BY <2>1, <3>3 DEF Asking
      <4>3. call.fn = "getInstanceIds" => \A b : MayLeave("thrown", Absent, b) = {Reply}
        BY DEF MayLeave, Gets, Sets
      <4> HIDE DEF freed
      <4> QED
        BY <4>1, <4>2, <4>3
    <3> QED
      BY <3>1, <3>2, <3>3
  <2>3. Way("thrown", Absent, r, freed(r))
    BY <2>1, <2>2 DEF Throws, Way
  <2> HIDE DEF freed
  <2> QED
    BY <2>3
<1>3. CASE AnswerThrows
  <2>1. PICK r \in Replies : /\ Escapes(r, Dest \union (IF call.fn = "getStr" THEN r ELSE {}))
                              /\ pc = "call" /\ call.fn \in Asking
    BY <1>3 DEF AnswerThrows
  <2>2. CASE call.fn = "getStr"
    <3>1. Escapes(r, Dest \union r) /\ heap = Dest
      BY <2>1, <2>2, HeapAt DEF Gets
    <3>2. Way("escaped", Absent, r, Dest \union r)
      BY <1>0, <3>1 DEF Escapes, Way
    <3> QED
      BY <3>2
  <2>3. CASE call.fn # "getStr"
    <3>1. Escapes(r, Dest) /\ r \subseteq {Reply}
      BY <1>0, <2>1, <2>3
    <3>2. (heap \union r) \ Dest \subseteq MayLeave("escaped", Absent, (heap \union r) \ Dest)
      <4>1. CASE call.fn = Gets
        <5>1. heap = Dest \union {List}
          BY <2>1, <4>1, HeapAt
        <5> QED
          BY <3>1, <4>1, <5>1, BlockFacts DEF MayLeave, Gets, Sets
      <4>2. CASE call.fn # Gets
        <5>1. heap = Dest /\ call.fn \in {"getInstanceIds", "DmExtGetInstanceIds"}
          BY <2>1, <2>3, <4>2, HeapAt DEF Asking
        <5> QED
          BY <3>1, <5>1 DEF MayLeave, Gets, Sets
      <4> QED
        BY <4>1, <4>2
    <3>3. Way("escaped", Absent, r, Dest)
      BY <2>1, <3>1, <3>2, HeapAt DEF Escapes, Way
    <3> QED
      BY <3>3
  <2> QED
    BY <2>2, <2>3
<1>4. ASSUME NEW how \in {"returned", "thrown"}, NEW value, NEW r, r \subseteq {Reply},
             pc = "call", call.fn # Gets, Ends(how, value, r, Dest \union r)
      PROVE  Way(how, value, r, Dest \union r)
  BY <1>4, HeapAt DEF Way
<1>5. CASE GetStr
  <2>1. PICK r \in Replies : \E value : Returns(value, r, Dest \union r)
    BY <1>5 DEF GetStr
  <2>2. pc = "call" /\ call.fn # Gets
    BY <1>5 DEF GetStr, Gets
  <2> QED
    BY <1>0, <1>4, <2>1, <2>2 DEF Returns
<1>6. CASE InstanceIds
  <2>1. PICK r \in Replies : \/ \E value : Returns(value, r, Dest \union r)
                             \/ Throws(r, Dest \union r)
    BY <1>6 DEF InstanceIds
  <2>2. pc = "call" /\ call.fn # Gets
    BY <1>6 DEF InstanceIds, Gets
  <2> QED
    BY <1>0, <1>4, <2>1, <2>2 DEF Returns, Throws
<1>7. CASE AddTblObj \/ DelTblObj
  <2>1. PICK value : Returns(value, {}, Dest)
    BY <1>7 DEF AddTblObj, DelTblObj
  <2>2. pc = "call" /\ call.fn # Gets
    BY <1>7 DEF AddTblObj, DelTblObj, Gets
  <2>3. Way("returned", value, {}, Dest)
    BY <2>1, <2>2, HeapAt DEF Returns, Way
  <2> QED
    BY <2>3
<1>8. CASE Mismatch \/ ReadFails
  <2>1. PICK r : r \subseteq {Reply} /\ Throws(r, Dest \union {Value}) /\ pc = "read"
    BY <1>0, <1>8 DEF Mismatch, ReadFails
  <2>2. call.fn = "setStr" /\ heap = Dest \union {Value}
    BY <2>1, HeapAt DEF IInv, CallSound
  <2>3. \A b : MayLeave("thrown", Absent, b) = {Reply}
    BY <2>2 DEF MayLeave, Gets, Sets
  <2>4. Way("thrown", Absent, r, Dest \union {Value})
    BY <2>1, <2>2, <2>3 DEF Throws, Way
  <2> QED
    BY <2>4
<1>9. CASE SetOne
  <2>1. Way("returned", Absent, {}, Dest \union {Reply, Value})
    BY <1>9, HeapAt DEF SetOne, Returns, Way
  <2> QED
    BY <2>1
<1>10. CASE SetFails
  <2>1. Way("thrown", Absent, {}, Dest \union {Reply, Value})
    BY <1>10, HeapAt DEF SetFails, Throws, Way
  <2> QED
    BY <2>1
<1>11. CASE AllocListFails
  <2>1. Way("thrown", Absent, {}, Dest)
    BY <1>11, HeapAt DEF AllocListFails, Throws, Way
  <2> QED
    BY <2>1
<1>12. CASE ItemThrows
  <2>1. Escapes({}, {}) /\ pc \in {"list", "items"} /\ call.fn \in {Gets, Sets}
    BY <1>12 DEF ItemThrows, IInv, CallSound
  <2>2. heap \subseteq MayLeave("escaped", Absent, heap)
    <3>1. CASE call.fn = Sets
      <4>1. heap \subseteq Dest \union {List} \union Copies
        BY <2>1, HeapAt
      <4> QED
        BY <3>1, <4>1 DEF MayLeave, Sets, Gets
    <3>2. CASE call.fn = Gets
      <4>1. pc = "items" => built = 0 /\ heap \subseteq Dest \union {List} \union CopiesOf(built)
        BY <3>2 DEF IInv, CallSound, HeapSound
      <4>2. heap \subseteq Dest \union {List}
        BY <2>1, <4>1, HeapAt, BlockFacts
      <4>3. Reply \notin heap
        BY <4>2, BlockFacts
      <4> QED
        BY <3>2, <4>2, <4>3 DEF MayLeave, Gets, Sets
    <3> QED
      BY <2>1, <3>1, <3>2
  <2>3. Way("escaped", Absent, {}, {})
    BY <2>1, <2>2 DEF Escapes, Way
  <2> QED
    BY <2>3
<1>13. CASE GetStrs
  <2> DEFINE freed(r) == Dest \union {List} \union (IF Found = {} THEN {} ELSE r)
             values == {<<k, dm[k].val>> : k \in Found}
  <2>1. PICK r \in Replies : Returns(values, r, freed(r)) /\ pc = "call" /\ call.fn = Gets
    BY <1>13 DEF GetStrs
  <2>2. heap = Dest \union {List} /\ r \subseteq {Reply}
    BY <1>0, <2>1, HeapAt
  <2>3. Found = {} => values = {}
    OBVIOUS
  <2>4. (heap \union r) \ freed(r) \subseteq MayLeave("returned", values, (heap \union r) \ freed(r))
    <3>1. CASE Found = {}
      <4>1. \A b : MayLeave("returned", values, b) = {Reply}
        BY <2>1, <2>3, <3>1 DEF MayLeave
      <4> HIDE DEF values
      <4> QED
        BY <2>2, <4>1
    <3>2. CASE Found # {}
      <4>1. (heap \union r) \ freed(r) = {}
        BY <2>2, <3>2
      <4> HIDE DEF values, freed
      <4> QED
        BY <4>1
    <3> QED
      BY <3>1, <3>2
  <2>5. freed(r) \subseteq heap \union r
    BY <2>2
  <2> HIDE DEF values, freed
  <2>6. Way("returned", values, r, freed(r))
    BY <2>1, <2>2, <2>4, <2>5 DEF Returns, Way
  <2> QED
    BY <2>6
<1>14. ASSUME pc \in {"items", "send"}, call.fn = Sets
       PROVE  /\ heap \ Own = {} /\ Own \subseteq heap /\ Dest \union {List} \subseteq heap
              /\ heap \ (Dest \union {List}) \subseteq Copies
              /\ \A b : MayLeave("thrown", Absent, b) = Copies
  <2>1. \A b : MayLeave("thrown", Absent, b) = Copies
    BY <1>14 DEF MayLeave, Sets, Gets
  <2> QED
    BY <1>14, <2>1, HeapAt
<1>15. CASE BadItem
  <2>1. Throws({}, Dest \union {List}) /\ pc = "items" /\ call.fn = Sets
    BY <1>15 DEF BadItem, NextIsBad
  <2>2. Way("thrown", Absent, {}, Dest \union {List})
    BY <1>14, <2>1 DEF Throws, Way
  <2> QED
    BY <2>2
<1>16. CASE Send /\ pc' = "idle"
  <2>1. Throws({}, Own) /\ pc = "items" /\ call.fn = Sets
    BY <1>16 DEF Send, Goes
  <2>2. Way("thrown", Absent, {}, Own)
    BY <1>14, <2>1 DEF Throws, Way
  <2> QED
    BY <2>2
<1>17. CASE SetBatch
  <2>1. Way("returned", Absent, {}, Own)
    BY <1>17, HeapAt DEF SetBatch, Returns, Way
  <2> QED
    BY <2>1
<1>18. CASE SetBatchFails
  <2>1. Way("thrown", Absent, {}, Own)
    BY <1>18, HeapAt DEF SetBatchFails, Throws, Way
  <2> QED
    BY <2>1
<1> QED
  BY <1>1, <1>2, <1>3, <1>5, <1>6, <1>7, <1>8, <1>9, <1>10, <1>11, <1>12, <1>13, <1>15, <1>16,
     <1>17, <1>18

\* A call begins.
LEMMA BeginStep ==
    ASSUME IInv, NEW f \in Functions, Begin(f), dm' \in Models, rows' \subseteq Ids
    PROVE  IInv'
<1>1. PICK n \in Names(f), s \in Arrays(f), v \in (IF f = "setStr" THEN Values ELSE {Absent}) :
        call' = [fn |-> f, name |-> n, val |-> v, items |-> s]
  BY DEF Begin
<1>2. /\ pc' = "discover" /\ heap' = (IF f = "setStr" THEN {Value} ELSE {})
      /\ built' = 0 /\ noMemory' = FALSE /\ outcome' = "none" /\ UNCHANGED <<typed, wrongFree>>
  BY DEF Begin
<1>3. call'.fn = f
  BY <1>1
<1>4. /\ call' \in Calls /\ Len(call'.items) <= MaxItems
      /\ call'.fn = Sets => call'.items \in Seq(Items \union {Absent})
  BY <1>1, BeginCall
<1>5. TypeOK'
  <2>1. heap' \subseteq Blocks
    BY <1>2, BlockFacts
  <2>2. 0 \in 0 .. MaxItems
    OBVIOUS
  <2> QED
    BY <1>2, <1>3, <2>1, <2>2 DEF IInv, TypeOK, Models, PCs
<1>6. CallSound'
  BY <1>2, <1>4 DEF CallSound
<1>7. HeapSound'
  BY <1>2, <1>3 DEF IInv, HeapSound, BlocksFreed
<1> QED
  BY <1>5, <1>6, <1>7 DEF IInv

\* Arguments are refused.
LEMMA RejectedStep ==
    ASSUME IInv, NEW f \in Functions, Rejected(f), dm' \in Models, rows' \subseteq Ids
    PROVE  IInv'
<1>1. /\ pc = "idle" /\ pc' = "idle" /\ outcome' = "thrown" /\ heap' = {} /\ built' = 0
      /\ noMemory' = FALSE /\ UNCHANGED <<typed, wrongFree>> /\ call' = [NoCall EXCEPT !.fn = f]
  BY DEF Rejected
<1>2. call' \in Calls /\ call'.fn = f /\ call'.items = <<>>
  BY <1>1, NoArguments
<1>3. TypeOK'
  <2>1. 0 \in 0 .. MaxItems
    OBVIOUS
  <2> QED
    BY <1>1, <1>2, <2>1 DEF IInv, TypeOK, Models, PCs
<1>4. CallSound'
  <2>1. <<>> \in Seq(Items \union {Absent}) /\ Len(<<>>) = 0 /\ 0 <= MaxItems
    BY EmptySeq
  <2> QED
    BY <1>1, <1>2, <2>1 DEF CallSound
<1>5. HeapSound'
  BY <1>1 DEF IInv, HeapSound, BlocksFreed
<1> QED
  BY <1>3, <1>4, <1>5 DEF IInv

\* A call goes on.
LEMMA GoSteps ==
    ASSUME IInv, dm' \in Models, rows' \subseteq Ids,
           \/ Discover \/ ReadBeforeSet \/ AllocList \/ Collect \/ CopyItem \/ ItemCrashes
           \/ (Send /\ pc' # "idle")
    PROVE  IInv'
<1>0. TypeOK /\ CallSound /\ HeapSound
  BY DEF IInv
<1>1. CASE Discover
  <2>1. /\ pc = "discover" /\ pc' = AfterDiscovery(call.fn) /\ heap' = heap \union Dest
        /\ UNCHANGED <<call, wrongFree, outcome, built, noMemory, typed>>
    BY <1>1 DEF Discover, Goes
  <2>2. /\ pc' \in {"read", "list", "call"} /\ (pc' = "read" <=> call.fn = "setStr")
        /\ (pc' = "list" <=> call.fn \in {Gets, Sets})
    BY <2>1 DEF AfterDiscovery, Gets, Sets
  <2>3. TypeOK'
    BY <1>0, <2>1, <2>2, BlockFacts DEF TypeOK, Models, PCs
  <2>4. CallSound'
    BY <1>0, <2>1, <2>2 DEF CallSound
  <2>5. HeapSound'
    BY <1>0, <2>1, <2>2 DEF HeapSound, BlocksFreed, Gets
  <2> QED
    BY <2>3, <2>4, <2>5 DEF IInv
<1>2. CASE ReadBeforeSet
  <2>1. /\ pc = "read" /\ pc' = "set" /\ heap' = heap \union {Reply}
        /\ UNCHANGED <<call, wrongFree, outcome, built, noMemory>>
        /\ Found = {call.name} /\ typed' = dm[call.name].type
    BY <1>2 DEF ReadBeforeSet, Goes
  <2>2. call.name \in Keys /\ typed' \in DOMAIN Stored
    <3>1. Found = Below(call.name)
      BY <1>0, <2>1 DEF Found, CallSound, Gets
    <3>2. call.name \in Keys /\ dm[call.name] # Absent
      BY <2>1, <3>1 DEF Below
    <3>3. dm[call.name] \in Cells
      BY <1>0, <3>2 DEF TypeOK
    <3>4. DOMAIN Stored = {"string", "bool"}
      BY DEF Stored
    <3> QED
      BY <2>1, <3>2, <3>3, <3>4, CellTypes
  <2>3. TypeOK'
    BY <1>0, <2>1, <2>2, BlockFacts DEF TypeOK, Models, PCs
  <2>4. CallSound'
    BY <1>0, <2>1, <2>2 DEF CallSound
  <2>5. HeapSound'
    BY <1>0, <2>1 DEF HeapSound, BlocksFreed
  <2> QED
    BY <2>3, <2>4, <2>5 DEF IInv
<1>3. CASE AllocList
  <2>1. /\ pc = "list" /\ pc' = "items" /\ heap' = heap \union {List} /\ heap = Dest
        /\ UNCHANGED <<call, wrongFree, outcome, built, noMemory, typed>> /\ call.fn \in {Gets, Sets}
    BY <1>0, <1>3 DEF AllocList, Goes, HeapSound, CallSound
  <2>2. TypeOK'
    BY <1>0, <2>1, BlockFacts DEF TypeOK, Models, PCs
  <2>3. built = 0 /\ CopiesOf(built) = {}
    BY <1>0, <2>1, BlockFacts DEF CallSound
  <2>4. Len(call.items) \in Nat
    <3>1. call.items \in Seq(Items \union Keys \union Objects \union {Absent})
      BY <1>0 DEF CallSound, Calls
    <3> QED
      BY <3>1, LenProperties
  <2>5. CallSound'
    BY <1>0, <2>1, <2>3, <2>4 DEF CallSound
  <2>6. HeapSound'
    <3>1. CopiesOf(built)' = {}
      BY <2>1, <2>3 DEF CopiesOf
    <3> QED
      BY <1>0, <2>1, <3>1 DEF HeapSound, BlocksFreed
  <2> QED
    BY <2>2, <2>5, <2>6 DEF IInv
<1>4. CASE Collect
  <2>1. /\ pc = "items" /\ call.fn = Gets /\ pc' = "call" /\ heap' = heap \union {}
        /\ UNCHANGED <<call, wrongFree, outcome, built, noMemory, typed>>
    BY <1>4 DEF Collect, Goes
  <2>2. heap = Dest \union {List} /\ heap' = heap
    <3>1. built = 0 /\ CopiesOf(built) = {}
      BY <1>0, <2>1, BlockFacts DEF CallSound
    <3> QED
      BY <1>0, <2>1, <3>1 DEF HeapSound
  <2>3. TypeOK'
    BY <1>0, <2>1, <2>2 DEF TypeOK, Models, PCs
  <2>4. CallSound'
    BY <1>0, <2>1 DEF CallSound, Gets, Sets
  <2>5. HeapSound'
    BY <1>0, <2>1, <2>2 DEF HeapSound, BlocksFreed
  <2> QED
    BY <2>3, <2>4, <2>5 DEF IInv
<1>5. CASE CopyItem
  <2>1. /\ pc = "items" /\ pc' = "items" /\ built < Len(call.items)
        /\ call.items[built + 1] # Absent /\ built' = built + 1 /\ call.fn = Sets
        /\ UNCHANGED <<call, wrongFree, outcome, typed>>
        /\ \/ heap' = heap \union {<<"copy", built + 1>>} /\ noMemory' = noMemory
           \/ heap' = heap \union {} /\ noMemory' = TRUE
    BY <1>5 DEF CopyItem, Goes
  <2>2. /\ built \in Nat /\ built' \in Nat /\ Len(call.items) \in Nat
        /\ built' <= Len(call.items) /\ built' <= MaxItems
    <3>1. call.items \in Seq(Items \union {Absent})
      BY <1>0, <2>1 DEF CallSound
    <3>2. Len(call.items) \in Nat
      BY <3>1, LenProperties
    <3> QED
      BY <1>0, <2>1, <3>2 DEF TypeOK, CallSound
  <2>3. CopiesOf(built') = CopiesOf(built) \union {<<"copy", built + 1>>} /\ CopiesOf(built') \subseteq Copies
    BY <2>1, <2>2, BlockFacts
  <2>4. TypeOK'
    <3>1. heap' \subseteq Blocks
      BY <1>0, <2>1, <2>3, BlockFacts DEF TypeOK
    <3>2. noMemory' \in BOOLEAN /\ built' \in 0 .. MaxItems
      <4>1. noMemory \in BOOLEAN
        BY <1>0 DEF TypeOK
      <4>2. noMemory' \in BOOLEAN
        BY <2>1, <4>1
      <4> QED
        BY <2>2, <4>2
    <3> QED
      BY <1>0, <2>1, <3>1, <3>2 DEF TypeOK, Models, PCs
  <2>5. CallSound'
    <3>1. \A i \in 1 .. built' : i \in 1 .. built \/ i = built + 1
      BY <2>1, <2>2
    <3> QED
      BY <1>0, <2>1, <2>2, <3>1 DEF CallSound, Gets, Sets
  <2>6. HeapSound'
    <3>1. /\ Dest \union {List} \subseteq heap'
          /\ heap' \subseteq Dest \union {List} \union CopiesOf(built')
      BY <1>0, <2>1, <2>3 DEF HeapSound
    <3>2. ~noMemory' => CopiesOf(built') \subseteq heap'
      BY <1>0, <2>1, <2>3 DEF HeapSound
    <3>3. CopiesOf(built)' = CopiesOf(built')
      BY DEF CopiesOf
    <3> QED
      BY <1>0, <2>1, <3>1, <3>2, <3>3 DEF HeapSound, BlocksFreed
  <2> QED
    BY <2>4, <2>5, <2>6 DEF IInv
<1>6. CASE Send /\ pc' # "idle"
  <2>1. /\ pc = "items" /\ pc' = "send" /\ built = Len(call.items) /\ ~noMemory
        /\ heap' = heap \union {} /\ call.fn = Sets
        /\ UNCHANGED <<call, wrongFree, outcome, built, noMemory, typed>>
    BY <1>6 DEF Send, Goes, Throws, Ends
  <2>2. heap' = heap
    BY <2>1
  <2>3. TypeOK'
    BY <1>0, <2>1, <2>2 DEF TypeOK, Models, PCs
  <2>4. CallSound'
    BY <1>0, <2>1 DEF CallSound
  <2>5. HeapSound'
    BY <1>0, <2>1, <2>2 DEF HeapSound, BlocksFreed, CopiesOf
  <2> QED
    BY <2>3, <2>4, <2>5 DEF IInv
<1>7. CASE ItemCrashes
  <2>1. /\ pc' = "dead" /\ outcome' = "crashed" /\ heap' = {}
        /\ UNCHANGED <<call, built, noMemory, typed, wrongFree>>
    BY <1>7 DEF ItemCrashes
  <2>2. TypeOK'
    BY <1>0, <2>1 DEF TypeOK, Models, PCs
  <2>3. CallSound'
    BY <1>0, <2>1 DEF CallSound
  <2>4. HeapSound'
    BY <1>0, <2>1 DEF HeapSound, BlocksFreed
  <2> QED
    BY <2>2, <2>3, <2>4 DEF IInv
<1> QED
  BY <1>1, <1>2, <1>3, <1>4, <1>5, <1>6, <1>7

\* A step of another client, or none, does not touch a call.
LEMMA OtherSteps ==
    ASSUME IInv, dm' \in Models, rows' \subseteq Ids,
           UNCHANGED <<pc, call, built, noMemory, typed, heap, wrongFree, outcome, result>>
    PROVE  IInv'
<1>1. TypeOK'
  BY DEF IInv, TypeOK, Models
<1>2. CallSound'
  BY DEF IInv, CallSound
<1>3. HeapSound'
  BY DEF IInv, HeapSound, BlocksFreed, Left, CopiesOf
<1> QED
  BY <1>1, <1>2, <1>3 DEF IInv

\* The initial states.
LEMMA InitIInv == Init => IInv
<1> SUFFICES ASSUME Init PROVE IInv
  OBVIOUS
<1>1. /\ pc = "idle" /\ call = NoCall /\ built = 0 /\ noMemory = FALSE
      /\ heap = {} /\ wrongFree = FALSE /\ outcome = "none" /\ typed = Absent
  BY DEF Init
<1>2. call.fn = "none" /\ call.items = <<>> /\ call \in Calls
  <2> DEFINE All == Items \union Keys \union Objects \union {Absent}
  <2>1. <<>> \in Seq(All)
    BY EmptySeq
  <2> HIDE DEF All
  <2>2. NoCall \in [fn : Functions \union {"none"}, name : Keys \union Objects \union {Absent},
                    val : Values \union {Absent}, items : Seq(All)]
    BY <2>1 DEF NoCall
  <2>3. NoCall.fn = "none" /\ NoCall.items = <<>>
    BY DEF NoCall
  <2> QED
    BY <1>1, <2>2, <2>3 DEF Calls, All
<1>3. TypeOK
  <2>1. 0 \in 0 .. MaxItems
    OBVIOUS
  <2> QED
    BY <1>1, <1>2, <2>1 DEF Init, TypeOK, PCs
<1>4. CallSound
  <2>1. Len(<<>>) = 0 /\ 0 <= MaxItems
    BY EmptySeq
  <2> QED
    BY <1>1, <1>2, <2>1 DEF CallSound, Sets
<1>5. HeapSound
  BY <1>1 DEF HeapSound, BlocksFreed
<1> QED
  BY <1>3, <1>4, <1>5 DEF IInv

\* Every step keeps the invariant.
LEMMA NextIInv == IInv /\ [Next]_vars => IInv'
<1> SUFFICES ASSUME IInv, [Next]_vars PROVE IInv'
  OBVIOUS
<1>1. dm' \in Models /\ rows' \subseteq Ids
  BY NextModel
<1>2. CASE \E f \in Functions : Begin(f) \/ Rejected(f)
  BY <1>1, <1>2, BeginStep, RejectedStep
<1>3. CASE OtherClient \/ UNCHANGED vars
  BY <1>1, <1>3, OtherSteps DEF OtherClient, vars
<1>4. CASE \/ DiscoverFails \/ CallFails \/ AnswerThrows \/ GetStr \/ InstanceIds
           \/ AddTblObj \/ DelTblObj \/ Mismatch \/ ReadFails \/ SetOne \/ SetFails
           \/ AllocListFails \/ ItemThrows \/ GetStrs \/ BadItem
           \/ (Send /\ pc' = "idle") \/ SetBatch \/ SetBatchFails
  BY <1>1, <1>4, EndSteps
<1>5. CASE \/ Discover \/ ReadBeforeSet \/ AllocList \/ Collect \/ CopyItem \/ ItemCrashes
           \/ (Send /\ pc' # "idle")
  BY <1>1, <1>5, GoSteps
<1> QED
  BY <1>2, <1>3, <1>4, <1>5 DEF Next

-----------------------------------------------------------------------------
(* The theorems *)

\* IInv is an invariant.
LEMMA Inductive == Spec => []IInv
BY InitIInv, NextIInv, PTL DEF Spec

\* Every variable keeps its type; the data model only ever holds well-formed values,
\* whatever form of a boolean the script gave and however many items it set at once.
THEOREM TypesKept == Spec => []TypeOK
<1>1. IInv => TypeOK
  BY DEF IInv
<1> QED
  BY <1>1, Inductive, PTL

\* On every way out of every function of Cosa what has to be freed is freed, once.
THEOREM BlocksAreSound == Spec => []BlocksSound
<1>1. IInv => BlocksSound
  BY DEF IInv, HeapSound, BlocksSound, FreesOnce
<1> QED
  BY <1>1, Inductive, PTL

\* A batch that is set is set as a whole: every key has the value given last for it,
\* nothing else has changed and no copy was missing.
THEOREM BatchIsApplied == Spec => BatchIsWhole
<1> DEFINE Whole ==
        pc = "send" /\ outcome' = "returned" =>
            /\ heap \cap Copies = {<<"copy", i>> : i \in DOMAIN call.items}
            /\ \A k \in Keys :
                  IF Given(k) = {}
                  THEN dm'[k] = dm[k]
                  ELSE \E i \in Given(k) :
                          /\ \A j \in Given(k) : j <= i
                          /\ dm'[k] = Sent(call.items[i])
<1>1. IInv /\ [Next]_vars => [Whole]_vars
  <2> SUFFICES ASSUME IInv, [Next]_vars, pc = "send", outcome' = "returned" PROVE Whole
    OBVIOUS
  <2>0. TypeOK /\ CallSound /\ HeapSound /\ outcome = "none"
    BY DEF IInv, HeapSound
  <2>1. SetBatch
    BY <2>0 DEF Next, vars, Begin, Rejected, Discover, DiscoverFails, CallFails, AnswerThrows,
                ItemThrows, Collect, NextIsBad, ItemCrashes, Escapes, Returns, GetStr, InstanceIds,
                AddTblObj, DelTblObj, ReadBeforeSet, Mismatch, ReadFails, SetOne, SetFails,
                AllocList, AllocListFails, GetStrs, CopyItem, BadItem, Send, SetBatchFails,
                OtherClient, Throws, Ends, Gets, Sets
  <2>2. /\ call.items \in Seq(Items \union {Absent}) /\ built = Len(call.items)
        /\ DOMAIN call.items = 1 .. built /\ built \in Nat /\ built <= MaxItems
    <3>1. call.items \in Seq(Items \union {Absent}) /\ built = Len(call.items)
      BY <2>0 DEF CallSound
    <3>2. DOMAIN call.items = 1 .. built
      BY <3>1, LenProperties
    <3> QED
      BY <2>0, <3>1, <3>2 DEF TypeOK
  <2>3. heap \cap Copies = {<<"copy", i>> : i \in DOMAIN call.items}
    <3>1. /\ heap \subseteq Dest \union {List} \union CopiesOf(built) /\ CopiesOf(built) \subseteq heap
          /\ CopiesOf(built) \subseteq Copies
      BY <2>0, <2>2, BlockFacts DEF HeapSound, CallSound
    <3>2. heap \cap Copies = CopiesOf(built)
      BY <3>1, BlockFacts
    <3> QED
      BY <2>2, <3>2 DEF CopiesOf
  <2>4. /\ Batch \in Seq(Entries) /\ Len(Batch) = built /\ dm \in Models
        /\ \A i \in 1 .. built : Batch[i].key = call.items[i].key /\ Batch[i].cell = Sent(call.items[i])
    BY <2>0, BatchTyped DEF TypeOK, Models
  <2>5. \A k \in Keys : LastOf(dm, Batch, built, k, dm'[k])
    BY <2>1, <2>4, AppliedLast DEF SetBatch
  <2>6. ASSUME NEW k \in Keys
        PROVE  IF Given(k) = {}
               THEN dm'[k] = dm[k]
               ELSE \E i \in Given(k) : /\ \A j \in Given(k) : j <= i
                                        /\ dm'[k] = Sent(call.items[i])
    <3>1. Given(k) = {i \in 1 .. built : call.items[i].key = k}
      BY <2>2 DEF Given
    <3>2. Given(k) = {i \in 1 .. built : Batch[i].key = k}
      BY <2>4, <3>1
    <3>3. CASE \A i \in 1 .. built : Batch[i].key # k
      BY <2>5, <3>2, <3>3 DEF LastOf
    <3>4. CASE ~ \A i \in 1 .. built : Batch[i].key # k
      <4> PICK i \in 1 .. built : /\ Batch[i].key = k /\ dm'[k] = Batch[i].cell
                                  /\ \A j \in 1 .. built : Batch[j].key = k => j <= i
        BY <2>5, <3>4, Zenon DEF LastOf
      <4>1. i \in Given(k) /\ \A j \in Given(k) : j <= i
        BY <3>2
      <4>2. dm'[k] = Sent(call.items[i])
        BY <2>4
      <4> QED
        BY <4>1, <4>2
    <3> QED
      BY <3>3, <3>4
  <2> QED
    BY <2>3, <2>6
<1> QED
  BY <1>1, Inductive, PTL DEF Spec, BatchIsWhole

\* The rows of the table are what is returned: always in an array, and in a string if
\* the list of them fits in the buffer.
THEOREM InstancesAreListed == Spec => InstancesListed
<1>1. IInv /\ [Next]_vars =>
        [outcome = "none" /\ outcome' = "returned" =>
            /\ call.fn = "DmExtGetInstanceIds" => result' = rows
            /\ call.fn = "getInstanceIds" /\ Length < BufferSize => result' = rows]_vars
  <2> SUFFICES ASSUME IInv, [Next]_vars, outcome = "none", outcome' = "returned",
                      call.fn \in {"DmExtGetInstanceIds", "getInstanceIds"},
                      call.fn = "getInstanceIds" => Length < BufferSize
               PROVE  result' = rows
    OBVIOUS
  <2>0. CallSound /\ rows \subseteq Ids
    BY DEF IInv, TypeOK
  <2>1. InstanceIds
    BY <2>0 DEF Next, vars, Begin, Rejected, Discover, DiscoverFails, CallFails, AnswerThrows,
                ItemThrows, Collect, NextIsBad, ItemCrashes, Escapes, Returns, GetStr, InstanceIds,
                AddTblObj, DelTblObj, ReadBeforeSet, Mismatch, ReadFails, SetOne, SetFails,
                AllocList, AllocListFails, GetStrs, CopyItem, BadItem, Send, SetBatch,
                SetBatchFails, OtherClient, Goes, Throws, Ends, CallSound, Sets, Gets
  <2>2. CASE call.fn = "DmExtGetInstanceIds"
    BY <2>1, <2>2 DEF InstanceIds, Returns, Ends
  <2>3. CASE call.fn = "getInstanceIds"
    <3>1. result' = Listed(Ascending(rows))
      BY <2>1, <2>3 DEF InstanceIds, Returns, Throws, Ends
    <3> QED
      BY <2>0, <2>3, <3>1, ListedAll
  <2> QED
    BY <2>2, <2>3
<1> QED
  BY <1>1, Inductive, PTL DEF Spec, InstancesListed
=============================================================================
