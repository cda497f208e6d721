------------------------ MODULE RequestObjectProofs -------------------------
(***************************************************************************)
(* What RequestObject promises, proved for every number of parameters,     *)
(* names and properties, however they are mixed, and every room on the     *)
(* stack: the objects of uploads never get mixed up.                       *)
(***************************************************************************)
EXTENDS RequestObject, SequenceTheorems, TLAPS

USE ParamsAssumption, BoundsAssumption

\* Parameters already looked at.
Seen == 1 .. next - 1

\* Those of them that gave property p of the upload n, and those that gave n as a string.
Gave(n, p) == Given(n, p) \intersect Seen
Said(n)    == Strings(n) \intersect Seen

\* Uploads that have an object on the stack.
Listed == {files[f].name : f \in DOMAIN files}

-----------------------------------------------------------------------------
(* The inductive invariant *)

\* A parameter is looked at once, and left out only when it was looked at.
Typed ==
    /\ TypeOK
    /\ params \in [1 .. Len(params) -> Params] /\ Len(params) \in 0 .. MaxParams
    /\ next <= Len(params) + 1 /\ skipped \subseteq Seen
    /\ pc \in {"attach", "body", "done"} => next = Len(params) + 1

\* The list and the stack have the same objects in opposite order.
InStep ==
    /\ Len(files) = Len(stack) /\ blocks = 2 * Len(files)
    /\ \A f \in DOMAIN files : files[f].idx = Len(files) - f + 1
    /\ \A f, g \in DOMAIN files : files[f].name = files[g].name => f = g
    /\ pc \in {"body", "done"} => files = <<>>

\* An object has the properties its name was given, and there is one for each name that
\* was given any, until they are attached.
ObjectsExact ==
    /\ \A f \in DOMAIN files : \A p \in Props :
        stack[files[f].idx][p] = Last(Gave(files[f].name, p))
    /\ \A n \in Listed : \E p \in Props : Gave(n, p) # {}
    /\ pc = "params" => \A n \in Names \ Listed : \A p \in Props : Gave(n, p) = {}

\* QueryParameters has strings only, and then what a script should find for each name
\* whose object does not wait on the stack.
QuerySound ==
    /\ pc = "params" =>
        \A n \in Names : query[n] = IF Said(n) = {} THEN Absent ELSE String(Last(Said(n)))
    /\ pc \in {"attach", "body", "done"} => \A n \in Names \ Listed : query[n] = Expected(n)

IInv == Typed /\ InStep /\ ObjectsExact /\ QuerySound /\ BodyExact

-----------------------------------------------------------------------------
(* Sequences, and the last of some parameters *)

\* A function on the first n numbers is a sequence of length n.
LEMMA SequenceOf ==
    ASSUME NEW S, NEW n \in Nat, NEW s \in [1 .. n -> S]
    PROVE  s \in Seq(S) /\ Len(s) = n
<1>1. s \in Seq(S) /\ DOMAIN s = 1 .. n
  OBVIOUS
<1> QED
  BY <1>1, LenProperties

\* A number above all others of a set is the last.
LEMMA LastAdded ==
    ASSUME NEW S \in SUBSET Int, NEW k \in Int, \A i \in S : i < k
    PROVE  Last(S \union {k}) = k
<1> DEFINE T == S \union {k}
<1>1. k \in T /\ \A i \in T : k >= i
  OBVIOUS
<1>2. \A x \in T : (\A i \in T : x >= i) => x = k
  OBVIOUS
<1> HIDE DEF T
<1>3. Max(T) = k
  BY <1>1, <1>2 DEF Max
<1> QED
  BY <1>1, <1>3 DEF Last, T

\* The smaller of two numbers.
LEMMA MinOfTwo ==
    ASSUME NEW a \in Int, NEW b \in Int
    PROVE  Min({a, b}) = IF a <= b THEN a ELSE b
<1> DEFINE T == {a, b}
           m == IF a <= b THEN a ELSE b
<1>1. m \in T /\ \A i \in T : m <= i
  OBVIOUS
<1>2. \A x \in T : (\A i \in T : x <= i) => x = m
  OBVIOUS
<1> HIDE DEF T, m
<1>3. Min(T) = m
  BY <1>1, <1>2 DEF Min
<1> QED
  BY <1>3 DEF T, m

\* What a step that looks at one parameter adds to those that gave something.
LEMMA OneMore ==
    ASSUME Typed, More, Following
    PROVE  /\ Seen' = Seen \union {next} /\ next \notin Seen
           /\ \A n \in Names : Said(n)' =
                IF params[next] = [name |-> n, prop |-> NoProp] THEN Said(n) \union {next} ELSE Said(n)
           /\ skipped' = skipped => \A n \in Names, p \in Props : Gave(n, p)' =
                IF params[next] = [name |-> n, prop |-> p] THEN Gave(n, p) \union {next} ELSE Gave(n, p)
           /\ skipped' = skipped \union {next} =>
                \A n \in Names, p \in Props : Gave(n, p)' = Gave(n, p)
<1>1. next \in Nat /\ next >= 1 /\ next \in DOMAIN params /\ next' = next + 1 /\ params' = params
  BY DEF Typed, TypeOK, More, Following, inputs
<1>2. Seen' = Seen \union {next} /\ next \notin Seen
  BY <1>1 DEF Seen
<1>3. next \notin skipped
  BY <1>2 DEF Typed
<1>4. ASSUME NEW n \in Names
      PROVE  Said(n)' =
                IF params[next] = [name |-> n, prop |-> NoProp] THEN Said(n) \union {next} ELSE Said(n)
  <2> DEFINE q == [name |-> n, prop |-> NoProp]
  <2>1. Said(n)' = {i \in DOMAIN params : params[i] = q} \intersect Seen'
    BY <1>1 DEF Said, Strings
  <2>2. Said(n) = {i \in DOMAIN params : params[i] = q} \intersect Seen
    BY DEF Said, Strings
  <2> HIDE DEF q
  <2>3. Said(n)' = IF params[next] = q THEN Said(n) \union {next} ELSE Said(n)
    BY <1>1, <1>2, <2>1, <2>2
  <2> QED
    BY <2>3 DEF q
<1>5. ASSUME NEW n \in Names, NEW p \in Props
      PROVE  /\ skipped' = skipped => Gave(n, p)' =
                IF params[next] = [name |-> n, prop |-> p] THEN Gave(n, p) \union {next} ELSE Gave(n, p)
             /\ skipped' = skipped \union {next} => Gave(n, p)' = Gave(n, p)
  <2> DEFINE q == [name |-> n, prop |-> p]
  <2>1. Gave(n, p)' = {i \in DOMAIN params \ skipped' : params[i] = q} \intersect Seen'
    BY <1>1 DEF Gave, Given
  <2>2. Gave(n, p) = {i \in DOMAIN params \ skipped : params[i] = q} \intersect Seen
    BY DEF Gave, Given
  <2> HIDE DEF q
  <2>3. /\ skipped' = skipped =>
             Gave(n, p)' = IF params[next] = q THEN Gave(n, p) \union {next} ELSE Gave(n, p)
        /\ skipped' = skipped \union {next} => Gave(n, p)' = Gave(n, p)
    BY <1>1, <1>2, <1>3, <2>1, <2>2
  <2> QED
    BY <2>3 DEF q
<1> QED
  BY <1>2, <1>4, <1>5

\* The parameter just looked at is the last of those that gave what it gives.
LEMMA NewestIsLast ==
    ASSUME Typed, More
    PROVE  /\ \A n \in Names, p \in Props : Last(Gave(n, p) \union {next}) = next
           /\ \A n \in Names : Last(Said(n) \union {next}) = next
<1>1. next \in Int /\ Seen \subseteq Int /\ \A i \in Seen : i < next
  BY DEF Typed, TypeOK, Seen
<1>2. ASSUME NEW S \in SUBSET Seen PROVE Last(S \union {next}) = next
  BY <1>1, LastAdded
<1> QED
  BY <1>2 DEF Gave, Said

-----------------------------------------------------------------------------
(* Types *)

\* An object with one property, and one with a property changed.
LEMMA PropertySet ==
    ASSUME NEW o \in [Props -> 0 .. MaxParams], NEW p \in Props, NEW i \in 0 .. MaxParams
    PROVE  /\ [o EXCEPT ![p] = i] \in [Props -> 0 .. MaxParams]
           /\ NoUpload \in [Props -> 0 .. MaxParams]
           /\ [NoUpload EXCEPT ![p] = i] \in [Props -> 0 .. MaxParams]
BY DEF NoUpload

\* What a name of QueryParameters may stand for.
LEMMA ValueTypes ==
    /\ Absent \in Values
    /\ \A i \in 0 .. MaxParams : String(i) \in Values
    /\ \A o \in [Props -> 0 .. MaxParams] : Upload(o) \in Values
<1>1. NoUpload \in [Props -> 0 .. MaxParams] /\ 0 \in 0 .. MaxParams
  BY DEF NoUpload
<1>2. Absent \in Values
  BY <1>1 DEF Absent, Values
<1>3. ASSUME NEW i \in 0 .. MaxParams PROVE String(i) \in Values
  BY <1>1, <1>3 DEF String, Values
<1>4. ASSUME NEW o \in [Props -> 0 .. MaxParams] PROVE Upload(o) \in Values
  BY <1>1, <1>4 DEF Upload, Values
<1> QED
  BY <1>2, <1>3, <1>4

\* The entries of the list and the objects of the stack.
LEMMA ListTypes ==
    ASSUME Typed
    PROVE  /\ DOMAIN files = 1 .. Len(files) /\ Len(files) \in Nat
           /\ \A f \in DOMAIN files : files[f] \in [name : Names, idx : 1 .. Room]
           /\ \A f \in DOMAIN files : files[f].name \in Names /\ files[f].idx \in 1 .. Room
           /\ Listed \subseteq Names
           /\ DOMAIN stack = 1 .. Len(stack) /\ Len(stack) \in 0 .. Room
           /\ \A i \in 1 .. Len(stack) : stack[i] \in [Props -> 0 .. MaxParams]
<1>1. files \in Seq([name : Names, idx : 1 .. Room]) /\ stack \in Seq([Props -> 0 .. MaxParams])
      /\ Len(stack) <= Room
  BY DEF Typed, TypeOK
<1>2. DOMAIN files = 1 .. Len(files) /\ Len(files) \in Nat
      /\ DOMAIN stack = 1 .. Len(stack) /\ Len(stack) \in Nat
  BY <1>1, LenProperties
<1>3. \A f \in DOMAIN files : files[f] \in [name : Names, idx : 1 .. Room]
  BY <1>1, <1>2, ElementOfSeq
<1>4. \A f \in DOMAIN files : files[f].name \in Names /\ files[f].idx \in 1 .. Room
  BY <1>3
<1>5. \A i \in 1 .. Len(stack) : stack[i] \in [Props -> 0 .. MaxParams]
  BY <1>1, ElementOfSeq
<1> QED
  BY <1>1, <1>2, <1>3, <1>4, <1>5 DEF Listed

\* The initial states.
LEMMA InitIInv == Init => IInv
<1> SUFFICES ASSUME Init PROVE IInv
  OBVIOUS
<1>1. PICK n \in 0 .. MaxParams : params \in [1 .. n -> Params]
  BY DEF Init
<1>2. Len(params) = n
  <2>1. params \in Seq(Params) /\ DOMAIN params = 1 .. n
    BY <1>1
  <2> QED
    BY <2>1, LenProperties
<1>3. files \in Seq([name : Names, idx : 1 .. Room]) /\ stack \in Seq([Props -> 0 .. MaxParams])
      /\ Len(files) = 0 /\ Len(stack) = 0 /\ DOMAIN files = {}
  BY DEF Init
<1>4. query \in [Names -> Values]
  BY ValueTypes DEF Init
<1>5. Typed
  <2>1. 0 <= Room /\ 0 <= MaxBody /\ next = 1
    BY DEF Init
  <2> QED
    BY <1>1, <1>2, <1>3, <1>4, <2>1 DEF Init, Typed, TypeOK, Seen
<1>6. InStep
  BY <1>3 DEF Init, InStep
<1>7. Seen = {} /\ \A m \in Names : Said(m) = {} /\ \A p \in Props : Gave(m, p) = {}
  BY DEF Init, Seen, Said, Gave
<1>8. ObjectsExact /\ QuerySound /\ BodyExact
  BY <1>3, <1>7 DEF Init, ObjectsExact, QuerySound, BodyExact, Listed
<1> QED
  BY <1>5, <1>6, <1>8 DEF IInv

\* The parameter looked at.
LEMMA ParamType ==
    ASSUME Typed, More
    PROVE  /\ next \in 1 .. MaxParams /\ next + 1 \in 1 .. MaxParams + 1 /\ next < Len(params) + 1
           /\ Param \in Params /\ Param.name \in Names
           /\ IsUpload => Param.prop \in Props
           /\ \A n \in Names, p \in Props \union {NoProp} :
                params[next] = [name |-> n, prop |-> p] <=> Param.name = n /\ Param.prop = p
<1>1. next \in 1 .. MaxParams /\ next + 1 \in 1 .. MaxParams + 1 /\ next < Len(params) + 1
  BY DEF Typed, TypeOK, More
<1>2. Param \in Params
  BY <1>1 DEF Typed, More, Param
<1>3. Param.name \in Names /\ Param.prop \in Props \union {NoProp}
  BY <1>2 DEF Params
<1>4. \A n \in Names, p \in Props \union {NoProp} :
        params[next] = [name |-> n, prop |-> p] <=> Param.name = n /\ Param.prop = p
  BY <1>2 DEF Params, Param
<1> QED
  BY <1>1, <1>2, <1>3, <1>4 DEF IsUpload

\* Looking at a parameter keeps what Typed has besides the types.
LEMMA FollowingTyped ==
    ASSUME Typed, More, Following, TypeOK',
           skipped' = skipped \/ skipped' = skipped \union {next}
    PROVE  Typed'
<1>1. params' = params /\ pc' = pc /\ next' = next + 1
  BY DEF Following, inputs
<1>2. Seen' = Seen \union {next}
  BY OneMore
<1>3. next' <= Len(params') + 1
  BY <1>1, ParamType DEF More, Typed
<1> QED
  BY <1>1, <1>2, <1>3 DEF Typed, More

-----------------------------------------------------------------------------
(* The steps *)

\* A string leaves the uploads alone.
LEMMA StringStep ==
    ASSUME IInv, AddString
    PROVE  IInv'
<1>0. Typed /\ More /\ Following /\ UNCHANGED <<files, stack, blocks, skipped, body, request>>
  BY DEF IInv, AddString, Following, inputs
<1> PICK n \in Names : n = Param.name
  BY <1>0, ParamType
<1>1. Param.prop = NoProp /\ pc = "params" /\ pc' = "params"
  BY <1>0, ParamType DEF AddString, IsUpload, More, Following
<1>2. query' = [query EXCEPT ![n] = String(next)] /\ query \in [Names -> Values]
  BY <1>0 DEF AddString, Typed, TypeOK
<1>3. /\ Said(n)' = Said(n) \union {next} /\ Last(Said(n) \union {next}) = next
      /\ \A m \in Names \ {n} : Said(m)' = Said(m)
      /\ \A m \in Names, p \in Props : Gave(m, p)' = Gave(m, p)
  <2>1. \A m \in Names : params[next] = [name |-> m, prop |-> NoProp] <=> m = n
    BY <1>0, <1>1, ParamType
  <2>2. \A m \in Names, p \in Props : params[next] # [name |-> m, prop |-> p]
    BY <1>0, <1>1, ParamType
  <2>3. \A m \in Names : Said(m)' = IF m = n THEN Said(m) \union {next} ELSE Said(m)
    BY <1>0, <2>1, OneMore
  <2>4. \A m \in Names, p \in Props : Gave(m, p)' = Gave(m, p)
    BY <1>0, <2>2, OneMore
  <2> QED
    BY <1>0, <2>3, <2>4, NewestIsLast
<1>4. Typed'
  <2>1. query' \in [Names -> Values]
    BY <1>0, <1>2, ParamType, ValueTypes
  <2>2. TypeOK'
    BY <1>0, <2>1, ParamType DEF Typed, TypeOK, Following
  <2> QED
    BY <1>0, <2>2, FollowingTyped
<1>5. InStep'
  BY <1>0, <1>1 DEF IInv, InStep
<1>6. ObjectsExact'
  <2>1. Listed' = Listed /\ Listed \subseteq Names
    BY <1>0, ListTypes DEF Listed
  <2>2. \A f \in DOMAIN files : files[f].name \in Names
    BY <1>0, ListTypes
  <2> QED
    BY <1>0, <1>1, <1>3, <2>1, <2>2 DEF IInv, ObjectsExact
<1>7. QuerySound'
  <2>1. \A m \in Names : query[m] = IF Said(m) = {} THEN Absent ELSE String(Last(Said(m)))
    BY <1>1 DEF IInv, QuerySound
  <2>2. query'[n] = IF Said(n)' = {} THEN Absent ELSE String(Last(Said(n)'))
    BY <1>1, <1>2, <1>3
  <2>3. ASSUME NEW m \in Names \ {n}
        PROVE  query'[m] = IF Said(m)' = {} THEN Absent ELSE String(Last(Said(m)'))
    BY <1>2, <1>3, <2>1
  <2>4. \A m \in Names : query'[m] = IF Said(m)' = {} THEN Absent ELSE String(Last(Said(m)'))
    BY <2>2, <2>3
  <2> QED
    BY <1>1, <2>4 DEF QuerySound, Last
<1>8. BodyExact'
  BY <1>1 DEF BodyExact
<1> QED
  BY <1>4, <1>5, <1>6, <1>7, <1>8 DEF IInv

\* The object of an upload that was given a property before gets another: no other
\* object has its place on the stack.
LEMMA PropertyStep ==
    ASSUME IInv, AddProperty
    PROVE  IInv'
<1>0. Typed /\ More /\ Following /\ UNCHANGED <<files, query, blocks, skipped, body, request>>
  BY DEF IInv, AddProperty, Following, inputs
<1> PICK n \in Names, q \in Props : n = Param.name /\ q = Param.prop
  BY <1>0, ParamType DEF AddProperty
<1>11. PICK g \in DOMAIN files :
         files[g].name = n /\ stack' = [stack EXCEPT ![files[g].idx][q] = next]
  BY DEF AddProperty, Known
<1>1. pc = "params" /\ pc' = "params"
  BY <1>0 DEF More, Following
<1>2. /\ files[g].idx \in 1 .. Len(stack)
      /\ \A f \in DOMAIN files : files[f].idx \in 1 .. Len(stack)
      /\ \A f \in DOMAIN files : f # g => files[f].idx # files[g].idx /\ files[f].name # n
  BY <1>0, <1>11, ListTypes, SMTT(30) DEF IInv, InStep
<1>3. /\ \A m \in Names : Said(m)' = Said(m)
      /\ \A m \in Names, p \in Props :
            Gave(m, p)' = IF m = n /\ p = q THEN Gave(m, p) \union {next} ELSE Gave(m, p)
      /\ Last(Gave(n, q) \union {next}) = next
  <2>1. \A m \in Names : params[next] # [name |-> m, prop |-> NoProp]
    BY <1>0, ParamType
  <2>2. \A m \in Names, p \in Props : params[next] = [name |-> m, prop |-> p] <=> m = n /\ p = q
    BY <1>0, ParamType
  <2> QED
    BY <1>0, <2>1, <2>2, OneMore, NewestIsLast
<1>4. stack' = [i \in 1 .. Len(stack) |->
                  IF i = files[g].idx THEN [stack[i] EXCEPT ![q] = next] ELSE stack[i]]
  BY <1>0, <1>2, <1>11, ListTypes
<1>5. /\ stack' \in Seq([Props -> 0 .. MaxParams]) /\ Len(stack') = Len(stack)
      /\ stack'[files[g].idx] = [stack[files[g].idx] EXCEPT ![q] = next]
      /\ \A f \in DOMAIN files : f # g => stack'[files[f].idx] = stack[files[f].idx]
  <2>1. next \in 0 .. MaxParams
    BY <1>0, ParamType
  <2>2. \A i \in 1 .. Len(stack) : stack[i] \in [Props -> 0 .. MaxParams]
    BY <1>0, ListTypes
  <2>3. \A i \in 1 .. Len(stack) :
            (IF i = files[g].idx THEN [stack[i] EXCEPT ![q] = next] ELSE stack[i])
                \in [Props -> 0 .. MaxParams]
    BY <2>1, <2>2, PropertySet
  <2>4. stack' \in Seq([Props -> 0 .. MaxParams]) /\ Len(stack') = Len(stack)
    <3> DEFINE c(i) == IF i = files[g].idx THEN [stack[i] EXCEPT ![q] = next] ELSE stack[i]
               Objects == [Props -> 0 .. MaxParams]
    <3>1. Len(stack) \in Nat /\ \A i \in 1 .. Len(stack) : c(i) \in Objects
      BY <1>0, <2>3, ListTypes
    <3>2. stack' = [i \in 1 .. Len(stack) |-> c(i)]
      BY <1>4
    <3> HIDE DEF c, Objects
    <3>3. stack' \in [1 .. Len(stack) -> Objects]
      BY <3>1, <3>2
    <3>4. stack' \in Seq(Objects) /\ Len(stack') = Len(stack)
      <4>1. Len(stack) \in Nat
        BY <3>1
      <4> QED
        BY <3>3, <4>1, SequenceOf, Zenon
    <3> QED
      BY <3>4 DEF Objects
  <2>5. /\ stack'[files[g].idx] = [stack[files[g].idx] EXCEPT ![q] = next]
        /\ \A f \in DOMAIN files : f # g => stack'[files[f].idx] = stack[files[f].idx]
    BY <1>2, <1>4
  <2> QED
    BY <2>4, <2>5
<1>6. Typed'
  <2>1. stack' \in Seq([Props -> 0 .. MaxParams]) /\ Len(stack') <= Room
    BY <1>0, <1>5, ListTypes
  <2>2. TypeOK'
    BY <1>0, <1>1, <2>1, ParamType DEF Typed, TypeOK, Following
  <2> QED
    BY <1>0, <2>2, FollowingTyped
<1>7. InStep'
  BY <1>0, <1>1, <1>5 DEF IInv, InStep
<1>8. ObjectsExact'
  <2>1. Listed' = Listed /\ Listed \subseteq Names /\ n \in Listed
    BY <1>0, <1>11, ListTypes DEF Listed
  <2>2. ASSUME NEW f \in DOMAIN files, NEW m \in Names, m = files[f].name, NEW p \in Props
        PROVE  stack'[files[f].idx][p] = Last(Gave(m, p)')
    <3>1. stack[files[f].idx] \in [Props -> 0 .. MaxParams]
      BY <1>0, <1>2, ListTypes
    <3>2. stack[files[f].idx][p] = Last(Gave(m, p))
      BY <2>2 DEF IInv, ObjectsExact
    <3>3. CASE f # g
      <4>1. Gave(m, p)' = Gave(m, p) /\ stack'[files[f].idx] = stack[files[f].idx]
        BY <1>2, <1>3, <1>5, <2>2, <3>3
      <4> QED
        BY <3>2, <4>1
    <3>4. CASE f = g /\ p # q
      <4>1. Gave(m, p)' = Gave(m, p) /\ stack'[files[f].idx][p] = stack[files[f].idx][p]
        BY <1>3, <1>5, <3>1, <3>4
      <4> QED
        BY <3>2, <4>1
    <3>5. CASE f = g /\ p = q
      <4>1. Gave(m, p)' = Gave(m, p) \union {next} /\ stack'[files[f].idx][p] = next
        BY <1>3, <1>5, <1>11, <2>2, <3>1, <3>5
      <4> QED
        BY <1>3, <1>11, <2>2, <3>5, <4>1
    <3> QED
      BY <3>3, <3>4, <3>5
  <2>5. \A f \in DOMAIN files : files[f].name \in Names
    BY <1>0, ListTypes
  <2>3. \A m \in Listed : \E p \in Props : Gave(m, p)' # {}
    <3>1. ASSUME NEW m \in Listed PROVE \E p \in Props : Gave(m, p)' # {}
      <4>1. PICK p \in Props : Gave(m, p) # {}
        BY DEF IInv, ObjectsExact
      <4>2. Gave(m, p)' # {}
        BY <1>3, <2>1, <4>1
      <4> QED
        BY <4>2
    <3> QED
      BY <3>1
  <2>4. \A m \in Names \ Listed : \A p \in Props : Gave(m, p)' = {}
    BY <1>1, <1>3, <2>1 DEF IInv, ObjectsExact
  <2> QED
    BY <1>0, <2>1, <2>2, <2>3, <2>4, <2>5 DEF ObjectsExact
<1>9. QuerySound'
  BY <1>0, <1>1, <1>3 DEF IInv, QuerySound
<1>10. BodyExact'
  BY <1>1 DEF BodyExact
<1> QED
  BY <1>6, <1>7, <1>8, <1>9, <1>10 DEF IInv

\* A property that is left out changes nothing that anyone looks at again.
LEMMA SkipStep ==
    ASSUME IInv, SkipProperty
    PROVE  IInv'
<1>0. /\ Typed /\ More /\ Following /\ UNCHANGED <<files, stack, query, blocks, body, request>>
      /\ skipped' = skipped \union {next}
  BY DEF IInv, SkipProperty, Following, inputs
<1>1. pc = "params" /\ pc' = "params"
  BY <1>0 DEF More, Following
<1>2. /\ \A m \in Names : Said(m)' = Said(m)
      /\ \A m \in Names, p \in Props : Gave(m, p)' = Gave(m, p)
  <2>1. \A m \in Names : params[next] # [name |-> m, prop |-> NoProp]
    BY <1>0, ParamType DEF SkipProperty, IsUpload
  <2> QED
    BY <1>0, <2>1, OneMore
<1>3. Typed'
  <2>1. TypeOK'
    BY <1>0, ParamType DEF Typed, TypeOK, Following
  <2> QED
    BY <1>0, <2>1, FollowingTyped
<1>4. InStep'
  BY <1>0, <1>1 DEF IInv, InStep
<1>5. ObjectsExact'
  <2>1. Listed' = Listed /\ Listed \subseteq Names /\ \A f \in DOMAIN files : files[f].name \in Names
    BY <1>0, ListTypes DEF Listed
  <2> QED
    BY <1>0, <1>1, <1>2, <2>1 DEF IInv, ObjectsExact
<1>6. QuerySound'
  BY <1>0, <1>1, <1>2 DEF IInv, QuerySound
<1>7. BodyExact'
  BY <1>1 DEF BodyExact
<1> QED
  BY <1>3, <1>4, <1>5, <1>6, <1>7 DEF IInv

\* The first property of an upload: the new object is on top of the stack and first in
\* the list, so that the others keep their places.
LEMMA UploadStep ==
    ASSUME IInv, AddUpload
    PROVE  IInv'
<1>0. Typed /\ More /\ Following /\ UNCHANGED <<query, skipped, body, request>>
  BY DEF IInv, AddUpload, Following, inputs
<1> PICK n \in Names, q \in Props : n = Param.name /\ q = Param.prop
  BY <1>0, ParamType DEF AddUpload
<1> DEFINE k == Len(files)
           new == [name |-> n, idx |-> k + 1]
           obj == [NoUpload EXCEPT ![q] = next]
           Entries == [name : Names, idx : 1 .. Room]
           Objects == [Props -> 0 .. MaxParams]
<1>1. pc = "params" /\ pc' = "params"
  BY <1>0 DEF More, Following
<1>2. /\ k \in Nat /\ Len(stack) = k /\ k + 1 <= Room
      /\ DOMAIN files = 1 .. k /\ DOMAIN stack = 1 .. k
      /\ files \in Seq(Entries) /\ stack \in Seq(Objects)
  BY <1>0, ListTypes DEF IInv, InStep, AddUpload, Typed, TypeOK
<1>20. /\ \A f \in 1 .. k : files[f].idx = k - f + 1 /\ files[f].name \in Names
       /\ \A f, g \in 1 .. k : files[f].name = files[g].name => f = g
  <2>1. \A f \in 1 .. k : files[f].name \in Names
    BY <1>0, <1>2, ListTypes
  <2> QED
    BY <1>2, <2>1 DEF IInv, InStep
<1>3. new \in Entries /\ obj \in Objects /\ \A p \in Props : obj[p] = IF p = q THEN next ELSE 0
  <2>1. next \in 0 .. MaxParams
    BY <1>0, ParamType
  <2> QED
    BY <1>2, <2>1, PropertySet DEF NoUpload
<1>4. files' = <<new>> \o files /\ stack' = Append(stack, obj) /\ blocks' = blocks + 2
  BY <1>2 DEF AddUpload, Linked
<1> HIDE DEF new, obj
<1>5. /\ files' \in Seq(Entries) /\ Len(files') = k + 1 /\ DOMAIN files' = 1 .. k + 1
      /\ files'[1] = new /\ \A f \in 1 .. k : files'[f + 1] = files[f]
  <2> DEFINE one == <<new>>
             both == one \o files
  <2>1. one \in Seq(Entries) /\ Len(one) = 1 /\ one[1] = new
    BY <1>3
  <2> HIDE DEF one, Entries
  <2>2. /\ both \in Seq(Entries) /\ Len(both) = Len(one) + Len(files)
        /\ \A i \in 1 .. Len(one) + Len(files) :
             both[i] = IF i <= Len(one) THEN one[i] ELSE files[i - Len(one)]
    BY <1>2, <2>1, ConcatProperties
  <2> HIDE DEF both
  <2>3. Len(both) = k + 1 /\ both[1] = new
    BY <1>2, <2>1, <2>2
  <2>4. ASSUME NEW f \in 1 .. k PROVE both[f + 1] = files[f]
    <3>1. f + 1 \in 1 .. Len(one) + Len(files) /\ ~(f + 1 <= Len(one)) /\ (f + 1) - Len(one) = f
      BY <1>2, <2>1
    <3> QED
      BY <2>2, <3>1
  <2>5. files' = both
    BY <1>4 DEF one, both
  <2>6. DOMAIN both = 1 .. k + 1
    BY <2>2, <2>3, LenProperties
  <2> QED
    BY <2>2, <2>3, <2>4, <2>5, <2>6
<1>6. /\ stack' \in Seq(Objects) /\ Len(stack') = k + 1
      /\ stack'[k + 1] = obj /\ \A i \in 1 .. k : stack'[i] = stack[i]
  BY <1>2, <1>3, <1>4, AppendProperties
<1>7. /\ \A m \in Names : Said(m)' = Said(m)
      /\ \A m \in Names, p \in Props :
            Gave(m, p)' = IF m = n /\ p = q THEN Gave(m, p) \union {next} ELSE Gave(m, p)
      /\ Last(Gave(n, q) \union {next}) = next
  <2>1. \A m \in Names : params[next] # [name |-> m, prop |-> NoProp]
    BY <1>0, ParamType
  <2>2. \A m \in Names, p \in Props : params[next] = [name |-> m, prop |-> p] <=> m = n /\ p = q
    BY <1>0, ParamType
  <2> QED
    BY <1>0, <2>1, <2>2, OneMore, NewestIsLast
<1>8. n \notin Listed /\ \A f \in DOMAIN files : files[f].name # n
  BY DEF AddUpload, Known, Listed
<1>9. Typed'
  <2>1. blocks' \in Nat
    BY <1>0, <1>4 DEF Typed, TypeOK
  <2>2. TypeOK'
    BY <1>0, <1>1, <1>2, <1>5, <1>6, <2>1, ParamType DEF Typed, TypeOK, Following
  <2> QED
    BY <1>0, <2>2, FollowingTyped
<1>10. new.name = n /\ new.idx = k + 1
  BY DEF new
<1>11. ASSUME NEW f \in 2 .. k + 1
       PROVE  f - 1 \in 1 .. k /\ files'[f] = files[f - 1]
  <2>1. f - 1 \in 1 .. k /\ (f - 1) + 1 = f
    BY <1>2
  <2> QED
    BY <1>5, <2>1
<1>12. InStep'
  <2>1. \A f \in 1 .. k + 1 : files'[f].idx = (k + 1) - f + 1
    <3>1. ASSUME NEW f \in 2 .. k + 1 PROVE files'[f].idx = (k + 1) - f + 1
      <4> PICK g \in 1 .. k : g = f - 1 /\ files'[f] = files[g]
        BY <1>11
      <4>1. files[g].idx = k - g + 1
        BY <1>20
      <4> QED
        BY <1>2, <4>1
    <3>2. files'[1].idx = (k + 1) - 1 + 1
      BY <1>2, <1>5, <1>10
    <3> QED
      BY <1>2, <3>1, <3>2
  <2>2. ASSUME NEW f \in 1 .. k + 1, NEW g \in 1 .. k + 1, files'[f].name = files'[g].name
        PROVE  f = g
    <3>1. CASE f = 1 /\ g \in 2 .. k + 1
      BY <1>2, <1>5, <1>8, <1>10, <1>11, <2>2, <3>1
    <3>2. CASE g = 1 /\ f \in 2 .. k + 1
      BY <1>2, <1>5, <1>8, <1>10, <1>11, <2>2, <3>2
    <3>3. CASE f \in 2 .. k + 1 /\ g \in 2 .. k + 1
      <4>1. f - 1 = g - 1
        <5>1. /\ f - 1 \in 1 .. k /\ files'[f] = files[f - 1]
              /\ g - 1 \in 1 .. k /\ files'[g] = files[g - 1]
          BY <1>11, <3>3
        <5>2. files[f - 1].name = files[g - 1].name
          BY <2>2, <5>1
        <5> QED
          BY <1>20, <5>1, <5>2
      <4> QED
        BY <1>2, <4>1
    <3> QED
      BY <1>2, <3>1, <3>2, <3>3
  <2>3. blocks' = 2 * (k + 1)
    BY <1>2, <1>4 DEF IInv, InStep
  <2> QED
    BY <1>1, <1>5, <1>6, <2>1, <2>2, <2>3 DEF InStep
<1>13. ObjectsExact'
  <2>1. Listed' = Listed \union {n} /\ Listed \subseteq Names
    <3>1. ASSUME NEW m PROVE m \in Listed' <=> m \in Listed \union {n}
      <4>1. m \in Listed' <=> \E f \in 1 .. k + 1 : m = files'[f].name
        BY <1>5 DEF Listed
      <4>2. (\E f \in 1 .. k + 1 : m = files'[f].name)
                <=> m = n \/ \E f \in 2 .. k + 1 : m = files'[f].name
        <5>1. 1 \in 1 .. k + 1 /\ files'[1].name = n
          BY <1>2, <1>5, <1>10
        <5>2. \A f : f \in 1 .. k + 1 <=> f = 1 \/ f \in 2 .. k + 1
          BY <1>2
        <5> QED
          BY <5>1, <5>2
      <4>3. (\E f \in 2 .. k + 1 : m = files'[f].name) <=> \E f \in 1 .. k : m = files[f].name
        <5>1. \A f \in 1 .. k : f + 1 \in 2 .. k + 1
          BY <1>2
        <5> QED
          BY <1>5, <1>11, <5>1
      <4> QED
        BY <1>2, <4>1, <4>2, <4>3 DEF Listed
    <3> QED
      BY <1>0, <3>1, ListTypes
  <2>2. ASSUME NEW f \in 1 .. k + 1, NEW m \in Names, m = files'[f].name, NEW p \in Props
        PROVE  stack'[files'[f].idx][p] = Last(Gave(m, p)')
    <3>1. CASE f = 1
      <4>1. m = n /\ files'[f].idx = k + 1
        BY <1>5, <1>10, <2>2, <3>1
      <4>2. Gave(n, p) = {}
        BY <1>1, <1>8 DEF IInv, ObjectsExact
      <4>3. Gave(m, p)' = IF p = q THEN Gave(n, p) \union {next} ELSE Gave(n, p)
        BY <1>7, <4>1
      <4>4. Last(Gave(m, p)') = IF p = q THEN next ELSE 0
        BY <1>7, <4>2, <4>3 DEF Last
      <4> QED
        BY <1>3, <1>6, <4>1, <4>4
    <3>2. CASE f \in 2 .. k + 1
      <4> PICK g \in 1 .. k : files'[f] = files[g]
        BY <1>11, <3>2
      <4>1. m # n /\ files[g].idx \in 1 .. k
        <5>1. files[g].name # n /\ files[g].idx = k - g + 1
          BY <1>2, <1>8, <1>20
        <5>2. k - g + 1 \in 1 .. k
          BY <1>2
        <5> QED
          BY <2>2, <5>1, <5>2
      <4>2. stack[files[g].idx][p] = Last(Gave(m, p))
        BY <1>2, <2>2 DEF IInv, ObjectsExact
      <4> QED
        BY <1>6, <1>7, <4>1, <4>2
    <3> QED
      BY <1>2, <3>1, <3>2
  <2>3. \A m \in Listed' : \E p \in Props : Gave(m, p)' # {}
    <3>1. Gave(n, q)' # {}
      BY <1>7
    <3>2. ASSUME NEW m \in Listed PROVE \E p \in Props : Gave(m, p)' # {}
      <4>1. PICK p \in Props : Gave(m, p) # {}
        BY DEF IInv, ObjectsExact
      <4>2. Gave(m, p)' # {}
        BY <1>7, <2>1, <4>1
      <4> QED
        BY <4>2
    <3> QED
      BY <2>1, <3>1, <3>2
  <2>4. \A m \in Names \ Listed' : \A p \in Props : Gave(m, p)' = {}
    BY <1>1, <1>7, <2>1 DEF IInv, ObjectsExact
  <2>5. \A f \in 1 .. k + 1 : files'[f].name \in Names
    <3>1. \A f \in 2 .. k + 1 : files'[f].name \in Names
      BY <1>11, <1>20
    <3>2. files'[1].name \in Names
      BY <1>5, <1>10
    <3> QED
      BY <1>2, <3>1, <3>2
  <2> QED
    BY <1>5, <2>2, <2>3, <2>4, <2>5 DEF ObjectsExact
<1>14. QuerySound'
  BY <1>0, <1>1, <1>7 DEF IInv, QuerySound
<1>15. BodyExact'
  BY <1>1 DEF BodyExact
<1> QED
  BY <1>9, <1>12, <1>13, <1>14, <1>15 DEF IInv

\* The end of the parameters: a name that has no object was given no property.
LEMMA EndStep ==
    ASSUME IInv, EndOfParams
    PROVE  IInv'
<1>0. /\ Typed /\ UNCHANGED <<params, next, files, stack, query, blocks, skipped, body, env>>
      /\ pc = "params" /\ next > Len(params) /\ pc' = "attach"
  BY DEF IInv, EndOfParams, inputs
<1>1. next = Len(params) + 1 /\ DOMAIN params = 1 .. Len(params) /\ Seen = DOMAIN params
  BY <1>0 DEF Typed, TypeOK, Seen
<1>2. \A n \in Names : Said(n) = Strings(n) /\ \A p \in Props : Gave(n, p) = Given(n, p)
  BY <1>1 DEF Said, Gave, Strings, Given
<1>3. Typed'
  BY <1>0, <1>1 DEF Typed, TypeOK, Seen
<1>4. InStep'
  BY <1>0 DEF IInv, InStep
<1>5. ObjectsExact'
  <2>1. \A n \in Names, p \in Props : Gave(n, p)' = Gave(n, p)
    BY <1>0 DEF Gave, Given, Seen
  <2>2. Listed' = Listed /\ Listed \subseteq Names /\ \A f \in DOMAIN files : files[f].name \in Names
    BY <1>0, ListTypes DEF Listed
  <2> QED
    BY <1>0, <2>1, <2>2 DEF IInv, ObjectsExact
<1>6. QuerySound'
  <2>1. ASSUME NEW n \in Names \ Listed PROVE query[n] = Expected(n)
    <3>1. \A p \in Props : Given(n, p) = {}
      BY <1>0, <1>2 DEF IInv, ObjectsExact
    <3>2. query[n] = IF Strings(n) = {} THEN Absent ELSE String(Last(Strings(n)))
      BY <1>0, <1>2 DEF IInv, QuerySound
    <3> QED
      BY <3>1, <3>2 DEF Expected
  <2>2. \A n \in Names : Expected(n)' = Expected(n)
    BY <1>0 DEF Expected, Given, Strings
  <2>3. Listed' = Listed /\ query' = query
    BY <1>0 DEF Listed
  <2> QED
    BY <1>0, <2>1, <2>2, <2>3 DEF QuerySound
<1>7. BodyExact'
  BY <1>0 DEF BodyExact
<1> QED
  BY <1>3, <1>4, <1>5, <1>6, <1>7 DEF IInv

\* The first of the list is the object on top of the stack: it becomes what a script
\* should find under its name, and the others keep their places.
LEMMA AttachStep ==
    ASSUME IInv, Attach
    PROVE  IInv'
<1> DEFINE k == Len(files)
           Entries == [name : Names, idx : 1 .. Room]
           Objects == [Props -> 0 .. MaxParams]
<1>0. /\ Typed /\ UNCHANGED <<pc, params, next, skipped, body, request, env>> /\ files # <<>>
      /\ pc = "attach" /\ pc' = "attach"
  BY DEF IInv, Attach, inputs
<1>1. /\ k \in Nat /\ k >= 1 /\ Len(stack) = k
      /\ DOMAIN files = 1 .. k /\ DOMAIN stack = 1 .. k
      /\ files \in Seq(Entries) /\ stack \in Seq(Objects) /\ k <= Room
  <2>1. files \in Seq(Entries) /\ stack \in Seq(Objects) /\ Len(stack) = k /\ Len(stack) <= Room
    BY <1>0 DEF IInv, InStep, Typed, TypeOK
  <2>2. k \in Nat \ {0}
    BY <1>0, <2>1, EmptySeq
  <2> QED
    BY <2>1, <2>2, LenProperties
<1>2. /\ \A f \in 1 .. k : files[f].idx = k - f + 1 /\ files[f].name \in Names
      /\ \A f, g \in 1 .. k : files[f].name = files[g].name => f = g
      /\ \A i \in 1 .. k : stack[i] \in Objects
  <2>1. \A f \in 1 .. k : files[f].name \in Names
    BY <1>0, <1>1, ListTypes
  <2>2. \A i \in 1 .. k : stack[i] \in Objects
    BY <1>0, <1>1, ListTypes
  <2> QED
    BY <1>1, <2>1, <2>2 DEF IInv, InStep
<1> PICK n \in Names : n = files[1].name
  BY <1>1, <1>2
<1>3. /\ query' = [query EXCEPT ![n] = Upload(stack[k])] /\ query \in [Names -> Values]
      /\ files' = Tail(files) /\ stack' = SubSeq(stack, 1, k - 1) /\ blocks' = blocks - 2
  <2>1. Head(files) = files[1]
    BY <1>1, HeadTailProperties
  <2> QED
    BY <1>0, <1>1, <2>1 DEF Attach, Typed, TypeOK
<1>4. /\ files' \in Seq(Entries) /\ Len(files') = k - 1 /\ DOMAIN files' = 1 .. k - 1
      /\ \A f \in 1 .. k - 1 : f + 1 \in 1 .. k /\ files'[f] = files[f + 1]
  <2> HIDE DEF Entries
  <2>1. /\ Tail(files) \in Seq(Entries) /\ Len(Tail(files)) = k - 1
        /\ \A f \in 1 .. Len(Tail(files)) : Tail(files)[f] = files[f + 1]
    BY <1>0, <1>1, HeadTailProperties
  <2>2. DOMAIN Tail(files) = 1 .. k - 1
    BY <2>1, LenProperties
  <2>3. \A f \in 1 .. k - 1 : f + 1 \in 1 .. k
    BY <1>1
  <2> QED
    BY <1>3, <2>1, <2>2, <2>3
<1>5. /\ stack' \in Seq(Objects) /\ Len(stack') = k - 1
      /\ \A i \in 1 .. k - 1 : stack'[i] = stack[i]
  <2> HIDE DEF Objects
  <2>1. \A i \in 1 .. k - 1 : i \in 1 .. k /\ stack[i] \in Objects
    BY <1>1, <1>2
  <2>2. stack' = [i \in 1 .. k - 1 |-> stack[i]]
    BY <1>1, <1>3
  <2>3. stack' \in [1 .. k - 1 -> Objects] /\ k - 1 \in Nat
    BY <1>1, <2>1, <2>2
  <2>4. stack' \in Seq(Objects) /\ Len(stack') = k - 1
    BY <2>3, SequenceOf, Zenon
  <2> QED
    BY <2>2, <2>4
<1>6. /\ \A m \in Names, p \in Props : Gave(m, p)' = Gave(m, p)
      /\ \A m \in Names : Expected(m)' = Expected(m)
  <2>1. \A m \in Names, p \in Props : Gave(m, p)' = Gave(m, p)
    BY <1>0 DEF Gave, Given, Seen
  <2>2. \A m \in Names : Expected(m)' = Expected(m)
    BY <1>0 DEF Expected, Given, Strings
  <2> QED
    BY <2>1, <2>2
<1>7. Listed' = Listed \ {n} /\ n \in Listed /\ Listed \subseteq Names
  <2>1. n \in Listed /\ Listed \subseteq Names
    BY <1>0, <1>1, ListTypes DEF Listed
  <2>2. ASSUME NEW m \in Listed', TRUE PROVE m \in Listed \ {n}
    <3> PICK f \in 1 .. k - 1 : m = files'[f].name
      BY <1>4 DEF Listed
    <3>1. m = files[f + 1].name /\ f + 1 \in 1 .. k /\ f + 1 # 1
      BY <1>4
    <3>2. m # n
      BY <1>1, <1>2, <3>1
    <3> QED
      BY <1>1, <3>1, <3>2 DEF Listed
  <2>3. ASSUME NEW m \in Listed \ {n} PROVE m \in Listed'
    <3> PICK f \in 1 .. k : m = files[f].name
      BY <1>1 DEF Listed
    <3>1. f # 1
      BY <2>3
    <3>2. f - 1 \in 1 .. k - 1 /\ (f - 1) + 1 = f
      BY <1>1, <3>1
    <3>3. files'[f - 1] = files[f]
      BY <1>4, <3>2
    <3> QED
      BY <1>4, <3>2, <3>3 DEF Listed
  <2> QED
    BY <2>1, <2>2, <2>3
<1>8. stack[k] \in Objects /\ Upload(stack[k]) = Expected(n)
  <2>1. files[1].idx = k /\ stack[k] \in Objects
    BY <1>1, <1>2
  <2>2. \A p \in Props : stack[k][p] = Last(Gave(n, p))
    BY <1>1, <2>1 DEF IInv, ObjectsExact
  <2>3. \A p \in Props : Gave(n, p) = Given(n, p)
    <3>1. next = Len(params) + 1 /\ DOMAIN params = 1 .. Len(params) /\ Seen = DOMAIN params
      BY <1>0 DEF Typed, TypeOK, Seen
    <3> QED
      BY <3>1 DEF Gave, Given
  <2>4. \E p \in Props : Given(n, p) # {}
    BY <1>7, <2>3 DEF IInv, ObjectsExact
  <2>5. stack[k] = [p \in Props |-> Last(Given(n, p))]
    BY <2>1, <2>2, <2>3
  <2> QED
    BY <2>1, <2>4, <2>5 DEF Expected
<1>9. Typed'
  <2>1. blocks' \in Nat
    BY <1>1, <1>3 DEF IInv, InStep
  <2>2. query' \in [Names -> Values]
    BY <1>3, <1>8, ValueTypes
  <2>3. Len(stack') <= Room
    BY <1>1, <1>5
  <2>4. TypeOK'
    BY <1>0, <1>4, <1>5, <2>1, <2>2, <2>3 DEF Typed, TypeOK
  <2> QED
    BY <1>0, <2>4 DEF Typed, Seen
<1>10. InStep'
  <2>1. ASSUME NEW f \in 1 .. k - 1 PROVE files'[f].idx = (k - 1) - f + 1
    <3>1. f + 1 \in 1 .. k /\ files'[f] = files[f + 1]
      BY <1>4
    <3>2. files[f + 1].idx = k - (f + 1) + 1
      BY <1>2, <3>1
    <3> QED
      BY <1>1, <3>1, <3>2
  <2>2. ASSUME NEW f \in 1 .. k - 1, NEW g \in 1 .. k - 1, files'[f].name = files'[g].name
        PROVE  f = g
    <3>1. /\ f + 1 \in 1 .. k /\ files'[f] = files[f + 1]
          /\ g + 1 \in 1 .. k /\ files'[g] = files[g + 1]
      BY <1>4
    <3>2. f + 1 = g + 1
      BY <1>2, <2>2, <3>1
    <3> QED
      BY <3>2
  <2>3. blocks' = 2 * (k - 1)
    BY <1>1, <1>3 DEF IInv, InStep
  <2> QED
    BY <1>0, <1>4, <1>5, <2>1, <2>2, <2>3 DEF InStep
<1>11. ObjectsExact'
  <2>1. ASSUME NEW f \in 1 .. k - 1, NEW m \in Names, m = files'[f].name, NEW p \in Props
        PROVE  stack'[files'[f].idx][p] = Last(Gave(m, p)')
    <3> PICK g \in 2 .. k : g = f + 1 /\ files'[f] = files[g]
      BY <1>1, <1>4
    <3>1. files[g].idx \in 1 .. k - 1
      <4>1. files[g].idx = k - g + 1
        BY <1>1, <1>2
      <4> QED
        BY <1>1, <4>1
    <3>2. stack[files[g].idx][p] = Last(Gave(m, p))
      <4>1. g \in DOMAIN files /\ m = files[g].name
        BY <1>1, <2>1
      <4> QED
        BY <4>1 DEF IInv, ObjectsExact
    <3> QED
      BY <1>5, <1>6, <3>1, <3>2
  <2>2. \A m \in Listed' : \E p \in Props : Gave(m, p)' # {}
    BY <1>6, <1>7 DEF IInv, ObjectsExact
  <2>3. \A f \in 1 .. k - 1 : files'[f].name \in Names
    BY <1>2, <1>4
  <2> QED
    BY <1>0, <1>4, <2>1, <2>2, <2>3 DEF ObjectsExact
<1>12. QuerySound'
  <2>1. ASSUME NEW m \in Names \ Listed' PROVE query'[m] = Expected(m)'
    <3>1. CASE m = n
      BY <1>3, <1>6, <1>8, <3>1
    <3>2. CASE m # n
      <4>1. query[m] = Expected(m)
        BY <1>0, <1>7, <3>2 DEF IInv, QuerySound
      <4> QED
        BY <1>3, <1>6, <3>2, <4>1
    <3> QED
      BY <3>1, <3>2
  <2> QED
    BY <1>0, <2>1 DEF QuerySound
<1>13. BodyExact'
  BY <1>0 DEF BodyExact
<1> QED
  BY <1>9, <1>10, <1>11, <1>12, <1>13 DEF IInv

\* The steps that leave the parameters alone leave what they gave alone.
LEMMA Settled ==
    ASSUME IInv, UNCHANGED <<params, next, files, stack, query, blocks, skipped>>,
           pc' \in {"attach", "body", "done"} => pc \in {"attach", "body", "done"},
           pc' \in {"body", "done"} => files = <<>>, pc' # "params", TypeOK', BodyExact'
    PROVE  IInv'
<1>0. Typed
  BY DEF IInv
<1>1. /\ \A m \in Names, p \in Props : Gave(m, p)' = Gave(m, p)
      /\ \A m \in Names : Expected(m)' = Expected(m)
      /\ Listed' = Listed
  <2>1. \A m \in Names, p \in Props : Gave(m, p)' = Gave(m, p)
    BY DEF Gave, Given, Seen
  <2>2. \A m \in Names : Expected(m)' = Expected(m)
    BY DEF Expected, Given, Strings
  <2> QED
    BY <2>1, <2>2 DEF Listed
<1>2. Typed'
  BY <1>0 DEF Typed, Seen
<1>3. InStep'
  BY DEF IInv, InStep
<1>4. ObjectsExact'
  <2>1. Listed \subseteq Names /\ \A f \in DOMAIN files : files[f].name \in Names
    BY <1>0, ListTypes
  <2> QED
    BY <1>1, <2>1 DEF IInv, ObjectsExact
<1>5. QuerySound'
  BY <1>1 DEF IInv, QuerySound
<1> QED
  BY <1>2, <1>3, <1>4, <1>5 DEF IInv

\* What fread() returns for the body is all that was sent, up to its length, unless
\* it is -1; no error came before the end of what it returns.
LEMMA BodyRead ==
    ASSUME NEW r \in Requests, r.length > 0
    PROVE  /\ FRead(r) \in -1 .. MaxBody
           /\ FRead(r) >= 0 => /\ FRead(r) = Min({r.length, r.sent})
                               /\ FRead(r) < r.length => ~r.error
<1>1. r.length \in 1 .. MaxBody /\ r.sent \in 0 .. MaxBody /\ r.error \in BOOLEAN
  BY DEF Requests
<1>2. Min({r.length, r.sent}) = IF r.length <= r.sent THEN r.length ELSE r.sent
  BY <1>1, MinOfTwo
<1> QED
  BY <1>1, <1>2 DEF FRead

\* The body of a request is read only where it may be.
LEMMA ReadStep ==
    ASSUME IInv, ReadBody
    PROVE  IInv'
<1>0. /\ UNCHANGED <<params, next, files, stack, query, blocks, skipped, env>>
      /\ pc = "body" /\ pc' = "done" /\ files = <<>> /\ TypeOK
  BY DEF IInv, ReadBody, InStep, Typed
<1>1. body' \in -1 .. MaxBody /\ BodyExact'
  <2>1. PICK r \in Requests :
          /\ request' = r
          /\ body' \in IF r.hasBody /\ ~r.parsable /\ r.length > 0 THEN {FRead(r), -1} ELSE {-1}
    BY DEF ReadBody
  <2>2. -1 \in -1 .. MaxBody
    OBVIOUS
  <2>3. CASE body' = -1
    BY <2>2, <2>3 DEF BodyExact
  <2>4. CASE r.hasBody /\ ~r.parsable /\ r.length > 0 /\ body' = FRead(r)
    BY <2>1, <2>4, BodyRead DEF BodyExact
  <2> QED
    BY <2>1, <2>3, <2>4
<1>2. TypeOK'
  BY <1>0, <1>1 DEF TypeOK
<1> QED
  BY <1>0, <1>1, <1>2, Settled

\* Every step keeps the invariant.
LEMMA NextIInv == IInv /\ [Next]_vars => IInv'
<1> SUFFICES ASSUME IInv, [Next]_vars PROVE IInv'
  OBVIOUS
<1>0. Typed /\ TypeOK /\ InStep /\ BodyExact
  BY DEF IInv, Typed
<1>1. CASE StackFull
  <2>1. /\ UNCHANGED <<params, next, files, stack, query, blocks, skipped, env, body>>
        /\ pc' = "fatal"
    BY <1>1 DEF StackFull, inputs
  <2>2. TypeOK' /\ BodyExact'
    BY <1>0, <2>1 DEF TypeOK, BodyExact
  <2> QED
    BY <2>1, <2>2, Settled
<1>2. CASE AddEnvs
  <2>1. /\ UNCHANGED <<params, next, files, stack, query, blocks, skipped, body>>
        /\ pc = "attach" /\ pc' = "body" /\ files = <<>> /\ env' \subseteq Served
    BY <1>2 DEF AddEnvs, inputs
  <2>2. TypeOK' /\ BodyExact'
    BY <1>0, <2>1 DEF TypeOK, BodyExact
  <2> QED
    BY <2>1, <2>2, Settled
<1>3. CASE UNCHANGED vars
  <2>1. UNCHANGED <<pc, params, request, next, files, stack, query, blocks, skipped, env, body>>
    BY <1>3 DEF vars, inputs
  <2>2. TypeOK' /\ BodyExact'
    BY <1>0, <2>1 DEF TypeOK, BodyExact
  <2>3. CASE pc # "params"
    <3>1. pc' \in {"body", "done"} => files = <<>>
      BY <1>0, <2>1 DEF InStep
    <3> QED
      BY <2>1, <2>2, <2>3, <3>1, Settled
  <2>4. CASE pc = "params"
    <3>1. /\ \A m \in Names, p \in Props : Gave(m, p)' = Gave(m, p)
          /\ \A m \in Names : Said(m)' = Said(m)
          /\ Listed' = Listed /\ Listed \subseteq Names
          /\ \A f \in DOMAIN files : files[f].name \in Names
      <4>1. \A m \in Names, p \in Props : Gave(m, p)' = Gave(m, p)
        BY <2>1 DEF Gave, Given, Seen
      <4>2. \A m \in Names : Said(m)' = Said(m)
        BY <2>1 DEF Said, Strings, Seen
      <4>3. Listed' = Listed
        BY <2>1 DEF Listed
      <4> QED
        BY <1>0, <4>1, <4>2, <4>3, ListTypes
    <3>2. Typed'
      BY <1>0, <2>1, <2>2 DEF Typed, Seen
    <3>3. InStep'
      BY <1>0, <2>1 DEF InStep
    <3>4. ObjectsExact'
      BY <2>1, <3>1 DEF IInv, ObjectsExact
    <3>5. QuerySound'
      BY <2>1, <2>4, <3>1 DEF IInv, QuerySound
    <3> QED
      BY <2>2, <3>2, <3>3, <3>4, <3>5 DEF IInv
  <2> QED
    BY <2>3, <2>4
<1> QED
  BY <1>1, <1>2, <1>3, StringStep, PropertyStep, UploadStep, SkipStep, EndStep, AttachStep,
     ReadStep DEF Next

-----------------------------------------------------------------------------
(* The theorems *)

\* IInv is an invariant.
LEMMA Inductive == Spec => []IInv
BY InitIInv, NextIInv, PTL DEF Spec

\* Every variable of create_request_object() keeps its type: no place outside of the
\* stack and no parameter that is not there is ever used.
THEOREM TypesKept == Spec => []TypeOK
<1>1. IInv => TypeOK
  BY DEF IInv, Typed
<1> QED
  BY <1>1, Inductive, PTL

\* A script finds in QueryParameters exactly the strings and uploads of the request,
\* for any number of parameters in any order and for any properties left out.
THEOREM ParametersAreExact == Spec => []QueryExact
<1>1. IInv => QueryExact
  <2> SUFFICES ASSUME IInv, pc \in {"body", "done"} PROVE query = [n \in Names |-> Expected(n)]
    BY DEF QueryExact
  <2>1. files = <<>> /\ query \in [Names -> Values]
    BY DEF IInv, InStep, Typed, TypeOK
  <2>2. Listed = {}
    BY <2>1 DEF Listed
  <2>3. \A n \in Names : query[n] = Expected(n)
    BY <2>2 DEF IInv, QuerySound
  <2> QED
    BY <2>1, <2>3
<1> QED
  BY <1>1, Inductive, PTL

\* Uploads on the stack and entries of the list belong together at all times.
THEOREM ListIsInStep == Spec => []ListMatchesStack
<1>1. IInv => ListMatchesStack
  <2> SUFFICES ASSUME IInv PROVE ListMatchesStack
    OBVIOUS
  <2>1. \A n, p : Gave(n, p) = Given(n, p) \intersect (1 .. next - 1)
    BY DEF Gave, Seen
  <2> QED
    BY <2>1 DEF IInv, InStep, ObjectsExact, ListMatchesStack
<1> QED
  BY <1>1, Inductive, PTL

\* A body that a script sees is all that was sent up to its length.
THEOREM BodyIsWhole == Spec => []BodyExact
<1>1. IInv => BodyExact
  BY DEF IInv
<1> QED
  BY <1>1, Inductive, PTL
=============================================================================
