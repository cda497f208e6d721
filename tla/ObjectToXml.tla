----------------------------- MODULE ObjectToXml -----------------------------
(***************************************************************************)
(* objectToXMLString() of jse_xml.c: walk_object(), iterate_array() and    *)
(* child_to_xml() call each other down a JavaScript value and add a node   *)
(* to an XML document for each property.  What they are at is kept on the  *)
(* value stack of duktape, which is bounded.                               *)
(***************************************************************************)
EXTENDS Integers, Sequences, FiniteSets

CONSTANTS
    Objects,    \* objects and arrays of the script
    Scalars,    \* other values
    NoContent,  \* a node whose value is an object
    Character,  \* a character of a string
    References, \* those of the scalars that have an '&' in their text
    Referred,   \* what libxml2 makes of such a text
    Shapes,     \* what the script may have built: functions on Objects
    Inputs,     \* what it passes
    Room        \* places of the value stack

\* What is assumed of the constants.  An object has a kind and items: properties in
\* their order, or elements.  The arguments have a place on the stack.
Assumption ==
    /\ \A s \in Shapes : \A o \in Objects :
        s[o].kind \in {"object", "array"} /\ s[o].items \in Seq(Objects \union Scalars)
    /\ Objects \intersect (Scalars \union {NoContent, Character, Referred}) = {}
    /\ References \subseteq Scalars
    /\ Inputs \subseteq Objects \union Scalars
    /\ Room \in Nat \ {0}

VARIABLES
    heap,       \* the objects of the script
    walking,    \* where objectToXMLString() is
    value,      \* its argument
    frames,     \* the calls of walk_object() and iterate_array(), the latest first
    doc,        \* the nodes added, in the order of the document
    missed      \* history: some node could not be allocated

xmlVars == <<heap, walking, value, frames, doc, missed>>

\* A name is the number of a property, or an array as a string; the root has one of its own.
Root   == -1
Joined == 0

\* A node is given its text by xmlNodeSetContent(), to which an '&' begins a reference.
Node(depth, name, text) ==
    [depth |-> depth, name |-> name, content |-> IF text \in References THEN Referred ELSE text]

IsObject(v) == v \in Objects
IsArray(v)  == v \in Objects /\ heap[v].kind = "array"

\* taken: items seen.  coerced: the array on the stack has become a string.
Frame(fun, o, depth, name) ==
    [fun |-> fun, of |-> o, depth |-> depth, name |-> name, taken |-> 0, coerced |-> FALSE]

Walk(o, depth)          == Frame("walk_object", o, depth, Root)
Iterate(o, depth, name) == Frame("iterate_array", o, depth, name)

Init ==
    /\ heap \in Shapes /\ value \in Inputs
    /\ walking = "script" /\ frames = <<>> /\ doc = <<>> /\ missed = FALSE

-----------------------------------------------------------------------------
Top      == Head(frames)
Item     == heap[Top.of].items[Top.taken + 1]
Taken    == [frames EXCEPT ![1].taken = @ + 1]
Walks    == {f \in DOMAIN frames : frames[f].fun = "walk_object"}
InObject == Top.fun = "walk_object"

\* On the stack are the arguments, an enumerator for each object, and the item of each
\* call but the last: a key and a value, or an element.
Used == 2 + 3 * Cardinality(Walks) + Cardinality(DOMAIN frames \ Walks) - (IF InObject THEN 2 ELSE 1)

Active  == walking = "walk" /\ frames # <<>> /\ Used <= Room
HasItem == Active /\ Top.taken < Len(heap[Top.of].items) /\ Used + (IF InObject THEN 2 ELSE 1) <= Room

\* The name of the root is no string, or there is no memory for the document.
Refuse ==
    /\ walking = "script"
    /\ walking' = "thrown"
    /\ UNCHANGED <<heap, value, frames, doc, missed>>

\* The root is walked if it is an object; when it cannot be allocated the document is
\* returned without one.
Begin ==
    /\ walking = "script"
    /\ walking' = "walk"
    /\ \/ /\ doc' = <<Node(0, Root, IF IsObject(value) THEN NoContent ELSE value)>>
          /\ frames' = IF IsObject(value) THEN <<Walk(value, 1)>> ELSE <<>>
          /\ UNCHANGED missed
       \/ missed' = TRUE /\ UNCHANGED <<doc, frames>>
    /\ UNCHANGED <<heap, value>>

\* duktape throws: a getter of the object did, there is no more room on the stack, or
\* no memory for the result.
Throw ==
    /\ walking = "walk"
    /\ walking' = "thrown"
    /\ UNCHANGED <<heap, value, frames, doc, missed>>

\* Faulty variant: an element is named by its number.
Name_Number == Top.taken + 1

\* The name for the next item: its key, or the name the array has.
Name == IF InObject THEN Top.taken + 1 ELSE Top.name

\* child_to_xml() of an object or a scalar: a node, and below it the properties of the
\* object.  Without memory for the node all of it is left out.
AddNode ==
    /\ HasItem /\ ~Top.coerced /\ ~IsArray(Item)
    /\ \/ /\ doc' = Append(doc, Node(Top.depth, Name, IF IsObject(Item) THEN NoContent ELSE Item))
          /\ frames' = IF IsObject(Item) THEN <<Walk(Item, Top.depth + 1)>> \o Taken ELSE Taken
          /\ UNCHANGED missed
       \/ missed' = TRUE /\ frames' = Taken /\ UNCHANGED doc
    /\ UNCHANGED <<heap, walking, value>>

\* child_to_xml() of an array: no node, only the name for those of its elements, which it
\* takes from the place below the array.  For a property that is its key; for an element
\* it is the array it is in, which becomes a string where it is.
Descend ==
    /\ HasItem /\ ~Top.coerced /\ IsArray(Item)
    /\ frames' = IF InObject THEN <<Iterate(Item, Top.depth, Name)>> \o Taken
                 ELSE <<Iterate(Item, Top.depth, Joined)>> \o [Taken EXCEPT ![1].coerced = TRUE]
    /\ UNCHANGED <<heap, walking, value, doc, missed>>

\* What is left of an array that has become a string are characters of it.
AddCharacter ==
    /\ HasItem /\ Top.coerced
    /\ \/ doc' = Append(doc, Node(Top.depth, Name, Character)) /\ UNCHANGED missed
       \/ missed' = TRUE /\ UNCHANGED doc
    /\ frames' = Taken
    /\ UNCHANGED <<heap, walking, value>>

\* The call pops what it pushed and returns: its caller is at its next item.
Return ==
    /\ Active /\ Top.taken = Len(heap[Top.of].items)
    /\ frames' = Tail(frames)
    /\ UNCHANGED <<heap, walking, value, doc, missed>>

\* The document is made a string and freed.
Finish ==
    /\ walking = "walk" /\ frames = <<>>
    /\ walking' = "returned"
    /\ UNCHANGED <<heap, value, frames, doc, missed>>

Next == Refuse \/ Begin \/ Throw \/ AddNode \/ Descend \/ AddCharacter \/ Return \/ Finish

Spec == Init /\ [][Next]_xmlVars /\ WF_xmlVars(Next)

-----------------------------------------------------------------------------
(* Properties *)

TypeOK ==
    /\ value \in Inputs /\ missed \in BOOLEAN
    /\ walking \in {"script", "walk", "returned", "thrown"}
    /\ \A f \in DOMAIN frames :
        frames[f].of \in Objects /\ frames[f].taken \in 0 .. Len(heap[frames[f].of].items)
    /\ \A d \in DOMAIN doc : doc[d].content \in Scalars \union {NoContent, Character, Referred}

Holds(o, p) == \E i \in DOMAIN heap[o].items : heap[o].items[i] = p

\* One can go from the argument into an item of it, and from there, for ever.
Cyclic == \E S \in SUBSET Objects : value \in S /\ \A o \in S : \E p \in S : Holds(o, p)

\* The argument and all in it.
Closed(S) == \A o \in S, p \in Objects : Holds(o, p) => p \in S
Parts     == {o \in Objects : IsObject(value) /\ \A S \in SUBSET Objects : value \in S /\ Closed(S) => o \in S}

\* Arrays in arrays: those in the root, which is walked like an object, do not count.
Held(o)      == \E q \in Parts : Holds(q, o)
NestedArrays == \E o, p \in Parts : IsArray(o) /\ IsArray(p) /\ Holds(o, p) /\ (o = value => Held(o))

\* The nodes GUIDE.md describes, where the objects are as s says: arrays become several nodes
\* with the same name, one for each element, and objects one with a node for each property.  The
\* name is the one elements get, or Root where each item has its own; `nodes`: those for what
\* is in an object.
Named(s, v, name, depth, nodes) ==
    IF v \notin Objects THEN <<Node(depth, name, v)>>
    ELSE IF s[v].kind = "array" THEN nodes[<<v, name, depth>>]
    ELSE <<Node(depth, name, NoContent)>> \o nodes[<<v, Root, depth + 1>>]

\* Those for what is in o: its items from the last one on.
Inside(s, o, name, depth, nodes) ==
    LET items == s[o].items
        last[n \in 0 .. Len(items)] ==
            IF n = 0 THEN <<>>
            ELSE LET i == Len(items) - n + 1
                 IN  Named(s, items[i], IF name = Root THEN i ELSE name, depth, nodes) \o last[n - 1]
    IN  last[Len(items)]

\* Those for what is in an object, k levels deep.
Nodes(s) ==
    LET within[k \in 0 .. Room] ==
            IF k = 0 THEN [a \in Objects \X Int \X Nat |-> <<>>]
            ELSE [a \in Objects \X Int \X Nat |-> Inside(s, a[1], a[2], a[3], within[k - 1])]
    IN  within

\* The root has a node also if it is an array, with a node for each number in it.  No more levels
\* than the value stack has room for are ever walked.
Document(s, v) ==
    IF v \in Objects THEN <<Node(0, Root, NoContent)>> \o Nodes(s)[Room][<<v, Root, 1>>]
                     ELSE <<Node(0, Root, v)>>

\* The document has a node for each property and each element, under the right parent,
\* with the right name and in order, and the text of its value as libxml2 reads it, unless
\* there was no memory for some or arrays are in arrays; and an object that contains itself ends in an error and never in a document
\* that is cut.
DocumentExact ==
    walking = "returned" /\ ~missed /\ ~NestedArrays => ~Cyclic /\ doc = Document(heap, value)

\* objectToXMLString() ends, whatever it is given: the stack ends also what a cycle does not.
Ends == <>(walking \in {"returned", "thrown"})

\* GUIDE.md: "In the case of an array, multiple entities with the same name, one for each
\* element", which an array in an array is as well.
ArraysExact == walking = "returned" /\ ~missed /\ ~Cyclic => doc = Document(heap, value)
=============================================================================
