------------------------------ MODULE CosaClient ------------------------------
(***************************************************************************)
(* The functions of the Cosa object, jse_cosa.c: each asks the component   *)
(* registrar who is responsible for a name and then calls that component   *)
(* over the message bus, while other clients of the bus change the data    *)
(* model.  The module follows what every function allocates and on which   *)
(* way out it frees it: a throw does not return, neither one of JSE nor    *)
(* one of duktape or of the script that goes through the function, so that *)
(* what was not freed before it stays allocated while the process runs.    *)
(***************************************************************************)
EXTENDS Naturals, Sequences, FiniteSets, SequencesExt

CONSTANTS
    Functions,    \* functions of Cosa the script calls
    Keys,         \* names of parameters
    Objects,      \* names of objects, that stand for all the parameters below
    Values,       \* values of parameters that are strings
    Long,         \* of these, the values longer than the buffer of getStr()
    Absent,       \* no parameter, no value, or an item that is not a name, a type and a value
    Ids,          \* numbers rows of the table may have
    BufferSize,   \* size of the buffer of getInstanceIds() (512 in the code)
    MaxItems      \* bound: items in an array argument

ASSUME NamesAssumption == Keys \cap Objects = {} /\ Keys # {} /\ Long \subseteq Values
ASSUME IdsAssumption == Ids \subseteq 1 .. 99 /\ BufferSize \in Nat \ {0} /\ MaxItems \in Nat

VARIABLES
    pc,        \* where the call is
    call,      \* the function and its arguments
    built,     \* items of the array handled so far
    noMemory,  \* a copy of a value could not be made (returnStatus)
    typed,     \* the type setStr() has read (structSet[0].type)
    heap,      \* blocks allocated and not freed since the call began
    wrongFree, \* a block was freed that was not allocated
    outcome,   \* how the last call ended
    result,    \* what it returned
    dm,        \* the data model: types and values of the parameters
    rows       \* the data model: rows of the table

model == <<dm, rows>>
vars  == <<pc, call, built, noMemory, typed, heap, wrongFree, outcome, result, dm, rows>>

Gets == "DmExtGetStrsWithRootObj"
Sets == "DmExtSetStrsWithRootObj"

PCs     == {"idle", "discover", "list", "items", "call", "read", "set", "send", "dead"}
Written == [string |-> Values, bool |-> {"true", "false", "1", "0"}]
Stored  == [string |-> Values, bool |-> {"true", "false"}]
Items   == UNION {[key : Keys, type : {t}, val : Written[t]] : t \in DOMAIN Written}
Cells   == UNION {[type : {t}, val : Stored[t]] : t \in DOMAIN Stored}

\* Blocks: the strings of the destination, the copy of the value, the reply of
\* the component (values or numbers of rows), the list that is sent and the
\* copies in it.
Dest   == {<<"componentName", 0>>, <<"dbusPath", 0>>}
Value  == <<"value", 0>>
Reply  == <<"reply", 0>>
List   == <<"list", 0>>
Copies == {<<"copy", i>> : i \in 1 .. MaxItems}
Blocks == Dest \union {Value, Reply, List} \union Copies

NoCall  == [fn |-> "none", name |-> Absent, val |-> Absent, items |-> <<>>]

Init ==
    /\ pc = "idle" /\ call = NoCall /\ built = 0 /\ noMemory = FALSE /\ typed = Absent
    /\ heap = {} /\ wrongFree = FALSE /\ outcome = "none" /\ result = Absent
    /\ dm \in [Keys -> Cells \union {Absent}] /\ rows \in SUBSET Ids

\* A function allocates and goes on.
Goes(next, blocks) ==
    /\ pc' = next /\ heap' = heap \union blocks
    /\ UNCHANGED <<call, wrongFree, outcome, result>>

\* It ends: made was allocated for it in this step, and it has freed these blocks.
Ends(how, value, made, blocks) ==
    /\ pc' = "idle" /\ outcome' = how /\ result' = value /\ typed' = Absent
    /\ heap' = (heap \union made) \ blocks
    /\ wrongFree' = (wrongFree \/ ~(blocks \subseteq heap \union made))
    /\ UNCHANGED <<call, built, noMemory>>

\* It returns, throws an error of its own, or is left by an error of duktape or of
\* the script, for which it has not provided.
Returns(value, made, blocks) == Ends("returned", value, made, blocks)
Throws(made, blocks)         == Ends("thrown", Absent, made, blocks)
Escapes(made, blocks)        == Ends("escaped", Absent, made, blocks)

-----------------------------------------------------------------------------
(* Arguments and destination *)

Arrays(f) ==
    CASE f = Sets -> BoundedSeq(Items \union {Absent}, MaxItems)
      [] f = Gets -> BoundedSeq(Keys \union Objects, MaxItems)
      [] OTHER -> {<<>>}

\* An array comes with the name of the root object.
Names(f) == IF Arrays(f) = {<<>>} THEN Keys \union Objects ELSE Objects

\* parse_parameter() accepts the arguments; setStr() copies the value.
Begin(f) ==
    /\ pc = "idle"
    /\ \E n \in Names(f), s \in Arrays(f),
          v \in (IF f = "setStr" THEN Values ELSE {Absent}) :
            call' = [fn |-> f, name |-> n, val |-> v, items |-> s]
    /\ pc' = "discover" /\ heap' = (IF f = "setStr" THEN {Value} ELSE {})
    /\ built' = 0 /\ noMemory' = FALSE /\ outcome' = "none" /\ result' = Absent
    /\ UNCHANGED <<typed, wrongFree>> /\ UNCHANGED model

\* parse_parameter() throws, or setStr() cannot copy the value.
Rejected(f) ==
    /\ pc = "idle"
    /\ call' = [NoCall EXCEPT !.fn = f] /\ outcome' = "thrown" /\ result' = Absent
    /\ heap' = {} /\ built' = 0 /\ noMemory' = FALSE
    /\ UNCHANGED <<pc, typed, wrongFree>> /\ UNCHANGED model

AfterDiscovery(f) ==
    CASE f = "setStr" -> "read"
      [] f \in {Gets, Sets} -> "list"
      [] OTHER -> "call"

\* UiDbusClientGetDestComponent() hands over two strings, or the call throws.
Discover ==
    /\ pc = "discover"
    /\ Goes(AfterDiscovery(call.fn), Dest)
    /\ UNCHANGED <<built, noMemory, typed>> /\ UNCHANGED model

DiscoverFails ==
    /\ pc = "discover"
    /\ Throws({}, IF call.fn = "setStr" THEN {Value} ELSE {})
    /\ UNCHANGED model

-----------------------------------------------------------------------------
(* Functions with one call of the bus *)

\* The parameters a name stands for.
Below(name) == {k \in Keys : dm[k] # Absent /\ (k = name \/ name \in Objects)}

\* The parameters or the rows there are for the call.
Found ==
    CASE call.fn \in {"getStr", "setStr"} -> Below(call.name)
      [] call.fn = Gets -> UNION {Below(call.items[i]) : i \in 1 .. Len(call.items)}
      [] OTHER -> rows

\* They come in a block; there may be none if there is nothing to hand over.
Replies == IF Found = {} THEN {{}, {Reply}} ELSE {{Reply}}
Asking  == {"getStr", "getInstanceIds", Gets, "DmExtGetInstanceIds"}

\* The component does not answer, or answers with an error, with or without a block:
\* getInstanceIds() and DmExtGetStrsWithRootObj() do not free it.
CallFails ==
    /\ pc = "call"
    /\ \E r \in {{}, IF call.fn \in Asking THEN {Reply} ELSE {}} :
        Throws(r, Dest \union (CASE call.fn \in {"getStr", "DmExtGetInstanceIds"} -> r
                                [] call.fn = Gets -> {List}
                                [] OTHER -> {}))
    /\ UNCHANGED model

\* There is no memory for the value that is to be returned: the functions that have
\* not freed the answer before they make it leave it allocated, and the list.
AnswerThrows ==
    /\ pc = "call" /\ call.fn \in Asking
    /\ \E r \in Replies : Escapes(r, Dest \union (IF call.fn = "getStr" THEN r ELSE {}))
    /\ UNCHANGED model

\* strncpy() does not terminate the copy of a value that fills the buffer: what
\* is returned goes on with what follows the buffer in memory.
Copied(v) == IF v \in Long THEN "unterminated" ELSE v

\* getStr() returns the first of the values it gets, an empty string if none.
GetStr ==
    /\ pc = "call" /\ call.fn = "getStr"
    /\ \E r \in Replies :
          \/ \E k \in Found : Returns(Copied(dm[k].val), r, Dest \union r)
          \/ Found = {} /\ Returns("", r, Dest \union r)
    /\ UNCHANGED model

Digits(i) == IF i < 10 THEN 1 ELSE 2

\* The numbers in the order in which the component lists them.
Ascending(S) ==
    CHOOSE s \in [1 .. Cardinality(S) -> S] :
        \A i, j \in 1 .. Cardinality(S) : i < j => s[i] < s[j]

\* Where the k-th number starts in the list "1,2,3,", and what of it there is
\* room for.
Offset(s, k) ==
    LET end[n \in 0 .. Len(s)] == IF n = 0 THEN 0 ELSE end[n - 1] + Digits(s[n]) + 1
    IN  end[k - 1]
Cut(i, room) == IF Digits(i) <= room THEN i ELSE i \div 10

\* Faulty variant: the loop ends one number early.
Listed_AllButLast(s) ==
    {Cut(s[k], BufferSize - 1 - Offset(s, k)) :
        k \in {j \in 1 .. Len(s) - 1 : Offset(s, j) < BufferSize - 1}}

\* The numbers in the buffer, whose last byte is for the end of the string.
Listed(s) ==
    {Cut(s[k], BufferSize - 1 - Offset(s, k)) :
        k \in {j \in 1 .. Len(s) : Offset(s, j) < BufferSize - 1}}

\* getInstanceIds() prints the numbers in a buffer, or cannot print one;
\* DmExtGetInstanceIds() puts them in an array.
InstanceIds ==
    /\ pc = "call"
    /\ \E r \in Replies :
          \/ call.fn = "getInstanceIds" /\ Returns(Listed(Ascending(rows)), r, Dest \union r)
          \/ call.fn = "getInstanceIds" /\ rows # {} /\ Throws(r, Dest \union r)
          \/ call.fn = "DmExtGetInstanceIds" /\ Returns(rows, r, Dest \union r)
    /\ UNCHANGED model

AddTblObj ==
    /\ pc = "call" /\ call.fn = "addTblObj"
    /\ \E i \in Ids \ rows : rows' = rows \union {i} /\ Returns(i, {}, Dest)
    /\ UNCHANGED dm

DelTblObj ==
    /\ pc = "call" /\ call.fn = "delTblObj"
    /\ \E i \in rows : rows' = rows \ {i}
    /\ Returns(Absent, {}, Dest)
    /\ UNCHANGED dm
-----------------------------------------------------------------------------
(* setStr() reads the parameter for its type, then sets it *)

\* One parameter is found, of that name.
ReadBeforeSet ==
    /\ pc = "read" /\ Found = {call.name}
    /\ Goes("set", {Reply}) /\ typed' = dm[call.name].type
    /\ UNCHANGED <<built, noMemory>> /\ UNCHANGED model

\* Another number of parameters is found: the function returns an error, which
\* the interpreter throws, and the reply stays allocated.
Mismatch ==
    /\ pc = "read" /\ Found # {call.name}
    /\ \E r \in Replies : Throws(r, Dest \union {Value})
    /\ UNCHANGED model

\* A reply that came with an error stays allocated, too.
ReadFails ==
    /\ pc = "read"
    /\ \E r \in {{}, {Reply}} : Throws(r, Dest \union {Value})
    /\ UNCHANGED model

\* The component takes the value that is sent with the type read before if the
\* parameter is there and still has that type.
Takes == dm[call.name] # Absent /\ dm[call.name].type = typed /\ call.val \in Stored[typed]

\* Faulty variant: the reply is not freed when the value was set.
SetOne_KeepsReply ==
    /\ pc = "set" /\ Takes
    /\ dm' = [dm EXCEPT ![call.name] = [type |-> typed, val |-> call.val]]
    /\ Returns(Absent, {}, Dest \union {Value})
    /\ UNCHANGED rows

SetOne ==
    /\ pc = "set" /\ Takes
    /\ dm' = [dm EXCEPT ![call.name] = [type |-> typed, val |-> call.val]]
    /\ Returns(Absent, {}, Dest \union {Reply, Value})
    /\ UNCHANGED rows

SetFails ==
    /\ pc = "set"
    /\ Throws({}, Dest \union {Reply, Value})
    /\ UNCHANGED model

-----------------------------------------------------------------------------
(* Functions with arrays *)

AllocList ==
    /\ pc = "list"
    /\ Goes("items", {List})
    /\ UNCHANGED <<built, noMemory, typed>> /\ UNCHANGED model

AllocListFails ==
    /\ pc = "list"
    /\ Throws({}, Dest)
    /\ UNCHANGED model

\* Counting the items and taking the next one run getters of the script, and need
\* memory: what they throw leaves everything allocated.
ItemThrows ==
    /\ pc \in {"list", "items"}
    /\ Escapes({}, {})
    /\ UNCHANGED model

\* DmExtGetStrsWithRootObj() has put the names in its list.
Collect ==
    /\ pc = "items" /\ call.fn = Gets
    /\ Goes("call", {})
    /\ UNCHANGED <<built, noMemory, typed>> /\ UNCHANGED model

\* DmExtGetStrsWithRootObj() returns what it gets, that can be more than it asks;
\* a reply without values is not freed.
GetStrs ==
    /\ pc = "call" /\ call.fn = Gets
    /\ \E r \in Replies :
        Returns({<<k, dm[k].val>> : k \in Found}, r,
                Dest \union {List} \union (IF Found = {} THEN {} ELSE r))
    /\ UNCHANGED model

\* DmExtSetStrsWithRootObj() copies the value of the next item, or there is no copy of
\* it and nothing is sent.
CopyItem ==
    /\ pc = "items" /\ call.fn = Sets
    /\ built < Len(call.items) /\ call.items[built + 1] # Absent
    /\ built' = built + 1
    /\ \/ Goes(pc, {<<"copy", built + 1>>}) /\ UNCHANGED noMemory
       \/ Goes(pc, {}) /\ noMemory' = TRUE
    /\ UNCHANGED typed /\ UNCHANGED model

NextIsBad ==
    /\ pc = "items" /\ call.fn = Sets
    /\ built < Len(call.items) /\ call.items[built + 1] = Absent

\* An item that is no array of three: the copies made so far stay allocated.
BadItem ==
    /\ NextIsBad
    /\ Throws({}, Dest \union {List})
    /\ UNCHANGED model

\* An item whose type is no string: strcmp() reads through a null pointer, and that
\* ends the process.
ItemCrashes ==
    /\ NextIsBad
    /\ pc' = "dead" /\ outcome' = "crashed" /\ heap' = {}
    /\ UNCHANGED <<call, built, noMemory, typed, wrongFree, result>> /\ UNCHANGED model

\* Blocks of this call, the copies that were made among them.
Own == Dest \union {List} \union (heap \cap Copies)

\* All items are handled: the component is called, or the copies are given up.
Send ==
    /\ pc = "items" /\ call.fn = Sets /\ built = Len(call.items)
    /\ \/ ~noMemory /\ Goes("send", {}) /\ UNCHANGED <<built, noMemory, typed>>
       \/ noMemory /\ Throws({}, Own)
    /\ UNCHANGED model

\* Faulty variant: zero is forgotten.
Sent_TrueOnly(item) ==
    IF item.type = "bool" /\ item.val = "1" THEN [type |-> "bool", val |-> "true"]
    ELSE [type |-> item.type, val |-> item.val]

\* What is sent for an item: 1 and 0 are true and false.
Sent(item) ==
    CASE item.type = "bool" /\ item.val = "1" -> [type |-> "bool", val |-> "true"]
      [] item.type = "bool" /\ item.val = "0" -> [type |-> "bool", val |-> "false"]
      [] OTHER -> [type |-> item.type, val |-> item.val]

\* Faulty variant: the one buffer for booleans is sent, and not copies of it.
Batch_SharedBuffer ==
    LET short == {i \in 1 .. built : call.items[i].val \in {"0", "1"}}
        from(i) == IF i \in short THEN CHOOSE j \in short : \A l \in short : l <= j ELSE i
    IN  [i \in 1 .. built |-> [key |-> call.items[i].key, cell |-> Sent(call.items[from(i)])]]

\* The items in their order, as the component gets them.
Batch == [i \in 1 .. built |-> [key |-> call.items[i].key, cell |-> Sent(call.items[i])]]

\* The component takes them one after the other.
Applied(m, batch) ==
    LET after[n \in 0 .. Len(batch)] ==
            IF n = 0 THEN m ELSE [after[n - 1] EXCEPT ![batch[n].key] = batch[n].cell]
    IN  after[Len(batch)]
Accepted(b) == dm[b.key] # Absent /\ dm[b.key].type = b.cell.type

SetBatch ==
    /\ pc = "send" /\ \A i \in 1 .. built : Accepted(Batch[i])
    /\ dm' = Applied(dm, Batch)
    /\ Returns(Absent, {}, Own)
    /\ UNCHANGED rows

\* The component refuses, having taken the items up to one it does not accept.
SetBatchFails ==
    /\ pc = "send"
    /\ \E n \in 0 .. built :
        /\ \A i \in 1 .. n : Accepted(Batch[i])
        /\ dm' = Applied(dm, SubSeq(Batch, 1, n))
    /\ Throws({}, Own)
    /\ UNCHANGED rows

-----------------------------------------------------------------------------
(* Another client of the bus changes the data model *)

OtherClient ==
    /\ \/ \E k \in Keys, c \in Cells \union {Absent} :
            dm' = [dm EXCEPT ![k] = c] /\ UNCHANGED rows
       \/ \E i \in Ids :
            rows' \in {rows \union {i}, rows \ {i}} /\ UNCHANGED dm
    /\ UNCHANGED <<pc, call, built, noMemory, typed, heap, wrongFree, outcome, result>>

Next ==
    \/ \E f \in Functions : Begin(f) \/ Rejected(f)
    \/ Discover \/ DiscoverFails
    \/ CallFails \/ AnswerThrows \/ GetStr \/ InstanceIds \/ AddTblObj \/ DelTblObj
    \/ ReadBeforeSet \/ Mismatch \/ ReadFails \/ SetOne \/ SetFails
    \/ AllocList \/ AllocListFails \/ ItemThrows \/ Collect \/ GetStrs
    \/ CopyItem \/ BadItem \/ ItemCrashes \/ Send \/ SetBatch \/ SetBatchFails
    \/ OtherClient

Spec == Init /\ [][Next]_vars

-----------------------------------------------------------------------------
(* Properties *)

\* Every variable has its type; the data model holds well-formed values only,
\* whatever form of a boolean the script gave.
TypeOK ==
    /\ pc \in PCs /\ built \in 0 .. MaxItems /\ noMemory \in BOOLEAN
    /\ typed \in DOMAIN Stored \union {Absent}
    /\ heap \subseteq Blocks /\ outcome \in {"none", "returned", "thrown", "escaped", "crashed"}
    /\ call.fn \in Functions \union {"none"}
    /\ dm \in [Keys -> Cells \union {Absent}] /\ rows \subseteq Ids

\* No function of Cosa frees a block it does not have, on any way out of it.
FreesOnce == ~wrongFree

\* What a function may leave allocated.  One that returns leaves nothing, but for a
\* reply in which there was nothing; one that throws leaves a reply it forgets or copies
\* of values; one that is left by an error of duktape or of the script also leaves its
\* list and its destination, if it was still filling the list.
Left ==
    CASE outcome = "returned" /\ call.fn = Gets /\ result = {} -> {Reply}
      [] outcome = "thrown" /\ call.fn \in {"setStr", "getInstanceIds", Gets} -> {Reply}
      [] outcome = "thrown" /\ call.fn = Sets -> Copies
      [] outcome = "escaped" /\ call.fn \in {"getInstanceIds", "DmExtGetInstanceIds"} -> {Reply}
      [] outcome = "escaped" /\ call.fn = Gets ->
            IF Reply \in heap THEN {List, Reply} ELSE Dest \union {List}
      [] outcome = "escaped" /\ call.fn = Sets -> Dest \union {List} \union Copies
      [] OTHER -> {}

BlocksFreed == pc = "idle" => heap \subseteq Left

\* On every way out of every function of Cosa no block is freed that it does not have,
\* and none stays allocated but those of Left; its copy of the value never does.
BlocksSound == FreesOnce /\ BlocksFreed

\* When DmExtSetStrsWithRootObj() returns, every key named in its argument has
\* the value given last for it, and no other parameter has changed; and the copy of
\* no value was missing when it was sent.
Given(k) == {i \in DOMAIN call.items : call.items[i].key = k}
BatchIsWhole ==
    [][pc = "send" /\ outcome' = "returned" =>
        /\ heap \cap Copies = {<<"copy", i>> : i \in DOMAIN call.items}
        /\ \A k \in Keys :
              IF Given(k) = {}
              THEN dm'[k] = dm[k]
              ELSE \E i \in Given(k) :
                      /\ \A j \in Given(k) : j <= i
                      /\ dm'[k] = Sent(call.items[i])]_vars

\* The list of instances is the rows of the table if it fits in the buffer, in
\* an array always.
Length == Offset(Ascending(rows), Cardinality(rows) + 1)
InstancesListed ==
    [][outcome = "none" /\ outcome' = "returned" =>
        /\ call.fn = "DmExtGetInstanceIds" => result' = rows
        /\ call.fn = "getInstanceIds" /\ Length < BufferSize => result' = rows]_vars
=============================================================================
