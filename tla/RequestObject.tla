--------------------------- MODULE RequestObject ----------------------------
(***************************************************************************)
(* create_request_object() of jse_main.c: the global object Request of a   *)
(* script, made of the parameters qdecoder found, of the environment the   *)
(* web server set and of the body.  The parameters of an upload come one   *)
(* by one, as name.property; the object for each name stays on the value   *)
(* stack of duktape until all of them are seen, because an object has to   *)
(* be complete before it becomes a property of another.                    *)
(***************************************************************************)
EXTENDS Integers, Sequences, FiniteSets, FiniteSetsExt

CONSTANTS
    Names,      \* names of parameters, up to the first dot
    Props,      \* properties of an upload: what follows the dot
    NoProp,     \* a parameter without a dot
    Served,     \* variables of the environment that Request has: listed, or HTTP_*
    Room,       \* objects the value stack has room for
    MaxParams,  \* bound: parameters of a request
    MaxBody     \* bound: bytes of a body

ASSUME ParamsAssumption == NoProp \notin Props
ASSUME BoundsAssumption == {Room, MaxParams, MaxBody} \subseteq Nat

VARIABLES
    pc,       \* where create_request_object() is
    params,   \* the parameters, in the order of the request
    next,     \* the parameter to look at; its number stands for its value
    files,    \* the list at file_objs: name and place on the stack
    stack,    \* the objects of uploads on the value stack
    query,    \* the object QueryParameters
    blocks,   \* C blocks allocated
    skipped,  \* history: parameters left out for want of memory
    request,  \* history: the body the web server sent, and what it said of it
    env,      \* variables that became properties of Request
    body      \* the property Body: number of bytes, -1 if there is none

inputs == <<params, request>>
vars   == <<pc, inputs, next, files, stack, query, blocks, skipped, env, body>>

Params    == [name : Names, prop : Props \union {NoProp}]
NoUpload  == [p \in Props |-> 0]
Absent    == [kind |-> "none", string |-> 0, upload |-> NoUpload]
String(i) == [kind |-> "string", string |-> i, upload |-> NoUpload]
Upload(o) == [kind |-> "upload", string |-> 0, upload |-> o]

\* Whether the method has a body, whether qdecoder reads its content, CONTENT_LENGTH
\* (-1: not set), the bytes that come, and whether reading ends with an error.
Requests ==
    [hasBody : BOOLEAN, parsable : BOOLEAN, length : -1 .. MaxBody, sent : 0 .. MaxBody,
     error : BOOLEAN]

NoRequest == [hasBody |-> FALSE, parsable |-> FALSE, length |-> -1, sent |-> 0, error |-> FALSE]

Init ==
    /\ pc = "params" /\ next = 1
    /\ \E n \in 0 .. MaxParams : params \in [1 .. n -> Params]
    /\ files = <<>> /\ stack = <<>> /\ blocks = 0 /\ skipped = {}
    /\ query = [n \in Names |-> Absent]
    /\ request = NoRequest /\ env = {} /\ body = -1

-----------------------------------------------------------------------------
(* Parameters *)

Param     == params[next]
More      == pc = "params" /\ next <= Len(params)
IsUpload  == Param.prop # NoProp
Following == next' = next + 1 /\ UNCHANGED <<pc, inputs, env, body>>

\* The object of the upload, in the list of those pushed already.
Known == {f \in DOMAIN files : files[f].name = Param.name}

\* A parameter without a dot is a string; a later one of that name replaces it.
AddString ==
    /\ More /\ ~IsUpload
    /\ query' = [query EXCEPT ![Param.name] = String(next)]
    /\ Following /\ UNCHANGED <<files, stack, blocks, skipped>>

\* Faulty variant: the property goes to the object pushed last.
AddProperty_OnTop ==
    /\ More /\ IsUpload
    /\ Known # {} /\ stack' = [stack EXCEPT ![Len(stack)][Param.prop] = next]
    /\ Following /\ UNCHANGED <<query, files, blocks, skipped>>

\* The upload has an object already.
AddProperty ==
    /\ More /\ IsUpload
    /\ \E f \in Known : stack' = [stack EXCEPT ![files[f].idx][Param.prop] = next]
    /\ Following /\ UNCHANGED <<query, files, blocks, skipped>>

\* Faulty variant: the new object is linked in behind the others.
Linked_Behind(f) == Append(files, f)

\* The new object becomes the first of the list.
Linked(f) == <<f>> \o files

\* The first property of an upload: its object is pushed.
AddUpload ==
    /\ More /\ IsUpload /\ Known = {} /\ Len(stack) < Room
    /\ stack' = Append(stack, [NoUpload EXCEPT ![Param.prop] = next])
    /\ files' = Linked([name |-> Param.name, idx |-> Len(stack) + 1])
    /\ blocks' = blocks + 2
    /\ Following /\ UNCHANGED <<query, skipped>>

\* Faulty variant: a name that could not be copied is freed.
SkipProperty_FreesName ==
    /\ More /\ IsUpload /\ Known = {}
    /\ skipped' = skipped \union {next} /\ blocks' = blocks - 1
    /\ Following /\ UNCHANGED <<query, files, stack>>

\* calloc() or strdup() fails: this property is left out and the next one of the upload
\* tries again.
SkipProperty ==
    /\ More /\ IsUpload /\ Known = {}
    /\ skipped' = skipped \union {next}
    /\ Following /\ UNCHANGED <<query, files, stack, blocks>>

\* duk_push_object() throws when the stack is full, here outside of any protected
\* call: the process ends in handle_fatal_error().
StackFull ==
    /\ More /\ IsUpload /\ Known = {} /\ Len(stack) >= Room
    /\ pc' = "fatal"
    /\ UNCHANGED <<inputs, next, files, stack, query, blocks, skipped, env, body>>

EndOfParams ==
    /\ pc = "params" /\ next > Len(params)
    /\ pc' = "attach"
    /\ UNCHANGED <<inputs, next, files, stack, query, blocks, skipped, env, body>>

\* The object on top of the stack, which should be that of the first of the list,
\* becomes a property of QueryParameters and is popped.
Attach ==
    /\ pc = "attach" /\ files # <<>>
    /\ query' = [query EXCEPT ![Head(files).name] = Upload(stack[Len(stack)])]
    /\ stack' = SubSeq(stack, 1, Len(stack) - 1)
    /\ files' = Tail(files)
    /\ blocks' = blocks - 2
    /\ UNCHANGED <<pc, inputs, next, skipped, env, body>>

-----------------------------------------------------------------------------
(* Environment and body *)

\* The listed variables and those of request headers; a copy of a header's
\* variable that cannot be made leaves it out.
AddEnvs ==
    /\ pc = "attach" /\ files = <<>>
    /\ env' \in SUBSET Served
    /\ pc' = "body"
    /\ UNCHANGED <<inputs, next, files, stack, query, blocks, skipped, body>>

\* Faulty variant: what was read before an error passes for the body.
FRead_KeepsPart(r) == IF r.sent < r.length THEN r.sent ELSE r.length

\* fread() from the web server: as many bytes as there are, -1 for an error.
FRead(r) == IF r.sent >= r.length THEN r.length ELSE IF r.error THEN -1 ELSE r.sent

\* A body that qdecoder does not read is read, if its length is known and there is
\* memory for it.
ReadBody ==
    /\ pc = "body"
    /\ request' \in Requests
    /\ body' \in IF request'.hasBody /\ ~request'.parsable /\ request'.length > 0
                   THEN {FRead(request'), -1}
                   ELSE {-1}
    /\ pc' = "done"
    /\ UNCHANGED <<params, next, files, stack, query, blocks, skipped, env>>

Next ==
    \/ AddString \/ AddProperty \/ AddUpload \/ SkipProperty \/ StackFull \/ EndOfParams
    \/ Attach \/ AddEnvs \/ ReadBody

Spec == Init /\ [][Next]_vars

-----------------------------------------------------------------------------
(* Properties *)

Values == [kind : {"none", "string", "upload"}, string : 0 .. MaxParams, upload : [Props -> 0 .. MaxParams]]

TypeOK ==
    /\ pc \in {"params", "attach", "body", "done", "fatal"}
    /\ next \in 1 .. MaxParams + 1 /\ skipped \subseteq 1 .. MaxParams
    /\ files \in Seq([name : Names, idx : 1 .. Room])
    /\ stack \in Seq([Props -> 0 .. MaxParams]) /\ Len(stack) <= Room
    /\ query \in [Names -> Values]
    /\ blocks \in Nat /\ env \subseteq Served /\ body \in -1 .. MaxBody

\* The last of some parameters, 0 if there is none.
Last(S) == IF S = {} THEN 0 ELSE Max(S)

Strings(n) == {i \in DOMAIN params : params[i] = [name |-> n, prop |-> NoProp]}
Given(n, p) == {i \in DOMAIN params \ skipped : params[i] = [name |-> n, prop |-> p]}

\* What a script should find under a name: the upload of that name, each property with
\* the value it was given last, else the last string of that name.
Expected(n) ==
    IF \E p \in Props : Given(n, p) # {} THEN Upload([p \in Props |-> Last(Given(n, p))])
    ELSE IF Strings(n) # {} THEN String(Last(Strings(n)))
    ELSE Absent

\* QueryParameters has the strings and the uploads of the request, each upload its
\* own properties, however they are mixed: objects leave the stack in the order of
\* the list of names, which is never out of step with it.
QueryExact == pc \in {"body", "done"} => query = [n \in Names |-> Expected(n)]

\* Upload and list entry belong together at all times, also while others are pushed:
\* there is one of each for a name, so that only more names than the stack has room
\* for end the process, and with the last of them the blocks of the list are gone.
ListMatchesStack ==
    /\ Len(files) = Len(stack) /\ blocks = 2 * Len(files)
    /\ \A f, g \in DOMAIN files : files[f].name = files[g].name => f = g
    /\ \A f \in DOMAIN files : \A p \in Props :
        stack[files[f].idx][p] = Last(Given(files[f].name, p) \intersect (1 .. next - 1))

\* A script that sees a body sees all that was sent up to its length; the beginning of
\* one that could not be read to its end is not passed for it.
BodyExact ==
    pc = "done" /\ body >= 0 =>
        /\ request.hasBody /\ ~request.parsable
        /\ body = Min({request.length, request.sent})
        /\ body < request.length => ~request.error
=============================================================================
