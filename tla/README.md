# A TLA+ verification of JSE, the CCSP JavaScript engine

JSE runs JavaScript to answer web requests on an RDK device. It embeds Duktape
and gives scripts functions for the response, processes, files, encryption, XML
and the data model of the device (CCSP). This directory holds TLA+ models of its
C code, TLC configurations that check them on small instances, and theorems
that TLAPS proves for every instance: every safety invariant the configurations
check, and both refinements. All source paths below are under `src/source/`.

Contents: [Inventory](#inventory) · [Modules](#modules) · [Runs](#runs) ·
[Divergences](#divergences) · [Fairness](#fairness) · [Proofs](#proofs) ·
[Not modelled](#not-modelled) · [Plan](#plan)

## Inventory

| Component | State it keeps | Operations | Interacts with | What is hard | What makes it correct |
|---|---|---|---|---|---|
| `execProcess()`, `sendSignal()`, `jse_jsprocess.c`, `jse_read_fd_once()` | two arrays of strings, two pipes, two growing buffers, a child | copy arguments, fork, exec, select loop, read, wait, signal | kernel, the child, what the child forks, processes of others | interleaving of three processes, a full pipe, failures half way, descriptors over many calls, identifiers used again | output is captured whole; nobody waits for a process that waits for JSE; the child gets what it was meant to; blocks, descriptors and children are accounted for; the status is the child's |
| Request loop, `jse_main.c` `main()`, `handle_request()` | `ret`, the request, the Duktape heap | accept, initialise, run a script, answer, exit | the web server, CCSP, bindings, response | three places may answer a failed request; state survives from request to request under FastCGI | one answer for each request, never two; a truthful exit status |
| Response, `jse_main.c` static variables | printed items, status, content type, headers, cookie | `print`, `setHTTPStatus`, `setContentType`, `setHeader`, `setCookie` | request loop | static state and its reset on every path | a response consists of what its own script set |
| Bindings, `jse_bind_*()` in seven files | a reference count each | bind, unbind | the heap of each request | counts outlive heaps | every heap has every function |
| Files, `jse_jscommon.c`, `jse_read_file()` | the file system | `writeAsFile`, `readFileAsString`, `readFileAsBuffer`, `removeFile` | other JSE processes, other programs, `toString()` of the value | races, short writes, crashes, temporary files left behind, calls inside calls | a file is never seen half written; a read returns one value somebody wrote |
| Directories, `jse_mkdir()` | the file system | `createDirectory` | other processes on the same path | the path changes between `stat()` and each `mkdir()` | success means a directory; failure has a cause |
| CCSP client, `jse_cosa.c` | the bus handle, the registrar's name, blocks of each call | initialise with retry; `getStr`, `setStr`, `getInstanceIds`, `addTblObj`, `delTblObj`, `DmExt*` | registrar and components over the bus, other clients, getters of the script | a throw at every step, also of duktape and of getters, leaves by `longjmp`; batches; fixed buffers | no block is freed twice, and it is known which are not freed; a batch is sent whole or not at all; lists and values are complete |
| Request object, `create_request_object()` | the list of uploads, their objects on the value stack | query parameters, uploads, environment, body | web server, qdecoder | two orders that must match, a bounded stack, allocations that fail half way, bodies that end early | a script finds what the web server sent |
| Script inclusion, `run_file()`, `run_buffer()`, `do_include()` | buffers of scripts, duktape's calls inside each other | run, include | files, the heap | errors cross a protected call each; scripts that include themselves | as if the file stood in place of the statement |
| Encryption, `jse_crypt.c` | a cipher context and an output block | `encrypt`, `decryptToString`, `decryptToBuffer` | libcrypto | lengths of blocks and last blocks, that two calls write and JSE adds, every way out | what was encrypted is decrypted to what it was; output fits its block |
| XML, `jse_xml.c` | the document, the value stack | `objectToXMLString` | libxml2, the objects of the script | recursion over arrays and objects, cycles, coercion in place | each item is one node with its name |
| Error objects (`jse_jserror.c`, `jse_cosa_error.c`), `debugPrint`, `sleep`, `usleep`, `listDirectory`, debug output | none of their own | - | the heap, stderr | sequential | - |

How they meet: `main()` accepts a request, makes a heap, `bind_functions()` gives
the heap the functions of all the other components, and the script calls those in
any order. The functions of the response write static variables which the loop
reads after the script ended, and which objects of the script may write once more
when they are converted to a string or finalised.

A function may call back into the script: to convert a value to a string (`toString()`), to
get an item of an array or a property (a getter), and the script may then call any function
again, before the first one has gone on. Where that matters it is modelled: `writeAsFile()` in
the `toString()` of the value of `writeAsFile()` shares a temporary file with it (`FileStore`),
what a getter throws leaves `execProcess()` (`ProcessCalls`) and the functions of Cosa
(`CosaClient`) in the middle. The other functions keep no state that an inner call could find: their
blocks are those of the call, and what an inner call does to the outside world, another
process or client can do at that moment too. Files, data model and process table have such actors
(`OtherClient`, `OtherStarts`). Concurrency proper is always with something outside the process: a
child, other processes on the files, other clients of the bus. That is why the
components are separate modules and the loop is composed with the two, response
and bindings, whose state survives between requests.

The hazards of the code, line by line, are the list `hazards` of `PROJECT.json`.

## Modules

| Module | Models | Extends or instantiates |
|---|---|---|
| `ExecProcess` | `execProcess()`, the child, a daemon it leaves behind | - |
| `HttpResponse` | the static variables of the response and who changes them | - |
| `Bindings` | the seven reference counts and the functions a heap has | - |
| `RequestService` | abstract: what a web server may count on | - |
| `RequestLoop` | `main()`, `handle_request()` | `HttpResponse`, `Bindings`; `RequestService` as `Service`, with a refinement mapping |
| `RequestObject` | `create_request_object()` | - |
| `ProcessCalls` | `execProcess()` around `fork_exec_read_and_wait()`, `sendSignal()`, the process table | - |
| `AtomicFiles` | abstract: what several processes may see of shared files | - |
| `FileStore` | `writeAsFile()`, `jse_read_file()`, `removeFile()` by system calls | `AtomicFiles` as `Atomic`, with a refinement mapping |
| `MakeDirectory` | `createDirectory()`, `jse_mkdir()` | - |
| `CosaClient` | the eight functions of the Cosa object | - |
| `Inclusion` | `run_file()`, `run_stdin()`, `run_buffer()`, `do_include()` | - |
| `ObjectToXml` | `objectToXMLString()` | - |
| `Crypt` | `encrypt()`, `decryptToString()`, `decryptToBuffer()` | - |
| `ScriptCalls` | the last three, one of them at a time | `Inclusion` as `I`, `ObjectToXml` as `X`, `Crypt` as `C` |
| `MCFileStore` | the calls and values of two processes for TLC | `FileStore` |
| `MCScriptCalls` | small scripts, objects and texts for TLC | `ScriptCalls` |
| `ExecProcessProofs`, `RequestLoopProofs`, `FileStoreProofs`, `MakeDirectoryProofs`, `ProcessCallsProofs`, `RequestObjectProofs`, `CosaClientProofs`, `ScriptCallsProofs` | theorems about the module they are named after | that module, TLAPS and its theorems about sets and sequences |

An operator whose name ends in an underscore and a remark (`CheckEof_Either`) is a faulty
variant of the definition after it, a bug the code could have had. No
specification uses them; each property is known to fail for one of them, which
`PROJECT.json` names.

### ExecProcess

`pc` is where JSE is in `fork_exec_read_and_wait()`: `fork` (one `pipe()` after the other and
`fork()`), `parent` (closing the write ends), `select`, `out` and `err` (the
body of the loop for each stream), `check` (are both at end of file?), `wait`
(`waitpid()`) and `fail`. `fd`, `ready`, `off` and `size` are the variables
`outfd`/`errfd`, `rfds`, the offsets and lengths of the buffers. `pipe`, `holds`
and `life` are the kernel's: bytes in each pipe, who has its write end, what
each process does. Bytes are counted and not represented. One `ReadData` is
one `jse_read_fd_once()`: it reads what it likes of what there is and grows the
buffer when it is full. At end of file the variable becomes -1 *without*
`close()`, as in the code; `lost` counts these descriptors, and `Pipe` needs
room below `FdLimit`. What fails before the child is there has an action each (`StartFails`,
`PipeFails`, `ForkFails`), which closes what was opened so far (`Abandon`).

The child is forked with copies of everything, JSE's unflushed stdio buffer
(`stdio`) among them; `ChildExec` drops it, `ChildExecFails` (which leaves by
`exit()`) writes it into the pipe. A program writes, closes a stream, forks a
daemon that inherits its streams, exits or is killed, whenever it wants. Failing
system calls are actions of their own (`SelectFails`, `ReadFails`, `WaitFails`, `ChildDupFails`
and those above).

### ProcessCalls

`ExecProcess` is about bytes and streams; this module about what the binding does
around it, with `fork_exec_read_and_wait()` cut down to `Fork`, `Reap` and `WaitFails`.
`arr` has both arrays with their length, their size and the cells that really are
allocated, which is not the same once `realloc()` failed: `AddStringUnresized` stores the
freed copy in the old array and lets `*pSize` count cells that are not there, as the code
does (`damaged` remembers it). `live` are the blocks of the call, named by what they are
for; each way out frees what the code finds in the arrays, and `lost` is the way out that left
some. `Copied`, `ItemThrows` and `CopyFails` are about one item, since getting it runs code
of the script. `table` is the process table: an identifier is free again when its process
was reaped, and `OtherStarts` may take it, so that a signal sent to what the script knows
(`known`) reaches whoever has it by then (`hits`).

### HttpResponse, Bindings, RequestLoop, RequestService

A value the script sets (status, content type, header, cookie) is represented
by the number of the request that set it, 0 for the initial one: that is what
the properties compare. `headers` and `prints` are the two linked lists;
`lastItem` is whether `last_print_item` points somewhere. `cookie` says whether
the strings of `http_cookie` are fresh, freed or owned by nobody.

`RequestLoop` has one action for each step of `main()` (`Options`, `Start`, `Accept`,
`AcceptAndInit`, `InitAborts`, `AcceptWithoutScript`, `CreateFails`, `HeapFails`, `CreateHeap`,
`DestroyHeap`, `End`, `Leave`) and of `handle_request()` (`BindAll`, `Parse`, `ParseFails`,
`ScriptReturns`, `ScriptThrows`, `AnswerError`, `UnbindAll`); between them the script takes any
of `DoPrint` and `Set`. `LateCall` is what objects of the script call after it: at
`message` the `toString()` of what it threw, which runs after the output was dropped and
before the error is written, and at `destroy` the finalizers. What they print or set
reaches the next response, and `late` remembers of which requests that can be. `ret` is the
C variable, whose value decides whether the loop answers with an error of its own.
`FatalError` is Duktape's fatal handler and
`Abort` the allocator's verdict on a double free. Binding itself
fails only without a context, which is never the case; running out of memory in it is
`FatalError`. `mode` is how JSE was
built and started (FastCGI or not, `--get`, `--post` or `--cookies` given, CCSP
wanted), chosen at the start. A binding of `Bindings` is the function of C with the one it
depends on: `BindCosa` binds `BindCosaError` first, and so on.

`appended` counts how often `jse_cosa_init()` appended the name of the registrar to
`dst_pathname_cr`, 64 bytes in which there is `Room` for two. `strncat()` is given the size of the
array instead of what is left of it, so that a third attempt writes past the end. What is
there is up to the compiler (`Overruns`): nothing that is used without
optimisation; at `-O1` and above gcc puts `gPcSim`, `dst_pathname_cr`, `bus_handle` and
`ref_count` of `jse_cosa.c` in this order in memory, the characters go over the last two, and
`bus_handle` is set by the same function afterwards; and a C library that checks the size
(`_FORTIFY_SOURCE`) ends the process (`InitAborts`). `ref_count` is `bound.refs["cosa"]`, and
`Overwritten` what it is then.

`RequestService` is the contract with the web server, in six actions and four
variables: a request is taken, answered at most once, and answered before the next one
unless the process dies. The mapping takes `phase` from `pc` and `exit` and `answered` from
the list of answers. A request may be excused when it is taken; the loop excuses those
before which the message bus came up (`BusJustUp`).

### RequestObject

`params` are the parameters in the order qdecoder has them, each a name and, for an upload,
a property; values are represented by the position. `files` is the list at `file_objs`,
the latest first, and `stack` the objects of uploads on the value stack, the latest last.
`Attach` takes the name from the one and the object from the other and does not compare
them, like the code; that they fit is `ListMatchesStack`. `skipped` are the parameters for which
there was no memory. Of the environment the model has which variables become properties.

### AtomicFiles, FileStore

`FileStore` has a directory (`dir`), inodes with the pieces of text they
hold, and calls `<<p, n>>`: the one process p makes while n others of it wait for the
`toString()` of their value. `WriteOpen` is `open()` with
`O_TRUNC` and, if asked for, `O_CREAT` of `<directory>/tmp_<pid>`, or that is refused
(`WriteRefused`); `Convert` is `duk_safe_to_string()` and `strlen()`, so that what is
written is a text up to its first NUL (`Strings` has how many pieces that may be); `WriteChunk` is
one `write()`, which goes where the descriptor leads, whatever names that inode has by then;
`Rename` gives the name to what is the temporary file now, and there must be one. `WriteFails` and
`Crash` leave the temporary file where it is, for a later call of the same process or one
with the same identifier. Reading opens, finds the size with `lseek()`, then
reads until it has that many bytes or `read()` returns 0.
Programs outside of JSE do not touch the files.

`GUIDE.md:367` has the `toString()` of an object called. One that calls `writeAsFile()` opens the
same `tmp_<pid>`, cuts it off and renames it: the call around it goes on to write the inode that
has a name of the script now, which can be seen half written, and its own `rename()` fails with
ENOENT or moves what a later call left. `mixed` are the inodes this happens to, from the `open()` of
an inner call until they are gone.

`AtomicFiles` knows only a text for each file and the calls in progress: a write
takes effect in one step, a read has the text of the moment it opened the
file. Its promise ends with nested writes: what such calls write is `Undefined`, for the files
they are called for and no others. `FileStore` implements it (property `AtomicSpec`): a file holds
what the inode its name leads to does, and `Undefined` if that is mixed.

### MakeDirectory

`entry[i]` is what is at the i-th component of the path (nothing, a directory, a
file, a link to nowhere), `proc[p]` the call of process p. `Stat`,
`MakeIntermediate` for each component and `MakeFinal` are the system calls of
`jse_mkdir()`; `Put` and `Remove` are other processes. A path may end in a
slash, which makes the last component both an intermediate and the final one.
The check that the path starts with a slash is left out: all paths here do.

### CosaClient

A call goes through `discover` (`UiDbusClientGetDestComponent()`), then either
`call` (one call of the bus) or `read` and `set` (`setStr()`), or `list`, `items`
and `send` (the functions with arrays). `heap` has the blocks of the call that are
allocated: destination, value, list, copies, and the reply of the component, which may be there
without anything in it and may come with an error. Ending a call names the blocks that way out
frees, and `wrongFree` records that one was not allocated. There are three ways out:
`Returns`; `Throws`, an error of JSE; and `Escapes`, one of duktape or of a getter, that leaves by
`longjmp` while an array is counted or an item is taken (`ItemThrows`) or a result is made
(`AnswerThrows`). `CopyItem` handles one element of the batch, and
a failed `strdup()` sets `noMemory` (`returnStatus`) and goes on, as the code
does. An item whose type is no string ends the process: `strcmp()` gets a null pointer
(`ItemCrashes`, `jse_cosa.c:1386`; `pc` is `dead`). `setStr()` sends the type it has read (`typed`), whatever
the type is by then. The data model (`dm`, `rows`) belongs to the components and is changed by
`OtherClient` between any two steps, which stands also for calls that a getter makes. What a
component does is external: it takes
a value if it fits the type of the parameter, may fail at any time, and may have
taken part of a batch it refuses. The commit flag and the subsystem prefix
do
not change what JSE does and are left out.

### Inclusion, ObjectToXml, Crypt, ScriptCalls

These compute something, and are state machines because every step may throw. They share no
state, so that `ScriptCalls` has one run look at each in turn: `part` says at which, and a step is
one of that part. Their constants are sets of scripts, objects and texts of any kind; `MCScriptCalls`
has small ones.

`Inclusion`: a script is a sequence of statements, each runs, throws or includes a file, in
a `try` or not. `scripts` are the calls of `run_buffer()` inside each other; `Fail` is an
error that leaves one of them and comes out of `do_include()` as another. A file is
missing, special, unreadable, empty, wrong, broken bytecode or a script. The reference,
`Replaced`, gives for each file what it does when the files it includes stand in the place of the
statements, down to a given depth, at which including fails as it does in duktape.

`ObjectToXml`: `frames` are the calls of `walk_object()` and `iterate_array()` inside each
other, each with how many of its items it has seen. `Used` counts the places of the
value stack they take. `Descend` of an array in an array makes the outer one a string on the
stack (`coerced`), and `AddCharacter` adds what is found there afterwards. The reference,
`Document`, follows `GUIDE.md` (and libxml2, to which an `&` in the text of a node begins a
reference: `References`, `Referred`): `Nodes` has the nodes for what is in each object, down to a
given number of levels, and those of one more level are made from them.

`Crypt`: a text has a length and the place of its first NUL; what a cipher does with it is
represented by which text comes out and how many bytes each of its two calls writes: `outlen` by
`Update`, `extralen` by `EncryptFinal` or `DecryptFinal`, which knows the last block only if the
input is as long as what the cipher made of the data (`Whole`). `OutLength` is how JSE adds
them, and `length` what the script gets. `getCipher` is the table of 24
ciphers with the lengths of their keys, vectors and blocks. A script encrypts, may cut what
it got, and decrypts, with any arguments.

## Runs

`tlc -config X.cfg M` for each line; the longest, `FilesAtomic` and `CosaCalls`, take about two
minutes. Four more
configurations, under [Divergences](#divergences), check one property each which
a document or a comment states and the code does not keep.

| Run (`.cfg`, module) | Shows | Bounds |
|---|---|---|
| `ExecCalls`, ExecProcess | types; no byte is lost (`Conserved`) and a buffer always has room (`RoomToRead`), together `OutputKept`; reads do not block (`ReadNeverBlocks`) and `waitpid()` is called only once nobody can write (`WaitOnlyAtEof`), together `NeverBlocked`; a successful call returns all that was written (`CompleteCapture`); descriptors are accounted for, on every way out, but for the two a call forgets at end of file (`FdLedger`); a call returns if programs end (`CallReturns`) | pipes and first buffers of one byte, up to two bytes a program and stream: pipes fill and block their writers, buffers must grow; one call |
| `ProcessCalls`, ProcessCalls | types; a child gets all arguments and variables in order (`ArgumentsExact`); no array is overrun, no block freed twice, and a call frees what it allocated, but for a copy that fails and errors of JavaScript (`MemorySound`); children nobody waits for are those of the calls that failed after the fork (`ChildrenLedger`); no signal reaches the process it is meant for (`SignalTooLate`) | arrays of 4 cells at first and up to 4 strings, so that one doubles; two calls, two identifiers, three processes, so that one is used again |
| `LoopModes`, RequestLoop | the contract with the web server (`ServiceSpec`): one answer for each request and not two, unless the bus just came up; each request ends (`RequestEnds`); the body is what its script printed, after what was printed late (`BodyExact`); a foreign content type was set late (`ContentTypeExplained`), a foreign header too or by a script that failed (`HeadersExplained`), together `SettingsExplained`; the list of prints is sound; every heap has all functions, but for those of Cosa once `dst_pathname_cr` has overrun (`BindingsComplete`); the exit status tells what happened (`ExitTruthful`) | command line, CGI and FastCGI, with and without the message bus; three requests, one print and one header each, late calls in one of them: a success or failure before, between and after others |
| `RequestObject`, RequestObject | `QueryParameters` has the strings and uploads of the request (`QueryExact`); list and stack belong together, one of each for a name and two blocks for each, so that they are left empty and only too many uploads end the process (`ListMatchesStack`); a body is whole or ends where the web server ended it (`BodyExact`) | every sequence of up to three parameters of three names, strings or one of two properties; room for two objects; bodies of up to two bytes |
| `FilesAtomic`, MCFileStore | types; no other process writes what a writer has open, and unless calls are nested nobody else reaches it (`WriterExclusive`); the refinement of `AtomicFiles` (`AtomicSpec`), thus that no file is ever seen half written, but for those of nested calls | two processes, one file, a text of two pieces and one of one piece, crashes and failures anywhere; one process makes calls from a `toString()`, one deep; an inode for every name and descriptor, symmetric |
| `DirsShared`, MakeDirectory | a call fails only for a cause other than a racing creator (`FailsForCause`); success is based on a directory, or on an answer of the kernel that something is there (`SuccessSawDirectory`) | two processes, three components, everything others can put or remove |
| `ScriptCalls`, MCScriptCalls | a script with inclusions, of itself too, runs as with the files in their place (`RunsAsReplaced`); a document has each item once, in order, by its name, and there is none of a cycle (`DocumentExact`); what was encrypted is decrypted to what it was, as long as it was (`RoundTrip`); output fits its block, and contexts, outputs and buffers of scripts are freed, but for the ways out that are named (`BlocksSound`); inclusion and the walk over objects end (`CallsEnd`) | three files of up to two, two and three statements, three calls deep; three objects or arrays of up to two items that contain each other in any way, room for three calls; two calls, four texts around the length of a block, three keys, two vectors, four ciphers (with and without padding and vector, and none) |
| `CosaCalls`, CosaClient | the data model stays well-typed; no block is freed that is not there (`FreesOnce`) and none stays allocated but those `Left` names for the function and the way out (`BlocksFreed`), together `BlocksSound`; a batch goes out only with all its copies and arrives whole and in order (`BatchIsWhole`); instance lists that fit are whole (`InstancesListed`) | two parameters of two types, arrays of up to two items, valid or not; two rows, which do not both fit in a list of 4 bytes |

Why the bounds are enough to be worth the run: the programs compare quantities
only with each other (offset with size, pipe with capacity, item with count) and
carry state only from one call or request to the next. Three requests reach
every such carry-over (before, between, after); a buffer or pipe of one byte
is full, empty and exceeded within a few steps; two processes are all that a race
in these calls takes. That the safety properties hold for all other sizes too, and for any
number of calls, requests and processes, is what the proofs show; the runs are left with
liveness, with showing that every action can happen, and with the faulty variants.

All but `CosaClient` are checked without deadlock detection: the bounded scripts come to
an end. In `CosaClient` the other client always has a step.

## Divergences

| Run | The text | The code |
|---|---|---|
| `ExecStdout`, ExecProcess | "the data written to standard output" (`GUIDE.md:553`) | if `execve()` fails, `exit()` flushes JSE's own buffered output into the pipe |
| `LoopCookie`, RequestLoop | the cookie is for "the HTTP response" (`GUIDE.md:327`) | its strings are freed and kept, and used for the next one |
| `LoopCosa`, RequestLoop | the functions "are all part of" "the Cosa object" (`GUIDE.md:758`); `main()` tries again for them ("lets try again!", `jse_main.c:1979`) | the third attempt to reach the bus may write over the reference count of Cosa, and no later script has it |
| `XmlNested`, MCScriptCalls | an array becomes "multiple entities with the same name, one for each element" (`GUIDE.md:608`) | an array in an array is named by the outer one as a string, and what follows it in that becomes characters of the string |

The models have the following too, without a run of their own:

- `http_status` is kept for later requests of the process (`ReturnResponse`), where
  `GUIDE.md:204` says it is of "the HTTP response".
- After the message bus came up `ret` is 0, and a heap that cannot be made then is not
  answered (`HeapFails` after `AcceptAndInit`); an error status "should be handled"
  (`jse_main.c:1530`). `BusJustUp` is this exception.
- Every attempt to reach the message bus appends to the registrar's name (`CosaInit`,
  `jse_cosa.c:288`), so that one after a failure looks for another name, where `main()` "will
  try again later" (`jse_main.c:1987`); the third is past the end of the array (above).
- What objects of a script print or set after it goes to the next response (`LateCall`).
- `add_string_to_string_array()` returns 0 after `realloc()` failed, with a freed
  string in the array (`AddStringUnresized`); its comment says "-1 on error" (`jse_jsprocess.c:509`).
- `include()` of a file that cannot be read throws an Error (`IncludeFails`), where
  `GUIDE.md:151` has a PosixError. An empty script is an error when it is the first (`ReadFails`).
- Ciphers 18 and 19, and 22 and 23, are OFB and CFB (`Modes`), and CFB and OFB in
  `GUIDE.md:703`; `decryptToString()` is `decryptAsString()` there (`GUIDE.md:710`).
- A file that another program truncates while it is read is returned in its old size
  (`jse_common.c:308`); the models have no such program.
- `read_and_wait()` should return when "the process terminates"
  (`jse_jsprocess.c:266`); it waits for the end of both pipes, which a daemon
  the process left behind keeps open (`Select`, `CheckEof`).
- `WEXITSTATUS()` is taken without `WIFEXITED()`: a process that was killed has
  status 0 (`WExitStatus`), where `GUIDE.md:552` says "The process' exit status".
- The list of headers survives a script that failed (`DropResponse`), and is sent
  with the next response; `HeadersExplained` says that this and late calls are the only ways.
- When the last request of a FastCGI process had no script, it was answered
  (`AcceptWithoutScript`), and `main()` fails all the same, where the comment at
  `jse_main.c:2048` says that an error is returned "only when it hasn't already been
  handled". `ExitTruthful` is therefore about the other modes.
- Creating the file is optional "if it does not exist" (`GUIDE.md:366`), and the flag is
  applied to the temporary file: without it a call fails for a file that exists (`WriteRefused`),
  and a temporary file left behind makes it create one (`WriteOpen` after `WriteFails` or `Crash`).
- A value is written up to its first NUL (`Strings`), "the contents" of the file according to
  `GUIDE.md:366`; and `writeAsFile()` called in the `toString()` of a value that is being written
  undoes what `rename()` is for (`mixed`).
- `EEXIST` of the last `mkdir()` is success for a link to nowhere, and for a file
  if the path ends in a slash (`FinalOk`), against the comment at `jse_common.c:333`.
- `getInstanceIds()` cuts its list at 512 bytes in the middle of a number
  (`Listed`), and `getStr()` does not terminate a value of 512 bytes (`Copied`).
- Functions of Cosa leak (`Left`): an invalid item of a batch the copies made before it
  (`BadItem`); `setStr()` a reply that does not match or came with an error (`Mismatch`,
  `ReadFails`); `getInstanceIds()` and `DmExtGetStrsWithRootObj()` a reply that came with an
  error (`CallFails`), the latter also one without values (`GetStrs`); a getter that throws, or
  duktape, the destination and the list (`ItemThrows`), and the reply (`AnswerThrows`).
- An item of a batch whose type is no string ends the process instead of throwing the
  TypeError that follows (`ItemCrashes`, `jse_cosa.c:1386`).
- An `&` in a string is not text in the document but begins a reference (`Node`), where
  "string values are used as the value" of the entity (`GUIDE.md:607`).
- `encrypt()` and `decrypt()` leak a context for which there is no output (`NewOutput`), and an
  output from which duktape can make no value (`PushThrows`); broken bytecode leaks the buffer.

## Fairness

In `ExecProcess`, `JseFair` is weak fairness of JSE's
own steps, except for failing system calls: the loop is sequential code which
the kernel schedules whenever it is not blocked in `select()`, `read()` or
`waitpid()`, and blocking is in the guards. `ChildFair` says that a forked child
reaches `execve()` or `exit()`, and that its program, when not blocked on a full pipe,
writes what it means to and ends; `DaemonFair` asks the latter of what the child
leaves behind. A program that runs for ever makes `execProcess()` wait for ever, as
documented, so `CallReturns` has to assume both. Closing streams early, being
killed and starting a daemon are never forced.

`FairSpec` of `RequestLoop`, and the specification of `ScriptCalls`, are weakly fair to their
whole next-state relation: one thread of sequential code, which goes on as long as it
can. Which way it goes is never forced, so that the properties (`RequestEnds`,
`CallsEnd`) say that no way of the code comes back to where it was. For
`RequestEnds` a script has to end: the bounds on its calls assume it; for
`CallsEnd` that is what is shown, of inclusion and of the walk over objects.

## Proofs

Eight modules prove, for all values of the constants that satisfy the named `ASSUME`s, every
safety invariant and every action property that a passing run checks, and the two refinements.

| Module | Theorem | Statement (`Spec =>` ...) |
|---|---|---|
| `ExecProcessProofs` | `TypesKept` | `[]TypeOK` |
| | `DescriptorsAccounted` | `[]FdLedger` |
| | `CapturesAll` | `[]CompleteCapture` |
| | `LosesNothing` | `[]OutputKept` |
| | `NeverStuck` | `[]NeverBlocked` |
| `RequestLoopProofs` | `TypesKept` | `[]TypeOK` |
| | `PrintListKept` | `[]PrintListSound` |
| | `ScriptFindsFunctions` | `[]BindingsComplete` |
| | `SettingsAreExplained` | `[]SettingsExplained` |
| | `BodyIsExact` | `[]BodyExact` |
| | `ExitTellsTruth` | `[]ExitTruthful` |
| | `KeepsContract` | `ServiceSpec`, the refinement of `RequestService` |
| `FileStoreProofs` | `TypesKept` | `[]TypeOK` |
| | `WritesAlone` | `[]WriterExclusive` |
| | `FilesAreAtomic` | `AtomicSpec`, the refinement of `AtomicFiles` |
| `MakeDirectoryProofs` | `TypesKept` | `[]TypeOK` |
| | `FailureHasCause` | `[]FailsForCause` |
| | `SuccessIsReal` | `[]SuccessSawDirectory` |
| `ProcessCallsProofs` | `TypesKept` | `[]TypeOK` |
| | `ArgumentsAreExact` | `[]ArgumentsExact` |
| | `MemoryIsSound` | `[]MemorySound` |
| | `ChildrenAreCounted` | `[]ChildrenLedger` |
| | `SignalsComeTooLate` | `[]SignalTooLate` |
| `RequestObjectProofs` | `TypesKept` | `[]TypeOK` |
| | `ParametersAreExact` | `[]QueryExact` |
| | `ListIsInStep` | `[]ListMatchesStack` |
| | `BodyIsWhole` | `[]BodyExact` |
| `CosaClientProofs` | `TypesKept` | `[]TypeOK` |
| | `BlocksAreSound` | `[]BlocksSound` |
| | `BatchIsApplied` | `BatchIsWhole`, an action property |
| | `InstancesAreListed` | `InstancesListed`, an action property |
| `ScriptCallsProofs` | `TypesKept` | `[]TypeOK` |
| | `IncludesLikeReplaced` | `[]RunsAsReplaced` |
| | `DocumentsAreExact` | `[]DocumentExact` |
| | `DecryptsWhatWasEncrypted` | `[]RoundTrip` |
| | `BlocksAreSound` | `[]BlocksSound` |

Each module states an invariant that the initial states have and every step keeps (`IInv`, a
conjunction of named parts), has a lemma for each action or group of actions, and derives
its theorems by `PTL`.

### What is assumed

Nothing but the `ASSUME`s on the constants, which TLC evaluates in every run:

- `ExecProcess`: pipes and first buffers have at least one byte; what the script printed
  before the call fits into a pipe; the bounds are numbers.
- `RequestLoop`: there is a request (`MaxRequests` is at least 1); what is written over a count is
  not 0, as characters are not.
- `FileStore`: the longest text has a piece; scripts do not use the names of temporary files
  (`NamesAssumption`); what stands for no inode, no value and anything is none. The sets of
  processes, files, values and inodes, and how deep calls are nested, are arbitrary.
- `MakeDirectory`: a path has a component; what others do is among the things they can do.
- `ProcessCalls`: the identifiers are finitely many and 0 is none; arrays start with at least 4
  cells (16 in the code, `jse_jsprocess.c:594`).
- `RequestObject`: no property is the value that stands for none.
- `CosaClient`: names of parameters and of objects differ, and there is one; instance numbers
  have one or two digits, which `Listed` counts on.
- `ScriptCalls`: duktape allows one call, and the value stack has a place for the arguments; a
  file that is no script has no statements; the kind of an object is one of the two; a NUL is no
  farther than the end of its text. Scripts, objects and texts are arbitrary, and may contain
  themselves and each other.

### ExecProcess

`CompleteCapture` is about a call that has
returned; to know it, one needs that at `wait` the buffers hold all that was
written, thus that nothing is in the pipes and no one can write any more, which
in turn rests on why `outfd` became -1. The invariant is
`IInv == Typed /\ Quiet /\ Captured`:

- `Typed`: `TypeOK`, the ledger, and when JSE itself holds the write ends (only between
  `fork()` and the `close()` after it).
- `Quiet`: what is known about who can still write. A stream whose descriptor
  variable is -1 during a call is empty and has no writer, and it stays so, since
  write ends are only passed on by their holders; a child that was forked and not
  started holds both; nobody holds one between calls; a stream `select()` reported
  stays readable until JSE reads it.
- `Captured`: offset plus pipe equals what was written; there is room in the buffer
  of an open stream; at end of file the length was cut to the contents.

Each is preserved in a lemma for the steps of JSE and one for the steps of all
others, which rest on one fact (`OthersEffect`): others only add to pipes, and
only as holders of write ends.

### RequestLoop

- `Typed`: the reference counts are those of one `bind_functions()` while a heap is in use, and
  what they were at first whenever one is made (`RefsTracked`): zero, or `Overwritten` for Cosa
  once the destination was appended more than `Room` times. That is all that
  `BindingsComplete` needs, and the
  reason why every path has to pass `unbind_functions()`; where `main()` is agrees with the
  number of requests (`Counted`) and with whether qdecoder has a request (`RequestTracked`).
- `AnsweredOnce`: a request has no answer until its script is done with, and from then on
  `ret` says whether it has one. The three places that answer exclude each other by this.
- `Truthful`: in a process of one request `ret` says whether anything was reported.
- What the static variables may still have of other requests: the content type
  (`ContentTypeTracked`), the headers (`HeadersTracked`), and a list of prints that ends with
  those of the running script (`PrintsTracked`) and with the item `last_print_item` points to.

`KeepsContract` maps each step to one of `RequestService` or to none: `ServiceStep` lists the
forms such a step can have, in terms of `Phase`, the answers and `BusJustUp`.

### FileStore

What scripts rely on is that `rename()` only ever gives a name to something complete, which is so
for inodes that are not mixed. That needs
`CallsNested` (the calls around a call are all in the `toString()` of their value) and
`NestedIsMixed` (two calls of one process that write at once write mixed inodes);
`TmpExclusive`: an inode under a temporary name has no other name, and only calls of that process
have it open, also when an earlier call left it behind; `WriterHasTmp`: what a process writes is
under its temporary name, and as long as the offset says, and `TmpIsMixed` that a mixed writer
renames nothing else; `WritersApart`: no two processes write one inode;
`FilesComplete` and `ReadersComplete`: what has a
name scripts use, or is being read, is whole, and stays as it is. `FilesAreAtomic` follows, a step
at a time (`FileStep`): `write()` changes nothing the scripts see, `rename()` one file.

### MakeDirectory

`LoopSound`: unless something to fail for has happened, the component the loop has just left is a
directory. `ResultSound`: a failure has such a cause, a success has seen the directory. What others
do to the path reaches a call only as what it has seen (`Sees`).

### ProcessCalls

- `ProcsSound`: no two processes have the same number, and none has that of a result the
  script knows, which was reaped before the script got it. `SignalTooLate` rests on this alone.
- `LedgerSound`: a call leaves at most one child.
- `ArraysSound`: what was copied and what is still to be copied is what was given; an array has
  its strings in order, a NULL after them and, as long as no `realloc()` failed, the cells it
  counts. Doubling keeps that (`CellsExact`), whatever the size.
- `SeenSound`, `MemoryExact`: so a child gets the items, and what is allocated is what the arrays
  lead to.

### RequestObject

`InStep`: list and stack have the same objects in opposite order, which is why the n-th name
belongs to the n-th object from the top. `ObjectsExact`: an object has the last value given for
each of its properties. `QuerySound`: before uploads are attached QueryParameters has the last
string for each name, and from then on what it should for each name whose object has left the stack.

### CosaClient

`CallSound` has where each function can be and the items that were handled, `HeapSound` the blocks
that are allocated there, exactly but for copies `strdup()` failed to make; with it each way out
leaves no more than `Left`. The batch is compared with
a function of the items by induction over its length in the form of sets of numbers (below).

### ScriptCalls

`IInv` is the invariant of the part that runs.

- Encryption (`CryptInv`): `SourcesExact` says what the length of an encrypted text is, as a function
  of what it was (`EncryptedLength`), which holds because `OutLength` adds what both calls of
  libcrypto wrote; `OutputExact` what is allocated and written at each place of
  a call. That decryption gives back the length is arithmetic on whole blocks, and so is that
  its input is all libcrypto made (`Whole`); that output fits is
  `EncryptedLength(l, c) <= l + 16`. `BlocksAt` counts contexts and outputs.
- Inclusion (`IncludeInv`): `Explained` says that what was done and what is left to do make up
  what `Replaced` does. What is left (`Left`) is the rest of the innermost script and then, for each
  script around it, what follows the statement it is at, which depends on whether that failed
  (`Continues`). An error on its way up, `try`, and the end of a script each leave the sum as it is.
- XML (`XmlInv`): `Written` says that the nodes there are, and those the calls have still to
  add (`Missing`), make up the `Document`; `FramesSound` that each call is for the item the call
  around it is at. `Caught` is why there is no document of a cycle: the calls never get past an
  item from which one can go on for ever, since the call for it would have to return first.
  The invariant holds while no node was missed and as long as there are no arrays in arrays; for
  those the run `XmlNested` shows that it does not.

### Induction

The library states induction with an operator as a parameter, which the provers cannot
instantiate. Where a proof has to go along a recursive function (`Replaced`, `Nodes`, a
batch of items) it uses `AllNumbers`: a set of numbers that contains 0 and, with each number below a
bound, the next one contains all numbers up to the bound, which follows from the least element of
its complement (`WellFoundedInduction`). `Iteration` derives from it that a function defined by
recursion over numbers exists, and with that what its `CHOOSE` yields. The
references are recursive functions for this reason.

### Only model-checked

Liveness (`CallReturns`, `RequestEnds`, `CallsEnd`), as the prover does not handle `ENABLED`; and what the
`violation` runs show, which is a behaviour each.

## Not modelled

- Error objects: constructors without state; only their bindings appear.
- `sleep()`, `usleep()`, `debugPrint()`, `listDirectory()`: single calls, or a loop over
  `readdir()`, that change no state of JSE.
- What the options on the command line and in `JSE_ARGUMENTS` say: the model starts with
  their outcome (`mode`), or with the end of the process (`Options`).
- The libraries: duktape, qdecoder, libxml2, libcrypto and the bus library are what
  their callers need of them. A cipher is not computed.
- Form data of PUT and PATCH requests, which qdecoder is not asked to parse and
  `create_request_object_body()` leaves to it: no parameters and no body.
- The commit flag and the subsystem prefix of Cosa, which change nothing in JSE.
- Memory behind `dst_pathname_cr` other than the reference count of Cosa, where more attempts than
  three, or another compiler, may write.
- The kind of an error that crosses a protected call (`Inclusion` tells runs from failures, and not
  whether a generic Error took the place of the one that was thrown).
- A throw of `duk_push_string()` for the name of a script (`jse_jscommon.c:66`): an included file's
  name is a string of the heap already, and for the first script it is one more way to the fatal
  error that `LoadFails` leads to.
- The wording of messages, with it what a freed string shows in one (`setHeader()` and
  `setStr()` free a string before the message of the error names it), and the `errno` an error
  reports (an empty script is reported with a stale one, `jse_main.c:598`).
- What a Cosa value is cut to where `strncpy()` leaves it without its end (`jse_cosa.c:616`),
  and the items that are no strings, which `DmExtGetStrsWithRootObj()` skips and counts all
  the same (`jse_cosa.c:1152`): memory that was never written has no value in the models.
- Files that cannot seek, which `jse_read_file()` reads with the loop of
  `jse_read_fd()`, and the limit on the size of files.

## Plan

Done, in this order: `ExecProcess` and its proofs; `HttpResponse`, `Bindings`,
`RequestLoop`; `AtomicFiles`, `FileStore`; `MakeDirectory`; `CosaClient`; `ProcessCalls`;
`RequestObject`; `Inclusion`, `ObjectToXml`, `Crypt` with `ScriptCalls`; late calls and the
refinement of `RequestService`; the proofs about `RequestLoop`, `FileStore`, `MakeDirectory`,
`ProcessCalls`, `RequestObject`, `CosaClient` and `ScriptCalls`.

Next, by importance:

1. Model: the iterative `jse_read_fd()` in `FileStore`, for files that cannot seek.
2. Prove: that `execProcess()` of `ProcessCalls` is what `ExecProcess` does, seen from outside;
   action properties of `RequestLoop` (what a request may leave to the next one).
3. Model: the commit flag of `CosaClient`, with a component that keeps what is not committed.
