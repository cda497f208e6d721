---------------------------- MODULE RequestLoop ----------------------------
(***************************************************************************)
(* main() and handle_request() of jse_main.c: one process that serves one  *)
(* request (command line and CGI) or, built with FastCGI, one request      *)
(* after another, each with a fresh JavaScript heap but with the same      *)
(* static variables.  A script is the sequence of calls it happens to make *)
(* before it returns, throws or runs into a fatal error.                   *)
(***************************************************************************)
EXTENDS HttpResponse, Bindings, FiniteSets

CONSTANTS
    FastCgi,    \* ENABLE_FASTCGI, requests come from FCGI_Accept(): values to look at
    Http,       \* one of --get, --post, --cookies was given: values to look at
    InitCcsp,   \* BUILD_RDK and not --no-ccsp: values to look at
    Overwritten, \* a reference count that characters were written over
    MaxLate     \* bound: requests whose objects call functions after their script

ASSUME FlagsAssumption == FastCgi \subseteq BOOLEAN /\ Http \subseteq BOOLEAN /\ InitCcsp \subseteq BOOLEAN
ASSUME LateAssumption == MaxLate \in Nat
ASSUME OverwrittenAssumption == Overwritten \in Nat \ {0}

VARIABLES
    mode,       \* how JSE was built and started
    pc,         \* where main() is
    ret,        \* the variable ret of main()
    n,          \* the number of the current request
    req,        \* jse_ctx->req is not NULL
    isHttp,     \* is_http_request
    bound,      \* the bindings: reference counts and what the heap has
    cosaUp,     \* cosa_initialised
    upIn,       \* history: the request before which the message bus came up
    appended,   \* times a destination was appended to dst_pathname_cr
    answers,    \* the answers to the current request
    reported,   \* the script's outcome was reported: answer, output or stderr
    printed,    \* history: calls of print() buffered for this request
    threw,      \* history: requests whose script failed
    ran,        \* the heap has objects of a script
    late,       \* history: requests whose objects called functions after the script
    exit        \* the exit status of the process

bus  == <<cosaUp, upIn, appended>>
heap == <<ran, late>>
vars == <<mode, pc, ret, n, req, isHttp, bound, cosaUp, upIn, appended, answers, reported,
          printed, threw, ran, late, exit, prints, lastItem, status, contenttype, headers, cookie>>

PCs   == {"start", "accept", "create", "bind", "parse", "script", "message", "unbind",
          "destroy", "end", "exited"}
Exits == {"none", "success", "failure", "fatal", "abort"}

Init ==
    /\ InitResponse
    /\ mode \in [fastCgi : FastCgi, http : Http, ccsp : InitCcsp]
    /\ pc = "start" /\ ret = "err" /\ n = 0
    /\ req = FALSE /\ isHttp = FALSE
    /\ bound = NoBindings
    /\ cosaUp = FALSE /\ upIn = 0 /\ appended = 0
    /\ answers = <<>> /\ reported = FALSE /\ printed = 0
    /\ threw = {} /\ ran = FALSE /\ late = {} /\ exit = "none"

Answer(a) == answers' = Append(answers, a) /\ reported' = TRUE

-----------------------------------------------------------------------------
(* main() *)

\* Destinations there is room for in dst_pathname_cr (63 characters, each has 27; 23 in
\* the simulator).
Room == 2

\* strncat() is bounded by the size of the buffer and not by what is left of it: one more
\* is written past the end, over the reference count of the Cosa functions, which an
\* optimising compiler has put there, or over nothing that is used.
Overruns(b) ==
    IF appended < Room THEN {b}
    ELSE {b, [refs |-> [b.refs EXCEPT !["cosa"] = Overwritten], heap |-> b.heap]}

\* jse_cosa_init(): the destination is appended to the static buffer on every
\* call, the message bus may then fail.
CosaInit(works) ==
    /\ appended' = appended + 1
    /\ bound' \in Overruns(bound)
    /\ cosaUp' = works
    /\ upIn' = IF works THEN n' ELSE upIn
    /\ ret' = IF works THEN "ok" ELSE "err"

\* The options on the command line and in JSE_ARGUMENTS ask for help, one of them is
\* not known, or the directory for uploads cannot be made.
Options ==
    /\ pc = "start"
    /\ \E outcome \in {"success", "failure"} \union (IF mode.http THEN {"fatal"} ELSE {}) : exit' = outcome
    /\ pc' = "exited"
    /\ UNCHANGED <<ret, n, req, isHttp, bound, bus, answers, reported, printed, threw, heap>>
    /\ UNCHANGED response

\* Without FastCGI the message bus is tried once, before the only request; a
\* failure is not terminal.
Start ==
    /\ pc = "start"
    /\ IF mode.fastCgi
         THEN pc' = "accept" /\ UNCHANGED <<n, ret, bound, bus>>
         ELSE /\ pc' = "create" /\ n' = 1
              /\ IF mode.ccsp
                   THEN \E works \in BOOLEAN : CosaInit(works)
                   ELSE UNCHANGED <<ret, bound, bus>>
    /\ UNCHANGED <<req, isHttp, answers, reported, printed, threw, heap, exit>> /\ UNCHANGED response

NewRequest ==
    /\ pc = "accept" /\ n < MaxRequests
    /\ n' = n + 1
    /\ printed' = 0

\* SCRIPT_FILENAME is missing or cannot be copied.
AcceptWithoutScript ==
    /\ NewRequest
    /\ ret' = "err"
    /\ answers' = <<OwnAnswer("basic")>> /\ reported' = TRUE
    /\ UNCHANGED <<pc, req, isHttp, bound, bus, threw, heap, exit>> /\ UNCHANGED response

\* The message bus is up, or not wanted.
Accept ==
    /\ NewRequest /\ ~(mode.ccsp /\ ~cosaUp)
    /\ ret' = "err"
    /\ answers' = <<>> /\ reported' = FALSE
    /\ pc' = "create"
    /\ UNCHANGED <<req, isHttp, bound, bus, threw, heap, exit>> /\ UNCHANGED response

\* The message bus is tried again, and ret is left as jse_cosa_init() set it.
AcceptAndInit ==
    /\ NewRequest /\ mode.ccsp /\ ~cosaUp
    /\ \E works \in BOOLEAN :
        /\ CosaInit(works)
        /\ IF works
             THEN answers' = <<>> /\ reported' = FALSE /\ pc' = "create"
             ELSE answers' = <<OwnAnswer("basic")>> /\ reported' = TRUE /\ pc' = "accept"
    /\ UNCHANGED <<req, isHttp, threw, heap, exit>> /\ UNCHANGED response

\* A C library that checks the buffer (_FORTIFY_SOURCE) ends the process instead.
InitAborts ==
    /\ NewRequest /\ mode.ccsp /\ ~cosaUp /\ appended >= Room
    /\ ret' = "err"
    /\ answers' = <<>> /\ reported' = FALSE
    /\ pc' = "exited" /\ exit' = "abort"
    /\ UNCHANGED <<req, isHttp, bound, bus, threw, heap>> /\ UNCHANGED response

\* jse_context_create() fails.
CreateFails ==
    /\ pc = "create"
    /\ ret' = "err"
    /\ pc' = "end"
    /\ UNCHANGED <<n, req, isHttp, bound, bus, answers, reported, printed, threw, heap, exit>>
    /\ UNCHANGED response

\* duk_create_heap() fails: ret keeps its value.
HeapFails ==
    /\ pc = "create"
    /\ pc' = "end"
    /\ UNCHANGED <<ret, n, req, isHttp, bound, bus, answers, reported, printed, threw, heap, exit>>
    /\ UNCHANGED response

CreateHeap ==
    /\ pc = "create"
    /\ bound' = FreshHeap(bound)
    /\ ran' = FALSE
    /\ pc' = "bind"
    /\ UNCHANGED <<ret, n, req, isHttp, bus, answers, reported, printed, threw, late, exit>>
    /\ UNCHANGED response

\* Faulty variant: a request that failed is tried again instead of answered.
End_Retries ==
    /\ pc = "end"
    /\ IF ret = "err"
         THEN pc' = "create" /\ UNCHANGED exit
         ELSE IF mode.fastCgi
           THEN pc' = "accept" /\ UNCHANGED exit
           ELSE pc' = "exited" /\ exit' = "success"
    /\ UNCHANGED <<ret, n, req, isHttp, bound, bus, answers, reported, printed, threw, heap>>
    /\ UNCHANGED response

\* The end of the loop body: without FastCGI main() returns.
End ==
    /\ pc = "end"
    /\ IF ret = "err" /\ mode.http
         THEN Answer(OwnAnswer("basic")) /\ ret' = "ok"
         ELSE UNCHANGED <<answers, reported, ret>>
    /\ IF mode.fastCgi
         THEN pc' = "accept" /\ UNCHANGED exit
         ELSE pc' = "exited" /\ exit' = IF ret' = "ok" THEN "success" ELSE "failure"
    /\ UNCHANGED <<n, req, isHttp, bound, bus, printed, threw, heap>> /\ UNCHANGED response

\* FCGI_Accept() reports that the web server is done with this process.
Leave ==
    /\ pc = "accept"
    /\ pc' = "exited" /\ exit' = IF ret = "ok" THEN "success" ELSE "failure"
    /\ UNCHANGED <<ret, n, req, isHttp, bound, bus, answers, reported, printed, threw, heap>>
    /\ UNCHANGED response

-----------------------------------------------------------------------------
(* handle_request() *)

BindAll ==
    /\ pc = "bind"
    /\ bound' = BindFunctions(bound)
    /\ pc' = "parse"
    /\ UNCHANGED <<ret, n, req, isHttp, bus, answers, reported, printed, threw, heap, exit>>
    /\ UNCHANGED response

\* qdecoder parses the request by one of the methods asked for, or JSE was not
\* asked to look at a request at all.
Parse ==
    /\ pc = "parse"
    /\ req' = mode.http
    /\ isHttp' = (isHttp \/ mode.http)
    /\ ran' = TRUE
    /\ pc' = "script"
    /\ UNCHANGED <<ret, n, bound, bus, answers, reported, printed, threw, late, exit>>
    /\ UNCHANGED response

\* The request is of another method: 405, sent through a qdecoder request if
\* there is one after all and by hand if not.
ParseFails ==
    /\ pc = "parse" /\ mode.http
    /\ \E kind \in {"error", "basic"} : Answer(OwnAnswer(kind))
    /\ ret' = "ok"
    /\ pc' = "unbind"
    /\ UNCHANGED <<n, req, isHttp, bound, bus, printed, threw, heap, exit>>
    /\ UNCHANGED response

\* print(): outside of HTTP mode the text goes straight to stdout.
DoPrint ==
    /\ pc = "script" /\ isHttp /\ printed < MaxPrints
    /\ AppendPrint(n)
    /\ printed' = printed + 1
    /\ UNCHANGED <<pc, ret, n, req, isHttp, bound, bus, answers, reported, threw, heap, exit>>

SetAny ==
    \/ SetHTTPStatus(n) \/ SetContentType(n) \/ SetCookie(n)
    \/ \E h \in Headers : SetHeader(n, h)

Set ==
    /\ pc = "script"
    /\ SetAny
    /\ UNCHANGED <<pc, ret, n, req, isHttp, bound, bus, answers, reported, printed, threw, heap, exit>>

\* Objects of the script call the same functions after it: the toString() of what
\* it threw, while return_error() writes its message, and every finalizer, when
\* duk_destroy_heap() runs them after the answer.
LateCall ==
    /\ \/ pc = "message"
       \/ pc = "destroy" /\ ran
    /\ \/ isHttp /\ Len(prints) < MaxPrints /\ AppendPrint(n)
       \/ SetAny
    /\ late' = late \union {n} /\ Cardinality(late') <= MaxLate
    /\ UNCHANGED <<pc, ret, n, req, isHttp, bound, bus, answers, reported, printed, threw, ran, exit>>

\* Faulty variant: handle_request() forgets that the script succeeded.
ScriptReturns_NoRet ==
    /\ pc = "script"
    /\ IF req
         THEN Answer(Sent) /\ ReturnResponse /\ contenttype' = 0
         ELSE reported' = TRUE /\ UNCHANGED answers /\ UNCHANGED response
    /\ req' = FALSE
    /\ pc' = "unbind"
    /\ UNCHANGED <<ret, n, isHttp, bound, bus, printed, threw, heap, exit>>

\* The script returns: in HTTP mode the response is sent and the content type
\* freed and reset.
ScriptReturns ==
    /\ pc = "script"
    /\ IF req
         THEN Answer(Sent) /\ ReturnResponse /\ contenttype' = 0
         ELSE reported' = TRUE /\ UNCHANGED answers /\ UNCHANGED response
    /\ req' = FALSE
    /\ ret' = "ok"
    /\ pc' = "unbind"
    /\ UNCHANGED <<n, isHttp, bound, bus, printed, threw, heap, exit>>

\* The script cannot be read or throws an Error it does not catch.  In HTTP mode
\* what it printed is dropped before it is answered; otherwise JSE ends.
ScriptThrows ==
    /\ pc = "script"
    /\ threw' = threw \union {n}
    /\ IF req
         THEN DropResponse /\ pc' = "message" /\ UNCHANGED <<reported, exit>>
         ELSE reported' = TRUE /\ pc' = "exited" /\ exit' = "fatal" /\ UNCHANGED response
    /\ UNCHANGED <<ret, n, req, isHttp, bound, bus, answers, printed, heap>>

KeepAllButType == UNCHANGED <<prints, lastItem, status, headers, cookie>>

\* Faulty variant: an error that was answered is handed on to main() as if it was not.
AnswerError_ReportsAgain ==
    /\ pc = "message"
    /\ Answer(OwnAnswer("error"))
    /\ KeepAllButType /\ contenttype' = 0
    /\ req' = FALSE /\ ret' = "err" /\ pc' = "unbind"
    /\ UNCHANGED <<n, isHttp, bound, bus, printed, threw, heap, exit>>

AnswerError ==
    /\ pc = "message"
    /\ Answer(OwnAnswer("error"))
    /\ KeepAllButType /\ contenttype' = 0
    /\ req' = FALSE /\ ret' = "ok" /\ pc' = "unbind"
    /\ UNCHANGED <<n, isHttp, bound, bus, printed, threw, heap, exit>>

UnbindAll ==
    /\ pc = "unbind"
    /\ bound' = UnbindFunctions(bound)
    /\ pc' = "destroy"
    /\ UNCHANGED <<ret, n, req, isHttp, bus, answers, reported, printed, threw, heap, exit>>
    /\ UNCHANGED response

\* cleanup_duktape(), once every finalizer has run.
DestroyHeap ==
    /\ pc = "destroy"
    /\ pc' = "end"
    /\ UNCHANGED <<ret, n, req, isHttp, bound, bus, answers, reported, printed, threw, heap, exit>>
    /\ UNCHANGED response

\* duktape runs out of memory outside of a protected call: handle_fatal_error()
\* answers if there is a request, and ends the process.
FatalError ==
    /\ pc \in {"bind", "script", "message"}
    /\ IF req THEN Answer(OwnAnswer("error")) ELSE UNCHANGED <<answers, reported>>
    /\ req' = FALSE
    /\ pc' = "exited" /\ exit' = "fatal"
    /\ UNCHANGED <<ret, n, isHttp, bound, bus, printed, threw, heap>> /\ UNCHANGED response

\* setCookie() or return_response() frees a cookie twice and the C library
\* notices; when it does not, they go on as above.
Abort ==
    /\ pc \in {"script", "message"} \/ (pc = "destroy" /\ ran)
    /\ FreesTwice
    /\ pc' = "exited" /\ exit' = "abort"
    /\ UNCHANGED <<ret, n, req, isHttp, bound, bus, answers, reported, printed, threw, heap>>
    /\ UNCHANGED response

-----------------------------------------------------------------------------
Next ==
    /\ \/ Options \/ Start \/ Accept \/ AcceptWithoutScript \/ AcceptAndInit \/ InitAborts \/ Leave
       \/ CreateFails \/ HeapFails \/ CreateHeap \/ BindAll \/ Parse \/ ParseFails
       \/ DoPrint \/ Set \/ LateCall \/ ScriptReturns \/ ScriptThrows \/ AnswerError
       \/ UnbindAll \/ DestroyHeap \/ End \/ FatalError \/ Abort
    /\ UNCHANGED mode

Spec == Init /\ [][Next]_vars

\* Sequential code, which goes on whenever it can.  That a script ends is an
\* assumption: it makes boundedly many calls.
FairSpec == Spec /\ WF_vars(Next)

-----------------------------------------------------------------------------
(* Properties *)

TypeOK ==
    /\ TypeOKResponse
    /\ pc \in PCs /\ ret \in {"ok", "err"} /\ n \in 0 .. MaxRequests
    /\ req \in BOOLEAN /\ isHttp \in BOOLEAN
    /\ bound \in [refs : [Bound -> Nat], heap : SUBSET Bound]
    /\ mode \in [fastCgi : FastCgi, http : Http, ccsp : InitCcsp]
    /\ cosaUp \in BOOLEAN /\ upIn \in 0 .. MaxRequests /\ appended \in Nat
    /\ answers \in Seq(Answers) /\ reported \in BOOLEAN
    /\ printed \in 0 .. MaxPrints /\ threw \in SUBSET (1 .. MaxRequests)
    /\ ran \in BOOLEAN /\ late \in SUBSET (1 .. MaxRequests)
    /\ exit \in Exits

\* The message bus came up when the current request had been taken.
BusJustUp == n > 0 /\ n = upIn

Service == INSTANCE RequestService WITH
    web      <- mode.http,
    phase    <- CASE exit \in {"success", "failure"} -> "over"
                  [] exit \in {"fatal", "abort"}     -> "dead"
                  [] pc \in {"start", "accept"}      -> "idle"
                  [] OTHER                           -> "serving",
    excused  <- BusJustUp,
    answered <- Len(answers)

\* main() and handle_request(), with all their ways to fail, keep the contract of
\* RequestService; the requests they are excused from are those before which the
\* message bus came up.
ServiceSpec == Service!Spec

\* A request that was taken is done with or the process ends, whatever fails: no
\* path through the loop comes back to where it was.
RequestEnds == (pc = "create") ~> (pc \in {"accept", "exited"})

\* main() is done with the current request, and did not die of it.
Done == n > 0 /\ (pc = "accept" \/ exit \in {"success", "failure"})

\* A response ends with the output of its own script, all of it, and what comes
\* before that was printed late, by objects of earlier scripts.
BodyExact ==
    \A i \in 1 .. Len(answers) : answers[i].kind = "script" =>
        LET body  == answers[i].body
            first == Len(body) - printed
        IN  /\ first >= 0
            /\ \A k \in 1 .. Len(body) :
                   IF k > first THEN body[k] = n ELSE body[k] < n /\ body[k] \in late

\* The content type of a response is the default, the one its script set, or one
\* that was set late.
ContentTypeExplained ==
    \A i \in 1 .. Len(answers) : answers[i].contenttype \in {0, n} \union late

\* A header of another script can only come from one that failed, or was set late.
HeadersExplained ==
    \A i \in 1 .. Len(answers) : \A h \in Headers :
        answers[i].headers[h] \in {0, n} \union threw \union late

\* What a response says of itself is its own script's, but for what scripts that
\* failed and objects that outlived their script leave behind.
SettingsExplained == ContentTypeExplained /\ HeadersExplained

\* last_print_item points into the list whenever there is one, and only then:
\* print() never writes through a pointer to a freed item.
PrintListSound == lastItem = (prints # <<>>)

\* Every script finds every function, whatever happened to the heaps and the
\* reference counts of earlier requests; but for those of Cosa, when the destination was
\* appended more often than there is room for.
BindingsComplete ==
    pc = "script" => Bound \ bound.heap \subseteq IF appended > Room THEN {"cosa"} ELSE {}

\* A process that serves one request fails exactly if it reported nothing, unless
\* the message bus came up: then ret may have been left at success by that.
ExitTruthful == ~mode.fastCgi /\ Done /\ ~BusJustUp => (exit = "success") = reported

-----------------------------------------------------------------------------
(* What the documentation says and the code does not do *)

\* GUIDE.md: setCookie() "is used as the Set-Cookie field in the header of the
\* HTTP response", that of the script that calls it.
CookieIsOwn == \A i \in 1 .. Len(answers) : answers[i].cookie \in {0, n}

\* GUIDE.md: the functions for keys of CCSP "are all part of the Cosa object"; and
\* jse_main.c tries the message bus again after a failure, for later scripts to have them.
CosaIsThere == pc = "script" => "cosa" \in bound.heap
=============================================================================
