------------------------- MODULE RequestLoopProofs -------------------------
(***************************************************************************)
(* What RequestLoop promises, proved for every number of requests, prints  *)
(* and headers and every way to build and start JSE: its invariants, and   *)
(* that it implements RequestService.                                      *)
(***************************************************************************)
EXTENDS RequestLoop, TLAPS

USE RequestsAssumption, FlagsAssumption, LateAssumption, OverwrittenAssumption

\* The places in handle_request() between bind_functions() and
\* unbind_functions(), and those between two requests' scripts.
Holding  == {"parse", "script", "message", "unbind"}
Released == {"start", "accept", "create", "bind", "destroy", "end"}

\* Places before the script of the current request is done with, and after.
Before == {"create", "bind", "parse", "script", "message"}
After  == {"unbind", "destroy", "end"}

\* Every binding is counted once, the error objects by each binding that uses them; the
\* count of Cosa starts at c.
Held(c) == [m \in Bound |-> CASE m = "jserror" -> 3 [] m = "cosa" -> c + 1 [] OTHER -> 1]
Rest(c) == [m \in Bound |-> IF m = "cosa" THEN c ELSE 0]

\* The functions a heap gets then.
Known(c) == IF c = 0 THEN Bound ELSE Bound \ {"cosa"}

\* Between requests the counts are what they were at first, so that a heap that is not
\* bound to stays without functions; only that of Cosa may have been written over.
RefsFrom(c) ==
    /\ c # 0 => appended > Room
    /\ pc \in Holding  => bound = [refs |-> Held(c), heap |-> Known(c)]
    /\ pc \in Released => bound.refs = Rest(c)
    /\ pc = "bind" => bound.heap = {}
RefsTracked == \E c \in {0, Overwritten} : RefsFrom(c)

\* Where main() is agrees with the counter of requests and the exit status.
Counted ==
    /\ pc \in Before \union After => n >= 1
    /\ pc = "start" => n = 0 /\ answers = <<>> /\ ~reported /\ ret = "err"
    /\ upIn <= n /\ (~cosaUp => upIn = 0)
    /\ exit = "none" <=> pc # "exited"
    /\ pc = "accept" => mode.fastCgi

\* There is a request to qdecoder from parsing until the answer, in HTTP mode.
RequestTracked ==
    /\ isHttp => mode.http
    /\ pc # "exited" => (req <=> (pc \in {"script", "message"} /\ mode.http))
    /\ pc \in {"script", "message"} /\ mode.http => isHttp
    /\ pc = "message" => mode.http

Typed == TypeOK /\ RefsTracked /\ Counted /\ RequestTracked

\* Until its script is done with a request has no answer, and ret is the one of
\* jse_cosa_init(); afterwards ret says whether it was answered.
AnsweredOnce ==
    /\ Len(answers) <= 1
    /\ pc \in Before => answers = <<>> /\ ~reported /\ (ret = "ok" => BusJustUp)
    /\ pc \in After /\ ret = "err" => answers = <<>>
    /\ pc \in After /\ ret = "ok" /\ mode.http => Len(answers) = 1 \/ BusJustUp

\* What main() returns for the only request tells whether anything was reported.
Truthful ==
    ~mode.fastCgi /\ n > 0 /\ ~BusJustUp /\ exit \notin {"fatal", "abort"} =>
        /\ ret = "ok" <=> reported
        /\ exit # "none" => (exit = "success" <=> ret = "ok")

\* What is left for the next request in the static variables of the response.
ContentTypeTracked ==
    mode.http => contenttype \in {0} \union late
                   \union (IF pc \in {"script", "message", "exited"} THEN {n} ELSE {})
HeadersTracked ==
    mode.http => \A h \in Headers : headers[h] \in {0} \union threw \union late
                                      \union (IF pc \in {"script", "exited"} THEN {n} ELSE {})

\* The list of printed items ends with what the running script printed; the
\* rest was printed late, and by earlier requests while the script runs.
Fresh == {"create", "bind", "parse", "script"}
Own   == IF pc \in Fresh THEN printed ELSE 0
PrintsTracked ==
    /\ pc # "script" /\ pc \in Fresh \union {"start"} => printed = 0
    /\ ~mode.http => prints = <<>> /\ printed = 0
    /\ pc # "exited" =>
         /\ Len(prints) - Own >= 0
         /\ \A k \in 1 .. Len(prints) :
              IF k > Len(prints) - Own THEN prints[k] = n
              ELSE prints[k] \in late /\ (IF pc \in Fresh THEN prints[k] < n ELSE prints[k] <= n)

Inherited == ContentTypeTracked /\ HeadersTracked /\ PrintsTracked /\ PrintListSound

IInv == Typed /\ AnsweredOnce /\ Truthful /\ Inherited /\ SettingsExplained /\ BodyExact

-----------------------------------------------------------------------------
(* Bindings *)

\* bind_functions() in a fresh heap counts each binding as often as it is used, and
\* makes every function known whose count was zero.
LEMMA BindsAll ==
    ASSUME NEW c \in Nat
    PROVE  BindFunctions([refs |-> Rest(c), heap |-> {}]) = [refs |-> Held(c), heap |-> Known(c)]
<1> DEFINE b == [refs |-> Rest(c), heap |-> {}]
           g == BindJsCommon(b)
           d == BindJsProcess(g)
           e == BindXml(d)
           f == BindCosa(e)
<1>1. g = [refs |-> [m \in Bound |-> CASE m = "cosa" -> c [] m \in {"jserror", "jscommon"} -> 1
                                      [] OTHER -> 0],
           heap |-> {"jserror", "jscommon"}]
  <2>1. BindJsError(b) = [refs |-> [m \in Bound |-> CASE m = "cosa" -> c [] m = "jserror" -> 1
                                                     [] OTHER -> 0],
                          heap |-> {"jserror"}]
    <3>1. b = [refs |-> [m \in Bound |-> CASE m = "cosa" -> c [] OTHER -> 0], heap |-> {}]
      BY DEF Rest
    <3> HIDE DEF b
    <3> QED
      BY <3>1 DEF BindJsError, Bind, Bound
  <2> HIDE DEF b
  <2> QED
    BY <2>1 DEF BindJsCommon, Bind, Bound
<1>2. d = [refs |-> [m \in Bound |-> CASE m = "cosa" -> c [] m = "jserror" -> 2
                                      [] m \in {"jscommon", "jsprocess"} -> 1 [] OTHER -> 0],
           heap |-> {"jserror", "jscommon", "jsprocess"}]
  <2> HIDE DEF g
  <2> QED
    BY <1>1 DEF BindJsProcess, BindJsError, Bind, Bound
<1>3. e = [refs |-> [m \in Bound |-> CASE m = "cosa" -> c [] m = "jserror" -> 2
                                      [] m \in {"jscommon", "jsprocess", "xml"} -> 1
                                      [] OTHER -> 0],
           heap |-> {"jserror", "jscommon", "jsprocess", "xml"}]
  <2> HIDE DEF d
  <2> QED
    BY <1>2 DEF BindXml, Bind, Bound
<1>4. f = [refs |-> [m \in Bound |-> CASE m = "cosa" -> c + 1 [] m = "jserror" -> 2
                                      [] m = "crypt" -> 0 [] OTHER -> 1],
           heap |-> Known(c) \ {"crypt"}]
  <2> HIDE DEF e
  <2>1. BindCosaError(e) =
          [refs |-> [m \in Bound |-> CASE m = "cosa" -> c [] m = "jserror" -> 2
                                       [] m = "crypt" -> 0 [] OTHER -> 1],
           heap |-> {"jserror", "jscommon", "jsprocess", "xml", "cosaerror"}]
    BY <1>3 DEF BindCosaError, Bind, Bound
  <2>2. CASE c = 0
    BY <2>1, <2>2 DEF BindCosa, Bind, Bound, Known
  <2>3. CASE c # 0
    <3> DEFINE r == BindCosaError(e)
    <3>1. r.refs["cosa"] = c
      BY <2>1 DEF Bound
    <3>2. [r.refs EXCEPT !["cosa"] = @ + 1] =
            [m \in Bound |-> CASE m = "cosa" -> c + 1 [] m = "jserror" -> 2
                               [] m = "crypt" -> 0 [] OTHER -> 1]
      BY <2>1 DEF Bound
    <3>3. r.heap = Known(c) \ {"crypt"}
      BY <2>1, <2>3 DEF Known, Bound
    <3> HIDE DEF r
    <3> QED
      BY <2>3, <3>1, <3>2, <3>3 DEF BindCosa, Bind, r
  <2> QED
    BY <2>2, <2>3
<1>5. BindCrypt(f) = [refs |-> Held(c), heap |-> Known(c)]
  <2> HIDE DEF f
  <2>1. BindJsError(f) =
          [refs |-> [m \in Bound |-> CASE m = "cosa" -> c + 1 [] m = "jserror" -> 3
                                       [] m = "crypt" -> 0 [] OTHER -> 1],
           heap |-> Known(c) \ {"crypt"}]
    BY <1>4 DEF BindJsError, Bind, Bound
  <2> QED
    BY <2>1 DEF BindCrypt, Bind, Bound, Held, Known
<1> QED
  BY <1>5 DEF BindFunctions

\* unbind_functions() gives back exactly what bind_functions() counted.
LEMMA UnbindsAll ==
    ASSUME NEW c \in Nat, NEW h
    PROVE  UnbindFunctions([refs |-> Held(c), heap |-> h]) = [refs |-> Rest(c), heap |-> h]
<1> DEFINE b == [refs |-> Held(c), heap |-> h]
           f == UnbindCrypt(b)
           e == UnbindCosa(f)
           d == UnbindXml(e)
           g == UnbindJsProcess(d)
<1>1. f = [refs |-> [m \in Bound |-> CASE m = "cosa" -> c + 1 [] m = "jserror" -> 2
                                      [] m = "crypt" -> 0 [] OTHER -> 1],
           heap |-> h]
  BY DEF UnbindCrypt, UnbindJsError, Unbind, Bound, Held
<1>2. e = [refs |-> [m \in Bound |-> CASE m = "cosa" -> c [] m = "jserror" -> 2
                                      [] m \in {"jscommon", "jsprocess", "xml"} -> 1
                                      [] OTHER -> 0],
           heap |-> h]
  <2> HIDE DEF f
  <2> QED
    BY <1>1 DEF UnbindCosa, UnbindCosaError, Unbind, Bound
<1>3. d = [refs |-> [m \in Bound |-> CASE m = "cosa" -> c [] m = "jserror" -> 2
                                      [] m \in {"jscommon", "jsprocess"} -> 1 [] OTHER -> 0],
           heap |-> h]
  <2> HIDE DEF e
  <2> QED
    BY <1>2 DEF UnbindXml, Unbind, Bound
<1>4. g = [refs |-> [m \in Bound |-> CASE m = "cosa" -> c [] m \in {"jserror", "jscommon"} -> 1
                                      [] OTHER -> 0],
           heap |-> h]
  <2> HIDE DEF d
  <2> QED
    BY <1>3 DEF UnbindJsProcess, UnbindJsError, Unbind, Bound
<1>5. UnbindJsCommon(g) = [refs |-> Rest(c), heap |-> h]
  <2> HIDE DEF g
  <2> QED
    BY <1>4 DEF UnbindJsCommon, UnbindJsError, Unbind, Bound, Rest
<1> QED
  BY <1>5 DEF UnbindFunctions

-----------------------------------------------------------------------------
(* Types and control *)

\* The values the counts have between steps are counts.
LEMMA HeldTypes ==
    ASSUME NEW c \in Nat
    PROVE  Held(c) \in [Bound -> Nat] /\ Rest(c) \in [Bound -> Nat] /\ Known(c) \subseteq Bound
BY DEF Held, Rest, Known

\* An answer is one of Answers.
LEMMA OwnAnswerType ==
    ASSUME NEW kind \in {"error", "basic"}
    PROVE  OwnAnswer(kind) \in Answers
<1>1. 0 \in Owners
  BY DEF Owners, Garbage
<1>2. NoHeaders \in [Headers -> Owners] /\ <<>> \in Seq(Owners)
  BY <1>1 DEF NoHeaders
<1> QED
  BY <1>1, <1>2 DEF OwnAnswer, Answers

\* What is sent for a response is an answer.
LEMMA SentType ==
    ASSUME TypeOKResponse
    PROVE  Sent \in Answers
<1> DEFINE c == CASE cookie.state = "none" -> 0
                  [] cookie.state = "live" -> cookie.owner
                  [] OTHER -> Garbage
<1>1. cookie.state \in {"none", "live", "freed"} /\ cookie.owner \in Owners
  BY DEF TypeOKResponse
<1>2. 0 \in Owners /\ Garbage \in Owners
  BY DEF Owners, Garbage
<1>3. c \in Owners
  BY <1>1, <1>2, Zenon
<1> HIDE DEF c
<1>4. [kind |-> "script", status |-> status, contenttype |-> contenttype,
       headers |-> headers, cookie |-> c, body |-> prints] \in Answers
  BY <1>3 DEF TypeOKResponse, Answers
<1> QED
  BY <1>4 DEF Sent, c

\* The initial states.
LEMMA InitTyped == Init => Typed
<1> SUFFICES ASSUME Init PROVE Typed
  OBVIOUS
<1>0. 0 \in Owners /\ <<>> \in Seq(Owners) /\ <<>> \in Seq(Answers)
  BY DEF Owners, Garbage
<1>1. TypeOKResponse
  <2>1. NoCookie \in [state : {"none", "live", "freed"}, owner : Owners]
    BY <1>0 DEF NoCookie
  <2>2. NoHeaders \in [Headers -> Owners]
    BY <1>0 DEF NoHeaders
  <2> QED
    BY <1>0, <2>1, <2>2 DEF Init, InitResponse, TypeOKResponse
<1>2. TypeOK
  <2>1. bound \in [refs : [Bound -> Nat], heap : SUBSET Bound]
    BY DEF Init, NoBindings
  <2>2. /\ mode \in [fastCgi : FastCgi, http : Http, ccsp : InitCcsp]
        /\ answers \in Seq(Answers)
    BY <1>0, Zenon DEF Init
  <2>3. /\ pc \in PCs /\ ret \in {"ok", "err"} /\ exit \in Exits
        /\ n \in 0 .. MaxRequests /\ upIn \in 0 .. MaxRequests /\ appended \in Nat
        /\ printed \in 0 .. MaxPrints
    BY DEF Init, PCs, Exits
  <2>4. /\ req \in BOOLEAN /\ isHttp \in BOOLEAN /\ cosaUp \in BOOLEAN
        /\ reported \in BOOLEAN /\ ran \in BOOLEAN
        /\ threw \in SUBSET (1 .. MaxRequests) /\ late \in SUBSET (1 .. MaxRequests)
    BY DEF Init
  <2> QED
    BY <1>1, <2>1, <2>2, <2>3, <2>4 DEF TypeOK
<1>3. RefsFrom(0)
  BY DEF Init, RefsFrom, Holding, Rest, NoBindings, Bound
<1> QED
  BY <1>2, <1>3 DEF Init, Typed, RefsTracked, Counted, RequestTracked, Before, After

\* The functions a script calls set the variables of the response to values of
\* their types.
LEMMA SetTypes ==
    ASSUME TypeOKResponse, n \in Owners, AppendPrint(n) \/ SetAny
    PROVE  TypeOKResponse'
<1> USE DEF TypeOKResponse
<1>1. CASE AppendPrint(n)
  BY <1>1 DEF AppendPrint
<1>2. CASE SetHTTPStatus(n) \/ SetContentType(n) \/ SetCookie(n)
  BY <1>2 DEF SetHTTPStatus, SetContentType, SetCookie
<1>3. ASSUME NEW h \in Headers, SetHeader(n, h) PROVE TypeOKResponse'
  BY <1>3 DEF SetHeader
<1> QED
  BY <1>1, <1>2, <1>3 DEF SetAny

\* Sending and dropping a response keep the types too.
LEMMA ReturnTypes ==
    ASSUME TypeOKResponse,
           \/ ReturnResponse /\ contenttype' = 0
           \/ DropResponse
           \/ KeepAllButType /\ contenttype' = 0
           \/ UNCHANGED response
    PROVE  TypeOKResponse'
<1> USE DEF TypeOKResponse, DropPrints
<1>0. 0 \in Owners /\ NoHeaders \in [Headers -> Owners] /\ <<>> \in Seq(Owners)
  BY DEF Owners, Garbage, NoHeaders
<1>1. CASE ReturnResponse /\ contenttype' = 0
  <2>1. cookie' \in [state : {"none", "live", "freed"}, owner : Owners]
    BY <1>1 DEF ReturnResponse
  <2> QED
    BY <1>0, <1>1, <2>1 DEF ReturnResponse
<1>2. CASE DropResponse
  BY <1>0, <1>2 DEF DropResponse
<1>3. CASE KeepAllButType /\ contenttype' = 0
  BY <1>0, <1>3 DEF KeepAllButType
<1>4. CASE UNCHANGED response
  BY <1>4 DEF response
<1> QED
  BY <1>1, <1>2, <1>3, <1>4

\* The steps that leave the response alone.
Elsewhere == Options \/ Start \/ Accept \/ AcceptWithoutScript \/ AcceptAndInit \/
             InitAborts \/ Leave \/
             CreateFails \/ HeapFails \/ CreateHeap \/ BindAll \/ Parse \/ ParseFails \/
             UnbindAll \/ DestroyHeap \/ End \/ FatalError \/ Abort

\* These steps indeed leave it alone.
LEMMA ElsewhereKeeps == Elsewhere => UNCHANGED response
BY DEF Elsewhere, Options, Start, Accept, AcceptWithoutScript, AcceptAndInit, InitAborts, Leave,
                  CreateFails, HeapFails, CreateHeap, BindAll, Parse, ParseFails,
                  UnbindAll, DestroyHeap, End, FatalError, Abort

\* Every step keeps the types of the static variables of the response.
LEMMA NextResponse ==
    ASSUME TypeOK, [Next]_vars
    PROVE  TypeOKResponse'
<1>0. TypeOKResponse /\ n \in Owners
  BY DEF TypeOK, Owners, Garbage
<1>1. CASE Elsewhere
  BY <1>0, <1>1, ElsewhereKeeps, ReturnTypes
<1>2. CASE DoPrint \/ Set \/ LateCall
  BY <1>0, <1>2, SetTypes DEF DoPrint, Set, LateCall
<1>3. CASE ScriptReturns \/ ScriptThrows \/ AnswerError
  BY <1>0, <1>3, ReturnTypes DEF ScriptReturns, ScriptThrows, AnswerError
<1>4. CASE UNCHANGED vars
  BY <1>0, <1>4 DEF vars, TypeOKResponse
<1> QED
  BY <1>1, <1>2, <1>3, <1>4 DEF Next, Elsewhere

\* Every step keeps the counts right: what is bound to a heap is unbound from it, and
\* only appending a destination too many writes over one.
LEMMA NextBindings ==
    ASSUME Typed, [Next]_vars
    PROVE  RefsTracked' /\ (bound \in [refs : [Bound -> Nat], heap : SUBSET Bound])'
<1> DEFINE Kind == [refs : [Bound -> Nat], heap : SUBSET Bound]
<1>0. bound \in Kind /\ appended \in Nat
  BY DEF Typed, TypeOK
<1>c. PICK c \in {0, Overwritten} : RefsFrom(c)
  BY DEF Typed, RefsTracked
<1>n. c \in Nat
  OBVIOUS
<1> USE DEF RefsFrom, Holding, Released
<1>1. CASE CreateHeap
  <2>1. /\ bound' = [refs |-> Rest(c), heap |-> {}] /\ pc' = "bind" /\ appended' = appended
    BY <1>1, <1>c DEF CreateHeap, FreshHeap, bus
  <2>2. RefsFrom(c)'
    BY <1>c, <2>1
  <2> QED
    BY <1>n, <2>1, <2>2, HeldTypes DEF RefsTracked
<1>2. CASE BindAll
  <2>1. bound = [refs |-> Rest(c), heap |-> {}]
    BY <1>0, <1>2, <1>c DEF BindAll
  <2>2. bound' = [refs |-> Held(c), heap |-> Known(c)] /\ pc' = "parse" /\ appended' = appended
    BY <1>2, <1>n, <2>1, BindsAll DEF BindAll, bus
  <2>3. RefsFrom(c)'
    BY <1>c, <2>2
  <2> QED
    BY <1>n, <2>2, <2>3, HeldTypes DEF RefsTracked
<1>3. CASE UnbindAll
  <2>1. bound = [refs |-> Held(c), heap |-> Known(c)]
    BY <1>3, <1>c DEF UnbindAll
  <2>2. bound' = [refs |-> Rest(c), heap |-> Known(c)] /\ pc' = "destroy" /\ appended' = appended
    BY <1>3, <1>n, <2>1, UnbindsAll DEF UnbindAll, bus
  <2>3. RefsFrom(c)'
    BY <1>c, <2>2
  <2> QED
    BY <1>n, <2>2, <2>3, HeldTypes DEF RefsTracked
<1>4. ASSUME NEW works \in BOOLEAN, CosaInit(works),
             pc \in {"start", "accept"}, pc' \in {"accept", "create"}
      PROVE  RefsTracked' /\ bound' \in Kind
  <2>1. appended' = appended + 1 /\ bound' \in Overruns(bound)
    BY <1>4 DEF CosaInit
  <2>2. CASE bound' = bound
    <3>1. RefsFrom(c)'
      BY <1>0, <1>4, <1>c, <2>1, <2>2 DEF Room
    <3> QED
      BY <1>0, <2>2, <3>1 DEF RefsTracked
  <2>3. CASE bound' # bound
    <3>1. /\ appended >= Room
          /\ bound' = [refs |-> [bound.refs EXCEPT !["cosa"] = Overwritten], heap |-> bound.heap]
      BY <1>0, <2>1, <2>3 DEF Overruns, Room
    <3>2. [bound.refs EXCEPT !["cosa"] = Overwritten] = Rest(Overwritten)
      BY <1>4, <1>c DEF Rest, Bound
    <3>3. RefsFrom(Overwritten)'
      BY <1>0, <1>4, <2>1, <3>1, <3>2 DEF Room
    <3> QED
      BY <1>0, <3>1, <3>2, <3>3, HeldTypes DEF RefsTracked
  <2> QED
    BY <2>2, <2>3
<1>5. ASSUME bound' = bound, appended' = appended,
             \/ pc' = pc
             \/ pc' = "exited"
             \/ pc \in Released /\ pc' \in Released \ {"bind"}
             \/ pc \in Holding /\ pc' \in Holding
      PROVE  RefsTracked' /\ bound' \in Kind
  <2>1. RefsFrom(c)'
    BY <1>5, <1>c
  <2> QED
    BY <1>0, <1>5, <2>1 DEF RefsTracked
<1> HIDE DEF RefsFrom
<1>6. CASE Start
  <2>1. CASE ~mode.fastCgi /\ mode.ccsp
    <3>1. \E works \in BOOLEAN : CosaInit(works)
      BY <1>6, <2>1, Zenon DEF Start
    <3> QED
      BY <1>4, <1>6, <2>1, <3>1 DEF Start
  <2>2. CASE ~(~mode.fastCgi /\ mode.ccsp)
    <3>1. bound' = bound /\ appended' = appended /\ pc' \in {"accept", "create"}
      BY <1>6, <2>2, Zenon DEF Start, bus
    <3> QED
      BY <1>5, <1>6, <3>1 DEF Start
  <2> QED
    BY <2>1, <2>2
<1>7. CASE AcceptAndInit
  BY <1>4, <1>7 DEF AcceptAndInit, NewRequest
<1>8. CASE Options \/ Accept \/ AcceptWithoutScript \/ InitAborts \/ Leave
  BY <1>5, <1>8 DEF Options, Accept, AcceptWithoutScript, InitAborts, Leave, NewRequest, bus
<1>9. CASE CreateFails \/ HeapFails \/ DestroyHeap \/ End \/ FatalError \/ Abort
  BY <1>5, <1>9 DEF CreateFails, HeapFails, DestroyHeap, End, FatalError, Abort, bus
<1>10. CASE Parse \/ ParseFails \/ DoPrint \/ Set \/ LateCall
  BY <1>5, <1>10 DEF Parse, ParseFails, DoPrint, Set, LateCall, bus
<1>11. CASE ScriptReturns \/ ScriptThrows \/ AnswerError
  BY <1>5, <1>11 DEF ScriptReturns, ScriptThrows, AnswerError, bus
<1>12. CASE UNCHANGED vars
  BY <1>5, <1>12 DEF vars, bus
<1> QED
  BY <1>1, <1>2, <1>3, <1>6, <1>7, <1>8, <1>9, <1>10, <1>11, <1>12 DEF Next, Kind

\* The rest of TypeOK.
Control ==
    /\ pc \in PCs /\ ret \in {"ok", "err"} /\ n \in 0 .. MaxRequests
    /\ req \in BOOLEAN /\ isHttp \in BOOLEAN
    /\ mode.fastCgi \in BOOLEAN /\ mode.http \in BOOLEAN /\ mode.ccsp \in BOOLEAN
    /\ cosaUp \in BOOLEAN /\ upIn \in 0 .. MaxRequests /\ appended \in Nat
    /\ reported \in BOOLEAN
    /\ printed \in 0 .. MaxPrints /\ threw \in SUBSET (1 .. MaxRequests)
    /\ ran \in BOOLEAN /\ late \in SUBSET (1 .. MaxRequests)
    /\ exit \in Exits

\* Every step sends answers only.
LEMMA NextAnswers ==
    ASSUME TypeOK, [Next]_vars
    PROVE  (answers \in Seq(Answers))'
<1>1. answers \in Seq(Answers) /\ Sent \in Answers
  BY SentType DEF TypeOK
<1>2. \/ answers' = answers \/ answers' = <<>>
      \/ \E a \in Answers : answers' = <<a>> \/ answers' = Append(answers, a)
  BY <1>1, OwnAnswerType DEF Next, vars, Answer, Options, Start, Accept, AcceptWithoutScript,
     AcceptAndInit, InitAborts,
                             Leave, CreateFails, HeapFails, CreateHeap, BindAll, Parse,
                             ParseFails, DoPrint, Set, LateCall, ScriptReturns,
                             ScriptThrows, AnswerError, UnbindAll, DestroyHeap, End,
                             FatalError, Abort
<1>3. ASSUME NEW a \in Answers PROVE <<a>> \in Seq(Answers)
  OBVIOUS
<1>4. <<>> \in Seq(Answers)
  OBVIOUS
<1>5. ASSUME NEW a \in Answers PROVE Append(answers, a) \in Seq(Answers)
  BY <1>1
<1> QED
  BY <1>1, <1>2, <1>3, <1>4, <1>5

\* Every step keeps the types, the counts and where main() is.
LEMMA NextTyped ==
    ASSUME Typed, [Next]_vars
    PROVE  Typed'
<1> USE DEF Control, Counted, RequestTracked, Before, After, PCs, Exits, bus, heap
<1>0. Control /\ Counted /\ RequestTracked
  BY DEF Typed, TypeOK
<1> SUFFICES Control' /\ Counted' /\ RequestTracked' /\ mode' = mode
  BY NextResponse, NextBindings, NextAnswers DEF Typed, TypeOK
<1>1. CASE Options /\ UNCHANGED mode
  BY <1>0, <1>1 DEF Options, NewRequest, CosaInit, Answer
<1>2. CASE Start /\ UNCHANGED mode
  BY <1>0, <1>2 DEF Start, NewRequest, CosaInit, Answer
<1>3. CASE Accept /\ UNCHANGED mode
  <2>1. /\ NewRequest /\ ret' = "err" /\ reported' = FALSE /\ pc' = "create"
        /\ UNCHANGED <<req, isHttp, bus, threw, heap, exit, mode>>
    BY <1>3, Zenon DEF Accept
  <2>2. n' \in 0 .. MaxRequests /\ printed' \in 0 .. MaxPrints
    BY <1>0, <2>1 DEF NewRequest
  <2>3. Control'
    BY <1>0, <2>1, <2>2
  <2> QED
    BY <1>0, <2>1, <2>3 DEF NewRequest
<1>4. CASE AcceptWithoutScript /\ UNCHANGED mode
  BY <1>0, <1>4 DEF AcceptWithoutScript, NewRequest, CosaInit, Answer
<1>5. CASE AcceptAndInit /\ UNCHANGED mode
  <2>1. NewRequest /\ UNCHANGED <<req, isHttp, threw, heap, exit, mode>>
    BY <1>5, Zenon DEF AcceptAndInit
  <2>2. PICK works \in BOOLEAN :
          /\ CosaInit(works) /\ reported' \in BOOLEAN
          /\ pc' = IF works THEN "create" ELSE "accept"
    BY <1>5 DEF AcceptAndInit
  <2>3. /\ pc = "accept" /\ n' = n + 1 /\ n < MaxRequests /\ printed' = 0
        /\ cosaUp' = works /\ upIn' = IF works THEN n' ELSE upIn
        /\ ret' = IF works THEN "ok" ELSE "err"
        /\ appended' = appended + 1 /\ ~cosaUp
    BY <1>5, <2>1, <2>2 DEF NewRequest, CosaInit, AcceptAndInit
  <2>4. Control'
    BY <1>0, <2>1, <2>2, <2>3
  <2>5. Counted' /\ RequestTracked'
    BY <1>0, <2>1, <2>2, <2>3
  <2> QED
    BY <2>1, <2>4, <2>5
<1>6. CASE Leave /\ UNCHANGED mode
  BY <1>0, <1>6 DEF Leave, NewRequest, CosaInit, Answer
<1>7. CASE CreateFails /\ UNCHANGED mode
  BY <1>0, <1>7 DEF CreateFails, NewRequest, CosaInit, Answer
<1>8. CASE HeapFails /\ UNCHANGED mode
  BY <1>0, <1>8 DEF HeapFails, NewRequest, CosaInit, Answer
<1>9. CASE CreateHeap /\ UNCHANGED mode
  BY <1>0, <1>9 DEF CreateHeap, NewRequest, CosaInit, Answer
<1>10. CASE BindAll /\ UNCHANGED mode
  BY <1>0, <1>10 DEF BindAll, NewRequest, CosaInit, Answer
<1>11. CASE Parse /\ UNCHANGED mode
  BY <1>0, <1>11 DEF Parse, NewRequest, CosaInit, Answer
<1>12. CASE ParseFails /\ UNCHANGED mode
  BY <1>0, <1>12 DEF ParseFails, NewRequest, CosaInit, Answer
<1>13. CASE DoPrint /\ UNCHANGED mode
  BY <1>0, <1>13 DEF DoPrint, NewRequest, CosaInit, Answer
<1>14. CASE Set /\ UNCHANGED mode
  BY <1>0, <1>14 DEF Set, NewRequest, CosaInit, Answer
<1>15. CASE LateCall /\ UNCHANGED mode
  BY <1>0, <1>15 DEF LateCall, NewRequest, CosaInit, Answer
<1>16. CASE ScriptReturns /\ UNCHANGED mode
  BY <1>0, <1>16 DEF ScriptReturns, NewRequest, CosaInit, Answer
<1>17. CASE ScriptThrows /\ UNCHANGED mode
  <2>1. n \in 1 .. MaxRequests /\ (req <=> mode.http)
    BY <1>0, <1>17 DEF ScriptThrows
  <2>2. threw' \in SUBSET (1 .. MaxRequests)
    BY <1>0, <1>17, <2>1 DEF ScriptThrows
  <2> QED
    BY <1>0, <1>17, <2>1, <2>2 DEF ScriptThrows
<1>18. CASE AnswerError /\ UNCHANGED mode
  BY <1>0, <1>18 DEF AnswerError, NewRequest, CosaInit, Answer
<1>19. CASE UnbindAll /\ UNCHANGED mode
  BY <1>0, <1>19 DEF UnbindAll, NewRequest, CosaInit, Answer
<1>20. CASE DestroyHeap /\ UNCHANGED mode
  BY <1>0, <1>20 DEF DestroyHeap, NewRequest, CosaInit, Answer
<1>21. CASE End /\ UNCHANGED mode
  BY <1>0, <1>21 DEF End, NewRequest, CosaInit, Answer
<1>22. CASE FatalError /\ UNCHANGED mode
  BY <1>0, <1>22 DEF FatalError, NewRequest, CosaInit, Answer
<1>23. CASE Abort /\ UNCHANGED mode
  BY <1>0, <1>23 DEF Abort, NewRequest, CosaInit, Answer
<1>24. CASE UNCHANGED vars
  BY <1>0, <1>24 DEF vars
<1>25. CASE InitAborts /\ UNCHANGED mode
  <2>1. /\ pc = "accept" /\ n' = n + 1 /\ n < MaxRequests /\ printed' = 0
        /\ ret' = "err" /\ reported' = FALSE /\ pc' = "exited" /\ exit' = "abort"
        /\ UNCHANGED <<req, isHttp, bus, threw, heap, mode>>
    BY <1>25, Zenon DEF InitAborts, NewRequest
  <2>2. Control'
    <3>1. UNCHANGED <<req, isHttp, cosaUp, upIn, appended, threw, ran, late, mode>>
      BY <2>1
    <3>2. n' \in 0 .. MaxRequests /\ printed' \in 0 .. MaxPrints
      BY <1>0, <2>1
    <3> QED
      BY <1>0, <2>1, <3>1, <3>2
  <2>3. Counted'
    <3>1. upIn <= n + 1 /\ upIn' = upIn /\ cosaUp' = cosaUp
      BY <1>0, <2>1
    <3> QED
      BY <1>0, <2>1, <3>1
  <2>4. RequestTracked'
    <3>1. isHttp' = isHttp /\ mode' = mode /\ pc' = "exited"
      BY <2>1, Zenon
    <3> QED
      BY <1>0, <3>1
  <2> QED
    BY <2>1, <2>2, <2>3, <2>4
<1> QED
  BY <1>1, <1>2, <1>3, <1>4, <1>5, <1>6, <1>7, <1>8, <1>9, <1>10, <1>11, <1>12, <1>13,
     <1>14, <1>15, <1>16, <1>17, <1>18, <1>19, <1>20, <1>21, <1>22, <1>23, <1>24, <1>25 DEF Next

-----------------------------------------------------------------------------
(* Answers and exit status *)

\* The first answer is the only one.
LEMMA FirstAnswer ==
    ASSUME NEW a, answers = <<>>, Answer(a)
    PROVE  Len(answers') = 1 /\ reported' = TRUE
BY DEF Answer

\* Every step keeps it that a request has at most one answer and that ret says which
\* have one: the three places that may answer exclude each other.
LEMMA NextAnswered ==
    ASSUME Typed, AnsweredOnce, Truthful, [Next]_vars
    PROVE  AnsweredOnce' /\ Truthful'
<1> USE DEF AnsweredOnce, Truthful, Before, After, BusJustUp, bus, Control, Counted,
            RequestTracked, PCs, NewRequest, CosaInit
<1>0. Control /\ Counted /\ RequestTracked
  BY DEF Typed, TypeOK, Control
<1>a. req \in BOOLEAN /\ mode.http \in BOOLEAN /\ mode.fastCgi \in BOOLEAN
  BY <1>0 DEF Control
<1>b. pc \in Before => answers = <<>>
  BY DEF AnsweredOnce
<1>24. CASE UNCHANGED vars
  BY <1>0, <1>24 DEF vars
<1>1. CASE Options /\ UNCHANGED mode
  BY <1>0, <1>1 DEF Options
<1>2. CASE Start /\ UNCHANGED mode
  BY <1>0, <1>2 DEF Start
<1>3. CASE Accept /\ UNCHANGED mode
  BY <1>0, <1>3 DEF Accept
<1>4. CASE AcceptWithoutScript /\ UNCHANGED mode
  <2>1. Len(answers') = 1 /\ pc = "accept" /\ pc' = "accept" /\ UNCHANGED <<exit, mode>>
    BY <1>4 DEF AcceptWithoutScript, NewRequest
  <2> QED
    BY <1>0, <2>1
<1>5. CASE AcceptAndInit /\ UNCHANGED mode
  <2>1. \/ answers' = <<>> /\ reported' = FALSE /\ pc' = "create" /\ ret' = "ok" /\ upIn' = n'
        \/ answers' = <<OwnAnswer("basic")>> /\ pc' = "accept"
    BY <1>5 DEF AcceptAndInit, CosaInit
  <2>2. pc = "accept" /\ n' = n + 1 /\ UNCHANGED <<exit, mode>>
    BY <1>5 DEF AcceptAndInit, NewRequest
  <2>3. Len(answers') <= 1
    <3>1. answers' = <<>> => Len(answers') <= 1
      OBVIOUS
    <3>2. answers' = <<OwnAnswer("basic")>> => Len(answers') <= 1
      OBVIOUS
    <3> QED
      BY <2>1, <3>1, <3>2, Zenon
  <2> QED
    BY <1>0, <2>1, <2>2, <2>3
<1>6. CASE Leave /\ UNCHANGED mode
  BY <1>0, <1>6 DEF Leave
<1>7. CASE CreateFails /\ UNCHANGED mode
  BY <1>0, <1>7 DEF CreateFails
<1>8. CASE HeapFails /\ UNCHANGED mode
  BY <1>0, <1>8 DEF HeapFails
<1>9. CASE CreateHeap /\ UNCHANGED mode
  BY <1>0, <1>9 DEF CreateHeap
<1>10. CASE BindAll /\ UNCHANGED mode
  BY <1>0, <1>10 DEF BindAll
<1>11. CASE Parse /\ UNCHANGED mode
  BY <1>0, <1>11 DEF Parse
<1>12. CASE ParseFails /\ UNCHANGED mode
  <2>1. Len(answers') = 1 /\ reported' = TRUE
    BY <1>b, <1>12, FirstAnswer DEF ParseFails, Before
  <2> QED
    BY <1>0, <1>12, <2>1 DEF ParseFails
<1>13. CASE DoPrint /\ UNCHANGED mode
  BY <1>0, <1>13 DEF DoPrint
<1>14. CASE Set /\ UNCHANGED mode
  BY <1>0, <1>14 DEF Set
<1>15. CASE LateCall /\ UNCHANGED mode
  BY <1>0, <1>15 DEF LateCall
<1>16. CASE ScriptReturns /\ UNCHANGED mode
  <2>1. reported' = TRUE /\ (IF req THEN Len(answers') = 1 ELSE answers' = answers)
    BY <1>a, <1>b, <1>16, FirstAnswer DEF ScriptReturns, Before
  <2>2. ret' = "ok" /\ pc = "script" /\ pc' = "unbind" /\ UNCHANGED <<n, upIn, exit>>
    BY <1>16 DEF ScriptReturns, bus
  <2>3. CASE req
    <3>1. Len(answers') = 1 /\ mode' = mode /\ exit = "none"
      BY <1>0, <1>16, <2>1, <2>2, <2>3 DEF Counted
    <3> QED
      BY <1>0, <2>1, <2>2, <3>1 DEF AnsweredOnce, Truthful, Before, After
  <2>4. CASE ~req
    BY <1>0, <1>16, <2>1, <2>2, <2>4
  <2> QED
    BY <2>3, <2>4
<1>17. CASE ScriptThrows /\ UNCHANGED mode
  BY <1>0, <1>17 DEF ScriptThrows
<1>18. CASE AnswerError /\ UNCHANGED mode
  <2>1. Len(answers') = 1 /\ reported' = TRUE
    BY <1>b, <1>18, FirstAnswer DEF AnswerError, Before
  <2> QED
    BY <1>0, <1>18, <2>1 DEF AnswerError
<1>19. CASE UnbindAll /\ UNCHANGED mode
  BY <1>0, <1>19 DEF UnbindAll
<1>20. CASE DestroyHeap /\ UNCHANGED mode
  BY <1>0, <1>20 DEF DestroyHeap
<1>21. CASE End /\ UNCHANGED mode
  <2>1. IF ret = "err" /\ mode.http
          THEN Len(answers') = 1 /\ reported' = TRUE /\ ret' = "ok"
          ELSE UNCHANGED <<answers, reported, ret>>
    BY <1>a, <1>21, FirstAnswer DEF End, AnsweredOnce, After
  <2>2. pc = "end" /\ UNCHANGED <<n, upIn, mode>>
    BY <1>21 DEF End, bus
  <2>3. IF mode.fastCgi THEN pc' = "accept" /\ exit' = exit
        ELSE pc' = "exited" /\ exit' = IF ret' = "ok" THEN "success" ELSE "failure"
    BY <1>a, <1>21 DEF End
  <2>4. Len(answers') <= 1
    <3>1. Len(answers') = 1 \/ answers' = answers
      BY <2>1, Zenon
    <3>2. Len(answers') = 1 => Len(answers') <= 1
      OBVIOUS
    <3> QED
      BY <3>1, <3>2, Zenon DEF AnsweredOnce
  <2>5. AnsweredOnce'
    BY <1>0, <2>2, <2>3, <2>4 DEF AnsweredOnce, Before, After
  <2>6. Truthful'
    BY <1>0, <2>1, <2>2, <2>3 DEF Truthful, BusJustUp, Control, Counted
  <2> QED
    BY <2>5, <2>6
<1>22. CASE FatalError /\ UNCHANGED mode
  <2>1. pc \in Before /\ answers = <<>> /\ pc' = "exited" /\ exit' = "fatal"
    BY <1>0, <1>22 DEF FatalError
  <2>2. Len(answers') <= 1
    <3>1. CASE req
      <4>1. Answer(OwnAnswer("error"))
        BY <1>22, <3>1, Zenon DEF FatalError
      <4>2. Len(answers') = 1
        BY <2>1, <4>1, FirstAnswer, Zenon
      <4> QED
        BY <4>2
    <3>2. CASE ~req
      BY <1>a, <1>22, <2>1, <3>2 DEF FatalError
    <3> QED
      BY <3>1, <3>2
  <2> QED
    BY <1>0, <2>1, <2>2
<1>23. CASE Abort /\ UNCHANGED mode
  BY <1>0, <1>23 DEF Abort
<1>25. CASE InitAborts /\ UNCHANGED mode
  BY <1>0, <1>25 DEF InitAborts
<1> QED
  BY <1>1, <1>2, <1>3, <1>4, <1>5, <1>6, <1>7, <1>8, <1>9, <1>10, <1>11, <1>12, <1>13, <1>14,
     <1>15, <1>16, <1>17, <1>18, <1>19, <1>20, <1>21, <1>22, <1>23, <1>24, <1>25 DEF Next

-----------------------------------------------------------------------------
(* What one request leaves for the next *)

\* A step that leaves the response alone ends the script's part of the request
\* only by ending the process, and counts requests only between two of them.
LEMMA ElsewhereMoves ==
    ASSUME Typed, Elsewhere
    PROVE  /\ UNCHANGED <<response, threw, late>>
           /\ pc # "exited" /\ pc' # "message"
           /\ pc \in {"script", "message"} => pc' = "exited"
           /\ pc \notin {"start", "accept"} => n' = n /\ printed' = printed
           /\ n' \in {n, n + 1}
<1> USE DEF Typed, TypeOK
<1>1. CASE Options
  BY <1>1, ElsewhereKeeps DEF Options, NewRequest, heap
<1>2. CASE Start
  BY <1>2, ElsewhereKeeps DEF Start, Counted, heap
<1>3. CASE Accept
  BY <1>3, ElsewhereKeeps DEF Accept, NewRequest, heap
<1>4. CASE AcceptWithoutScript
  BY <1>4, ElsewhereKeeps DEF AcceptWithoutScript, NewRequest, heap
<1>5. CASE AcceptAndInit
  BY <1>5, ElsewhereKeeps DEF AcceptAndInit, NewRequest, heap
<1>6. CASE Leave
  BY <1>6, ElsewhereKeeps DEF Leave, NewRequest, heap
<1>7. CASE CreateFails
  BY <1>7, ElsewhereKeeps DEF CreateFails, NewRequest, heap
<1>8. CASE HeapFails
  BY <1>8, ElsewhereKeeps DEF HeapFails, NewRequest, heap
<1>9. CASE CreateHeap
  BY <1>9, ElsewhereKeeps DEF CreateHeap, NewRequest, heap
<1>10. CASE BindAll
  BY <1>10, ElsewhereKeeps DEF BindAll, NewRequest, heap
<1>11. CASE Parse
  BY <1>11, ElsewhereKeeps DEF Parse, NewRequest, heap
<1>12. CASE ParseFails
  BY <1>12, ElsewhereKeeps DEF ParseFails, NewRequest, heap
<1>13. CASE UnbindAll
  BY <1>13, ElsewhereKeeps DEF UnbindAll, NewRequest, heap
<1>14. CASE DestroyHeap
  BY <1>14, ElsewhereKeeps DEF DestroyHeap, NewRequest, heap
<1>15. CASE End
  BY <1>15, ElsewhereKeeps DEF End, NewRequest, heap
<1>16. CASE FatalError
  BY <1>16, ElsewhereKeeps DEF FatalError, NewRequest, heap
<1>17. CASE Abort
  BY <1>17, ElsewhereKeeps DEF Abort, NewRequest, heap
<1>18. CASE InitAborts
  BY <1>18, ElsewhereKeeps DEF InitAborts, NewRequest, heap
<1> QED
  BY <1>1, <1>2, <1>3, <1>4, <1>5, <1>6, <1>7, <1>8, <1>9, <1>10, <1>11, <1>12, <1>13, <1>14,
     <1>15, <1>16, <1>17, <1>18 DEF Elsewhere

\* Every step keeps it that a content type is the own or was set late.
LEMMA NextContentType ==
    ASSUME Typed, ContentTypeTracked, [Next]_vars
    PROVE  ContentTypeTracked'
<1> USE DEF ContentTypeTracked
<1>0. RequestTracked /\ mode.http \in BOOLEAN /\ req \in BOOLEAN
  BY DEF Typed, TypeOK
<1>1. CASE Elsewhere /\ UNCHANGED mode
  BY <1>1, ElsewhereMoves DEF response
<1>2. CASE DoPrint /\ UNCHANGED mode
  BY <1>2 DEF DoPrint, AppendPrint, heap
<1>3. CASE Set /\ UNCHANGED mode
  BY <1>3 DEF Set, SetAny, SetHTTPStatus, SetContentType, SetCookie, SetHeader, heap
<1>4. CASE LateCall /\ UNCHANGED mode
  BY <1>4 DEF LateCall, AppendPrint, SetAny, SetHTTPStatus, SetContentType, SetCookie, SetHeader
<1>5. CASE ScriptReturns /\ UNCHANGED mode
  BY <1>0, <1>5 DEF ScriptReturns, RequestTracked, heap
<1>6. CASE ScriptThrows /\ UNCHANGED mode
  BY <1>0, <1>6 DEF ScriptThrows, RequestTracked, DropResponse, heap
<1>7. CASE AnswerError /\ UNCHANGED mode
  BY <1>7 DEF AnswerError
<1>8. CASE UNCHANGED vars
  BY <1>8 DEF vars
<1> QED
  BY <1>1, <1>2, <1>3, <1>4, <1>5, <1>6, <1>7, <1>8 DEF Next, Elsewhere

\* Every step keeps it that a header is the own, was set late or is of a script that
\* failed.
LEMMA NextHeaders ==
    ASSUME Typed, HeadersTracked, [Next]_vars
    PROVE  HeadersTracked'
<1> USE DEF HeadersTracked
<1>0. RequestTracked /\ mode.http \in BOOLEAN /\ req \in BOOLEAN /\ headers \in [Headers -> Owners]
  BY DEF Typed, TypeOK, TypeOKResponse
<1>1. CASE Elsewhere /\ UNCHANGED mode
  BY <1>1, ElsewhereMoves DEF response
<1>2. CASE DoPrint /\ UNCHANGED mode
  BY <1>2 DEF DoPrint, AppendPrint, heap
<1>3. CASE Set /\ UNCHANGED mode
  BY <1>0, <1>3 DEF Set, SetAny, SetHTTPStatus, SetContentType, SetCookie, SetHeader, heap
<1>4. CASE LateCall /\ UNCHANGED mode
  BY <1>0, <1>4 DEF LateCall, AppendPrint, SetAny, SetHTTPStatus, SetContentType, SetCookie,
     SetHeader
<1>5. CASE ScriptReturns /\ UNCHANGED mode
  BY <1>0, <1>5 DEF ScriptReturns, RequestTracked, ReturnResponse, NoHeaders, heap
<1>6. CASE ScriptThrows /\ UNCHANGED mode
  BY <1>0, <1>6 DEF ScriptThrows, RequestTracked, DropResponse, heap
<1>7. CASE AnswerError /\ UNCHANGED mode
  BY <1>7 DEF AnswerError, KeepAllButType, heap
<1>8. CASE UNCHANGED vars
  BY <1>8 DEF vars
<1> QED
  BY <1>1, <1>2, <1>3, <1>4, <1>5, <1>6, <1>7, <1>8 DEF Next, Elsewhere

\* Where a step that leaves the response alone goes, as far as the list of
\* printed items is concerned.
LEMMA FreshMoves ==
    ASSUME Typed, PrintsTracked, Elsewhere
    PROVE  \/ pc' = "exited" /\ printed' = printed
           \/ pc \in Fresh \ {"script"} /\ n' = n /\ printed' = printed
           \/ pc \notin Fresh /\ pc' \in Fresh \ {"script"} /\ n' = n + 1 /\ printed' = 0
           \/ pc \notin Fresh /\ pc' \notin Fresh /\ n' \in {n, n + 1}
              /\ printed' \in {printed, 0}
<1> USE DEF Typed, TypeOK, Fresh, Counted
<1>1. CASE Options
  BY <1>1 DEF Options, NewRequest, PrintsTracked
<1>2. CASE Start
  BY <1>2 DEF Start, NewRequest, PrintsTracked
<1>3. CASE Accept
  BY <1>3 DEF Accept, NewRequest, PrintsTracked
<1>4. CASE AcceptWithoutScript
  BY <1>4 DEF AcceptWithoutScript, NewRequest, PrintsTracked
<1>5. CASE AcceptAndInit
  BY <1>5 DEF AcceptAndInit, NewRequest, PrintsTracked
<1>6. CASE Leave
  BY <1>6 DEF Leave, NewRequest, PrintsTracked
<1>7. CASE CreateFails
  BY <1>7 DEF CreateFails, NewRequest, PrintsTracked
<1>8. CASE HeapFails
  BY <1>8 DEF HeapFails, NewRequest, PrintsTracked
<1>9. CASE CreateHeap
  BY <1>9 DEF CreateHeap, NewRequest, PrintsTracked
<1>10. CASE BindAll
  BY <1>10 DEF BindAll, NewRequest, PrintsTracked
<1>11. CASE Parse
  BY <1>11 DEF Parse, NewRequest, PrintsTracked
<1>12. CASE ParseFails
  BY <1>12 DEF ParseFails, NewRequest, PrintsTracked
<1>13. CASE UnbindAll
  BY <1>13 DEF UnbindAll, NewRequest, PrintsTracked
<1>14. CASE DestroyHeap
  BY <1>14 DEF DestroyHeap, NewRequest, PrintsTracked
<1>15. CASE End
  BY <1>15 DEF End, NewRequest, PrintsTracked
<1>16. CASE FatalError
  BY <1>16 DEF FatalError, NewRequest, PrintsTracked
<1>17. CASE Abort
  BY <1>17 DEF Abort, NewRequest, PrintsTracked
<1>18. CASE InitAborts
  BY <1>18 DEF InitAborts, NewRequest, PrintsTracked
<1> QED
  BY <1>1, <1>2, <1>3, <1>4, <1>5, <1>6, <1>7, <1>8, <1>9, <1>10, <1>11, <1>12, <1>13, <1>14,
     <1>15, <1>16, <1>17, <1>18 DEF Elsewhere

\* Every step keeps it that the list of printed items ends with those of the running
\* script, in front of which are only late ones.
LEMMA NextPrints ==
    ASSUME Typed, PrintsTracked, [Next]_vars
    PROVE  PrintsTracked'
<1> USE DEF PrintsTracked, Own
<1>0. /\ RequestTracked /\ mode.http \in BOOLEAN /\ req \in BOOLEAN
      /\ prints \in Seq(Owners) /\ n \in Nat /\ printed \in Nat
  BY DEF Typed, TypeOK, TypeOKResponse
<1>1. CASE Elsewhere /\ UNCHANGED mode
  <2>1. UNCHANGED <<prints, late>> /\ pc # "exited"
    BY <1>1, ElsewhereMoves DEF response
  <2>2. \A k \in 1 .. Len(prints) : prints[k] \in Nat
    BY <1>0 DEF Owners, Garbage
  <2>3. printed' = 0 \/ printed' = printed
    BY <1>1, FreshMoves
  <2>4. CASE pc \in Fresh \ {"script"} /\ n' = n /\ printed' = printed
    BY <1>0, <1>1, <2>1, <2>2, <2>4 DEF Fresh
  <2>5. CASE pc \notin Fresh /\ pc' \in Fresh \ {"script"} /\ n' = n + 1 /\ printed' = 0
    BY <1>0, <1>1, <2>1, <2>2, <2>5 DEF Fresh
  <2>6. CASE pc \notin Fresh /\ pc' \notin Fresh /\ n' \in {n, n + 1}
    <3>1. pc' # "start"
      BY <1>1 DEF Elsewhere, Options, Start, Accept, AcceptWithoutScript, AcceptAndInit,
                  InitAborts, Leave, CreateFails, HeapFails, CreateHeap, BindAll, Parse, ParseFails, UnbindAll,
                  DestroyHeap, End, FatalError, Abort, NewRequest
    <3> QED
      BY <1>0, <1>1, <2>1, <2>2, <2>3, <2>6, <3>1 DEF Fresh
  <2>7. CASE pc' = "exited" /\ printed' = printed
    BY <1>0, <1>1, <2>1, <2>7 DEF Fresh
  <2> QED
    BY <1>1, <2>4, <2>5, <2>6, <2>7, FreshMoves
<1>2. CASE DoPrint /\ UNCHANGED mode
  BY <1>0, <1>2 DEF DoPrint, AppendPrint, heap, Fresh, RequestTracked
<1>3. CASE Set /\ UNCHANGED mode
  <2>1. UNCHANGED <<prints, pc, n, printed, late, mode>>
    BY <1>3 DEF Set, SetAny, SetHTTPStatus, SetContentType, SetCookie, SetHeader, heap
  <2> QED
    BY <2>1
<1>4. CASE LateCall /\ UNCHANGED mode
  <2>1. UNCHANGED <<pc, n, printed, mode>> /\ late' = late \union {n} /\ pc \notin Fresh \union {"start"}
    BY <1>4 DEF LateCall, Fresh
  <2>2. CASE isHttp /\ AppendPrint(n)
    BY <1>0, <2>1, <2>2 DEF AppendPrint, RequestTracked
  <2>3. CASE SetAny
    <3>1. prints' = prints
      BY <2>3 DEF SetAny, SetHTTPStatus, SetContentType, SetCookie, SetHeader
    <3> QED
      BY <2>1, <3>1
  <2> QED
    BY <1>4, <2>2, <2>3 DEF LateCall
<1>5. CASE (ScriptReturns \/ ScriptThrows) /\ UNCHANGED mode
  <2>1. /\ pc' \notin Fresh \union {"start"} /\ printed' = printed /\ mode' = mode
        /\ prints' = IF req THEN <<>> ELSE prints
        /\ ~req => ~mode.http
    BY <1>0, <1>5 DEF ScriptReturns, ScriptThrows, ReturnResponse, DropResponse, DropPrints,
                      RequestTracked, Fresh, response
  <2>2. prints' = <<>>
    BY <1>0, <2>1
  <2> QED
    BY <2>1, <2>2
<1>6. CASE AnswerError /\ UNCHANGED mode
  BY <1>6 DEF AnswerError, KeepAllButType, heap, Fresh
<1>7. CASE UNCHANGED vars
  BY <1>7 DEF vars
<1> QED
  BY <1>1, <1>2, <1>3, <1>4, <1>5, <1>6, <1>7 DEF Next, Elsewhere

\* Every step keeps last_print_item at the end of the list.
LEMMA NextPrintList ==
    ASSUME Typed, PrintListSound, [Next]_vars
    PROVE  PrintListSound'
<1> USE DEF PrintListSound
<1>0. prints \in Seq(Owners) /\ lastItem \in BOOLEAN
  BY DEF Typed, TypeOK, TypeOKResponse
<1>1. CASE DropPrints
  BY <1>1 DEF DropPrints
<1>2. CASE AppendPrint(n)
  <2>1. Len(prints') = Len(prints) + 1 /\ Len(prints) \in Nat
    BY <1>0, <1>2 DEF AppendPrint
  <2>2. prints' # <<>>
    <3>1. Len(<<>>) = 0
      OBVIOUS
    <3> QED
      BY <2>1, <3>1
  <2> QED
    BY <1>2, <2>2, Zenon DEF AppendPrint
<1>3. CASE UNCHANGED <<prints, lastItem>>
  BY <1>3
<1>4. CASE Elsewhere \/ UNCHANGED vars
  BY <1>3, <1>4, ElsewhereKeeps DEF response, vars
<1>5. CASE DoPrint \/ Set \/ LateCall
  BY <1>2, <1>3, <1>5 DEF DoPrint, Set, LateCall, SetAny, SetHTTPStatus, SetContentType, SetCookie,
                          SetHeader
<1>6. CASE ScriptReturns \/ ScriptThrows \/ AnswerError
  BY <1>1, <1>3, <1>6 DEF ScriptReturns, ScriptThrows, AnswerError, ReturnResponse, DropResponse,
                          KeepAllButType, response
<1> QED
  BY <1>4, <1>5, <1>6 DEF Next, Elsewhere

-----------------------------------------------------------------------------
(* Every answer *)

\* What a step may do to the answers.
OnlyAnswer(a) == answers' = <<a>>
NoAnswer      == answers' = <<>>
SameAnswers   == UNCHANGED <<answers, n, printed>> /\ threw \subseteq threw' /\ late \subseteq late'

\* An answer to a request that had none is its only one.
LEMMA AnswerIsOnly ==
    ASSUME NEW a, answers = <<>>, Answer(a)
    PROVE  OnlyAnswer(a)
BY DEF Answer, OnlyAnswer

\* What a step does to the answers: nothing, forget those of the request before, answer
\* with an error, or send the response of a script that returned.
LEMMA AnswerStep ==
    ASSUME Typed, AnsweredOnce, [Next]_vars
    PROVE  \/ SameAnswers
           \/ NoAnswer
           \/ \E kind \in {"error", "basic"} : OnlyAnswer(OwnAnswer(kind))
           \/ OnlyAnswer(Sent) /\ ScriptReturns /\ req
<1>0. req \in BOOLEAN /\ mode.http \in BOOLEAN /\ mode.fastCgi \in BOOLEAN
  BY DEF Typed, TypeOK
<1>a. pc \in Before => answers = <<>>
  BY DEF AnsweredOnce
<1>1. CASE UNCHANGED vars
  BY <1>1 DEF vars, SameAnswers
<1>2. CASE Options \/ Leave \/ CreateFails \/ HeapFails \/ CreateHeap \/ BindAll \/ Parse
           \/ UnbindAll \/ DestroyHeap \/ Abort
  BY <1>2 DEF Options, Leave, CreateFails, HeapFails, CreateHeap, BindAll, Parse, UnbindAll,
              DestroyHeap, Abort, SameAnswers, heap
<1>3. CASE Start
  <2>1. answers = <<>> /\ answers' = answers
    BY <1>3 DEF Start, Typed, Counted
  <2> QED
    BY <2>1 DEF NoAnswer
<1>4. CASE Accept \/ AcceptWithoutScript \/ AcceptAndInit \/ InitAborts
  BY <1>4, Zenon DEF Accept, AcceptWithoutScript, AcceptAndInit, InitAborts, NoAnswer, OnlyAnswer
<1>5. CASE ParseFails
  BY <1>a, <1>5, AnswerIsOnly DEF ParseFails, Before
<1>6. CASE DoPrint \/ Set \/ LateCall
  <2>1. CASE DoPrint
    <3>1. answers' = <<>>
      BY <1>a, <2>1 DEF DoPrint, Before
    <3> QED
      BY <3>1 DEF NoAnswer
  <2>2. CASE Set \/ LateCall
    BY <2>2 DEF Set, LateCall, SameAnswers, heap
  <2> QED
    BY <1>6, <2>1, <2>2
<1>7. CASE ScriptReturns
  <2>1. CASE req
    BY <1>a, <1>7, <2>1, AnswerIsOnly DEF ScriptReturns, Before
  <2>2. CASE ~req
    BY <1>7, <2>2 DEF ScriptReturns, SameAnswers, heap
  <2> QED
    BY <2>1, <2>2
<1>8. CASE ScriptThrows
  BY <1>8 DEF ScriptThrows, SameAnswers, heap
<1>9. CASE AnswerError
  BY <1>a, <1>9, AnswerIsOnly DEF AnswerError, Before
<1>10. CASE End
  <2>1. CASE ret = "err" /\ mode.http
    BY <1>10, <2>1, AnswerIsOnly DEF End, AnsweredOnce, After
  <2>2. CASE ~(ret = "err" /\ mode.http)
    BY <1>0, <1>10, <2>2 DEF End, SameAnswers, heap
  <2> QED
    BY <2>1, <2>2
<1>11. CASE FatalError
  <2>1. CASE req
    BY <1>a, <1>11, <2>1, AnswerIsOnly DEF FatalError, Before
  <2>2. CASE ~req
    BY <1>11, <2>2 DEF FatalError, SameAnswers, heap
  <2> QED
    BY <2>1, <2>2
<1> QED
  BY <1>1, <1>2, <1>3, <1>4, <1>5, <1>6, <1>7, <1>8, <1>9, <1>10, <1>11 DEF Next

\* The answers' settings and bodies after a step, from those of the response sent.
LEMMA NextSettings ==
    ASSUME Typed, AnsweredOnce, ContentTypeTracked, HeadersTracked, SettingsExplained, [Next]_vars
    PROVE  SettingsExplained'
<1> USE DEF SettingsExplained, ContentTypeExplained, HeadersExplained
<1>1. CASE SameAnswers
  BY <1>1 DEF SameAnswers
<1>2. CASE NoAnswer
  BY <1>2 DEF NoAnswer
<1>3. ASSUME NEW kind, OnlyAnswer(OwnAnswer(kind)) PROVE SettingsExplained'
  BY <1>3 DEF OnlyAnswer, OwnAnswer, NoHeaders
<1>4. CASE OnlyAnswer(Sent) /\ ScriptReturns /\ req
  <2>1. mode.http /\ pc = "script" /\ n' = n /\ UNCHANGED <<threw, late>>
    BY <1>4 DEF ScriptReturns, Typed, RequestTracked, heap
  <2>2. Sent.contenttype = contenttype /\ Sent.headers = headers
    BY DEF Sent
  <2>3. Sent.contenttype \in {0, n} \union late
    BY <2>1, <2>2 DEF ContentTypeTracked
  <2>4. \A h \in Headers : Sent.headers[h] \in {0, n} \union threw \union late
    BY <2>1, <2>2 DEF HeadersTracked
  <2>5. Len(answers') = 1 /\ answers'[1] = Sent
    BY <1>4 DEF OnlyAnswer
  <2> QED
    BY <2>1, <2>3, <2>4, <2>5
<1> QED
  BY <1>1, <1>2, <1>3, <1>4, AnswerStep

\* Every step keeps it that bodies are what was printed.
LEMMA NextBody ==
    ASSUME Typed, AnsweredOnce, PrintsTracked, BodyExact, [Next]_vars
    PROVE  BodyExact'
<1> USE DEF BodyExact
<1>1. CASE SameAnswers
  BY <1>1 DEF SameAnswers
<1>2. CASE NoAnswer
  BY <1>2 DEF NoAnswer
<1>3. ASSUME NEW kind \in {"error", "basic"}, OnlyAnswer(OwnAnswer(kind)) PROVE BodyExact'
  <2>1. Len(answers') = 1 /\ answers'[1].kind = kind
    BY <1>3 DEF OnlyAnswer, OwnAnswer
  <2> QED
    BY <2>1
<1>4. CASE OnlyAnswer(Sent) /\ ScriptReturns /\ req
  <2>1. pc = "script" /\ UNCHANGED <<n, printed, late>>
    BY <1>4 DEF ScriptReturns, heap
  <2>2. Sent.body = prints
    BY DEF Sent
  <2>3. /\ Len(prints) - printed >= 0
        /\ \A k \in 1 .. Len(prints) :
             IF k > Len(prints) - printed THEN prints[k] = n ELSE prints[k] < n /\ prints[k] \in late
    BY <2>1 DEF PrintsTracked, Own, Fresh
  <2>4. Len(answers') = 1 /\ answers'[1] = Sent
    BY <1>4 DEF OnlyAnswer
  <2> QED
    BY <2>1, <2>2, <2>3, <2>4
<1> QED
  BY <1>1, <1>2, <1>3, <1>4, AnswerStep

-----------------------------------------------------------------------------
(* The invariants *)

\* The initial states.
LEMMA InitIInv == Init => IInv
<1> SUFFICES ASSUME Init PROVE IInv
  OBVIOUS
<1>1. AnsweredOnce /\ Truthful
  BY DEF Init, AnsweredOnce, Truthful, Before, After
<1>2. Inherited
  <2>1. prints = <<>> /\ lastItem = FALSE /\ contenttype = 0 /\ printed = 0 /\ pc = "start"
    BY DEF Init, InitResponse
  <2>2. \A h \in Headers : headers[h] = 0
    BY DEF Init, InitResponse, NoHeaders
  <2>3. PrintListSound
    BY <2>1 DEF PrintListSound
  <2>4. PrintsTracked
    BY <2>1 DEF PrintsTracked, Own, Fresh
  <2> QED
    BY <2>1, <2>2, <2>3, <2>4 DEF Inherited, ContentTypeTracked, HeadersTracked
<1>3. SettingsExplained /\ BodyExact
  <2>1. answers = <<>>
    BY DEF Init
  <2> QED
    BY <2>1 DEF SettingsExplained, ContentTypeExplained, HeadersExplained, BodyExact
<1> QED
  BY <1>1, <1>2, <1>3, InitTyped DEF IInv

\* The invariant holds in every state a run reaches.
LEMMA Inductive == Spec => []IInv
<1>1. IInv /\ [Next]_vars => IInv'
  BY NextTyped, NextAnswered, NextContentType, NextHeaders, NextPrints, NextPrintList,
     NextSettings, NextBody
     DEF IInv, Inherited
<1> QED
  BY <1>1, InitIInv, PTL DEF Spec

\* Every variable keeps its type, whatever the requests do: in particular no
\* count of references ever falls below zero.
THEOREM TypesKept == Spec => []TypeOK
<1>1. IInv => TypeOK
  BY DEF IInv, Typed
<1> QED
  BY <1>1, Inductive, PTL

\* print() follows last_print_item only when there is a list.
THEOREM PrintListKept == Spec => []PrintListSound
<1>1. IInv => PrintListSound
  BY DEF IInv, Inherited
<1> QED
  BY <1>1, Inductive, PTL

\* Every script of every request finds all the functions: bind_functions() and
\* unbind_functions() count the same, so that each fresh heap is bound to anew; only those
\* of Cosa may be missing, when a destination too many wrote over their count.
THEOREM ScriptFindsFunctions == Spec => []BindingsComplete
<1>1. IInv => BindingsComplete
  BY DEF IInv, Typed, RefsTracked, RefsFrom, Known, Holding, BindingsComplete
<1> QED
  BY <1>1, Inductive, PTL

\* No response has a content type or a header of another script that succeeded,
\* but for what objects set after their script.
THEOREM SettingsAreExplained == Spec => []SettingsExplained
<1>1. IInv => SettingsExplained
  BY DEF IInv
<1> QED
  BY <1>1, Inductive, PTL

\* A response has all the output of its script and, before it, only output that
\* was printed late.
THEOREM BodyIsExact == Spec => []BodyExact
<1>1. IInv => BodyExact
  BY DEF IInv
<1> QED
  BY <1>1, Inductive, PTL

\* A process that serves one request tells by its exit status whether it reported
\* anything.
THEOREM ExitTellsTruth == Spec => []ExitTruthful
<1>1. IInv => ExitTruthful
  <2> SUFFICES ASSUME IInv, ~mode.fastCgi, Done, ~BusJustUp
               PROVE  (exit = "success") = reported
    BY DEF ExitTruthful
  <2>1. exit \in {"success", "failure"} /\ n > 0 /\ reported \in BOOLEAN
    BY DEF IInv, Typed, TypeOK, Counted, Done
  <2>2. exit = "success" <=> reported
    BY <2>1 DEF IInv, Truthful
  <2> QED
    BY <2>1, <2>2
<1> QED
  BY <1>1, Inductive, PTL

-----------------------------------------------------------------------------
(* The contract with the web server *)

\* Where the contract of RequestService sees main().
PhaseAt(p, e) == CASE e \in {"success", "failure"} -> "over"
                   [] e \in {"fatal", "abort"}     -> "dead"
                   [] p \in {"start", "accept"}    -> "idle"
                   [] OTHER                        -> "serving"

\* The phases by places and exits.
LEMMA PhaseOf ==
    ASSUME NEW p, NEW e, e = "none" <=> p # "exited"
    PROVE  /\ p \in {"start", "accept"} => PhaseAt(p, e) = "idle"
           /\ p \notin {"start", "accept", "exited"} => PhaseAt(p, e) = "serving"
           /\ e \in {"success", "failure"} => PhaseAt(p, e) = "over"
           /\ e \in {"fatal", "abort"} => PhaseAt(p, e) = "dead"
<1>1. p \in {"start", "accept"} => PhaseAt(p, e) = "idle"
  BY DEF PhaseAt
<1>2. p \notin {"start", "accept", "exited"} => PhaseAt(p, e) = "serving"
  BY DEF PhaseAt
<1>3. e \in {"success", "failure"} => PhaseAt(p, e) = "over"
  BY DEF PhaseAt
<1>4. e \in {"fatal", "abort"} => PhaseAt(p, e) = "dead"
  BY DEF PhaseAt
<1> QED
  BY <1>1, <1>2, <1>3, <1>4

Phase == PhaseAt(pc, exit)

\* How a step moves main() as the contract sees it: each is a step of the
\* contract, or none.
ServiceStep ==
    \/ UNCHANGED <<Phase, BusJustUp>> /\ Len(answers') = Len(answers)
    \/ /\ Phase = "idle" /\ Phase' = "serving"
       /\ BusJustUp' \in BOOLEAN /\ Len(answers') = 0
    \/ /\ Phase = "idle" /\ Phase' = Phase
       /\ BusJustUp' = FALSE /\ Len(answers') = 1
    \/ /\ Phase = "serving" /\ Len(answers) = 0
       /\ Len(answers') = 1
       /\ UNCHANGED <<Phase, BusJustUp>>
    \/ /\ Phase = "serving" /\ Phase' \in {"idle", "over"}
       /\ Len(answers') \in {Len(answers), 1}
       /\ mode.http => Len(answers') = 1 \/ BusJustUp
       /\ UNCHANGED BusJustUp
    \/ /\ Phase = "idle" /\ Phase' = "over"
       /\ UNCHANGED BusJustUp /\ Len(answers') = Len(answers)
    \/ /\ Phase \in {"idle", "serving"} /\ Phase' = "dead"
       /\ Len(answers') \in {Len(answers), 1} \/ (Phase = "idle" /\ Len(answers') = 0)
       /\ UNCHANGED BusJustUp

\* Every step of main() is one of these, and the mode stays.
LEMMA NextServes ==
    ASSUME Typed, Typed', AnsweredOnce, AnsweredOnce', [Next]_vars
    PROVE  ServiceStep /\ UNCHANGED mode
<1>0. mode' = mode
  BY DEF Next, vars
<1> SUFFICES ServiceStep
  BY <1>0
<1>a. /\ Control /\ Counted /\ RequestTracked
      /\ BusJustUp \in BOOLEAN /\ BusJustUp' \in BOOLEAN
      /\ Len(answers) \in {0, 1}
  <2>1. Len(answers) \in Nat
    BY DEF Typed, TypeOK
  <2>2. Len(answers) \in {0, 1}
    <3>1. Len(answers) <= 1
      BY DEF AnsweredOnce
    <3>2. \A k \in Nat : k <= 1 => k \in {0, 1}
      OBVIOUS
    <3> QED
      BY <2>1, <3>1, <3>2, Zenon
  <2>3. Control /\ Counted /\ RequestTracked
    BY DEF Typed, TypeOK, Control
  <2>4. BusJustUp \in BOOLEAN /\ BusJustUp' \in BOOLEAN
    BY DEF BusJustUp
  <2> QED
    BY <2>2, <2>3, <2>4
<1>b. /\ pc \in {"start", "accept"} => Phase = "idle"
      /\ pc \notin {"start", "accept", "exited"} => Phase = "serving"
      /\ pc' \in {"start", "accept"} => Phase' = "idle"
      /\ pc' \notin {"start", "accept", "exited"} => Phase' = "serving"
      /\ exit' \in {"success", "failure"} => Phase' = "over"
      /\ exit' \in {"fatal", "abort"} => Phase' = "dead"
  BY PhaseOf DEF Typed, Counted, Phase
\* The steps the contract does not see, its replies, and its deaths.
<1>s. ASSUME pc \notin {"start", "accept", "exited"}, pc' \notin {"start", "accept", "exited"},
             UNCHANGED <<n, upIn, answers>>
      PROVE  ServiceStep
  BY <1>b, <1>s DEF ServiceStep, BusJustUp
<1>r. ASSUME pc \in Before, pc' \notin {"start", "accept", "exited"},
             UNCHANGED <<n, upIn>>, NEW x, Answer(x)
      PROVE  ServiceStep
  <2>1. Len(answers) = 0 /\ Len(answers') = 1
    <3>1. answers = <<>>
      BY <1>r DEF AnsweredOnce
    <3> QED
      BY <1>r, <3>1, FirstAnswer
  <2> QED
    BY <1>b, <1>r, <2>1 DEF ServiceStep, BusJustUp, Before
<1>d. ASSUME pc # "exited", exit' \in {"fatal", "abort"}, UNCHANGED <<n, upIn>>,
             Len(answers') \in {Len(answers), 1}
      PROVE  ServiceStep
  BY <1>b, <1>d DEF ServiceStep, BusJustUp
<1>c. CASE UNCHANGED vars
  BY <1>c DEF vars, Phase, BusJustUp, ServiceStep
<1>1. CASE Options
  <2>1. UNCHANGED <<n, upIn, answers>> /\ pc = "start" /\ exit' \in {"success", "failure", "fatal"}
    BY <1>1 DEF Options, bus
  <2> QED
    BY <1>b, <1>d, <2>1 DEF ServiceStep, BusJustUp
<1>2. CASE Start
  <2>1. pc = "start" /\ n = 0 /\ answers = <<>> /\ answers' = answers
    BY <1>2 DEF Start, Typed, Counted
  <2>2. CASE pc' = "accept" /\ UNCHANGED n
    BY <1>b, <2>1, <2>2 DEF ServiceStep, BusJustUp
  <2>3. CASE pc' = "create"
    BY <1>a, <1>b, <2>1, <2>3 DEF ServiceStep
  <2> QED
    BY <1>2, <2>2, <2>3 DEF Start
<1>3. CASE Accept
  <2>1. pc = "accept" /\ pc' = "create" /\ answers' = <<>>
    BY <1>3 DEF Accept, NewRequest
  <2> QED
    BY <1>a, <1>b, <2>1 DEF ServiceStep
<1>4. CASE AcceptWithoutScript
  <2>1. /\ pc = "accept" /\ pc' = "accept" /\ n' = n + 1 /\ upIn' = upIn
        /\ Len(answers') = 1
    BY <1>4 DEF AcceptWithoutScript, NewRequest, bus
  <2> QED
    BY <1>a, <1>b, <2>1 DEF ServiceStep, BusJustUp, Control, Counted
<1>5. CASE AcceptAndInit
  <2>1. pc = "accept" /\ n' = n + 1
    BY <1>5 DEF AcceptAndInit, NewRequest
  <2>2. \/ pc' = "create" /\ answers' = <<>>
        \/ pc' = "accept" /\ answers' = <<OwnAnswer("basic")>> /\ upIn' = upIn
    BY <1>5 DEF AcceptAndInit, CosaInit
  <2>3. CASE pc' = "create" /\ answers' = <<>>
    BY <1>a, <1>b, <2>1, <2>3 DEF ServiceStep
  <2>4. CASE pc' = "accept" /\ answers' = <<OwnAnswer("basic")>> /\ upIn' = upIn
    BY <1>a, <1>b, <2>1, <2>4 DEF ServiceStep, BusJustUp, Control, Counted
  <2> QED
    BY <2>2, <2>3, <2>4
<1>6. CASE Leave
  <2>1. UNCHANGED <<n, upIn, answers>> /\ pc = "accept" /\ exit' \in {"success", "failure"}
    BY <1>6 DEF Leave, bus
  <2> QED
    BY <1>b, <2>1 DEF ServiceStep, BusJustUp
<1>7. CASE CreateFails \/ HeapFails \/ CreateHeap \/ BindAll \/ Parse \/ DoPrint \/ Set \/ LateCall
           \/ UnbindAll \/ DestroyHeap
  <2>1. /\ pc \notin {"start", "accept", "exited"} /\ pc' \notin {"start", "accept", "exited"}
        /\ UNCHANGED <<n, upIn, answers>>
    BY <1>7 DEF CreateFails, HeapFails, CreateHeap, BindAll, Parse, DoPrint, Set, LateCall,
                UnbindAll, DestroyHeap, bus
  <2> QED
    BY <1>s, <2>1
<1>8. CASE ParseFails \/ AnswerError
  <2>1. pc \in Before /\ pc' = "unbind" /\ UNCHANGED <<n, upIn>> /\ \E x : Answer(x)
    BY <1>8 DEF ParseFails, AnswerError, Before, bus
  <2> QED
    BY <1>r, <2>1
<1>9. CASE ScriptReturns
  <2>1. pc = "script" /\ pc' = "unbind" /\ UNCHANGED <<n, upIn>>
    BY <1>9 DEF ScriptReturns, bus
  <2>2. CASE req
    <3>1. Answer(Sent)
      BY <1>9, <2>2, Zenon DEF ScriptReturns
    <3> QED
      BY <1>r, <2>1, <3>1 DEF Before
  <2>3. CASE ~req
    <3>1. answers' = answers
      BY <1>9, <2>3, Zenon DEF ScriptReturns
    <3> QED
      BY <1>s, <2>1, <3>1
  <2> QED
    BY <2>2, <2>3
<1>10. CASE ScriptThrows
  <2>1. pc = "script" /\ UNCHANGED <<n, upIn, answers>>
    BY <1>10 DEF ScriptThrows, bus
  <2>2. pc' = "message" \/ exit' = "fatal"
    BY <1>10 DEF ScriptThrows
  <2> QED
    BY <1>d, <1>s, <2>1, <2>2
<1>11. CASE End
  <2>1. pc = "end" /\ UNCHANGED <<n, upIn>>
    BY <1>11 DEF End, bus
  <2>2. pc' = "accept" \/ exit' \in {"success", "failure"}
    BY <1>11 DEF End
  <2>3. Phase = "serving" /\ Phase' \in {"idle", "over"}
    BY <1>b, <2>1, <2>2
  <2>4. CASE ret = "err" /\ mode.http
    <3>1. Len(answers') = 1
      BY <1>11, <2>4, FirstAnswer DEF End, AnsweredOnce, After
    <3> QED
      BY <2>1, <2>3, <3>1 DEF ServiceStep, BusJustUp
  <2>5. CASE ~(ret = "err" /\ mode.http)
    <3>1. answers' = answers
      BY <1>a, <1>11, <2>5 DEF End, Control
    <3>2. mode.http => Len(answers) = 1 \/ BusJustUp
      BY <1>a, <2>1, <2>5 DEF AnsweredOnce, After, Control
    <3> QED
      BY <2>1, <2>3, <3>1, <3>2 DEF ServiceStep, BusJustUp
  <2> QED
    BY <2>4, <2>5
<1>12. CASE FatalError
  <2>1. pc \in Before /\ exit' = "fatal" /\ UNCHANGED <<n, upIn>> /\ pc # "exited"
    BY <1>12 DEF FatalError, Before, bus
  <2>2. (\E x : Answer(x)) \/ answers' = answers
    BY <1>12, Zenon DEF FatalError
  <2>3. Len(answers') \in {Len(answers), 1}
    BY <2>1, <2>2, FirstAnswer DEF AnsweredOnce
  <2> QED
    BY <1>d, <2>1, <2>3
<1>13. CASE Abort
  <2>1. pc # "exited" /\ exit' = "abort" /\ UNCHANGED <<n, upIn, answers>>
    BY <1>13 DEF Abort, bus
  <2> QED
    BY <1>d, <2>1
<1>14. CASE InitAborts
  <2>1. /\ pc = "accept" /\ n' = n + 1 /\ exit' = "abort" /\ answers' = <<>>
        /\ ~cosaUp /\ upIn' = upIn
    BY <1>14 DEF InitAborts, NewRequest, bus
  <2>2. BusJustUp = FALSE /\ BusJustUp' = FALSE
    BY <1>a, <2>1 DEF BusJustUp, Control, Counted
  <2> QED
    BY <1>b, <2>1, <2>2 DEF ServiceStep
<1> QED
  BY <1>c, <1>1, <1>2, <1>3, <1>4, <1>5, <1>6, <1>7, <1>8, <1>9, <1>10, <1>11, <1>12, <1>13,
     <1>14 DEF Next

\* main() and handle_request() keep the contract of RequestService: requests are
\* taken one at a time and each is answered once before the next is taken, unless
\* the process dies or the message bus came up before it.
THEOREM KeepsContract == Spec => ServiceSpec
<1>1. Init => Service!Init
  <2> SUFFICES ASSUME Init PROVE Service!Init
    OBVIOUS
  <2>1. Typed
    BY InitTyped
  <2>2. Phase = "idle"
    BY PhaseOf DEF Phase, Init
  <2>3. mode.http \in BOOLEAN
    BY <2>1 DEF Typed, TypeOK
  <2> QED
    BY <2>2, <2>3 DEF Init, Service!Init, Phase, PhaseAt, BusJustUp
<1>2. IInv /\ IInv' /\ [Next]_vars => [Service!Next]_(Service!vars)
  <2> SUFFICES ASSUME IInv, IInv', [Next]_vars PROVE [Service!Next]_(Service!vars)
    OBVIOUS
  <2>1. ServiceStep /\ UNCHANGED mode
    BY NextServes DEF IInv
  <2> QED
    BY <2>1, Zenon DEF ServiceStep, Phase, PhaseAt, Service!Next, Service!Take, Service!Refuse,
       Service!Reply,
                 Service!Finish, Service!Leave, Service!Die, Service!vars
<1> QED
  BY <1>1, <1>2, Inductive, PTL DEF Spec, ServiceSpec, Service!Spec
=============================================================================
