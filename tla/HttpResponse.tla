---------------------------- MODULE HttpResponse ----------------------------
(***************************************************************************)
(* The static variables of jse_main.c in which a script builds its HTTP    *)
(* response, and the functions that set them and send them.  They outlive  *)
(* the script: under FastCGI the next request finds what was not reset.    *)
(* A value is represented by its owner, the number of the request whose    *)
(* script supplied it; 0 stands for the initial value, or the default.     *)
(***************************************************************************)
EXTENDS Naturals, Sequences

CONSTANTS
    Headers,       \* legal header names, up to case
    MaxRequests,   \* bound: requests served by one process
    MaxPrints      \* bound: calls of print() in one request

ASSUME RequestsAssumption == MaxRequests \in Nat \ {0} /\ MaxPrints \in Nat

Garbage == MaxRequests + 1    \* what a pointer to freed memory shows
Owners  == 0 .. Garbage

VARIABLES
    prints,       \* the list at first_print_item
    lastItem,     \* last_print_item is not NULL
    status,       \* http_status
    contenttype,  \* http_contenttype
    headers,      \* headers[h]: the owner of h in the list at first_header_item
    cookie        \* http_cookie: whether its pointers are set and still valid

response == <<prints, lastItem, status, contenttype, headers, cookie>>

NoHeaders == [h \in Headers |-> 0]
NoCookie  == [state |-> "none", owner |-> 0]

InitResponse ==
    /\ prints = <<>> /\ lastItem = FALSE
    /\ status = 0 /\ contenttype = 0
    /\ headers = NoHeaders /\ cookie = NoCookie

Answers ==
    [kind : {"script", "error", "basic"}, status : Owners, contenttype : Owners,
     headers : [Headers -> Owners], cookie : Owners, body : Seq(Owners)]

\* An answer JSE makes up itself: return_error() and basic_return_error().
OwnAnswer(kind) ==
    [kind |-> kind, status |-> 0, contenttype |-> 0, headers |-> NoHeaders,
     cookie |-> 0, body |-> <<>>]

-----------------------------------------------------------------------------
(* What a script of request n calls in HTTP mode.  When an allocation or an   *)
(* argument check fails each of them throws and changes nothing.              *)

AppendPrint(n) ==
    /\ prints' = Append(prints, n) /\ lastItem' = TRUE
    /\ UNCHANGED <<status, contenttype, headers, cookie>>

SetHTTPStatus(n) ==
    /\ status' = n
    /\ UNCHANGED <<prints, lastItem, contenttype, headers, cookie>>

SetContentType(n) ==
    /\ contenttype' = n
    /\ UNCHANGED <<prints, lastItem, status, headers, cookie>>

\* A header of that name is replaced, otherwise a new one is added.
SetHeader(n, h) ==
    /\ headers' = [headers EXCEPT ![h] = n]
    /\ UNCHANGED <<prints, lastItem, status, contenttype, cookie>>

\* The old cookie is freed first; freeing it a second time, should it survive,
\* leaves the new one in its place.
SetCookie(n) ==
    /\ cookie' = [state |-> "live", owner |-> n]
    /\ UNCHANGED <<prints, lastItem, status, contenttype, headers>>

\* cookie_destroy() is given pointers that it, or an earlier call, freed.
FreesTwice == cookie.state = "freed"

-----------------------------------------------------------------------------
(* How the response is sent or dropped *)

Sent ==
    [kind |-> "script", status |-> status, contenttype |-> contenttype,
     headers |-> headers,
     cookie |-> CASE cookie.state = "none" -> 0
                  [] cookie.state = "live" -> cookie.owner
                  [] OTHER -> Garbage,
     body |-> prints]

\* Faulty variant: the pointer to the last item keeps its value.
DropPrints_KeepsLast == prints' = <<>> /\ UNCHANGED lastItem

\* Faulty variant: what a failed script printed stays in the list.
DropPrints_Nothing == UNCHANGED <<prints, lastItem>>

\* Both lists of printed items, sent or not, end up freed.
DropPrints == prints' = <<>> /\ lastItem' = FALSE

\* Faulty variant: the list of headers is printed and not emptied.
ReturnResponse_KeepsHeaders ==
    /\ DropPrints
    /\ cookie' = IF cookie.state = "none" THEN cookie ELSE [cookie EXCEPT !.state = "freed"]
    /\ UNCHANGED <<status, headers>>

\* return_response(): the headers are freed, the cookie's strings are freed but
\* its pointers are kept, and http_status stays.
ReturnResponse ==
    /\ DropPrints
    /\ headers' = NoHeaders
    /\ cookie' = IF cookie.state = "none" THEN cookie ELSE [cookie EXCEPT !.state = "freed"]
    /\ UNCHANGED status

\* The failing path of handle_request() drops the output and nothing else.
DropResponse == DropPrints /\ UNCHANGED <<status, contenttype, headers, cookie>>

TypeOKResponse ==
    /\ prints \in Seq(Owners) /\ lastItem \in BOOLEAN
    /\ status \in Owners /\ contenttype \in Owners
    /\ headers \in [Headers -> Owners]
    /\ cookie \in [state : {"none", "live", "freed"}, owner : Owners]
=============================================================================
