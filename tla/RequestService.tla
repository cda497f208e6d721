--------------------------- MODULE RequestService ---------------------------
(***************************************************************************)
(* What a web server may count on when it hands requests to JSE: requests  *)
(* are taken one at a time, and each is answered once before the next is   *)
(* taken, unless the process dies.  Two exceptions are part of the         *)
(* contract: without an HTTP method on its command line JSE answers only   *)
(* what it refuses, and a request may be excused, which the implementation *)
(* has to account for.                                                     *)
(***************************************************************************)
EXTENDS Naturals

VARIABLES
    web,        \* requests are HTTP requests, to be answered
    phase,      \* "idle", "serving", "over" (ended as it should) or "dead"
    excused,    \* the request need not be answered
    answered    \* answers to the request

vars == <<web, phase, excused, answered>>

Init ==
    /\ web \in BOOLEAN
    /\ phase = "idle" /\ excused = FALSE /\ answered = 0

Take ==
    /\ phase = "idle" /\ phase' = "serving"
    /\ excused' \in BOOLEAN /\ answered' = 0

\* A request that does not get as far as a script.
Refuse ==
    /\ phase = "idle"
    /\ excused' = FALSE /\ answered' = 1
    /\ UNCHANGED phase

Reply ==
    /\ phase = "serving" /\ answered = 0
    /\ answered' = 1
    /\ UNCHANGED <<phase, excused>>

\* The last moment for an answer, if there was none yet.
Finish ==
    /\ phase = "serving" /\ phase' \in {"idle", "over"}
    /\ answered' \in {answered, 1}
    /\ web => answered' = 1 \/ excused
    /\ UNCHANGED excused

Leave ==
    /\ phase = "idle" /\ phase' = "over"
    /\ UNCHANGED <<excused, answered>>

\* Before or as it takes a request, or while it serves one.
Die ==
    /\ phase \in {"idle", "serving"} /\ phase' = "dead"
    /\ answered' \in {answered, 1} \/ (phase = "idle" /\ answered' = 0)
    /\ UNCHANGED excused

Next == (Take \/ Refuse \/ Reply \/ Finish \/ Leave \/ Die) /\ UNCHANGED web

Spec == Init /\ [][Next]_vars
=============================================================================
