----------------------------- MODULE ScriptCalls -----------------------------
(***************************************************************************)
(* Instances of the parts of a script's interface that compute: inclusion  *)
(* of scripts, XML documents and encryption.  They share nothing, so a run *)
(* looks at one of them after another: `part` says at which.               *)
(***************************************************************************)
CONSTANTS
    Subjects,           \* the parts to look at: "include", "xml", "crypt"
    Files, Main, Nowhere, Contents, MaxDepth,                       \* of Inclusion
    Objects, Scalars, NoContent, Character, References, Referred,
    Shapes, Inputs, Room,                                           \* of ObjectToXml
    Values, Keys, Vectors, Methods, NoVector, MaxCalls              \* of Crypt

VARIABLES
    part,
    files, running, error, scripts, ran, buffers, lost, garbage,
    heap, walking, value, frames, doc, missed,
    at, call, calls, encrypted, size, outlen, extralen, length, text, ctxs, outs, result, misses, unmade

I == INSTANCE Inclusion
X == INSTANCE ObjectToXml
C == INSTANCE Crypt

ASSUME SubjectsAssumption == Subjects \subseteq {"include", "xml", "crypt"}
ASSUME IncludeAssumption  == "include" \in Subjects => I!Assumption
ASSUME XmlAssumption      == "xml" \in Subjects => X!Assumption
ASSUME CryptAssumption    == "crypt" \in Subjects => C!Assumption

-----------------------------------------------------------------------------
include_vars == <<files, running, error, scripts, ran, buffers, lost, garbage>>
xml_vars     == <<heap, walking, value, frames, doc, missed>>
crypt_vars   == <<at, call, calls, encrypted, size, outlen, extralen, length, text, ctxs, outs, result,
                  misses, unmade>>
vars         == <<part, include_vars, xml_vars, crypt_vars>>

Init ==
    /\ part \in Subjects
    /\ IF part = "include" THEN I!Init
         ELSE /\ files = <<>> /\ running = "start" /\ error = "none" /\ scripts = <<>> /\ ran = <<>>
              /\ buffers = 0 /\ lost = 0 /\ garbage = FALSE
    /\ IF part = "xml" THEN X!Init
         ELSE /\ heap = <<>> /\ value = NoContent /\ walking = "script" /\ frames = <<>> /\ doc = <<>>
              /\ missed = FALSE
    /\ C!Init

Next ==
    \/ part = "include" /\ I!Next /\ UNCHANGED <<part, xml_vars, crypt_vars>>
    \/ part = "xml" /\ X!Next /\ UNCHANGED <<part, include_vars, crypt_vars>>
    \/ part = "crypt" /\ C!Next /\ UNCHANGED <<part, include_vars, xml_vars>>

\* The program runs on until the script is done.
Spec == Init /\ [][Next]_vars /\ WF_vars(Next)

-----------------------------------------------------------------------------
(* The properties of the parts, which their modules state *)

\* States of include(), of objectToXMLString() and of the calls into jse_crypt.c are of their types.
TypeOK ==
    CASE part = "include" -> I!TypeOK
      [] part = "xml"     -> X!TypeOK
      [] part = "crypt"   -> C!TypeOK

\* A script with include() runs as it would with the included files in its place.
RunsAsReplaced == part = "include" => I!RunsAsReplaced

\* The XML document has each property and each element once, in order, by its name, and
\* there is none of an object that contains itself.
DocumentExact == part = "xml" => X!DocumentExact

\* What was encrypted is decrypted to what it was.
RoundTrip == part = "crypt" => C!RoundTrip

\* The buffers scripts are read to, and the contexts and outputs of ciphers, are freed on
\* every way out but the ones named, and a cipher's output fits its block.
BlocksSound ==
    /\ part = "include" => I!BuffersAccounted
    /\ part = "crypt" => C!BlocksAccounted /\ C!OutputFits

\* Scripts that include each other without end, and objects that contain themselves, end
\* a call all the same.
CallsEnd ==
    /\ part = "include" => I!Ends
    /\ part = "xml" => X!Ends

-----------------------------------------------------------------------------
(* What GUIDE.md says and the code does not do *)

\* Arrays are "multiple entities with the same name, one for each element".
ArraysExact == part = "xml" => X!ArraysExact
=============================================================================
