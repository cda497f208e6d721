------------------------------ MODULE Bindings ------------------------------
(***************************************************************************)
(* The reference counts that decide whether the functions of a binding are *)
(* put in a JavaScript heap.  Each binding has a static counter that lives *)
(* as long as the process, while every request has a fresh heap; the       *)
(* functions are put in the heap only if the counter is zero.              *)
(***************************************************************************)
EXTENDS Naturals

Bound == {"jserror", "jscommon", "jsprocess", "xml", "cosaerror", "cosa", "crypt"}

\* refs[m]: the counter of binding m.  heap: bindings whose functions are there.
NoBindings == [refs |-> [m \in Bound |-> 0], heap |-> {}]

FreshHeap(b) == [refs |-> b.refs, heap |-> {}]

Bind(m, b) ==
    [refs |-> [b.refs EXCEPT ![m] = @ + 1],
     heap |-> IF b.refs[m] = 0 THEN b.heap \union {m} ELSE b.heap]

Unbind(m, b) == [refs |-> [b.refs EXCEPT ![m] = @ - 1], heap |-> b.heap]

-----------------------------------------------------------------------------
(* A binding that needs error objects binds them first, and unbinds them after *)
(* itself.                                                                      *)

BindJsError(b)   == Bind("jserror", b)
BindJsCommon(b)  == Bind("jscommon", BindJsError(b))
BindJsProcess(b) == Bind("jsprocess", BindJsError(b))
BindXml(b)       == Bind("xml", b)
BindCosaError(b) == Bind("cosaerror", b)
BindCosa(b)      == Bind("cosa", BindCosaError(b))
BindCrypt(b)     == Bind("crypt", BindJsError(b))

UnbindJsError(b)   == Unbind("jserror", b)
UnbindJsCommon(b)  == UnbindJsError(Unbind("jscommon", b))
UnbindJsProcess(b) == UnbindJsError(Unbind("jsprocess", b))
UnbindCosaError(b) == Unbind("cosaerror", b)
UnbindCosa(b)      == UnbindCosaError(Unbind("cosa", b))

\* Faulty variant: unbinding xml unbinds error objects it never bound.
UnbindXml_Twice(b) == UnbindJsError(Unbind("xml", b))

UnbindXml(b) == Unbind("xml", b)

\* Faulty variant: unbinding crypt forgets the error objects it bound.
UnbindCrypt_ForgetsError(b) == Unbind("crypt", b)

UnbindCrypt(b) == UnbindJsError(Unbind("crypt", b))

\* bind_functions(), with all of the optional bindings built.
BindFunctions(b) == BindCrypt(BindCosa(BindXml(BindJsProcess(BindJsCommon(b)))))

\* unbind_functions(): the heap is destroyed as a whole afterwards.
UnbindFunctions(b) == UnbindJsCommon(UnbindJsProcess(UnbindXml(UnbindCosa(UnbindCrypt(b)))))
=============================================================================
