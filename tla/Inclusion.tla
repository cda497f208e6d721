------------------------------ MODULE Inclusion ------------------------------
(***************************************************************************)
(* How a script and the scripts it includes are read and run: run_file()   *)
(* and run_stdin() of jse_main.c, run_buffer() and do_include() of         *)
(* jse_jscommon.c.  Each included script is run by a call of its own that  *)
(* catches its errors; do_include() then throws an error of its own.       *)
(***************************************************************************)
EXTENDS Integers, Sequences

CONSTANTS
    Files,      \* paths of scripts
    Main,       \* the one JSE was started with
    Nowhere,    \* the file of a statement that includes none
    Contents,   \* what the files may be: functions on Files
    MaxDepth    \* calls duktape allows inside each other

\* missing: stat() fails.  special: it is no regular file.  unreadable: it cannot be opened
\* or read, or there is no memory for it.  wrong: it does not compile.  broken: bytecode
\* that cannot be loaded.  script: JavaScript or bytecode.
Kinds == {"missing", "special", "unreadable", "empty", "wrong", "broken", "script"}

\* A statement does something of its own, throws or includes a file; guarded: it is in a
\* try that goes on with the next statement.
Statements == [does : {"run", "throw"}, file : {Nowhere}, guarded : BOOLEAN]
                \union [does : {"include"}, file : Files, guarded : BOOLEAN]

\* What is assumed of the constants.
Assumption ==
    /\ Main \in Files /\ Nowhere \notin Files /\ MaxDepth \in Nat \ {0}
    /\ \A s \in Contents : \A f \in Files :
        /\ s[f].kind \in Kinds /\ s[f].items \in Seq(Statements)
        /\ s[f].kind # "script" => s[f].items = <<>>

VARIABLES
    files,      \* the contents of the files
    running,    \* what goes on: the script, an error on its way up, or how it ended
    error,      \* the error on its way up or the one the script ended with
    scripts,    \* the scripts being run, the innermost first
    ran,        \* history: the statements that did something, in order
    buffers,    \* buffers of scripts allocated
    lost,       \* history: reads whose buffer nobody frees
    garbage     \* history: the uninitialised first byte of an empty file was the mark of bytecode

scriptVars == <<files, running, error, scripts, ran, buffers, lost, garbage>>

\* at: the statement it is at.
Script(f) == [file |-> f, at |-> 1]

Init ==
    /\ files \in Contents
    /\ running = "start" /\ error = "none" /\ scripts = <<>> /\ ran = <<>>
    /\ buffers = 0 /\ lost = 0 /\ garbage = FALSE

Here    == Head(scripts)
Items   == files[Here.file].items
Current == Items[Here.at]
AtItem  == running = "script" /\ Here.at <= Len(Items)
Going   == [scripts EXCEPT ![1].at = @ + 1]

\* The script that is running throws.
Raise(e) == running' = "raise" /\ error' = e

-----------------------------------------------------------------------------
(* run_file(), run_stdin() *)

\* An empty script is an error as well, and its buffer is not freed.
ReadFails ==
    /\ running = "start" /\ files[Main].kind \in {"missing", "special", "unreadable", "empty"}
    /\ running' = "failed" /\ error' = "Error"
    /\ IF files[Main].kind = "empty"
         THEN buffers' = buffers + 1 /\ lost' = lost + 1
         ELSE UNCHANGED <<buffers, lost>>
    /\ UNCHANGED <<files, scripts, ran, garbage>>

\* Nothing catches what duk_load_function() throws.
LoadFails ==
    /\ running = "start" /\ files[Main].kind = "broken"
    /\ running' = "fatal" /\ error' = "TypeError"
    /\ buffers' = buffers + 1 /\ lost' = lost + 1
    /\ UNCHANGED <<files, scripts, ran, garbage>>

Start ==
    /\ running = "start" /\ files[Main].kind \in {"script", "wrong"}
    /\ IF files[Main].kind = "script"
         THEN /\ running' = "script" /\ scripts' = <<Script(Main)>> /\ buffers' = buffers + 1
              /\ UNCHANGED error
         ELSE running' = "failed" /\ error' = "SyntaxError" /\ UNCHANGED <<scripts, buffers>>
    /\ UNCHANGED <<files, ran, lost, garbage>>

-----------------------------------------------------------------------------
(* The script *)

Run ==
    /\ AtItem /\ Current.does = "run"
    /\ ran' = Append(ran, <<Here.file, Here.at>>)
    /\ scripts' = Going
    /\ UNCHANGED <<files, running, error, buffers, lost, garbage>>

Throw ==
    /\ AtItem /\ Current.does = "throw"
    /\ Raise("own")
    /\ UNCHANGED <<files, scripts, ran, buffers, lost, garbage>>

Included == files[Current.file].kind

\* stat() fails, or what is there is no regular file.
IncludeNothing ==
    /\ AtItem /\ Current.does = "include" /\ Included \in {"missing", "special"}
    /\ Raise(IF Included = "missing" THEN "PosixError" ELSE "URIError")
    /\ UNCHANGED <<files, scripts, ran, buffers, lost, garbage>>

\* jse_read_file() fails, or the script does not compile: do_include() returns an error.
IncludeFails ==
    /\ AtItem /\ Current.does = "include"
    /\ \/ Included \in {"unreadable", "wrong"}
       \/ Included \in {"script", "empty"} /\ Len(scripts) >= MaxDepth
    /\ Raise("Error")
    /\ UNCHANGED <<files, scripts, ran, buffers, lost, garbage>>

\* duk_load_function() throws through do_include(), which has not freed the buffer.  An
\* empty file may pass for bytecode too.
IncludeBroken ==
    /\ AtItem /\ Current.does = "include" /\ Included \in {"broken", "empty"}
    /\ Raise("TypeError")
    /\ buffers' = buffers + 1 /\ lost' = lost + 1
    /\ garbage' = (garbage \/ Included = "empty")
    /\ UNCHANGED <<files, scripts, ran>>

\* Faulty variant: a script that is included is not included again.
Include_Once ==
    /\ AtItem /\ Current.does = "include" /\ Included \in {"script", "empty"}
    /\ Len(scripts) < MaxDepth
    /\ IF \E i \in DOMAIN ran : ran[i][1] = Current.file
         THEN scripts' = Going /\ UNCHANGED buffers
         ELSE scripts' = <<Script(Current.file)>> \o scripts /\ buffers' = buffers + 1
    /\ UNCHANGED <<files, running, error, ran, lost, garbage>>

\* The script is read and run inside the statement that includes it.
Include ==
    /\ AtItem /\ Current.does = "include" /\ Included \in {"script", "empty"}
    /\ Len(scripts) < MaxDepth
    /\ scripts' = <<Script(Current.file)>> \o scripts
    /\ buffers' = buffers + 1
    /\ UNCHANGED <<files, running, error, ran, lost, garbage>>

\* The try around the statement catches the error.
Catch ==
    /\ running = "raise" /\ Current.guarded
    /\ running' = "script" /\ error' = "none"
    /\ scripts' = Going
    /\ UNCHANGED <<files, ran, buffers, lost, garbage>>

\* Faulty variant: do_include() tries again when the script it ran has failed.
Fail_Retries ==
    /\ running = "raise" /\ ~Current.guarded
    /\ scripts' = Tail(scripts)
    /\ buffers' = buffers - 1
    /\ IF Tail(scripts) = <<>> THEN running' = "failed" /\ UNCHANGED error
                               ELSE running' = "script" /\ error' = "none"
    /\ UNCHANGED <<files, ran, lost, garbage>>

\* The call that runs the script ends with the error, which stays behind: do_include() has
\* duktape throw an Error of its own in the script that includes it.
Fail ==
    /\ running = "raise" /\ ~Current.guarded
    /\ scripts' = Tail(scripts)
    /\ buffers' = buffers - 1
    /\ IF Tail(scripts) = <<>> THEN running' = "failed" /\ UNCHANGED error ELSE Raise("Error")
    /\ UNCHANGED <<files, ran, lost, garbage>>

\* The script ends, and the one that includes it goes on.
Return ==
    /\ running = "script" /\ Here.at > Len(Items)
    /\ buffers' = buffers - 1
    /\ IF Len(scripts) = 1
         THEN running' = "done" /\ scripts' = <<>>
         ELSE UNCHANGED running /\ scripts' = [Tail(scripts) EXCEPT ![1].at = @ + 1]
    /\ UNCHANGED <<files, error, ran, lost, garbage>>

Next ==
    \/ ReadFails \/ LoadFails \/ Start
    \/ Run \/ Throw \/ IncludeNothing \/ IncludeFails \/ IncludeBroken \/ Include
    \/ Catch \/ Fail \/ Return

Spec == Init /\ [][Next]_scriptVars /\ WF_scriptVars(Next)

-----------------------------------------------------------------------------
(* Properties *)

Ended == running \in {"done", "failed", "fatal"}

TypeOK ==
    /\ running \in {"start", "script", "raise", "done", "failed", "fatal"}
    /\ error \in {"none", "own", "Error", "PosixError", "URIError", "TypeError", "SyntaxError"}
    /\ Len(scripts) <= MaxDepth
    /\ \A s \in DOMAIN scripts : scripts[s].at \in 1 .. Len(files[scripts[s].file].items) + 1
    /\ {buffers, lost} \subseteq Nat /\ garbage \in BOOLEAN

\* What a statement does that is followed by others, unless it fails and nothing catches that.
Followed(first, guarded, rest) ==
    IF first.fails /\ ~guarded THEN first ELSE [ran |-> first.ran \o rest.ran, fails |-> rest.fails]

Fails == [ran |-> <<>>, fails |-> TRUE]
Quiet == [ran |-> <<>>, fails |-> FALSE]

\* What the i-th statement of a file does by itself, where the files have contents s;
\* `included`: what files do in its place.
Alone(s, f, i, included) ==
    LET item == s[f].items[i]
    IN  CASE item.does = "run"     -> [ran |-> <<<<f, i>>>>, fails |-> FALSE]
          [] item.does = "throw"   -> Fails
          [] item.does = "include" -> included[item.file]

\* What a file does: its statements from the last one on.
InPlace(s, f, included) ==
    LET items == s[f].items
        last[n \in 0 .. Len(items)] ==
            IF n = 0 THEN Quiet
            ELSE LET i == Len(items) - n + 1
                 IN  Followed(Alone(s, f, i, included), items[i].guarded, last[n - 1])
    IN  IF s[f].kind \in {"script", "empty"} THEN last[Len(items)] ELSE Fails

\* What files do, and whether they end in an error, when included files stand in place of the
\* statements that include them, d scripts inside each other at most.
Replaced(s) ==
    LET within[d \in 0 .. MaxDepth] ==
            IF d = 0 THEN [f \in Files |-> Fails] ELSE [f \in Files |-> InPlace(s, f, within[d - 1])]
    IN  within

\* "It behaves as if the include() line is replaced by the included file": the same statements
\* run in the same order and the script fails if it then would, wherever an error is thrown
\* and caught.  Scripts that include themselves are replaced as deep as duktape lets them.
RunsAsReplaced ==
    Ended /\ ~garbage /\ files[Main].kind # "empty" =>
        LET whole == Replaced(files)[MaxDepth][Main]
        IN  ran = whole.ran /\ (running = "done") = ~whole.fails

\* A buffer is there for each script being run and is freed with it, however it ends, except
\* the ones nobody holds after duktape threw or an empty script was refused.
BuffersAccounted == buffers = Len(scripts) + lost

\* Scripts that include each other without end are ended by duktape.
Ends == <>Ended
=============================================================================
