---------------------------- MODULE MakeDirectory ----------------------------
(***************************************************************************)
(* createDirectory(): jse_mkdir() of jse_common.c tests a path with        *)
(* stat() and then makes its directories one by one, while other processes *)
(* make, remove and replace what is on the same path.  All paths lie on    *)
(* one branch of the file system: the path of depth d has the entries      *)
(* 1 .. d, each in the directory the one before it stands for.             *)
(***************************************************************************)
EXTENDS Naturals

CONSTANTS
    Procs,      \* processes that call createDirectory()
    Depth,      \* entries on the longest path
    Others,     \* what other processes do: a subset of Meddling
    Slashes,    \* whether paths may end in a slash: a set of Booleans
    Faults      \* whether mkdir() and strdup() may fail for reasons of their own

Meddling == {"remove", "file", "link"}

ASSUME DepthAssumption == Depth \in Nat \ {0}
ASSUME OthersAssumption == Others \subseteq Meddling /\ Slashes \subseteq BOOLEAN /\ Faults \in BOOLEAN

VARIABLES
    entry,      \* entry[i]: what is there; "link" is a link to nowhere
    proc        \* proc[p]: the call in progress, and what it could have seen

vars == <<entry, proc>>

Path    == 1 .. Depth
Entries == {"none", "dir", "file", "link"}
Rest    == [pc |-> "idle", depth |-> 1, slash |-> FALSE, at |-> 1, result |-> "none",
            sawDir |-> FALSE, sawTaken |-> FALSE, sawRemoval |-> FALSE, fault |-> FALSE]

IsDir(e, d) == \A i \in 1 .. d : e[i] = "dir"
Taken(e, d) == \E i \in 1 .. d : e[i] \in {"file", "link"}

Init ==
    /\ entry \in {e \in [Path -> Entries] :
                    \A i \in 2 .. Depth : e[i] # "none" => e[i - 1] = "dir"}
    /\ proc = [p \in Procs |-> Rest]

\* History: what was on the path of a call while it was in progress.
Witness(pr, e) ==
    [p \in Procs |->
        IF pr[p].pc = "idle" THEN pr[p]
        ELSE [pr[p] EXCEPT !.sawDir     = @ \/ IsDir(e, pr[p].depth),
                           !.sawTaken   = @ \/ Taken(e, pr[p].depth),
                           !.sawRemoval = @ \/ \E i \in Path : e[i] = "none" /\ entry[i] # "none"]]

Becomes(p, call) == proc' = Witness([proc EXCEPT ![p] = call], entry')

-----------------------------------------------------------------------------
(* jse_mkdir() *)

Call(p, d, slash) ==
    /\ proc[p] = Rest
    /\ entry' = entry
    /\ Becomes(p, [Rest EXCEPT !.pc = "stat", !.depth = d, !.slash = slash])

\* A path that is there is done with.  With a slash at its end, a file is not.
\* The path is copied before anything is made, which may fail.
Stat(p) ==
    /\ proc[p].pc = "stat"
    /\ entry' = entry
    /\ LET c == proc[p]
           there == c.depth = 1 \/ IsDir(entry, c.depth - 1)
       IN  \/ /\ IsDir(entry, c.depth)
              /\ Becomes(p, [c EXCEPT !.pc = "done", !.result = "ok"])
           \/ /\ there /\ entry[c.depth] = "file" /\ ~c.slash
              /\ Becomes(p, [c EXCEPT !.pc = "done", !.result = "error"])
           \/ /\ ~there \/ entry[c.depth] \in {"none", "link"} \/ (entry[c.depth] = "file" /\ c.slash)
              /\ \/ Becomes(p, [c EXCEPT !.pc = "make"])
                 \/ Faults /\ Becomes(p, [c EXCEPT !.pc = "done", !.result = "error", !.fault = TRUE])

\* Every slash but the first ends an intermediate directory.
Intermediate(c) == c.at < c.depth \/ (c.slash /\ c.at = c.depth)

\* What mkdir() says to entry i, and what is there afterwards.
Mkdir(i) ==
    IF i > 1 /\ ~IsDir(entry, i - 1) THEN {<<"error", entry[i]>>}
    ELSE IF entry[i] # "none" THEN {<<"exists", entry[i]>>}
    ELSE {<<"made", "dir">>} \union
         (IF Faults THEN {<<"readonly", "none">>, <<"fault", "none">>} ELSE {})

\* Faulty variant: somebody else's directory is an error.
Tolerated_NotExisting == {"made", "readonly"}

\* EEXIST and EROFS do not stop the loop over the intermediate directories.
Tolerated == {"made", "exists", "readonly"}

\* Faulty variant: the loop does not stop at the end of the path.
AfterIntermediate_RunsOn(c) == [c EXCEPT !.at = @ + 1]

AfterIntermediate(c) ==
    IF c.at = c.depth THEN [c EXCEPT !.pc = "final"] ELSE [c EXCEPT !.at = @ + 1]

MakeIntermediate(p) ==
    /\ proc[p].pc = "make" /\ Intermediate(proc[p])
    /\ \E m \in Mkdir(proc[p].at) :
        LET c == [proc[p] EXCEPT !.fault = @ \/ m[1] \in {"readonly", "fault"}]
        IN  /\ entry' = [entry EXCEPT ![c.at] = m[2]]
            /\ IF m[1] \in Tolerated
                 THEN Becomes(p, AfterIntermediate(c))
                 ELSE Becomes(p, [c EXCEPT !.pc = "done", !.result = "error"])

\* Faulty variant: a read-only file system is no error for the last one either.
FinalOk_ReadOnly == {"made", "exists", "readonly"}

\* Of the last directory it is only EEXIST that is allowed.
FinalOk == {"made", "exists"}

MakeFinal(p) ==
    /\ proc[p].pc = "final" \/ (proc[p].pc = "make" /\ ~Intermediate(proc[p]))
    /\ \E m \in Mkdir(proc[p].depth) :
        LET c == [proc[p] EXCEPT !.fault = @ \/ m[1] \in {"readonly", "fault"}]
        IN  /\ entry' = [entry EXCEPT ![c.depth] = m[2]]
            /\ Becomes(p, [c EXCEPT !.pc = "done",
                                    !.result = IF m[1] \in FinalOk THEN "ok" ELSE "error"])

\* do_create_directory() returns or throws.
Return(p) ==
    /\ proc[p].pc = "done"
    /\ entry' = entry
    /\ Becomes(p, Rest)

-----------------------------------------------------------------------------
(* Other processes *)

\* The last entry that is there is removed.
Remove(i) ==
    /\ "remove" \in Others
    /\ entry[i] # "none" /\ (i < Depth => entry[i + 1] = "none")
    /\ entry' = [entry EXCEPT ![i] = "none"]
    /\ proc' = Witness(proc, entry')

\* writeAsFile() of another script, or a link whose target is missing.
Put(i, what) ==
    /\ what \in Others
    /\ entry[i] = "none" /\ (i > 1 => entry[i - 1] = "dir")
    /\ entry' = [entry EXCEPT ![i] = what]
    /\ proc' = Witness(proc, entry')

Next ==
    \/ \E p \in Procs :
        \/ \E d \in Path, slash \in Slashes : Call(p, d, slash)
        \/ Stat(p) \/ MakeIntermediate(p) \/ MakeFinal(p) \/ Return(p)
    \/ \E i \in Path : Remove(i) \/ \E what \in {"file", "link"} : Put(i, what)

Spec == Init /\ [][Next]_vars

-----------------------------------------------------------------------------
(* Properties *)

TypeOK ==
    /\ entry \in [Path -> Entries]
    /\ proc \in [Procs -> [pc : {"idle", "stat", "make", "final", "done"}, depth : Path,
                           slash : BOOLEAN, at : Path, result : {"none", "ok", "error"},
                           sawDir : BOOLEAN, sawTaken : BOOLEAN, sawRemoval : BOOLEAN,
                           fault : BOOLEAN]]

Ended(p, r) == proc[p].pc = "done" /\ proc[p].result = r

\* createDirectory() fails only for a cause: something on the path is no
\* directory, somebody removed a part of it meanwhile, or mkdir() failed by
\* itself.  Processes that race to make the same directories never fail.
FailsForCause ==
    \A p \in Procs : Ended(p, "error") => proc[p].sawTaken \/ proc[p].sawRemoval \/ proc[p].fault

\* A call that succeeds has had its directory there at some moment, unless
\* something that is no directory was in the way.
SuccessSawDirectory ==
    \A p \in Procs : Ended(p, "ok") => proc[p].sawDir \/ proc[p].sawTaken
=============================================================================
