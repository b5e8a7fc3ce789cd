------------------------------ MODULE CmdLoop -------------------------------
(***************************************************************************)
(* The command loop of src/misc.c over the handlers of Namespace: the      *)
(* working directory, the paths made of it and of what is typed, and the   *)
(* commands as sequences of calls.                                         *)
(***************************************************************************)
EXTENDS Namespace

CONSTANTS
    DotDot,   \* ".."
    Depth     \* deepest working directory tried (paths has 16 places, which
              \* do_cd does not test)

ASSUME CmdLoopAssumption ==
    /\ DotDot \notin Names
    /\ Depth \in Nat
    /\ Frontend = "cmdline"
    /\ {"mknod", "write"} \subseteq Ops  \* do_put's calls

VARIABLES
    cwd,  \* paths[0 .. depth-1]: the components of the working directory
    put   \* what do_put is to write when fs_mknod has answered 0

cmdVars == <<vars, cwd, put>>
NoPut == [path |-> <<>>, word |-> 0]
-----------------------------------------------------------------------------
\* Mutant: ".." leads to the father.
without_Father(p) ==
    LET names[n \in 0 .. Len(p)] ==
            IF n = 0 THEN <<>>
            ELSE IF p[n] # DotDot THEN Append(names[n - 1], p[n])
            ELSE IF names[n - 1] = <<>> THEN <<>> ELSE trancate_path(names[n - 1])
    IN  names

\* fix_path takes every "../" out of a path, and nothing before it (without(p)[n]
\* is what that leaves of its first n names): a ".." that ends the path stays, and
\* is a name to the handlers.
without(p) ==
    LET names[n \in 0 .. Len(p)] ==
            IF n = 0 THEN <<>>
            ELSE IF p[n] = DotDot THEN names[n - 1] ELSE Append(names[n - 1], p[n])
    IN  names
fix_path(p, slash) ==
    LET names == without(p)[Len(p)]
    IN  IF p # <<>> /\ p[Len(p)] = DotDot /\ ~slash
        THEN Append(names, DotDot) ELSE names

\* (Not tried: a path that still ends in "..", which is a name like another.)
Arguments == UNION {[1 .. n -> Names \cup {DotDot}] : n \in 1 .. MaxDepth}

\* The paths that commands make of their arguments, "%s/%s" of cwd and what is
\* typed whether it begins with "/" or not.  (MaxDepth bounds them.)
Typed(slash) == {fix_path(cwd \o arg, slash) : arg \in Arguments} \cap Paths

\* do_cd: ".." alone goes up; anything else is added, to nothing if it begins
\* with "/": "cd /" goes to the root, and "cd ../" adds ".." as a name.  Whether
\* there is such a directory is not looked at.
do_cd(arg, absolute, slash) ==
    /\ pc = "idle" /\ put = NoPut
    /\ arg # <<>> \/ absolute
    /\ cwd' = IF arg = <<DotDot>> /\ ~absolute /\ ~slash
              THEN IF cwd = <<>> THEN cwd ELSE trancate_path(cwd)
              ELSE IF absolute THEN arg ELSE cwd \o arg
    /\ Len(cwd') <= Depth
    /\ UNCHANGED <<vars, put>>

\* do_mkdir, do_rmdir, do_rm, do_chmod: one call.
Command(op, p, slash) ==
    /\ put = NoPut
    /\ Call(op, p, <<>>, slash, 0)
    /\ UNCHANGED <<cwd, put>>

\* do_put calls fs_mknod and, when that has answered 0, fs_write.
do_put(p, slash, w) ==
    /\ put = NoPut
    /\ Call("mknod", p, <<>>, slash, 0)
    /\ put' = [path |-> p, word |-> w]
    /\ UNCHANGED cwd

PutReturn ==
    /\ Return
    /\ put' = IF ret = 0 /\ call.op = "mknod" THEN put ELSE NoPut
    /\ UNCHANGED cwd

\* A slash at the end of the path makes no difference to translate.
PutWrite ==
    /\ put # NoPut
    /\ Call("write", put.path, <<>>, FALSE, put.word)
    /\ UNCHANGED <<cwd, put>>

\* The file that has been made is not at its path: its entry has the empty name,
\* or is in a file's block.  fs_write takes the error for an inode number, and
\* reads and writes outside of inode_region, which the model does not follow.
PutWriteUndefined ==
    /\ pc = "idle" /\ put # NoPut
    /\ translate(put.path) < 0
    /\ put' = NoPut
    /\ UNCHANGED <<vars, cwd>>

\* "rmdir ../" is a call for "/", against which fs_rmdir has an assertion.
RmdirRoot ==
    /\ Starts("rmdir") /\ call.path = <<>>
    /\ Abort
    /\ UNCHANGED <<image, cwd, put>>

Handle == Handler /\ UNCHANGED <<cwd, put>>

\* A new process starts in "/".
Restart ==
    /\ Mount
    /\ cwd' = <<>> /\ put' = NoPut

CmdInit == Init /\ cwd = <<>> /\ put = NoPut

CmdNext ==
    \/ \E arg \in Arguments \cup {<<>>}, absolute, slash \in BOOLEAN :
            do_cd(arg, absolute, slash)
    \/ \E slash \in BOOLEAN : \E p \in Typed(slash) :
        \/ \E op \in Ops \cap {"mkdir", "rmdir", "unlink", "chmod"} : Command(op, p, slash)
        \/ \E w \in Words : do_put(p, slash, w)
    \/ PutReturn \/ PutWrite \/ PutWriteUndefined
    \/ RmdirRoot \/ Handle
    \/ Restart

CmdSpec == CmdInit /\ [][CmdNext]_cmdVars
-----------------------------------------------------------------------------
(***************************************************************************)
(* Properties.                                                             *)
(***************************************************************************)
\* No command reaches above the working directory, however many ".." its
\* argument has, or next to it: what is at a path that does not begin with the
\* working directory's stays there.  (While entries lead to inodes of their
\* own: a chmod takes away the type, and a trailing slash can leave the entry of
\* a freed inode.  Nor is a command followed that writes out of its place.)
Below(p, q) == Len(p) >= Len(q) /\ SubSeq(p, 1, Len(q)) = q
StaysBelow ==
    [][image' # image /\ cwd' = cwd /\ IsTree /\ InPlace' =>
        \A p \in Paths : ~Below(p, fix_path(cwd, TRUE)) =>
            translate(p)' = translate(p)]_cmdVars
=============================================================================
