------------------------------ MODULE ByteFile ------------------------------
(***************************************************************************)
(* What fs_read, fs_write and fs_truncate promise of a regular file,       *)
(* without blocks, pointers or bitmaps: a file is the sequence of its      *)
(* words; a write replaces words below the end of the file as it goes and  *)
(* appends the rest when it returns; a truncation empties the file at      *)
(* once.  The files are independent of each other.                         *)
(***************************************************************************)
EXTENDS Naturals, Sequences

CONSTANTS
    Files, Vals, MaxSize, MaxLen,
    LevelEnds  \* offsets at which a level of the block tree ends

VARIABLES
    content,  \* what a reader sees in each file
    op        \* the write in progress: what was asked for, what is done

NoOp == [file |-> 0, start |-> 0, len |-> 0, val |-> 0, done |-> 0]

\* s with val in the places from .. to - 1 (counted from 0) that it has.
Overwrite(s, from, to, val) ==
    [i \in 1 .. Len(s) |-> IF from < i /\ i <= to THEN val ELSE s[i]]

\* s made at least n long with val.
Extend(s, n, val) ==
    [i \in 1 .. (IF n > Len(s) THEN n ELSE Len(s)) |->
        IF i <= Len(s) THEN s[i] ELSE val]

Init ==
    /\ content = [f \in Files |-> <<>>]
    /\ op = NoOp

BeginWrite(f, off, len, val) ==
    /\ op = NoOp
    /\ off <= Len(content[f])
    /\ op' = [file |-> f, start |-> off, len |-> len, val |-> val, done |-> 0]
    /\ UNCHANGED content

\* n more words are written; those below the end of the file are visible.
Progress(n) ==
    LET at == op.start + op.done
    IN  /\ op # NoOp
        /\ op.done + n <= op.len
        /\ at + n <= MaxSize
        /\ op' = [op EXCEPT !.done = @ + n]
        /\ content' = [content EXCEPT
                          ![op.file] = Overwrite(@, at, at + n, op.val)]

\* The write returns op.done: that many words of the file are the caller's.
EndWrite ==
    /\ op # NoOp
    /\ op' = NoOp
    /\ content' = [content EXCEPT
                      ![op.file] = Extend(@, op.start + op.done, op.val)]

\* The write got to the end of a level of the block tree and there is no room
\* for the next one: the end of the file stays where it was.
EndWithoutExtending ==
    /\ op # NoOp
    /\ op.start + op.done \in LevelEnds
    /\ op' = NoOp
    /\ UNCHANGED content

Truncate(f) ==
    /\ op = NoOp
    /\ content' = [content EXCEPT ![f] = <<>>]
    /\ UNCHANGED op

Next ==
    \/ \E f \in Files, off \in 0 .. MaxSize, len \in 1 .. MaxLen, val \in Vals :
            BeginWrite(f, off, len, val)
    \/ \E n \in 1 .. MaxLen : Progress(n)
    \/ EndWrite
    \/ EndWithoutExtending
    \/ \E f \in Files : Truncate(f)

Spec == Init /\ [][Next]_<<content, op>>
=============================================================================
