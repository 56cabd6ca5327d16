------------------------------- MODULE FileStore -------------------------------
(***************************************************************************)
(* What the inode layer of xv6fs promises to the system calls above it: a   *)
(* set of files, each a sequence of words that starts empty, grows and      *)
(* changes only where it is written, reads as zero where it has a hole, and *)
(* disappears when its name and the last reference to it are gone.          *)
(***************************************************************************)
EXTENDS Integers, Sequences

CONSTANTS
    File,       \* the files that can exist, by inode number
    Word,       \* what a word of a file can contain
    Offset,     \* where files are written
    MaxLen      \* how many words a write can have

VARIABLES
    status,     \* status[f]: "free", "linked" (it has a name) or "unlinked"
    refs,       \* refs[f]: references to f from open files and lookups
    file        \* file[f]: the contents of f

vars == <<status, refs, file>>

Init ==
    /\ status = [f \in File |-> "free"]
    /\ refs = [f \in File |-> 0]
    /\ file = [f \in File |-> <<>>]

\* The contents after the words ws are written at off, and a hole up to off is
\* filled with zeros.
Written(contents, off, ws) ==
    LET new == off + Len(ws)
        len == IF new > Len(contents) THEN new ELSE Len(contents)
    IN  [k \in 1 .. len |-> IF k > off /\ k <= new THEN ws[k - off]
                            ELSE IF k <= Len(contents) THEN contents[k] ELSE 0]

Create(f) ==
    /\ status[f] = "free"
    /\ status' = [status EXCEPT ![f] = "linked"]
    /\ refs' = [refs EXCEPT ![f] = 1]
    /\ file' = [file EXCEPT ![f] = <<>>]

Refer(f) ==
    /\ status[f] = "linked"
    /\ refs' = [refs EXCEPT ![f] = @ + 1]
    /\ UNCHANGED status
    /\ \/ UNCHANGED file
       \/ file' = [file EXCEPT ![f] = <<>>]     \* opened with O_TRUNC

\* A write may be short; then it stores a prefix of what it was given.
Write(f, off, ws) ==
    /\ refs[f] > 0
    /\ file' = [file EXCEPT ![f] = Written(@, off, ws)]
    /\ UNCHANGED <<status, refs>>

\* The file is gone when it has neither a name nor a reference.
Settle(f, named, n) ==
    /\ status' = [status EXCEPT ![f] = IF named THEN "linked"
                                       ELSE IF n > 0 THEN "unlinked" ELSE "free"]
    /\ refs' = [refs EXCEPT ![f] = n]
    /\ file' = [file EXCEPT ![f] = IF ~named /\ n = 0 THEN <<>> ELSE @]

Unlink(f) == status[f] = "linked" /\ Settle(f, FALSE, refs[f])

Drop(f) == refs[f] > 0 /\ Settle(f, status[f] = "linked", refs[f] - 1)

Next ==
    \E f \in File :
        \/ Create(f)
        \/ Refer(f)
        \/ Unlink(f)
        \/ Drop(f)
        \/ \E off \in Offset, ws \in UNION {[1 .. n -> Word] : n \in 0 .. MaxLen} :
             Write(f, off, ws)

Spec == Init /\ [][Next]_vars
===============================================================================
