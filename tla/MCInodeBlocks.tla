----------------------------- MODULE MCInodeBlocks -----------------------------
(* Instances of InodeBlocks for TLC. *)
EXTENDS InodeBlocks

\* What a free block or a free inode still contains makes no difference: balloc
\* zeroes a block and ialloc an inode before anything looks at it.
InUseOnly ==
    <<used, [b \in used |-> content[b]], [i \in Allocated |-> dinode[i]], mem, opens, panicked>>
===============================================================================
