----------------------------- MODULE MCBufferCache -----------------------------
(* Instances of BufferCache for TLC: one block more than there are buffers,  *)
(* so that blocks are evicted and reloaded and the buffers can run out.  The *)
(* block numbers are never compared except for equality: TLC may permute     *)
(* them.                                                                     *)
EXTENDS BufferCache, TLC

Symmetry == Permutations(Block)
===============================================================================
