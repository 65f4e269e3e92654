---------------------------- MODULE MCForkReclaim ----------------------------
(* Instance for TLC: the library's stacks are interchangeable.               *)
EXTENDS ForkReclaim, TLC

Symmetry == Permutations(Block \ User)
=============================================================================
