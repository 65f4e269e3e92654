---------------------------- MODULE MCThreadLife ----------------------------
(* ThreadLife on a few stacks.  The blocks are interchangeable, except that *)
(* user-supplied ones are never cached.                                     *)
EXTENDS ThreadLife, TLC

Symmetry == Permutations(Stack \ UserStack)
=============================================================================
