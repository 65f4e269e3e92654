---------------------------- MODULE MCStackCache ----------------------------
(* StackCache on three blocks.  Requests are in pages, guard included.      *)
EXTENDS StackCache

(* Three sizes: an exact match, a larger match and one more than four times *)
(* too large all occur.  The guards differ, so that a reused block grows,    *)
(* shrinks or keeps its guard, and a guard that is not shrunk leaves too     *)
(* little.                                                                   *)
PolicyRequests == {[size |-> 1, guard |-> 0], [size |-> 3, guard |-> 1], [size |-> 5, guard |-> 4]}

(* Two sizes for creators that race; a reused block keeps or shrinks its     *)
(* guard.                                                                    *)
RaceRequests == {[size |-> 2, guard |-> 0], [size |-> 3, guard |-> 2]}

(* Blocks differ only in where their memory comes from. *)
Symmetry == Permutations(Stack \ UserStack) \cup Permutations(Creator)
=============================================================================
