------------------------------ MODULE StackPool ------------------------------
(***************************************************************************)
(* What allocatestack.c promises to the rest of libpthread: a pool of      *)
(* stack blocks, each holding the descriptor (struct pthread) of the       *)
(* thread that runs on it.  A block is unmapped, in use (on stack_used or  *)
(* __stack_user) or cached (on stack_cache).  The detailed cache, with its *)
(* list order, sizes and limit, is module StackCache; the threads that use *)
(* the pool are module ThreadLife.                                         *)
(***************************************************************************)
EXTENDS Integers

CONSTANTS Stack,      \* the stack blocks, identified with their descriptors
          UserStack   \* the blocks whose memory the application supplies

ASSUME StackAssumption == UserStack \subseteq Stack

VARIABLES where,  \* the list a block is on
          tid     \* pd->tid: 1 a kernel thread, 0 none, -1 joined

poolVars == <<where, tid>>

Where == {"unmapped", "used", "cached"}
Tid == {-1, 0, 1}

PoolTypeOK ==
    /\ where \in [Stack -> Where]
    /\ tid \in [Stack -> Tid]

PoolInit ==
    /\ where = [s \in Stack |-> "unmapped"]
    /\ tid = [s \in Stack |-> 0]

(* The stack is in use as long as the kernel has not cleared the tid. *)
FREE_P(s) == tid[s] <= 0

(* A cached block keeps its tid; fresh or user memory is zeroed.  Handing   *)
(* over user memory only after its previous thread is gone is the caller's  *)
(* obligation.                                                              *)
allocate_stack(s) ==
    /\ FREE_P(s)
    /\ where[s] \in {"unmapped", "cached"}
    /\ where' = [where EXCEPT ![s] = "used"]
    /\ tid' = [tid EXCEPT ![s] = IF where[s] = "cached" THEN @ ELSE 0]

(* The body of __deallocate_stack.  queue_stack puts the block on the cache *)
(* and may unmap free blocks of it, the new one included.  Nothing in the   *)
(* code tests that the block is in use: that is the callers' discipline.    *)
unuse_stack(s) ==
    /\ IF s \in UserStack
       THEN where' = [where EXCEPT ![s] = "unmapped"]
       ELSE \E trim \in SUBSET {c \in Stack : (where[c] = "cached" \/ c = s) /\ FREE_P(c)} :
              where' = [c \in Stack |-> IF c \in trim THEN "unmapped"
                                        ELSE IF c = s THEN "cached" ELSE where[c]]
    /\ UNCHANGED tid

(* The kernel's stores for CLONE_PARENT_SETTID (1) and CLONE_CHILD_CLEARTID *)
(* (0), and pd->tid = -1 at the end of pthread_join.                        *)
put_tid(s, n) ==
    /\ tid' = [tid EXCEPT ![s] = n]
    /\ UNCHANGED where

(* The discipline of the pool: a block is given back only while it is in    *)
(* use, a thread starts on a block in use that is free, and it is joined    *)
(* once, after the kernel has cleared its tid.                              *)
deallocate_stack(s) == where[s] = "used" /\ unuse_stack(s)
set_tid(s) == where[s] = "used" /\ FREE_P(s) /\ put_tid(s, 1)
clear_tid(s) == tid[s] = 1 /\ put_tid(s, 0)
mark_joined(s) == where[s] = "used" /\ tid[s] = 0 /\ put_tid(s, -1)

(* free_stacks on its own: free blocks of the cache are unmapped. *)
trim_cache ==
    /\ \E trim \in SUBSET {c \in Stack : where[c] = "cached" /\ FREE_P(c)} :
          where' = [c \in Stack |-> IF c \in trim THEN "unmapped" ELSE where[c]]
    /\ UNCHANGED tid

PoolNext ==
    \/ \E s \in Stack : \/ allocate_stack(s) \/ deallocate_stack(s)
                        \/ set_tid(s) \/ clear_tid(s) \/ mark_joined(s)
    \/ trim_cache

PoolSpec == PoolInit /\ [][PoolNext]_poolVars
=============================================================================
