----------------------------- MODULE StackCache -----------------------------
(***************************************************************************)
(* allocatestack.c of glibc 2.32: the lists of stacks, the size-limited    *)
(* cache of stacks no longer used, and allocate_stack as its callers run   *)
(* it concurrently with each other, with exiting threads and with          *)
(* __make_stacks_executable.  stack_cache_lock makes each critical section *)
(* one step; what happens between two critical sections are other steps.   *)
(***************************************************************************)
EXTENDS Integers, Sequences, FiniteSets, SequencesExt

CONSTANTS Stack, UserStack,  \* stack blocks; the ones the application supplies
          Creator,           \* threads that call pthread_create
          Request,           \* what they ask for: [size, guard], guard included in size
          CacheMax,          \* stack_cache_maxsize
          NULL

ASSUME CacheAssumption ==
    /\ UserStack \subseteq Stack /\ NULL \notin Stack
    /\ CacheMax \in Nat
    /\ \A r \in Request : r.guard \in Nat /\ r.size \in Nat /\ r.size > r.guard

VARIABLES stack_used, stack_user,  \* the lists of stacks in use, as sets
          stack_cache,             \* list_add puts a stack at the head
          actsize,                 \* stack_cache_actsize
          mapped,                  \* memory the kernel has mapped for us
          size, guard,             \* pd->stackblock_size, pd->guardsize
          perm,                    \* what of the stack is executable: "none", all but pages that
                                   \* once were its guard ("usable"), or "all"
          tid,                     \* pd->tid
          exec,                    \* GL(dl_stack_flags) has PF_X
          mse,                     \* progress of __make_stacks_executable
          pc, arg, req, prot       \* per creator: allocate_stack's progress and locals

lists == <<stack_used, stack_user, stack_cache, actsize>>
blocks == <<mapped, size, guard, perm>>
locals == <<pc, arg, req, prot>>
vars == <<stack_used, stack_user, stack_cache, actsize, mapped, size, guard, perm,
          tid, exec, mse, pc, arg, req, prot>>

Sizes == {0} \cup {r.size : r \in Request}
Guards == {0} \cup {r.guard : r \in Request}

TypeOK ==
    /\ stack_used \subseteq Stack \ UserStack
    /\ stack_user \subseteq UserStack
    /\ stack_cache \in Seq(Stack \ UserStack)
    /\ actsize \in Nat
    /\ mapped \subseteq Stack
    /\ size \in [Stack -> Sizes]
    /\ guard \in [Stack -> Guards]
    /\ perm \in [Stack -> {"none", "usable", "all"}]
    /\ tid \in [Stack -> {-1, 0, 1}]
    /\ exec \in BOOLEAN
    /\ mse \in {"no", "flagged", "done", "failed"}
    /\ pc \in [Creator -> {"idle", "lookup", "mmap", "recheck", "guard"}]
    /\ arg \in [Creator -> Stack \cup {NULL}]
    /\ req \in [Creator -> Request \cup {NULL}]
    /\ prot \in [Creator -> BOOLEAN]

Init ==
    /\ stack_used = {} /\ stack_user = {} /\ stack_cache = <<>> /\ actsize = 0
    /\ mapped = UserStack
    /\ size = [s \in Stack |-> 0] /\ guard = [s \in Stack |-> 0]
    /\ perm = [s \in Stack |-> "none"]
    /\ tid = [s \in Stack |-> 0]
    /\ exec = FALSE /\ mse = "no"
    /\ pc = [c \in Creator |-> "idle"] /\ arg = [c \in Creator |-> NULL]
    /\ req = [c \in Creator |-> NULL] /\ prot = [c \in Creator |-> FALSE]

FREE_P(s) == tid[s] <= 0
-----------------------------------------------------------------------------
(* Fault: the largest stack of sufficient size is kept. *)
search_largest(want) ==
    LET step(found, s) ==
            IF found.exact \/ ~FREE_P(s) \/ size[s] < want THEN found
            ELSE IF size[s] = want THEN [exact |-> TRUE, result |-> s]
            ELSE IF found.result = NULL \/ size[found.result] < size[s]
            THEN [found EXCEPT !.result = s]
            ELSE found
        best == FoldLeft(step, [exact |-> FALSE, result |-> NULL], stack_cache).result
    IN IF best = NULL \/ size[best] > 4 * want THEN NULL ELSE best

(* The search loop of get_cached_stack: an exact match ends it, otherwise   *)
(* the first of the smallest stacks seen so far is kept.                    *)
search(want) ==
    LET step(found, s) ==
            IF found.exact \/ ~FREE_P(s) \/ size[s] < want THEN found
            ELSE IF size[s] = want THEN [exact |-> TRUE, result |-> s]
            ELSE IF found.result = NULL \/ size[found.result] > size[s]
            THEN [found EXCEPT !.result = s]
            ELSE found
        best == FoldLeft(step, [exact |-> FALSE, result |-> NULL], stack_cache).result
    IN IF best = NULL \/ size[best] > 4 * want THEN NULL ELSE best

(* Faults: one stack too many is freed; stacks still in use are freed. *)
free_stacks_below(list, total, limit) ==
    LET step(s, acc) ==
            IF acc.enough \/ ~FREE_P(s) THEN [acc EXCEPT !.list = <<s>> \o @]
            ELSE LET left == acc.total - size[s]
                 IN [acc EXCEPT !.total = left, !.enough = left < limit]
    IN FoldRight(step, list, [list |-> <<>>, total |-> total, enough |-> FALSE])

free_stacks_running(list, total, limit) ==
    LET step(s, acc) ==
            IF acc.enough THEN [acc EXCEPT !.list = <<s>> \o @]
            ELSE LET left == acc.total - size[s]
                 IN [acc EXCEPT !.total = left, !.enough = left <= limit]
    IN FoldRight(step, list, [list |-> <<>>, total |-> total, enough |-> FALSE])

(* free_stacks on a cache list of a given total size, from its end: what is *)
(* left of the list, and its size.                                          *)
free_stacks(list, total, limit) ==
    LET step(s, acc) ==
            IF acc.enough \/ ~FREE_P(s) THEN [acc EXCEPT !.list = <<s>> \o @]
            ELSE LET left == acc.total - size[s]
                 IN [acc EXCEPT !.total = left, !.enough = left <= limit]
    IN FoldRight(step, list, [list |-> <<>>, total |-> total, enough |-> FALSE])

(* Unmapping a block takes the descriptor in it away. *)
munmap(S) ==
    /\ mapped' = mapped \ S
    /\ size' = [s \in Stack |-> IF s \in S THEN 0 ELSE size[s]]
    /\ guard' = [s \in Stack |-> IF s \in S THEN 0 ELSE guard[s]]
    /\ perm' = [s \in Stack |-> IF s \in S THEN "none" ELSE perm[s]]

(* The cache becomes what free_stacks leaves; the rest is unmapped. *)
CacheBecomes(left, before) ==
    /\ stack_cache' = left.list
    /\ actsize' = left.total
    /\ munmap(ToSet(before) \ ToSet(left.list))

queue_stack(s) ==
    LET list == <<s>> \o stack_cache
        total == actsize + size[s]
    IN CacheBecomes(IF total > CacheMax THEN free_stacks(list, total, CacheMax)
                    ELSE [list |-> list, total |-> total], list)
-----------------------------------------------------------------------------
Goto(c, l) == pc' = [pc EXCEPT ![c] = l]
Finish(c) == /\ Goto(c, "idle")
             /\ arg' = [arg EXCEPT ![c] = NULL]
             /\ req' = [req EXCEPT ![c] = NULL]
             /\ prot' = [prot EXCEPT ![c] = FALSE]

(* allocate_stack: the request, and the protection read before any lock. *)
allocate_stack(c, r) ==
    /\ pc[c] = "idle"
    /\ Goto(c, "lookup")
    /\ req' = [req EXCEPT ![c] = r]
    /\ prot' = [prot EXCEPT ![c] = exec]
    /\ UNCHANGED <<lists, blocks, tid, exec, mse, arg>>

(* Fault: the cache size is not reduced. *)
get_cached_stack_counted(c) ==
    LET s == search(req[c].size) IN
    /\ pc[c] = "lookup"
    /\ IF s = NULL
       THEN Goto(c, "mmap") /\ UNCHANGED <<lists, arg>>
       ELSE /\ Goto(c, "guard")
            /\ arg' = [arg EXCEPT ![c] = s]
            /\ stack_cache' = RemoveFirst(stack_cache, s)
            /\ stack_used' = stack_used \cup {s}
            /\ UNCHANGED <<actsize, stack_user>>
    /\ UNCHANGED <<blocks, tid, exec, mse, req, prot>>

get_cached_stack(c) ==
    LET s == search(req[c].size) IN
    /\ pc[c] = "lookup"
    /\ IF s = NULL
       THEN Goto(c, "mmap") /\ UNCHANGED <<lists, arg>>
       ELSE /\ Goto(c, "guard")
            /\ arg' = [arg EXCEPT ![c] = s]
            /\ stack_cache' = RemoveFirst(stack_cache, s)
            /\ stack_used' = stack_used \cup {s}
            /\ actsize' = actsize - size[s]
            /\ UNCHANGED stack_user
    /\ UNCHANGED <<blocks, tid, exec, mse, req, prot>>

(* A new mapping, prepared in private and then put on stack_used.  The guard *)
(* leaves out an address that recheck_fails unmapped but left on stack_used: *)
(* the kernel may return it, and list_add would then link it a second time,  *)
(* which a set of stacks cannot show.                                        *)
map_stack(c, s) ==
    /\ pc[c] = "mmap"
    /\ s \notin UserStack \cup mapped \cup stack_used
    /\ mapped' = mapped \cup {s}
    /\ size' = [size EXCEPT ![s] = req[c].size]
    /\ guard' = [guard EXCEPT ![s] = req[c].guard]
    /\ perm' = [perm EXCEPT ![s] = IF prot[c] THEN "all" ELSE "none"]
    /\ tid' = [tid EXCEPT ![s] = 0]
    /\ stack_used' = stack_used \cup {s}
    /\ arg' = [arg EXCEPT ![c] = s]
    /\ Goto(c, "recheck")
    /\ UNCHANGED <<stack_user, stack_cache, actsize, exec, mse, req, prot>>

(* mmap, setup_stack_prot or _dl_allocate_tls fails: nothing is left behind. *)
map_fails(c) ==
    /\ pc[c] = "mmap"
    /\ Finish(c)
    /\ UNCHANGED <<lists, blocks, tid, exec, mse>>

(* Fault: the race with __make_stacks_executable is not looked for. *)
recheck_perm_skipped(c) ==
    /\ pc[c] = "recheck"
    /\ Goto(c, "guard")
    /\ UNCHANGED <<lists, blocks, tid, exec, mse, arg, req, prot>>

(* "There might have been a race": stacks became executable meanwhile. *)
recheck_perm(c) ==
    /\ pc[c] = "recheck"
    /\ perm' = [perm EXCEPT ![arg[c]] = IF exec /\ ~prot[c] THEN "all" ELSE @]
    /\ Goto(c, "guard")
    /\ UNCHANGED <<lists, mapped, size, guard, tid, exec, mse, arg, req, prot>>

(* change_stack_perm fails: the memory is unmapped, the list entry stays. *)
recheck_fails(c) ==
    /\ pc[c] = "recheck"
    /\ exec /\ ~prot[c]
    /\ munmap({arg[c]})
    /\ Finish(c)
    /\ UNCHANGED <<lists, tid, exec, mse>>

GrowsGuard(c) == req[c].guard > guard[arg[c]]

ShrinksGuard(c) ==
    /\ ~GrowsGuard(c)
    /\ guard[arg[c]] - req[c].guard > size[arg[c]] - req[c].size

(* The guard area is created or resized, with the protection read at the    *)
(* start for what was guard before, and allocate_stack returns.             *)
fix_guard(c) ==
    LET s == arg[c] IN
    /\ pc[c] = "guard"
    /\ guard' = [guard EXCEPT ![s] = IF GrowsGuard(c) \/ ShrinksGuard(c) THEN req[c].guard ELSE @]
    /\ perm' = [perm EXCEPT ![s] = IF ShrinksGuard(c) /\ ~prot[c] /\ @ = "all" THEN "usable" ELSE @]
    /\ Finish(c)
    /\ UNCHANGED <<lists, mapped, size, tid, exec, mse>>

mprot_error(c) ==
    /\ pc[c] = "guard"
    /\ GrowsGuard(c) \/ ShrinksGuard(c)
    /\ stack_used' = stack_used \ {arg[c]}
    /\ munmap({arg[c]})
    /\ Finish(c)
    /\ UNCHANGED <<stack_user, stack_cache, actsize, tid, exec, mse>>

(* The branch of allocate_stack for memory the application supplies. *)
allocate_user_stack(c, s) ==
    /\ pc[c] = "idle"
    /\ s \in UserStack \ stack_user /\ FREE_P(s)
    /\ stack_user' = stack_user \cup {s}
    /\ tid' = [tid EXCEPT ![s] = 0]
    /\ UNCHANGED <<stack_used, stack_cache, actsize, blocks, exec, mse, locals>>
-----------------------------------------------------------------------------
(* What the threads do to a stack they were given (module ThreadLife): they *)
(* start, exit, are joined, and give the stack back once.                   *)
Given(s) == /\ s \in (stack_used \cup stack_user) \cap mapped
            /\ \A c \in Creator : arg[c] # s

SetTid(s, n) == /\ tid' = [tid EXCEPT ![s] = n]
                /\ UNCHANGED <<lists, blocks, exec, mse, locals>>

thread_starts(s) == Given(s) /\ FREE_P(s) /\ SetTid(s, 1)
thread_exits(s) == tid[s] = 1 /\ SetTid(s, 0)
thread_joined(s) == Given(s) /\ tid[s] = 0 /\ SetTid(s, -1)

(* Fault: a stack that does not fit the cache is taken off its list only. *)
deallocate_stack_dropped(s) ==
    /\ Given(s)
    /\ stack_used' = stack_used \ {s}
    /\ stack_user' = stack_user \ {s}
    /\ IF s \in UserStack \/ actsize + size[s] > CacheMax
       THEN UNCHANGED <<stack_cache, actsize, blocks>> ELSE queue_stack(s)
    /\ UNCHANGED <<tid, exec, mse, locals>>

deallocate_stack(s) ==
    /\ Given(s)
    /\ stack_used' = stack_used \ {s}
    /\ stack_user' = stack_user \ {s}
    /\ IF s \in UserStack THEN UNCHANGED <<stack_cache, actsize, blocks>> ELSE queue_stack(s)
    /\ UNCHANGED <<tid, exec, mse, locals>>

(* __nptl_stacks_freeres *)
stacks_freeres ==
    /\ CacheBecomes(free_stacks(stack_cache, actsize, 0), stack_cache)
    /\ UNCHANGED <<stack_used, stack_user, tid, exec, mse, locals>>

(* __make_stacks_executable: first _dl_make_stack_executable sets the flag, *)
(* then every listed stack is changed; a failure leaves the rest unchanged. *)
set_exec_flag ==
    /\ mse = "no"
    /\ exec' = TRUE /\ mse' = "flagged"
    /\ UNCHANGED <<lists, blocks, tid, locals>>

executable(S) == perm' = [s \in Stack |-> IF s \in S THEN "all" ELSE perm[s]]

make_stacks_executable ==
    /\ mse = "flagged"
    /\ \/ /\ stack_used \subseteq mapped
          /\ executable(stack_used \cup ToSet(stack_cache))
          /\ mse' = "done"
       \/ /\ \E some \in SUBSET stack_used \ {stack_used} :
                executable(some)
          /\ mse' = "failed"
       \/ /\ \E n \in 0 .. Len(stack_cache) - 1 :
                executable(stack_used \cup ToSet(SubSeq(stack_cache, 1, n)))
          /\ mse' = "failed"
    /\ UNCHANGED <<lists, mapped, size, guard, tid, exec, locals>>

Next ==
    \/ \E c \in Creator :
         \/ \E r \in Request : allocate_stack(c, r)
         \/ get_cached_stack(c)
         \/ \E s \in Stack : map_stack(c, s) \/ allocate_user_stack(c, s)
         \/ map_fails(c) \/ recheck_perm(c) \/ recheck_fails(c)
         \/ fix_guard(c) \/ mprot_error(c)
    \/ \E s \in Stack : \/ thread_starts(s) \/ thread_exits(s) \/ thread_joined(s)
                        \/ deallocate_stack(s)
    \/ stacks_freeres \/ set_exec_flag \/ make_stacks_executable

Spec == Init /\ [][Next]_vars
-----------------------------------------------------------------------------
SizeOf(S) == MapThenSumSet(LAMBDA s : size[s], S)

(* stack_cache_actsize is the size of what is on the cache, through every   *)
(* reuse, queueing and trimming; a stack is queued once, and is never both  *)
(* cached and in use.                                                       *)
CacheConsistent ==
    /\ actsize = SizeOf(ToSet(stack_cache))
    /\ IsInjective(stack_cache)
    /\ ToSet(stack_cache) \cap stack_used = {}

(* No mapping escapes: every stack the kernel still maps is on one of the   *)
(* lists, so a later pthread_create or free_stacks can find it, and nothing *)
(* on the cache has been unmapped.                                          *)
MappedListed ==
    /\ mapped \ UserStack \subseteq stack_used \cup ToSet(stack_cache)
    /\ ToSet(stack_cache) \subseteq mapped

(* get_cached_stack finds the smallest free stack of sufficient size unless *)
(* it is more than four times too large, and misses none.                   *)
BestFit(c) ==
    pc[c] = "lookup" /\ pc'[c] # "lookup" =>
      LET want == req[c].size
          fits == {s \in ToSet(stack_cache) : FREE_P(s) /\ size[s] >= want}
      IN IF pc'[c] = "mmap" THEN \A f \in fits : size[f] > 4 * want
         ELSE /\ arg'[c] \in fits /\ size[arg'[c]] <= 4 * want
              /\ \A f \in fits : size[arg'[c]] <= size[f]

(* A stack allocate_stack returns, new or reused with another guard size,   *)
(* has at least the usable part the caller asked for.                       *)
UsableSize(c) ==
    pc[c] = "guard" /\ pc'[c] = "idle" /\ arg[c] \in stack_used' =>
      size[arg[c]] - guard'[arg[c]] >= req[c].size - req[c].guard

(* Every stack a creator gets fits its request: it is the best of the cache  *)
(* when get_cached_stack takes it, and allocate_stack returns it with the    *)
(* usable part asked for, whatever guard its previous thread had.            *)
StackFits == [][\A c \in Creator : BestFit(c) /\ UsableSize(c)]_vars

QueueTrims(s) ==
    LET list == <<s>> \o stack_cache
        isFreed(i) == list[i] \notin ToSet(stack_cache')
        newest == CHOOSE i \in DOMAIN list : isFreed(i) /\ \A j \in 1 .. i - 1 : ~isFreed(j)
    IN /\ actsize' <= CacheMax \/ \A f \in ToSet(stack_cache') : ~FREE_P(f)
       /\ (\E i \in DOMAIN list : isFreed(i)) => actsize' + size[list[newest]] > CacheMax
       /\ \A i, j \in DOMAIN list : i < j /\ isFreed(i) /\ FREE_P(list[j]) => isFreed(j)

(* What a deallocation does to the cache: it trims to the limit unless only *)
(* stacks of threads not yet dead are left, it unmaps no more than needed,  *)
(* and it unmaps the stacks that were queued first.                         *)
TrimPolicy == [][\A s \in stack_used \ stack_used' : pc' = pc => QueueTrims(s)]_vars

(* Once __make_stacks_executable has succeeded every stack is executable,   *)
(* also the one a concurrent allocate_stack was preparing.  Excepted are    *)
(* pages that were guard when a reused stack was taken: fix_guard gives     *)
(* them the protection that was read before.                                *)
ExecEverywhere ==
    mse = "done" =>
        \A s \in (stack_used \cap mapped) \cup ToSet(stack_cache) :
            perm[s] # "none" \/ \E c \in Creator : arg[c] = s /\ pc[c] = "recheck"

(* The inductive invariant behind these.  A creator between two critical    *)
(* sections has a block of its own that is large enough, in use, mapped and *)
(* without a thread; ...                                                    *)
CallInv ==
    \A c \in Creator :
        /\ arg[c] = NULL <=> pc[c] \in {"idle", "lookup", "mmap"}
        /\ pc[c] # "idle" => req[c] \in Request
        /\ arg[c] # NULL =>
               /\ arg[c] \in stack_used \cap mapped /\ FREE_P(arg[c])
               /\ size[arg[c]] >= req[c].size
               /\ \A d \in Creator : d # c => arg[d] # arg[c]

(* ... a thread has its stack on a list; ...                                *)
TidInv == \A s \in Stack \ UserStack : tid[s] = 1 => s \in stack_used \cup ToSet(stack_cache)

(* ... and a block that is made with the flag set is executable from the    *)
(* start.                                                                   *)
FlagInv ==
    /\ exec <=> mse # "no"
    /\ \A c \in Creator : prot[c] => exec /\ (pc[c] = "recheck" => perm[arg[c]] # "none")

IInv ==
    TypeOK /\ CacheConsistent /\ MappedListed /\ CallInv /\ TidInv /\ FlagInv /\ ExecEverywhere

(* The cache implements the pool of stacks of module StackPool: the list a   *)
(* block is on.                                                              *)
listed == [s \in Stack |-> IF s \in stack_used \cup stack_user THEN "used"
                           ELSE IF s \in ToSet(stack_cache) THEN "cached" ELSE "unmapped"]

Pool == INSTANCE StackPool WITH where <- listed, tid <- tid

PoolSpec == Pool!PoolSpec
=============================================================================
