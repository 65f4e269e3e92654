----------------------------- MODULE ForkReclaim -----------------------------
(* The lists of thread stacks of glibc 2.32 (allocatestack.c), store by      *)
(* store, and __reclaim_stacks, which a child of fork runs on a copy of them *)
(* made while another thread may have been in the middle of a change.        *)
(*                                                                           *)
(* The model follows the child: after a fork the memory is the child's, with *)
(* one thread; it may create threads and be forked in its turn.              *)
(*                                                                           *)
(* A node is a descriptor's list field or the head of a list.  Stores that   *)
(* no barrier separates happen in any order.  Every stack has the size 1.    *)
EXTENDS Integers, FiniteSets, Functions

CONSTANTS Block,      \* thread descriptors, each with its stack
          User,       \* those on stacks the program provides
          Main,       \* the initial thread, which counts as one of them
          NULL,
          MaxCache,   \* stack_cache_maxsize
          SizeMod,    \* 2 to the width of stack_cache_actsize, a size_t
          MaxForks    \* bound on the forks

Heads == {"stack_used", "stack_cache", "stack_user"}
Node == Block \cup Heads

ASSUME ForkReclaimAssumption ==
  /\ IsFiniteSet(Block) /\ User \subseteq Block /\ Main \in User /\ Block \cap Heads = {}
  /\ NULL \notin Node /\ NULL \notin [elem : Block, add : BOOLEAN]
  /\ MaxCache \in Nat /\ MaxForks \in Nat
  /\ SizeMod \in Nat /\ SizeMod > Cardinality(Block) + 1

VARIABLES next, prev,       \* the pointers of every node
          in_flight_stack,  \* NULL, or the element and whether it is being added
          actsize,          \* stack_cache_actsize
          tid,              \* pd->tid # 0
          mapped,           \* the stacks of the library that are mapped
          live,             \* the threads the process has
          job, pc, done,    \* the change in progress, where it is, its stores so far
          self, stage,      \* in the child: its thread, where __reclaim_stacks is
          forks,
          interrupted,      \* history: the block of the change the last fork cut short
          lost,             \* history: such blocks that no list had afterwards
          skewed            \* history: a fork came between a list and its accounting

pointers == <<next, prev>>
threads == <<tid, live>>
change == <<job, pc, done>>
child == <<self, stage, forks>>
history == <<interrupted, lost, skewed>>
vars == <<next, prev, in_flight_stack, actsize, tid, mapped, live, job, pc, done, self,
          stage, forks, interrupted, lost, skewed>>

Idle == [kind |-> "none", by |-> NULL, elem |-> NULL]

\* The nodes from n on by the pointers f, up to the head h.
Path(f, n, h) ==
  LET at[i \in 1 .. Cardinality(Node)] == IF i = 1 THEN n ELSE f[at[i - 1]]
      open(i) == \A j \in 1 .. i : at[j] # h
  IN  [i \in {j \in DOMAIN at : open(j)} |-> at[i]]
Walk(h) == Range(Path(next, next[h], h))

Init ==
  /\ next = [n \in Node |-> IF n = "stack_user" THEN Main ELSE IF n = Main THEN "stack_user" ELSE n]
  /\ prev = next
  /\ in_flight_stack = NULL /\ actsize = 0
  /\ tid = [b \in Block |-> b = Main]
  /\ mapped = {} /\ live = {Main}
  /\ job = Idle /\ pc = "no" /\ done = {}
  /\ self = NULL /\ stage = "no" /\ forks = 0
  /\ interrupted = NULL /\ lost = {} /\ skewed = FALSE

-----------------------------------------------------------------------------
(* The changes, each by a running thread m that takes stack_cache_lock.      *)
Active(m) == m \in live /\ m \notin Walk("stack_cache") /\ pc = "no" /\ stage = "no"

begin(m, b, k, l) ==
  /\ job' = [kind |-> k, by |-> m, elem |-> b]
  /\ pc' = l
  /\ UNCHANGED <<pointers, in_flight_stack, actsize, done, child, history>>

\* get_cached_stack, for one of the free stacks.
get_cached_stack(m, b) ==
  /\ Active(m) /\ b \in Walk("stack_cache") /\ ~ tid[b]
  /\ begin(m, b, "get", "del_flight")
  /\ UNCHANGED <<threads, mapped>>

\* allocate_stack with a new mapping, zeroed.  A failing change_stack_perm, which leaves
\* an unmapped stack on the list, is in StackCache and not here: the child would fault.
map_stack(m, b) ==
  /\ Active(m) /\ b \notin mapped \cup User
  /\ begin(m, b, "map", "add_flight")
  /\ mapped' = mapped \cup {b}
  /\ tid' = [tid EXCEPT ![b] = FALSE]
  /\ UNCHANGED live

\* allocate_stack on memory of the program, which uses list_add itself.
user_stack(m, b) ==
  /\ Active(m) /\ b \in User \ (Walk("stack_user") \cup live \cup {Main})
  /\ begin(m, b, "user", "add")
  /\ tid' = [tid EXCEPT ![b] = FALSE]
  /\ UNCHANGED <<live, mapped>>

\* __deallocate_stack, by the thread itself or once it has ended.
deallocate_stack(m, b) ==
  /\ Active(m) /\ b # Main
  /\ b \in Walk("stack_used") \cup Walk("stack_user") /\ (b \notin live \/ b = m)
  /\ begin(m, b, "free", "del_flight")
  /\ UNCHANGED <<threads, mapped>>

\* mprot_error in allocate_stack: the new stack is unlisted and unmapped.
mprot_error(m, b) ==
  /\ Active(m) /\ b \in Walk("stack_used") /\ b \notin live /\ ~ tid[b]
  /\ begin(m, b, "drop", "del_flight")
  /\ UNCHANGED <<threads, mapped>>

\* External: the kernel clears the tid of a thread that has ended.
exit(b) ==
  /\ b \in live /\ b # job.by /\ stage = "no" /\ live # {b}
  /\ live' = live \ {b}
  /\ tid' = [tid EXCEPT ![b] = FALSE]
  /\ UNCHANGED <<pointers, in_flight_stack, actsize, mapped, change, child, history>>

-----------------------------------------------------------------------------
e == job.elem
\* The list the element is added to.
head == CASE job.kind = "get" \/ job.kind = "map" -> "stack_used"
          [] job.kind = "user" -> "stack_user"
          [] OTHER -> "stack_cache"

\* stack_list_del and stack_list_add: in_flight_stack before the first store.
set_in_flight ==
  /\ pc \in {"del_flight", "add_flight"}
  /\ in_flight_stack' = [elem |-> e, add |-> pc = "add_flight"]
  /\ pc' = IF pc = "del_flight" THEN "del" ELSE "add"
  /\ UNCHANGED <<pointers, actsize, threads, mapped, job, done, child, history>>

\* External: list_del
del_store(i) ==
  /\ pc = "del" /\ i \in {1, 2} \ done
  /\ done' = done \cup {i}
  /\ \/ i = 1 /\ prev' = [prev EXCEPT ![next[e]] = prev[e]] /\ UNCHANGED next
     \/ i = 2 /\ next' = [next EXCEPT ![prev[e]] = next[e]] /\ UNCHANGED prev
  /\ UNCHANGED <<in_flight_stack, actsize, threads, mapped, job, pc, child, history>>

\* The end of stack_list_del, and what each caller goes on with.
del_done ==
  /\ pc = "del" /\ done = {1, 2}
  /\ in_flight_stack' = NULL /\ done' = {}
  /\ pc' = CASE job.kind = "get" -> "add_flight"
             [] job.kind = "free" -> IF e \in User THEN "end" ELSE "add_flight"
             [] job.kind = "trim" -> "account"
             [] job.kind = "drop" -> "unmap"
  /\ UNCHANGED <<pointers, actsize, threads, mapped, job, child, history>>

\* External: list_add up to its barrier
add_store(i) ==
  /\ pc = "add" /\ i \in {1, 2, 3} \ done
  /\ done' = done \cup {i}
  /\ \/ i = 1 /\ next' = [next EXCEPT ![e] = next[head]] /\ UNCHANGED prev
     \/ i = 2 /\ prev' = [prev EXCEPT ![e] = head] /\ UNCHANGED next
     \/ i = 3 /\ prev' = [prev EXCEPT ![next[head]] = e] /\ UNCHANGED next
  /\ UNCHANGED <<in_flight_stack, actsize, threads, mapped, job, pc, child, history>>

\* External: list_add after its barrier
add_link ==
  /\ pc = "add" /\ done = {1, 2, 3}
  /\ next' = [next EXCEPT ![head] = e]
  /\ done' = {} /\ pc' = "added"
  /\ UNCHANGED <<prev, in_flight_stack, actsize, threads, mapped, job, child, history>>

\* The end of stack_list_add.
add_done ==
  /\ pc = "added"
  /\ in_flight_stack' = NULL
  /\ pc' = IF job.kind \in {"get", "free"} THEN "account" ELSE "end"
  /\ UNCHANGED <<pointers, actsize, threads, mapped, job, done, child, history>>

\* free_stacks goes to the first free stack of a path, if there is one.
free_next(path) ==
  LET free == {i \in DOMAIN path : ~ tid[path[i]]} IN
  IF actsize' > MaxCache /\ free # {}
  THEN LET i == CHOOSE i \in free : \A j \in free : i <= j
       IN  job' = [job EXCEPT !.kind = "trim", !.elem = path[i]] /\ pc' = "del_flight"
  ELSE UNCHANGED job /\ pc' = "end"

Backwards(n) == Path(prev, prev[n], "stack_cache")

\* The end of get_cached_stack and of queue_stack, and the size in free_stacks.
account ==
  /\ pc = "account"
  /\ actsize' = (actsize + (IF job.kind = "free" THEN 1 ELSE -1)) % SizeMod
  /\ CASE job.kind = "get" -> pc' = "end" /\ UNCHANGED job
       [] job.kind = "free" -> free_next(Backwards("stack_cache"))
       [] job.kind = "trim" -> pc' = "unmap" /\ UNCHANGED job
  /\ UNCHANGED <<pointers, in_flight_stack, threads, mapped, done, child, history>>

\* munmap; list_for_each_prev_safe goes on from the entry before.
unmap ==
  /\ pc = "unmap"
  /\ mapped' = mapped \ {e}
  /\ UNCHANGED actsize
  /\ IF job.kind = "trim" THEN free_next(Backwards(e)) ELSE pc' = "end" /\ UNCHANGED job
  /\ UNCHANGED <<pointers, in_flight_stack, threads, done, child, history>>

\* The lock is released; what was allocated for a new thread is cloned, or that fails.
finish ==
  /\ pc = "end"
  /\ \/ UNCHANGED threads
     \/ /\ job.kind \in {"get", "map", "user"}
        /\ live' = live \cup {e} /\ tid' = [tid EXCEPT ![e] = TRUE]
  /\ job' = Idle /\ pc' = "no"
  /\ UNCHANGED <<pointers, in_flight_stack, actsize, mapped, done, child, history>>

-----------------------------------------------------------------------------
(* A list has a stack more or less than stack_cache_actsize stands for, or   *)
(* will have when the child has completed what was in flight.                *)
Unaccounted ==
  \/ job.kind \in {"get", "trim"} /\ pc \notin {"del_flight", "unmap", "end"}
  \/ job.kind = "free" /\ (pc \in {"added", "account"} \/ (pc = "add" /\ 3 \in done))

\* fork, by a thread that is not in a change itself.
fork(f) ==
  /\ stage = "no" /\ forks < MaxForks
  /\ f \in live /\ f # job.by /\ f \notin Walk("stack_cache") \cup {e}
  /\ self' = f /\ stage' = "repair" /\ forks' = forks + 1
  /\ live' = {f}
  /\ job' = Idle /\ pc' = "no" /\ done' = {}
  /\ interrupted' = e
  /\ skewed' = (skewed \/ (pc # "no" /\ Unaccounted))
  /\ UNCHANGED <<pointers, in_flight_stack, actsize, tid, mapped, lost>>

\* The list whose head is inconsistent, of the two that are looked at.
broken ==
  CASE prev[next["stack_used"]] # "stack_used" -> "stack_used"
    [] prev[next["stack_cache"]] # "stack_cache" -> "stack_cache"
    [] OTHER -> NULL

\* Fault: only an addition is completed.
repair_additions ==
  /\ stage = "repair" /\ stage' = "mark"
  /\ LET f == in_flight_stack.elem IN
     IF in_flight_stack # NULL /\ in_flight_stack.add /\ broken # NULL
     THEN /\ next' = [next EXCEPT ![f] = next[broken], ![broken] = f]
          /\ prev' = [prev EXCEPT ![f] = broken]
     ELSE UNCHANGED pointers
  /\ UNCHANGED <<in_flight_stack, actsize, threads, mapped, change, self, forks, history>>

\* "We have to be aware that we might have interrupted a list operation."
repair ==
  /\ stage = "repair" /\ stage' = "mark"
  /\ LET f == in_flight_stack.elem IN
     CASE in_flight_stack = NULL -> UNCHANGED pointers
       [] in_flight_stack # NULL /\ in_flight_stack.add ->
            IF broken = NULL THEN UNCHANGED pointers
            ELSE /\ next' = [next EXCEPT ![f] = next[broken], ![broken] = f]
                 /\ prev' = [prev EXCEPT ![f] = broken]
       [] in_flight_stack # NULL /\ ~ in_flight_stack.add ->
            /\ prev' = [prev EXCEPT ![next[f]] = prev[f]]
            /\ next' = [next EXCEPT ![prev'[f]] = next[f]]
  /\ UNCHANGED <<in_flight_stack, actsize, threads, mapped, change, self, forks, history>>

\* Fault: the stacks are marked but not counted.
mark_uncounted ==
  /\ stage = "mark" /\ stage' = "splice"
  /\ tid' = [b \in Block |-> tid[b] /\ b \notin Walk("stack_used") \ {self}]
  /\ UNCHANGED <<pointers, in_flight_stack, actsize, mapped, live, change, self, forks, history>>

\* "Mark all stacks except the still running one as free."
mark_free ==
  /\ stage = "mark" /\ stage' = "splice"
  /\ LET others == Walk("stack_used") \ {self} IN
     /\ tid' = [b \in Block |-> tid[b] /\ b \notin others]
     /\ actsize' = (actsize + Cardinality(others)) % SizeMod
  /\ UNCHANGED <<pointers, in_flight_stack, mapped, live, change, self, forks, history>>

\* Fault: the stacks of the other threads go the way of their list.
splice_nothing ==
  /\ stage = "splice" /\ stage' = "relist"
  /\ UNCHANGED <<pointers, in_flight_stack, actsize, threads, mapped, change, self, forks, history>>

\* External: list_splice (&stack_used, &stack_cache)
splice ==
  /\ stage = "splice" /\ stage' = "relist"
  /\ IF next["stack_used"] = "stack_used" THEN UNCHANGED pointers
     ELSE LET first == next["stack_used"]
              last == prev["stack_used"]
              old == next["stack_cache"]
          IN  /\ next' = [next EXCEPT ![last] = old, !["stack_cache"] = first]
              /\ prev' = [prev EXCEPT ![first] = "stack_cache", ![old] = last]
  /\ UNCHANGED <<in_flight_stack, actsize, threads, mapped, change, self, forks, history>>

\* The lists of threads are initialised again, with the one thread there is.
relist ==
  /\ stage = "relist" /\ stage' = "no" /\ self' = NULL
  /\ LET mine == IF self \in User THEN "stack_user" ELSE "stack_used"
         other == IF self \in User THEN "stack_used" ELSE "stack_user"
     IN  /\ next' = [next EXCEPT ![prev[self]] = next[self],
                                 ![self] = mine, ![mine] = self, ![other] = other]
         /\ prev' = [prev EXCEPT ![next[self]] = prev[self],
                                 ![self] = mine, ![mine] = self, ![other] = other]
  /\ in_flight_stack' = NULL
  /\ interrupted' = NULL
  /\ lost' = ((lost \cup {interrupted}) \cap mapped) \ Walk("stack_cache")'
  /\ UNCHANGED <<actsize, threads, mapped, change, forks, skewed>>

-----------------------------------------------------------------------------
Change(m, b) ==
  \/ get_cached_stack(m, b) \/ map_stack(m, b) \/ user_stack(m, b)
  \/ deallocate_stack(m, b) \/ mprot_error(m, b)

Step ==
  \/ set_in_flight \/ del_done \/ add_link \/ add_done \/ account \/ unmap \/ finish
  \/ \E i \in 1 .. 3 : del_store(i) \/ add_store(i)

Next ==
  \/ \E m, b \in Block : Change(m, b)
  \/ Step
  \/ \E b \in Block : exit(b) \/ fork(b)
  \/ repair \/ mark_free \/ splice \/ relist

Spec == Init /\ [][Next]_vars

-----------------------------------------------------------------------------
TypeOK ==
  /\ next \in [Node -> Node] /\ prev \in [Node -> Node]
  /\ in_flight_stack \in [elem : Block, add : BOOLEAN] \cup {NULL}
  /\ actsize \in 0 .. SizeMod - 1
  /\ tid \in [Block -> BOOLEAN]
  /\ mapped \subseteq Block \ User /\ live \subseteq Block
  /\ job \in [kind : {"none", "get", "map", "user", "free", "drop", "trim"},
              by : Block \cup {NULL}, elem : Block \cup {NULL}]
  /\ pc \in {"no", "del_flight", "del", "add_flight", "add", "added", "account", "unmap", "end"}
  /\ done \subseteq 1 .. 3
  /\ self \in Block \cup {NULL}
  /\ stage \in {"no", "repair", "mark", "splice", "relist"}
  /\ forks \in 0 .. MaxForks
  /\ interrupted \in Block \cup {NULL} /\ lost \subseteq Block /\ skewed \in BOOLEAN

Quiet == pc = "no" /\ stage = "no"
Ring(h) == \A n \in Walk(h) \cup {h} : n \in {h} \cup Block /\ prev[next[n]] = n

(* Whatever store the fork came before, the assertion of __reclaim_stacks    *)
(* holds (a head that is not consistent is that of the list the element in   *)
(* flight was being added to), the child goes through sound lists (a walk of *)
(* list_for_each ends, forwards and backwards alike), and so does every      *)
(* process between two changes.                                              *)
ListsSound ==
  /\ stage = "repair" /\ in_flight_stack # NULL =>
       (in_flight_stack.add /\ broken # NULL => prev[next[broken]] = in_flight_stack.elem)
  /\ Quiet \/ stage = "mark" => Ring("stack_used") /\ Ring("stack_cache")
  /\ Quiet => Ring("stack_user")

(* Across any number of forks each mapped stack is on exactly one of the two *)
(* lists, but for the one stack that was between two lists when a fork came; *)
(* and no stack a thread runs on counts as free.                             *)
StacksKept ==
  Quiet =>
    /\ Walk("stack_used") \cap Walk("stack_cache") = {}
    /\ Walk("stack_used") \cup Walk("stack_cache") = mapped \ lost
    /\ \A b \in live : tid[b]

(* stack_cache_actsize is the size of what is cached, in the child too ("Ac- *)
(* count for the size of the stack"), unless a fork came after a change of   *)
(* the cache and before its accounting.                                      *)
CacheAccounted ==
  Quiet /\ ~ skewed => actsize = Cardinality(Walk("stack_cache"))

(* "All stacks except that of the one running thread are not used anymore.   *)
(* We have to recycle them": each stack in the cache of the child is free to *)
(* be used again.                                                            *)
AllRecycled ==
  [][stage = "relist" => \A b \in Walk("stack_cache")' : ~ tid'[b]]_vars
=============================================================================
