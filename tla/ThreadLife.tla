----------------------------- MODULE ThreadLife -----------------------------
(***************************************************************************)
(* The life of a thread: pthread_create, start_thread, pthread_join,       *)
(* pthread_cancel (glibc-2.32/pthread_create.c, createthread.c,            *)
(* pthread_join_common.c, pthread_cancel.c) and pthread_detach (external), *)
(* on the pool of stacks of StackPool.  Every created thread and the main  *)
(* thread may call these functions; a call is the sequence of atomic steps *)
(* its accesses to the shared descriptor make.                             *)
(***************************************************************************)
EXTENDS StackPool, FiniteSets

CONSTANTS Main, NULL

Actor == Stack \cup {Main}

ASSUME ActorAssumption == IsFiniteSet(Stack) /\ Main \notin Stack /\ NULL \notin Actor

VARIABLES joinid,    \* pd->joinid: pd itself when detached
          bits,      \* pd->cancelhandling
          lock,      \* pd->lock is taken
          stopped,   \* pd->stopped_start
          phase,     \* where the thread is in start_thread
          pc, arg,   \* the call an actor is in, and the descriptor it works on
          handle,    \* the application's right to join or detach the thread
          nthreads   \* __nptl_nthreads

vars == <<where, tid, joinid, bits, lock, stopped, phase, pc, arg, handle, nthreads>>

Bit == {"CANCELED", "EXITING", "TERMINATED"}
Phase == {"none", "started", "routine", "leaving", "exitbit", "check", "exit"}
Pc == {"idle", "create", "clone", "setup", "wait", "timedwait", "woken", "free"}

TypeOK ==
    /\ PoolTypeOK
    /\ joinid \in [Stack -> Stack \cup {NULL}]
    /\ bits \in [Stack -> SUBSET Bit]
    /\ lock \in [Stack -> BOOLEAN]
    /\ stopped \in [Stack -> BOOLEAN]
    /\ phase \in [Actor -> Phase]
    /\ pc \in [Actor -> Pc]
    /\ arg \in [Actor -> Stack \cup {NULL}]
    /\ handle \in [Stack -> {"none", "open", "claimed"}]
    /\ nthreads \in Nat

Init ==
    /\ PoolInit
    /\ joinid = [s \in Stack |-> NULL]
    /\ bits = [s \in Stack |-> {}]
    /\ lock = [s \in Stack |-> FALSE]
    /\ stopped = [s \in Stack |-> FALSE]
    /\ phase = [a \in Actor |-> IF a = Main THEN "routine" ELSE "none"]
    /\ pc = [a \in Actor |-> "idle"]
    /\ arg = [a \in Actor |-> NULL]
    /\ handle = [s \in Stack |-> "none"]
    /\ nthreads = 1
-----------------------------------------------------------------------------
CanCall(a) == phase[a] = "routine" /\ pc[a] = "idle"

Goto(a, l) == pc' = [pc EXCEPT ![a] = l] /\ UNCHANGED arg
Call(a, l, s) == pc' = [pc EXCEPT ![a] = l] /\ arg' = [arg EXCEPT ![a] = s]
Return(a) == Call(a, "idle", NULL)

IS_DETACHED(s) == joinid[s] = s

(* Fault: TERMINATED is set but not tested. *)
free_tcb_untested(a, s) ==
    /\ bits' = [bits EXCEPT ![s] = @ \cup {"TERMINATED"}]
    /\ Call(a, "free", s)

(* __free_tcb: whoever sets TERMINATED first goes on to __deallocate_stack. *)
free_tcb(a, s) ==
    /\ bits' = [bits EXCEPT ![s] = @ \cup {"TERMINATED"}]
    /\ IF "TERMINATED" \in bits[s] THEN Return(a) ELSE Call(a, "free", s)

(* __deallocate_stack as the last step of a call. *)
deallocate(a) ==
    /\ pc[a] = "free"
    /\ unuse_stack(arg[a])
    /\ Return(a)
    /\ UNCHANGED <<joinid, bits, lock, stopped, phase, handle, nthreads>>
-----------------------------------------------------------------------------
(* Fault: the lock of a reused block is taken over as it is. *)
pthread_create_lock(a, s, detached, stop) ==
    /\ CanCall(a)
    /\ allocate_stack(s)
    /\ bits' = [bits EXCEPT ![s] = {}]
    /\ joinid' = [joinid EXCEPT ![s] = IF detached THEN s ELSE NULL]
    /\ nthreads' = nthreads + 1
    /\ Call(a, "create", s)
    /\ stopped' = [stopped EXCEPT ![s] = stop]
    /\ UNCHANGED <<lock, phase, handle>>

(* __pthread_create_2_1 up to the increment of __nptl_nthreads.  The lock   *)
(* is initialised by allocate_stack whatever state the block comes in; a    *)
(* failed allocation returns EAGAIN and changes nothing.  Whether the       *)
(* thread starts stopped follows from the attributes, or from a debugger.   *)
pthread_create(a, s, detached, stop) ==
    /\ CanCall(a)
    /\ allocate_stack(s)
    /\ bits' = [bits EXCEPT ![s] = {}]
    /\ lock' = [lock EXCEPT ![s] = FALSE]
    /\ joinid' = [joinid EXCEPT ![s] = IF detached THEN s ELSE NULL]
    /\ nthreads' = nthreads + 1
    /\ Call(a, "create", s)
    /\ stopped' = [stopped EXCEPT ![s] = stop]
    /\ UNCHANGED <<phase, handle>>

(* create_thread up to the clone: with scheduling parameters, an affinity   *)
(* or a debugger the thread starts stopped on pd->lock.                     *)
create_thread(a) ==
    /\ pc[a] = "create"
    /\ stopped[arg[a]] => ~lock[arg[a]]
    /\ lock' = [lock EXCEPT ![arg[a]] = @ \/ stopped[arg[a]]]
    /\ Goto(a, "clone")
    /\ UNCHANGED <<where, tid, joinid, bits, stopped, phase, handle, nthreads>>

(* The application may join a joinable thread once pthread_create returns;  *)
(* it does at once if the thread was not started stopped.                   *)
clone_ok(a) ==
    LET s == arg[a] IN
    /\ pc[a] = "clone"
    /\ put_tid(s, 1)
    /\ phase' = [phase EXCEPT ![s] = "started"]
    /\ IF stopped[s]
       THEN Goto(a, "setup") /\ UNCHANGED handle
       ELSE Return(a) /\ handle' = [handle EXCEPT ![s] = IF IS_DETACHED(s) THEN "none" ELSE "open"]
    /\ UNCHANGED <<joinid, bits, lock, stopped, nthreads>>

(* Fault: the count is not taken back ("Oops, we lied for a second"). *)
clone_fail_counted(a) ==
    /\ pc[a] = "clone"
    /\ Goto(a, "free")
    /\ UNCHANGED <<where, tid, joinid, bits, lock, stopped, phase, handle, nthreads>>

(* State (e) of the concurrency notes: the creator still owns PD.           *)
clone_fail(a) ==
    /\ pc[a] = "clone"
    /\ nthreads' = nthreads - 1
    /\ Goto(a, "free")
    /\ UNCHANGED <<where, tid, joinid, bits, lock, stopped, phase, handle>>

setup_ok(a) ==
    LET s == arg[a] IN
    /\ pc[a] = "setup"
    /\ lock' = [lock EXCEPT ![s] = FALSE]
    /\ handle' = [handle EXCEPT ![s] = IF IS_DETACHED(s) THEN "none" ELSE "open"]
    /\ Return(a)
    /\ UNCHANGED <<where, tid, joinid, bits, stopped, phase, nthreads>>

(* States (c) and (d): SIGCANCEL to the thread, the lock stays taken and    *)
(* pthread_create returns the error; nobody gets the handle.                *)
setup_fail(a) ==
    /\ pc[a] = "setup"
    /\ bits' = [bits EXCEPT ![arg[a]] = @ \cup {"CANCELED"}]
    /\ Return(a)
    /\ UNCHANGED <<where, tid, joinid, lock, stopped, phase, handle, nthreads>>
-----------------------------------------------------------------------------
Goes(t, from, to) == phase[t] = from /\ phase' = [phase EXCEPT ![t] = to]

(* start_thread up to the call of the start routine. *)
start_routine(t) ==
    /\ Goes(t, "started", "routine")
    /\ stopped[t] => ~lock[t]
    /\ UNCHANGED <<where, tid, joinid, bits, lock, stopped, pc, arg, handle, nthreads>>

(* The wait for pd->lock is asynchronously cancellable. *)
start_cancelled(t) ==
    /\ Goes(t, "started", "leaving")
    /\ stopped[t] /\ "CANCELED" \in bits[t]
    /\ UNCHANGED <<where, tid, joinid, bits, lock, stopped, pc, arg, handle, nthreads>>

(* The start routine returns, calls pthread_exit, or acts on a cancellation. *)
routine_returns(t) ==
    /\ pc[t] = "idle"
    /\ Goes(t, "routine", "leaving")
    /\ UNCHANGED <<where, tid, joinid, bits, lock, stopped, pc, arg, handle, nthreads>>

(* The last thread to leave ends the process: Next has no step from 0. *)
leave_process(t) ==
    /\ Goes(t, "leaving", "exitbit")
    /\ nthreads' = nthreads - 1
    /\ UNCHANGED <<where, tid, joinid, bits, lock, stopped, pc, arg, handle>>

set_exiting(t) ==
    /\ Goes(t, "exitbit", "check")
    /\ bits' = [bits EXCEPT ![t] = @ \cup {"EXITING"}]
    /\ UNCHANGED <<where, tid, joinid, lock, stopped, pc, arg, handle, nthreads>>

(* Faults: a detached thread leaves its TCB to nobody; every thread frees   *)
(* its own TCB.                                                             *)
check_detached_never(t) ==
    /\ Goes(t, "check", "exit")
    /\ UNCHANGED <<where, tid, joinid, bits, lock, stopped, pc, arg, handle, nthreads>>

check_detached_always(t) ==
    /\ Goes(t, "check", "exit")
    /\ free_tcb(t, t)
    /\ UNCHANGED <<where, tid, joinid, lock, stopped, handle, nthreads>>

check_detached(t) ==
    /\ Goes(t, "check", "exit")
    /\ IF IS_DETACHED(t) THEN free_tcb(t, t) ELSE UNCHANGED <<bits, pc, arg>>
    /\ UNCHANGED <<where, tid, joinid, lock, stopped, handle, nthreads>>

(* Fault: cloned without CLONE_CHILD_CLEARTID. *)
exit_thread_silent(t) ==
    /\ pc[t] = "idle"
    /\ Goes(t, "exit", "none")
    /\ UNCHANGED <<where, tid, joinid, bits, lock, stopped, pc, arg, handle, nthreads>>

(* __exit_thread: the kernel clears pd->tid when the thread is really gone. *)
exit_thread(t) ==
    /\ pc[t] = "idle"
    /\ Goes(t, "exit", "none")
    /\ put_tid(t, 0)
    /\ UNCHANGED <<joinid, bits, lock, stopped, pc, arg, handle, nthreads>>

(* pthread_exit in the main thread. *)
main_exit ==
    /\ CanCall(Main)
    /\ phase' = [phase EXCEPT ![Main] = "none"]
    /\ nthreads' = nthreads - 1
    /\ UNCHANGED <<where, tid, joinid, bits, lock, stopped, pc, arg, handle>>
-----------------------------------------------------------------------------
(* The errors of __pthread_clockjoin_ex: ESRCH, EINVAL and EDEADLK.  They   *)
(* leave everything as it was.                                              *)
JoinError(a, s) ==
    \/ tid[s] < 0
    \/ IS_DETACHED(s)
    \/ /\ \/ s = a
          \/ a \in Stack /\ joinid[a] = s /\ bits[s] = {}
       /\ ~(a \in Stack /\ "CANCELED" \in bits[a])

(* The compare-and-exchange of pd->joinid expects the caller and stores     *)
(* NULL: no joiner's id is ever stored, so it never finds one either.       *)
(* The handle is claimed: an application joins a thread at most once.       *)
(* pthread_tryjoin_np, which does not block, is not among the callers here. *)
pthread_join(a, s, timed) ==
    /\ CanCall(a)
    /\ handle[s] = "open"
    /\ ~JoinError(a, s)
    /\ joinid[s] # a
    /\ handle' = [handle EXCEPT ![s] = "claimed"]
    /\ Call(a, IF timed THEN "timedwait" ELSE "wait", s)
    /\ UNCHANGED <<where, tid, joinid, bits, lock, stopped, phase, nthreads>>

(* clockwait_tid, or the untimed loop, has read a zero tid. *)
join_wakes(a) ==
    /\ pc[a] \in {"wait", "timedwait"}
    /\ tid[arg[a]] = 0
    /\ Goto(a, "woken")
    /\ UNCHANGED <<where, tid, joinid, bits, lock, stopped, phase, handle, nthreads>>

join_frees(a) ==
    LET s == arg[a] IN
    /\ pc[a] = "woken"
    /\ put_tid(s, -1)
    /\ free_tcb(a, s)
    /\ handle' = [handle EXCEPT ![s] = "none"]
    /\ UNCHANGED <<joinid, lock, stopped, phase, nthreads>>

(* ETIMEDOUT, which may come while the thread exits.  The thread can be     *)
(* joined again.                                                            *)
join_timeout(a) ==
    LET s == arg[a] IN
    /\ pc[a] = "timedwait"
    /\ joinid' = [joinid EXCEPT ![s] = NULL]
    /\ handle' = [handle EXCEPT ![s] = "open"]
    /\ Return(a)
    /\ UNCHANGED <<where, tid, bits, lock, stopped, phase, nthreads>>

(* The wait is a cancellation point; the handler cleanup() compares its own *)
(* argument, not the joinid that argument points to, and changes nothing.   *)
join_cancelled(a) ==
    /\ pc[a] \in {"wait", "timedwait"}
    /\ a \in Stack /\ "CANCELED" \in bits[a]
    /\ Goes(a, "routine", "leaving")
    /\ handle' = [handle EXCEPT ![arg[a]] = "open"]
    /\ Return(a)
    /\ UNCHANGED <<where, tid, joinid, bits, lock, stopped, nthreads>>

(* Fault: the race of detach and exit is not closed. *)
pthread_detach_unchecked(a, s) ==
    /\ CanCall(a)
    /\ handle[s] = "open" /\ tid[s] >= 0 /\ joinid[s] = NULL
    /\ joinid' = [joinid EXCEPT ![s] = s]
    /\ handle' = [handle EXCEPT ![s] = "none"]
    /\ UNCHANGED <<where, tid, bits, lock, stopped, phase, pc, arg, nthreads>>

(* pthread_detach (external): joinid from NULL to pd; if the thread was     *)
(* already exiting, the caller frees it.                                    *)
pthread_detach(a, s) ==
    /\ CanCall(a)
    /\ handle[s] = "open" /\ tid[s] >= 0 /\ joinid[s] = NULL
    /\ joinid' = [joinid EXCEPT ![s] = s]
    /\ handle' = [handle EXCEPT ![s] = "none"]
    /\ IF "EXITING" \in bits[s] THEN free_tcb(a, s) ELSE UNCHANGED <<bits, pc, arg>>
    /\ UNCHANGED <<where, tid, lock, stopped, phase, nthreads>>

pthread_cancel(a, s) ==
    /\ CanCall(a)
    /\ handle[s] # "none" /\ tid[s] > 0
    /\ bits' = [bits EXCEPT ![s] = @ \cup {"CANCELED"}]
    /\ UNCHANGED <<where, tid, joinid, lock, stopped, phase, pc, arg, handle, nthreads>>
-----------------------------------------------------------------------------
Creating(a) ==
    \/ \E s \in Stack, d, stop \in BOOLEAN : pthread_create(a, s, d, stop)
    \/ create_thread(a)
    \/ clone_ok(a) \/ clone_fail(a) \/ setup_ok(a) \/ setup_fail(a)

Calling(a) ==
    \/ \E s \in Stack, timed \in BOOLEAN : pthread_join(a, s, timed)
    \/ join_wakes(a) \/ join_frees(a) \/ join_timeout(a) \/ join_cancelled(a)
    \/ \E s \in Stack : pthread_detach(a, s) \/ pthread_cancel(a, s)
    \/ deallocate(a)

start_thread(t) ==
    \/ start_routine(t) \/ start_cancelled(t) \/ routine_returns(t) \/ leave_process(t)
    \/ set_exiting(t) \/ check_detached(t) \/ exit_thread(t)

Next ==
    /\ nthreads # 0
    /\ \/ \E a \in Actor : Creating(a) \/ Calling(a)
       \/ \E t \in Stack : start_thread(t)
       \/ main_exit

Spec == Init /\ [][Next]_vars

(* Threads run: a call that can take its next step takes it, and a thread   *)
(* that has left its start routine goes on to its end.  The start routine   *)
(* itself may run for ever, and no timeout or cancellation has to come.     *)
CallStep(a) ==
    /\ nthreads # 0
    /\ \/ create_thread(a)
       \/ clone_ok(a) \/ clone_fail(a) \/ setup_ok(a) \/ setup_fail(a)
       \/ join_wakes(a) \/ join_frees(a) \/ deallocate(a)

ThreadStep(t) ==
    /\ nthreads # 0
    /\ \/ start_routine(t) \/ start_cancelled(t) \/ leave_process(t)
       \/ set_exiting(t) \/ check_detached(t) \/ exit_thread(t)

FairSpec ==
    /\ Spec
    /\ \A a \in Actor : WF_vars(CallStep(a))
    /\ \A t \in Stack : WF_vars(ThreadStep(t))
-----------------------------------------------------------------------------
Joining(a, s) == pc[a] \in {"wait", "timedwait", "woken"} /\ arg[a] = s
Owned(a, s) == pc[a] \in {"create", "clone", "setup", "free"} /\ arg[a] = s

(* Who is responsible for freeing s, by the CONCURRENCY NOTES of            *)
(* pthread_create.c: the actor that creates, joins or frees it, the process *)
(* (a joinable thread), or the thread itself (a detached one).              *)
Owners(s) ==
    {<<"actor", a>> : a \in {b \in Actor : Owned(b, s) \/ Joining(b, s)}}
    \cup (IF handle[s] = "open" THEN {<<"process", NULL>>} ELSE {})
    \cup (IF /\ IS_DETACHED(s) /\ phase[s] # "none" /\ "TERMINATED" \notin bits[s]
             /\ ~\E a \in Actor : Owned(a, s)
          THEN {<<"thread", s>>} ELSE {})

(* State (d) of the notes: a joinable thread whose setup failed after the   *)
(* clone; nobody has a handle for it (bug 19511).                           *)
Orphan(s) ==
    /\ where[s] = "used" /\ stopped[s] /\ lock[s] /\ ~IS_DETACHED(s)
    /\ "CANCELED" \in bits[s] /\ handle[s] = "none"

(* A block in use has exactly one owner at every moment of creation, exit,  *)
(* join, timeout, cancellation and detach, whatever their order, except for *)
(* the orphans of a failed setup; a block not in use has none: ownership    *)
(* moves by the four transfers of the notes and never doubles.              *)
UniqueOwner ==
    \A s \in Stack :
        Cardinality(Owners(s)) = (IF where[s] = "used" /\ ~Orphan(s) THEN 1 ELSE 0)

(* Nobody reads or writes a descriptor whose block has been given back: an  *)
(* actor inside a call works on a block in use, and so does a thread until  *)
(* it has set its EXITING bit; later its block may be in the cache but is   *)
(* not unmapped under it.                                                   *)
NoUseAfterFree ==
    /\ \A a \in Actor : pc[a] # "idle" => where[arg[a]] = "used"
    /\ \A t \in Stack : phase[t] \in {"started", "routine", "leaving", "exitbit"} => where[t] = "used"
    /\ \A t \in Stack \ UserStack : phase[t] # "none" => where[t] # "unmapped"

(* The inductive invariant behind the ownership rules.  An actor inside a   *)
(* call works on a block in use ...                                         *)
RefInv ==
    \A a \in Actor : /\ pc[a] = "idle" <=> arg[a] = NULL
                     /\ pc[a] # "idle" => where[arg[a]] = "used"

(* ... on which no other actor works ...                                    *)
ExclusiveInv ==
    \A a, b \in Actor : a # b /\ pc[a] # "idle" /\ pc[b] # "idle" => arg[a] # arg[b]

(* ... and what it knows about it at each point of the call.                *)
CallInv ==
    \A a \in Actor :
        /\ pc[a] \in {"create", "clone"} =>
               /\ handle[arg[a]] = "none" /\ phase[arg[a]] = "none"
               /\ tid[arg[a]] <= 0 /\ bits[arg[a]] = {}
        /\ pc[a] = "clone" /\ stopped[arg[a]] => lock[arg[a]]
        /\ pc[a] = "setup" =>
               /\ handle[arg[a]] = "none" /\ phase[arg[a]] = "started"
               /\ stopped[arg[a]] /\ lock[arg[a]] /\ bits[arg[a]] = {}
        /\ pc[a] \in {"wait", "timedwait", "woken"} => handle[arg[a]] = "claimed"
        /\ pc[a] = "woken" => tid[arg[a]] = 0
        /\ pc[a] = "free" =>
               /\ handle[arg[a]] = "none"
               /\ phase[arg[a]] = "none" \/ "TERMINATED" \in bits[arg[a]]

(* No joiner's id is ever stored.  A thread the application may still join  *)
(* or detach is not detached, not being freed, and dead only if it has set  *)
(* its EXITING bit.                                                         *)
HandleInv ==
    \A s \in Stack :
        /\ joinid[s] \in {NULL, s}
        /\ handle[s] = "open" => \A a \in Actor : arg[a] # s
        /\ handle[s] # "none" =>
               /\ where[s] = "used" /\ joinid[s] = NULL
               /\ "TERMINATED" \notin bits[s]
               /\ tid[s] = 1 \/ (tid[s] = 0 /\ "EXITING" \in bits[s])

(* The tid tells a live thread from a dead one, and a live thread's block   *)
(* is in use until somebody has won the right to free it.                   *)
PhaseInv ==
    \A t \in Stack :
        /\ tid[t] = 1 <=> phase[t] # "none"
        /\ phase[t] \in {"started", "routine", "leaving", "exitbit"} =>
               where[t] = "used" /\ bits[t] \subseteq {"CANCELED"}
        /\ phase[t] \in {"check", "exit"} =>
               "EXITING" \in bits[t] /\ (where[t] = "used" \/ "TERMINATED" \in bits[t])
        /\ phase[t] # "none" /\ t \notin UserStack => where[t] # "unmapped"

IInv == TypeOK /\ RefInv /\ ExclusiveInv /\ CallInv /\ HandleInv /\ PhaseInv

(* The strengthening for UniqueOwner and ThreadCount.  A thread is in a call *)
(* only while in its start routine, or while it frees itself at its end; ... *)
CallerInv ==
    \A a \in Actor :
        /\ pc[a] \notin {"idle", "free"} => phase[a] = "routine"
        /\ pc[a] = "free" => phase[a] \in {"routine", "exit"}

(* ... the lock of a thread that can be joined has been released, and a     *)
(* detached thread at its end, or the one who detached it, has set          *)
(* TERMINATED; ...                                                          *)
LockInv ==
    \A s \in Stack :
        /\ handle[s] # "none" => ~ (stopped[s] /\ lock[s])
        /\ phase[s] = "exit" /\ IS_DETACHED(s) => "TERMINATED" \in bits[s]

(* ... nobody frees an orphan, and every other block in use has an owner.   *)
HasOwner(s) ==
    \/ \E a \in Actor : arg[a] = s
    \/ handle[s] = "open"
    \/ IS_DETACHED(s) /\ phase[s] # "none" /\ "TERMINATED" \notin bits[s]

OwnedInv ==
    \A s \in Stack : where[s] = "used" =>
        IF Orphan(s) THEN \A a \in Actor : arg[a] # s ELSE HasOwner(s)

OwnInv == CallerInv /\ LockInv /\ OwnedInv

(* pthread_join goes past its wait only for a thread that has left the      *)
(* kernel, and no other joiner is then still waiting on that descriptor     *)
(* (once tid is -1 its wait would never end).                               *)
JoinAfterExit ==
    /\ \A a \in Actor : pc[a] = "woken" => phase[arg[a]] = "none" /\ "EXITING" \in bits[arg[a]]
    /\ \A a \in Actor : pc[a] \in {"wait", "timedwait"} => tid[arg[a]] >= 0

(* __nptl_nthreads counts the main thread, the threads that have not yet    *)
(* left, and those pthread_create is about to clone: so exit(0) is called   *)
(* by the last thread and never under a thread that still runs.             *)
ThreadCount ==
    nthreads = Cardinality({a \in Actor : phase[a] \in {"started", "routine", "leaving"}})
             + Cardinality({a \in Actor : pc[a] \in {"create", "clone"}})

(* The thread that frees its own stack while still running on it relies on  *)
(* the tid: no step unmaps or hands out a block whose thread the kernel has *)
(* not yet reported dead.                                                   *)
LiveStackKept ==
    [][\A s \in Stack \ UserStack :
          tid[s] = 1 /\ where'[s] # where[s] => where[s] = "used" /\ where'[s] = "cached"]_vars

(* A detached thread that has set its EXITING bit is reclaimed without      *)
(* anybody's help, also when the detach comes after the exit.               *)
DetachedReclaimed ==
    \A s \in Stack :
        ("EXITING" \in bits[s] /\ IS_DETACHED(s)) ~> (nthreads = 0 \/ (where[s] # "used" /\ FREE_P(s)))

(* A join of a thread that exits returns, the timed ones included. *)
JoinReturns ==
    \A a \in Actor :
        (pc[a] \in {"wait", "timedwait"} /\ "EXITING" \in bits[arg[a]]) ~> (nthreads = 0 \/ pc[a] = "idle")

(* pthread_create returns: it never waits for a lock left behind by the     *)
(* previous thread of a cached block.                                       *)
CreateReturns ==
    \A a \in Actor : pc[a] = "create" ~> (nthreads = 0 \/ pc[a] = "idle")
=============================================================================
