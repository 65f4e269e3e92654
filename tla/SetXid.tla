------------------------------- MODULE SetXid -------------------------------
(* __nptl_setxid of glibc 2.32 (allocatestack.c): the set*id functions of a  *)
(* process change the ids of every thread, by a signal to each thread on the *)
(* lists of stacks, while threads are created (pthread_create.c), start and  *)
(* exit.  The caller holds stack_cache_lock from the first to the last step, *)
(* so that the lists do not change under it; what the threads on them do     *)
(* does change.                                                              *)
(*                                                                           *)
(* External: the handler of SIGSETXID (it is not in the repository; here it  *)
(* does what its callers rely on), the kernel's tgkill, futexes and clone.   *)
EXTENDS Integers, FiniteSets

CONSTANTS Thread,       \* thread descriptors
          Main,         \* the thread the process starts with
          NULL,
          Creators,     \* bound: the threads that call pthread_create
          Callers       \* bound: the threads that call set*id

ASSUME SetXidAssumption ==
  /\ IsFiniteSet(Thread) /\ Main \in Thread /\ NULL \notin Thread
  /\ Creators \subseteq Thread /\ Callers \subseteq Thread

VARIABLES listed,     \* the descriptors on stack_used and __stack_user
          lock,       \* who holds stack_cache_lock for __nptl_setxid
          phase,      \* where the thread is in start_thread
          bits,       \* pd->cancelhandling
          futex,      \* pd->setxid_futex
          call, new,  \* how far its pthread_create is, and the descriptor it is for
          cred,       \* the ids the kernel has for the thread
          pending,    \* SIGSETXID is pending
          handler,    \* where the thread is in the handler of SIGSETXID
          xpc,        \* where __nptl_setxid is
          todo, cur,  \* the rest of the list it walks, and the element it is at
          cmd,        \* *__xidcmd: the id asked for, cntr, error
          signalled,  \* its local: somebody was signalled in this round
          lossy,      \* history: tgkill has failed for a living thread
          aborted     \* __nptl_setxid_error has called abort

threads == <<phase, bits, futex, cred>>
creation == <<call, new>>
signals == <<pending, handler>>
walk == <<xpc, todo, cur, signalled>>
vars == <<listed, lock, phase, bits, futex, call, new, cred, pending, handler,
          xpc, todo, cur, cmd, signalled, lossy, aborted>>

\* 0 is root.
Ids == {0, 1}
NoCommand == [id |-> 0, cntr |-> 0, error |-> -1]
Alive(t) == phase[t] \notin {"none", "gone"}

\* The thread is in no call and no handler.
AtLiberty(t) == phase[t] = "running" /\ call[t] = "idle" /\ handler[t] = "no" /\ lock # t
Own(t, p) == phase[t] = p /\ handler[t] = "no"
Creating(c, l) == call[c] = l /\ handler[c] = "no"

becomes(t, p) == phase' = [phase EXCEPT ![t] = p]
to(c, l) == call' = [call EXCEPT ![c] = l] /\ UNCHANGED new
Set(f, t, v) == [f EXCEPT ![t] = v]

Init ==
  /\ listed = {Main}
  /\ lock = NULL
  /\ phase = [t \in Thread |-> IF t = Main THEN "running" ELSE "none"]
  /\ bits = [t \in Thread |-> {}]
  /\ futex = [t \in Thread |-> 0]
  /\ call = [t \in Thread |-> "idle"]
  /\ new = [t \in Thread |-> NULL]
  /\ cred = [t \in Thread |-> 0]
  /\ pending = [t \in Thread |-> FALSE]
  /\ handler = [t \in Thread |-> "no"]
  /\ xpc = "no" /\ todo = {} /\ cur = NULL
  /\ cmd = NoCommand
  /\ signalled = FALSE /\ lossy = FALSE /\ aborted = FALSE

-----------------------------------------------------------------------------
(* allocate_stack: "Don't allow setxid until cloned."  A descriptor from the *)
(* cache still has the bits of its last thread when it is listed.  A failing *)
(* change_stack_perm, which leaves an unmapped stack on the list, is in      *)
(* StackCache and not here: the next walk of the list would fault.           *)
allocate_stack(c, t) ==
  /\ c \in Creators /\ AtLiberty(c) /\ lock = NULL
  /\ t \notin listed /\ ~ Alive(t)
  /\ futex' = Set(futex, t, -1)
  /\ \E cached \in BOOLEAN : bits' = IF cached THEN bits ELSE Set(bits, t, {})
  /\ listed' = listed \cup {t}
  /\ becomes(t, "none")
  /\ call' = Set(call, c, "listed") /\ new' = Set(new, c, t)
  /\ UNCHANGED <<lock, cred, signals, walk, cmd, lossy, aborted>>

\* The end of get_cached_stack, after it has released the lock.
reset_cancelhandling(c) ==
  /\ Creating(c, "listed")
  /\ bits' = Set(bits, new[c], {})
  /\ to(c, "ready")
  /\ UNCHANGED <<listed, lock, phase, futex, cred, signals, walk, cmd, lossy, aborted>>

delist(t) == lock = NULL /\ listed' = listed \ {t}

\* mprot_error: the guard could not be set up.
mprot_error(c) ==
  /\ Creating(c, "ready")
  /\ to(c, "mprot_error")
  /\ UNCHANGED <<listed, lock, threads, signals, walk, cmd, lossy, aborted>>

drop_stack(c) ==
  /\ \E l \in {"mprot_error", "deallocate"} : Creating(c, l)
  /\ delist(new[c])
  /\ call' = Set(call, c, "idle") /\ new' = Set(new, c, NULL)
  /\ UNCHANGED <<lock, threads, signals, walk, cmd, lossy, aborted>>

\* __libc_signal_block_all
block_signals(c) ==
  /\ Creating(c, "ready")
  /\ to(c, "blocked")
  /\ UNCHANGED <<listed, lock, threads, signals, walk, cmd, lossy, aborted>>

\* ARCH_CLONE: the thread has its creator's ids and starts with its signals blocked.
clone(c) ==
  /\ Creating(c, "blocked")
  /\ becomes(new[c], "starting")
  /\ cred' = Set(cred, new[c], cred[c])
  /\ to(c, "cloned")
  /\ UNCHANGED <<listed, lock, bits, futex, signals, walk, cmd, lossy, aborted>>

clone_fails(c) ==
  /\ Creating(c, "blocked")
  /\ to(c, "stillborn")
  /\ UNCHANGED <<listed, lock, threads, signals, walk, cmd, lossy, aborted>>

\* __libc_signal_restore_set
restore_signals(c) ==
  /\ Creating(c, "cloned")
  /\ call' = Set(call, c, "idle") /\ new' = Set(new, c, NULL)
  /\ UNCHANGED <<listed, lock, threads, signals, walk, cmd, lossy, aborted>>

\* atomic_exchange_acq (&pd->setxid_futex, 0), and a wake-up if it was -2.
allow_setxid(t) ==
  /\ futex' = Set(futex, t, 0)
  /\ xpc' = IF futex[t] = -2 /\ xpc = "asleep_clone" /\ cur = t THEN "cloned" ELSE xpc
  /\ UNCHANGED <<todo, cur, signalled>>

\* Fault: nobody is told that there will be no thread.
stillborn_silent(c) ==
  /\ Creating(c, "stillborn")
  /\ to(c, "deallocate")
  /\ UNCHANGED <<listed, lock, threads, signals, walk, cmd, lossy, aborted>>

\* "Perhaps a thread wants to change the IDs and is waiting for this stillborn thread."
stillborn(c) ==
  /\ Creating(c, "stillborn")
  /\ allow_setxid(new[c])
  /\ to(c, "deallocate")
  /\ UNCHANGED <<listed, lock, phase, bits, cred, signals, cmd, lossy, aborted>>

-----------------------------------------------------------------------------
\* start_thread: the mask is restored, "Allow setxid from now onwards."  Cancellation
\* and pthread_exit come back here with the futex at 0, which stores the same 0.
start_thread(t) ==
  /\ Own(t, "starting")
  /\ allow_setxid(t)
  /\ becomes(t, "running")
  /\ UNCHANGED <<listed, lock, bits, creation, cred, signals, cmd, lossy, aborted>>

set_exiting(t) ==
  /\ AtLiberty(t)
  /\ bits' = [bits EXCEPT ![t] = @ \cup {"EXITING"}]
  /\ becomes(t, "exiting")
  /\ UNCHANGED <<listed, lock, futex, creation, cred, signals, walk, cmd, lossy, aborted>>

\* The test of SETXID_BITMASK before the loop.
check_setxid(t) ==
  /\ Own(t, "exiting")
  /\ becomes(t, IF "SETXID" \in bits[t] THEN "wait" ELSE "free")
  /\ UNCHANGED <<listed, lock, bits, futex, creation, cred, signals, walk, cmd, lossy, aborted>>

\* futex_wait_simple sleeps only while the futex is 0; then the loop's own test.
wait_setxid(t) ==
  /\ Own(t, "wait")
  /\ becomes(t, IF futex[t] = 0 THEN "asleep" ELSE "test")
  /\ UNCHANGED <<listed, lock, bits, futex, creation, cred, signals, walk, cmd, lossy, aborted>>

test_setxid(t) ==
  /\ Own(t, "test")
  /\ becomes(t, IF "SETXID" \in bits[t] THEN "wait" ELSE "reset")
  /\ UNCHANGED <<listed, lock, bits, futex, creation, cred, signals, walk, cmd, lossy, aborted>>

\* "Reset the value so that the stack can be reused."
reset_futex(t) ==
  /\ Own(t, "reset")
  /\ futex' = Set(futex, t, 0)
  /\ becomes(t, "free")
  /\ UNCHANGED <<listed, lock, bits, creation, cred, signals, walk, cmd, lossy, aborted>>

\* A detached thread frees its TCB first; __deallocate_stack takes the lock.
free_tcb(t) ==
  /\ Own(t, "free")
  /\ delist(t)
  /\ becomes(t, "exit")
  /\ UNCHANGED <<lock, bits, futex, creation, cred, signals, walk, cmd, lossy, aborted>>

\* __exit_thread; of a joinable thread the descriptor stays listed.
exit_thread(t) ==
  /\ Own(t, "free") \/ Own(t, "exit")
  /\ becomes(t, "gone")
  /\ cred' = Set(cred, t, 0)
  /\ UNCHANGED <<listed, lock, bits, futex, creation, signals, walk, cmd, lossy, aborted>>

\* The joiner has seen tid at 0 and frees the descriptor.
join(t) ==
  /\ phase[t] = "gone" /\ t \in listed
  /\ delist(t)
  /\ UNCHANGED <<lock, threads, creation, signals, walk, cmd, lossy, aborted>>

-----------------------------------------------------------------------------
(* __nptl_setxid.  The order of the two lists plays no part.                 *)
others == listed \ {lock}
wake(t) == IF phase[t] = "asleep" THEN becomes(t, "test") ELSE UNCHANGED phase
permitted(t) == cred[t] = 0 \/ cred[t] = cmd.id
\* The set*id system call of thread t under the command.
syscall(t) == cred' = IF permitted(t) THEN Set(cred, t, cmd.id) ELSE cred

Result(t) == IF permitted(t) THEN 0 ELSE 1

\* "Check for consistency across set*id system call results."
__nptl_setxid_error(t) == aborted' = (cmd.error \notin {-1, Result(t)})

setxid_start(s, id) ==
  /\ s \in Callers /\ AtLiberty(s) /\ lock = NULL
  /\ lock' = s
  /\ cmd' = [id |-> id, cntr |-> 0, error |-> -1]
  /\ xpc' = "mark" /\ todo' = listed \ {s}
  /\ UNCHANGED <<listed, threads, creation, signals, cur, signalled, lossy, aborted>>

\* Fault: a thread that is not cloned yet is marked like any other.
setxid_mark_at_once(t) ==
  /\ xpc = "mark" /\ t \in todo
  /\ todo' = todo \ {t} /\ cur' = t
  /\ xpc' = "cloned"
  /\ UNCHANGED <<listed, lock, threads, creation, signals, cmd, signalled, lossy, aborted>>

\* setxid_mark_thread: "Wait until this thread is cloned."
setxid_mark_thread(t) ==
  /\ xpc = "mark" /\ t \in todo
  /\ todo' = todo \ {t} /\ cur' = t
  /\ IF futex[t] = -1
     THEN futex' = Set(futex, t, -2) /\ xpc' = "asleep_clone"
     ELSE xpc' = "cloned" /\ UNCHANGED futex
  /\ UNCHANGED <<listed, lock, phase, bits, cred, creation, signals, cmd, signalled,
                 lossy, aborted>>

\* "Don't let the thread exit before the setxid handler runs."
setxid_hold ==
  /\ xpc = "cloned"
  /\ futex' = Set(futex, cur, 0)
  /\ xpc' = "flag"
  /\ UNCHANGED <<listed, lock, phase, bits, cred, creation, signals, todo, cur, cmd,
                 signalled, lossy, aborted>>

\* "If the thread is exiting right now, ignore it."
setxid_flag ==
  /\ xpc = "flag"
  /\ IF "EXITING" \in bits[cur]
     THEN /\ UNCHANGED bits
          /\ IF "SETXID" \notin bits[cur]
             THEN futex' = Set(futex, cur, 1) /\ wake(cur)
             ELSE UNCHANGED <<futex, phase>>
     ELSE /\ bits' = [bits EXCEPT ![cur] = @ \cup {"SETXID"}]
          /\ UNCHANGED <<futex, phase>>
  /\ xpc' = "mark" /\ cur' = NULL
  /\ UNCHANGED <<listed, lock, cred, creation, signals, todo, cmd, signalled, lossy, aborted>>

\* The start of a round of signals, the first one or one more.
setxid_round ==
  /\ (xpc = "mark" /\ todo = {}) \/ xpc = "again"
  /\ xpc' = "signal" /\ todo' = others /\ signalled' = FALSE
  /\ UNCHANGED <<listed, lock, threads, creation, signals, cur, cmd, lossy, aborted>>

\* setxid_signal_thread: no thread to signal, or tgkill cannot queue the signal.
setxid_skip_thread(t) ==
  /\ xpc = "signal" /\ t \in todo
  /\ todo' = todo \ {t}
  /\ lossy' = (lossy \/ ("SETXID" \in bits[t] /\ Alive(t)))
  /\ UNCHANGED <<listed, lock, threads, creation, signals, xpc, cur, cmd, signalled, aborted>>

setxid_signal_thread(t) ==
  /\ xpc = "signal" /\ t \in todo
  /\ "SETXID" \in bits[t] /\ Alive(t)
  /\ todo' = todo \ {t} /\ cur' = t
  /\ pending' = Set(pending, t, TRUE)
  /\ xpc' = "count"
  /\ UNCHANGED <<listed, lock, threads, creation, handler, cmd, signalled, lossy, aborted>>

\* Fault: the signal is not counted.
setxid_count_not ==
  /\ xpc = "count"
  /\ xpc' = "signal" /\ cur' = NULL /\ signalled' = TRUE
  /\ UNCHANGED <<listed, lock, threads, creation, signals, todo, cmd, lossy, aborted>>

\* atomic_increment (&cmdp->cntr), when the handler may have run already.
setxid_count ==
  /\ xpc = "count"
  /\ cmd' = [cmd EXCEPT !.cntr = @ + 1]
  /\ xpc' = "signal" /\ cur' = NULL /\ signalled' = TRUE
  /\ UNCHANGED <<listed, lock, threads, creation, signals, todo, lossy, aborted>>

\* "Iterate until we don't succeed in signalling anyone."
setxid_wait ==
  /\ (xpc = "signal" /\ todo = {}) \/ xpc = "wait"
  /\ \/ cmd.cntr # 0 /\ xpc' = "asleep" /\ UNCHANGED todo
     \/ cmd.cntr = 0 /\ signalled /\ xpc' = "again" /\ UNCHANGED todo
     \/ cmd.cntr = 0 /\ ~ signalled /\ xpc' = "unmark" /\ todo' = others
  /\ UNCHANGED <<listed, lock, threads, creation, signals, cur, cmd, signalled, lossy, aborted>>

\* Fault: the marks stay.
setxid_keep_mark(t) ==
  /\ xpc = "unmark" /\ t \in todo
  /\ todo' = todo \ {t}
  /\ UNCHANGED <<listed, lock, threads, creation, signals, xpc, cur, cmd, signalled, lossy, aborted>>

setxid_unmark_thread(t) ==
  /\ xpc = "unmark" /\ t \in todo
  /\ todo' = todo \ {t}
  /\ IF "SETXID" \in bits[t]
     THEN bits' = [bits EXCEPT ![t] = @ \ {"SETXID"}] /\ xpc' = "release" /\ cur' = t
     ELSE UNCHANGED <<bits, xpc, cur>>
  /\ UNCHANGED <<listed, lock, phase, futex, cred, creation, signals, cmd, signalled, lossy, aborted>>

\* "Release the futex just in case."
setxid_release ==
  /\ xpc = "release"
  /\ futex' = Set(futex, cur, 1) /\ wake(cur)
  /\ xpc' = "unmark" /\ cur' = NULL
  /\ UNCHANGED <<listed, lock, bits, cred, creation, signals, todo, cmd, signalled, lossy, aborted>>

\* "This must be last": the caller's own system call, then the lock is released.
setxid_self ==
  /\ xpc = "unmark" /\ todo = {}
  /\ __nptl_setxid_error(lock)
  /\ syscall(lock)
  /\ xpc' = "no" /\ lock' = NULL /\ cmd' = NoCommand
  /\ UNCHANGED <<listed, phase, bits, futex, creation, signals, todo, cur, signalled, lossy>>

-----------------------------------------------------------------------------
(* External: the handler of SIGSETXID.                                       *)
\* A thread that sleeps in futex_wait is taken out of it.
deliver(t) ==
  /\ pending[t] /\ handler[t] = "no"
  /\ Alive(t) /\ phase[t] # "starting" /\ call[t] \notin {"blocked", "cloned"}
  /\ pending' = Set(pending, t, FALSE)
  /\ handler' = Set(handler, t, "syscall")
  /\ IF phase[t] = "asleep" THEN becomes(t, "wait") ELSE UNCHANGED phase
  /\ UNCHANGED <<listed, lock, bits, futex, cred, creation, walk, cmd, lossy, aborted>>

\* What it does to the thread's own fields nobody else looks at before its answer.
handler_syscall(t) ==
  /\ handler[t] = "syscall"
  /\ __nptl_setxid_error(t)
  /\ cmd' = [cmd EXCEPT !.error = IF @ = -1 THEN Result(t) ELSE @]
  /\ syscall(t)
  /\ bits' = [bits EXCEPT ![t] = @ \ {"SETXID"}]
  /\ futex' = Set(futex, t, 1)
  /\ handler' = Set(handler, t, "reply")
  /\ UNCHANGED <<listed, lock, phase, creation, pending, walk, lossy>>

handler_reply(t) ==
  /\ handler[t] = "reply"
  /\ cmd' = [cmd EXCEPT !.cntr = @ - 1]
  /\ xpc' = IF cmd.cntr = 1 /\ xpc = "asleep" THEN "wait" ELSE xpc
  /\ handler' = Set(handler, t, "no")
  /\ UNCHANGED <<listed, lock, threads, creation, pending, todo, cur, signalled, lossy, aborted>>

-----------------------------------------------------------------------------
Create(c) ==
  \/ reset_cancelhandling(c)
  \/ block_signals(c) \/ clone(c) \/ clone_fails(c)
  \/ restore_signals(c) \/ stillborn(c)
  \/ mprot_error(c) \/ drop_stack(c)

Exit(t) ==
  \/ check_setxid(t) \/ wait_setxid(t) \/ test_setxid(t) \/ reset_futex(t)
  \/ free_tcb(t) \/ exit_thread(t)

Handle(t) ==
  deliver(t) \/ handler_syscall(t) \/ handler_reply(t)

SetXid ==
  \/ \E t \in Thread :
       \/ setxid_mark_thread(t) \/ setxid_skip_thread(t)
       \/ setxid_signal_thread(t) \/ setxid_unmark_thread(t)
  \/ setxid_hold \/ setxid_flag \/ setxid_round \/ setxid_count
  \/ setxid_wait \/ setxid_release \/ setxid_self

\* The user's calls.
Call(t) ==
  \/ \E n \in Thread : allocate_stack(t, n)
  \/ set_exiting(t) \/ join(t)
  \/ \E id \in Ids : setxid_start(t, id)

Next ==
  /\ ~ aborted
  /\ \/ SetXid
     \/ \E t \in Thread : Create(t) \/ start_thread(t) \/ Exit(t) \/ Handle(t) \/ Call(t)

Spec == Init /\ [][Next]_vars

\* Every thread is scheduled for as long as it can run; calls are the user's choice.
FairSpec ==
  /\ Spec
  /\ WF_vars(~ aborted /\ SetXid)
  /\ \A t \in Thread :
       /\ WF_vars(~ aborted /\ Create(t))
       /\ WF_vars(~ aborted /\ start_thread(t))
       /\ WF_vars(~ aborted /\ Exit(t))
       /\ WF_vars(~ aborted /\ Handle(t))

-----------------------------------------------------------------------------
TypeOK ==
  /\ listed \subseteq Thread /\ lock \in Thread \cup {NULL}
  /\ phase \in [Thread -> {"none", "starting", "running", "exiting", "wait", "asleep",
                           "test", "reset", "free", "exit", "gone"}]
  /\ bits \in [Thread -> SUBSET {"EXITING", "SETXID"}]
  /\ futex \in [Thread -> -2 .. 1]
  /\ call \in [Thread -> {"idle", "listed", "ready", "mprot_error", "blocked", "cloned",
                          "stillborn", "deallocate"}]
  /\ new \in [Thread -> Thread \cup {NULL}]
  /\ cred \in [Thread -> Ids]
  /\ pending \in [Thread -> BOOLEAN]
  /\ handler \in [Thread -> {"no", "syscall", "reply"}]
  /\ xpc \in {"no", "mark", "asleep_clone", "cloned", "flag", "signal", "count", "wait",
              "asleep", "again", "unmark", "release"}
  /\ todo \subseteq Thread /\ cur \in Thread \cup {NULL}
  /\ cmd \in [id : Ids, cntr : Int, error : {-1, 0, 1}]
  /\ signalled \in BOOLEAN /\ lossy \in BOOLEAN /\ aborted \in BOOLEAN

(* The aim of __nptl_setxid: between its calls, all threads that are not on  *)
(* their way out have the same ids, those whose creation overlapped a call   *)
(* included ("we have gotten all running threads, and their children will be *)
(* automatically correct once started"), and no thread sees another result   *)
(* of the system call than the others ("the abort should not happen"), if    *)
(* tgkill never failed.                                                      *)
SameIds ==
  ~ lossy =>
    /\ ~ aborted
    /\ xpc = "no" =>
         \A t, u \in Thread :
           /\ Alive(t) /\ "EXITING" \notin bits[t]
           /\ Alive(u) /\ "EXITING" \notin bits[u]
           => cred[t] = cred[u]

\* Threads that owe the caller an answer.
Owing == {t \in Thread : pending[t]} \cup {t \in Thread : handler[t] # "no"}

(* cmdp lies in the frame of the caller of __nptl_setxid: no handler is left *)
(* to run, and none is about to answer, when the call returns; and while it  *)
(* runs cntr counts the answers to come, but for the one signal that is sent *)
(* and not counted yet.                                                      *)
AnswersCounted ==
  /\ xpc = "no" => Owing = {}
  /\ xpc # "no" => cmd.cntr = Cardinality(Owing) - (IF xpc = "count" THEN 1 ELSE 0)

(* The inductive invariant behind both.  The lists change only between two   *)
(* calls; every thread that has not freed its TCB is on them, and the caller *)
(* is in no other call meanwhile.                                            *)
Marking == {"mark", "asleep_clone", "cloned", "flag"}
ListInv ==
  /\ lock = NULL <=> xpc = "no"
  /\ \A t \in Thread : Alive(t) /\ phase[t] # "exit" => t \in listed
  /\ lock # NULL => phase[lock] = "running" /\ call[lock] = "idle"
  /\ xpc # "no" => todo \subseteq others
  /\ xpc \in {"asleep_clone", "cloned", "flag", "count", "release"} => cur \in others \ todo
  /\ xpc \in {"wait", "asleep"} => todo = {}

(* A descriptor that has no thread yet belongs to one creator, is listed and *)
(* refuses to be marked; none is left once the walk over the lists is done.  *)
NotCloned(c) == call[c] \in {"listed", "ready", "mprot_error", "blocked", "stillborn"}
Holding(c) == NotCloned(c) \/ call[c] = "deallocate"
BirthInv ==
  /\ \A c \in Thread :
       /\ call[c] # "idle" => phase[c] = "running" /\ new[c] \in Thread
       /\ Holding(c) => new[c] \in listed /\ phase[new[c]] = "none"
       /\ NotCloned(c) => futex[new[c]] < 0
       /\ \A d \in Thread : c # d /\ Holding(c) /\ Holding(d) => new[c] # new[d]
  /\ \A t \in Thread :
       /\ phase[t] = "starting" => futex[t] < 0
       /\ futex[t] = -2 => xpc = "asleep_clone" /\ cur = t
       /\ xpc # "no" /\ t \in others /\ futex[t] = -1 => xpc \in Marking /\ t \in todo

(* A thread is marked only by the call that runs, and it does not get past   *)
(* the loop in start_thread while it is.                                     *)
BitInv ==
  /\ \A t \in Thread :
       /\ phase[t] \in {"starting", "running"} => "EXITING" \notin bits[t]
       /\ phase[t] \notin {"none", "starting", "running"} => "EXITING" \in bits[t]
       /\ "SETXID" \in bits[t] =>
            /\ xpc # "no" /\ t \in others /\ futex[t] >= 0
            /\ phase[t] \in {"none", "running", "exiting", "wait", "asleep", "test"}
            /\ xpc \in {"unmark", "release"} => t \in todo
  /\ \A c \in Thread : call[c] \in {"ready", "blocked"} => "EXITING" \notin bits[new[c]]

(* Nobody owes an answer outside the rounds of signals, nor a thread that    *)
(* the round has not come to; who has to act on the signal is marked.        *)
OwingInv ==
  \A t \in Thread :
    /\ pending[t] \/ handler[t] # "no" => xpc \in {"signal", "count", "wait", "asleep"} /\ t \notin todo
    /\ handler[t] # "no" => ~ pending[t]
    /\ pending[t] \/ handler[t] = "syscall" => "SETXID" \in bits[t] /\ phase[t] # "none"

(* The ids a call aims at: the caller makes its own system call last, so it  *)
(* still has the old ones.                                                   *)
Target == IF permitted(lock) THEN cmd.id ELSE cred[lock]
Live(t) == phase[t] \in {"starting", "running"}

(* A thread that is not on its way out has the old ids until it acts on the  *)
(* signal and the new ones after it, a marked one has either, and a round    *)
(* that signals nobody has found nobody left to signal.                      *)
CredInv ==
  /\ ~ aborted
  /\ xpc = "no" => \A t, u \in Thread : Live(t) /\ Live(u) => cred[t] = cred[u]
  /\ xpc # "no" =>
       /\ cmd.error \in {-1, Result(lock)}
       /\ \A t \in Thread :
            /\ Live(t) \/ ("SETXID" \in bits[t] /\ phase[t] # "none") => cred[t] \in {cred[lock], Target}
            /\ xpc \in Marking /\ Live(t) => cred[t] = cred[lock]
            /\ /\ xpc \in Marking /\ Live(t) /\ t \in others \ todo
               /\ xpc # "mark" => t # cur
               => "SETXID" \in bits[t]
            /\ xpc \notin Marking /\ Live(t) /\ t # lock => "SETXID" \in bits[t] \/ cred[t] = Target
            /\ xpc \in {"signal", "wait", "asleep"} /\ ~ signalled /\ t \in others \ todo
               => ~ ("SETXID" \in bits[t] /\ phase[t] # "none")
            /\ xpc \in {"unmark", "release"} /\ Live(t) /\ t # lock => cred[t] = Target

IInv ==
  /\ TypeOK /\ ListInv /\ BirthInv /\ BitInv /\ OwingInv /\ AnswersCounted
  /\ ~ lossy => CredInv

(* mprot_error needs the lock of the call that waits for its thread.         *)
Doomed == \E c \in Thread :
  call[c] = "mprot_error" /\ xpc = "asleep_clone" /\ cur = new[c]

(* A call of set*id returns: it waits for the cloning of threads, for their  *)
(* stillbirth, and for the answers, and for none of them in vain, whatever   *)
(* fails, unless a stack it waits for cannot be given its guard.             *)
SetxidReturns == xpc # "no" ~> (xpc = "no" \/ aborted \/ Doomed)

(* "We need to check and document why this is correct": the loop of an       *)
(* exiting thread sleeps on setxid_futex but tests cancelhandling, and yet   *)
(* no thread stays in it.                                                    *)
ExitNotHeld ==
  \A t \in Thread :
    phase[t] \in {"wait", "asleep", "test"} ~> (phase[t] = "reset" \/ aborted \/ Doomed)
=============================================================================
