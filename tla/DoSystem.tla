------------------------------ MODULE DoSystem ------------------------------
(* system(3) as called by several threads of one process: do_system of glibc *)
(* 2.27 (fork, every call checked for failure) and of glibc 2.32             *)
(* (posix_spawn, cancellable).  The first call in progress makes the process *)
(* ignore SIGINT and SIGQUIT and the last one gives the dispositions back;   *)
(* each caller blocks SIGCHLD in its own mask while its shell runs.          *)
(*                                                                           *)
(* The lock is held over several steps only where the first caller sets the  *)
(* dispositions; every other critical section is one step that needs the     *)
(* lock free.                                                                *)
(*                                                                           *)
(* A call whose result the code checks may fail.  One whose result it drops  *)
(* succeeds: the (void) sigactions of 2.27, and those of which 2.32 says     *)
(* that they cannot fail.                                                    *)
EXTENDS Naturals, FiniteSets

CONSTANTS Threads,   \* the threads of the process that call system()
          NoThread,  \* the value of a free lock
          Versions   \* the sources the process may be linked with

ASSUME SystemAssumption ==
  /\ IsFiniteSet(Threads)
  /\ NoThread \notin Threads
  /\ Versions \subseteq {"2.27", "2.32"}

VARIABLES disp,        \* the process's disposition of SIGINT and SIGQUIT
          saved,       \* static struct sigaction intr, quit
          sa_refcntr,  \* static int sa_refcntr
          lock,        \* who holds the static lock
          pc,          \* where each thread is in do_system
          blocked,     \* whether the thread's mask blocks SIGCHLD
          omask,       \* the local omask of the thread's call
          child,       \* the shell the call started
          version,     \* the source in use; it never changes
          user,        \* the dispositions when the first of the calls in progress came
          usermask,    \* whether the thread blocked SIGCHLD when its call came
          unset_disp,  \* signals whose disposition could not be set back
          unset_mask   \* threads whose mask could not be set back

sigvars == <<disp, saved, user, unset_disp>>
maskvars == <<blocked, omask, usermask, unset_mask>>
vars == <<sigvars, sa_refcntr, lock, pc, maskvars, child, version>>

Signals == {"SIGINT", "SIGQUIT"}
Dispositions == {"SIG_DFL", "SIG_IGN", "handler"}

\* Between the pause for the first caller's sigactions and the release.
Active == {"block", "spawn", "wait", "reap", "sub_ref", "sub_ref_cancel"}
Stages == {"idle", "gone", "set_int", "set_quit"} \cup Active

Holders == {t \in Threads : pc[t] \notin {"idle", "gone"}}

\* exec resets a caught signal and keeps an ignored one.
exec(d) == IF d = "handler" THEN "SIG_DFL" ELSE d

NoChild == [st |-> "none"]
Children ==
  {NoChild} \cup [st : {"running", "killed", "zombie"},
                  disp : [Signals -> {"SIG_DFL", "SIG_IGN"}], blocked : BOOLEAN]

Init ==
  /\ version \in Versions
  /\ user \in [Signals -> Dispositions]
  /\ usermask \in [Threads -> BOOLEAN]
  /\ disp = user
  /\ saved = [s \in Signals |-> "SIG_DFL"]
  /\ sa_refcntr = 0
  /\ lock = NoThread
  /\ pc = [t \in Threads |-> "idle"]
  /\ blocked = usermask
  /\ omask = [t \in Threads |-> FALSE]
  /\ child = [t \in Threads |-> NoChild]
  /\ unset_disp = {} /\ unset_mask = {}

\* Every step of a call moves its thread from one stage to the next.
goto(t, from, to) == pc[t] = from /\ pc' = [pc EXCEPT ![t] = to]

-----------------------------------------------------------------------------
(* The program between calls.  It may change a disposition while no call is *)
(* in progress; a change made during a call is lost by design.              *)
program_sigaction(s, d) ==
  /\ Holders = {}
  /\ disp' = [disp EXCEPT ![s] = d]
  /\ user' = [user EXCEPT ![s] = d]
  /\ unset_disp' = unset_disp \ {s}
  /\ UNCHANGED <<saved, sa_refcntr, lock, pc, maskvars, child>>

program_sigmask(t, b) ==
  /\ pc[t] = "idle"
  /\ blocked' = [blocked EXCEPT ![t] = b]
  /\ usermask' = [usermask EXCEPT ![t] = b]
  /\ unset_mask' = unset_mask \ {t}
  /\ UNCHANGED <<sigvars, sa_refcntr, lock, pc, omask, child>>

-----------------------------------------------------------------------------
(* DO_LOCK, ADD_REF: the first caller keeps the lock for its sigactions.     *)
(* What a call has to give back is what it finds, left over from an earlier  *)
(* call or not.                                                              *)
add_ref(t) ==
  /\ pc[t] = "idle"
  /\ lock = NoThread
  /\ sa_refcntr' = sa_refcntr + 1
  /\ lock' = IF sa_refcntr = 0 THEN t ELSE NoThread
  /\ pc' = [pc EXCEPT ![t] = IF sa_refcntr = 0 THEN "set_int" ELSE "block"]
  /\ user' = IF sa_refcntr = 0 THEN disp ELSE user
  /\ unset_disp' = IF sa_refcntr = 0 THEN {} ELSE unset_disp
  /\ usermask' = [usermask EXCEPT ![t] = blocked[t]]
  /\ unset_mask' = unset_mask \ {t}
  /\ UNCHANGED <<disp, saved, blocked, omask, child>>

ignore_signal(s) ==
  /\ saved' = [saved EXCEPT ![s] = disp[s]]
  /\ disp' = [disp EXCEPT ![s] = "SIG_IGN"]

set_int(t) ==
  /\ goto(t, "set_int", "set_quit")
  /\ ignore_signal("SIGINT")
  /\ UNCHANGED <<sa_refcntr, lock, maskvars, child, user, unset_disp>>

set_quit(t) ==
  /\ goto(t, "set_quit", "block")
  /\ ignore_signal("SIGQUIT")
  /\ lock' = NoThread
  /\ UNCHANGED <<sa_refcntr, maskvars, child, user, unset_disp>>

\* 2.27 checks both sigactions and takes back what it has done.
set_int_fails(t) ==
  /\ version = "2.27"
  /\ goto(t, "set_int", "idle")
  /\ sa_refcntr' = sa_refcntr - 1
  /\ lock' = NoThread
  /\ UNCHANGED <<sigvars, maskvars, child>>

set_quit_fails(t) ==
  /\ version = "2.27"
  /\ goto(t, "set_quit", "idle")
  /\ sa_refcntr' = sa_refcntr - 1
  /\ disp' = [disp EXCEPT !["SIGINT"] = saved["SIGINT"]]
  /\ lock' = NoThread
  /\ UNCHANGED <<saved, user, unset_disp, maskvars, child>>

block_sigchld(t) ==
  /\ goto(t, "block", "spawn")
  /\ omask' = [omask EXCEPT ![t] = blocked[t]]
  /\ blocked' = [blocked EXCEPT ![t] = TRUE]
  /\ UNCHANGED <<sigvars, sa_refcntr, lock, child, usermask, unset_mask>>

\* DO_LOCK, SUB_REF, the dispositions given back by the last caller, DO_UNLOCK.
release ==
  /\ lock = NoThread
  /\ sa_refcntr' = sa_refcntr - 1
  /\ disp' = IF sa_refcntr = 1 THEN saved ELSE disp

block_fails(t) ==
  /\ version = "2.27"
  /\ goto(t, "block", "idle")
  /\ release
  /\ UNCHANGED <<saved, user, unset_disp, lock, maskvars, child>>

-----------------------------------------------------------------------------
(* The shell: 2.27 forks and undoes the caller's changes in the child; 2.32 *)
(* asks posix_spawn to reset the signals the program did not ignore.        *)
do_fork(t) ==
  /\ version = "2.27"
  /\ goto(t, "spawn", "wait")
  /\ child' = [child EXCEPT ![t] =
       [st |-> "running", disp |-> [s \in Signals |-> exec(saved[s])], blocked |-> omask[t]]]
  /\ UNCHANGED <<sigvars, sa_refcntr, lock, maskvars>>

posix_spawn(t) ==
  /\ version = "2.32"
  /\ goto(t, "spawn", "wait")
  /\ LET reset == {s \in Signals : saved[s] # "SIG_IGN"}
     IN  child' = [child EXCEPT ![t] =
           [st |-> "running",
            disp |-> [s \in Signals |-> IF s \in reset THEN "SIG_DFL" ELSE exec(disp[s])],
            blocked |-> omask[t]]]
  /\ UNCHANGED <<sigvars, sa_refcntr, lock, maskvars>>

spawn_fails(t) ==
  /\ goto(t, "spawn", "sub_ref")
  /\ UNCHANGED <<sigvars, sa_refcntr, lock, maskvars, child>>

child_exits(t) ==
  /\ child[t].st \in {"running", "killed"}
  /\ child' = [child EXCEPT ![t].st = "zombie"]
  /\ UNCHANGED <<sigvars, sa_refcntr, lock, pc, maskvars, version>>

\* waitpid collects the status of the shell.
collect(t) ==
  /\ child[t].st = "zombie"
  /\ child' = [child EXCEPT ![t] = NoChild]
  /\ UNCHANGED <<sigvars, sa_refcntr, lock, maskvars>>

waitpid(t) == goto(t, "wait", "sub_ref") /\ collect(t)

\* Fault: the shell of a cancelled call is not killed.
cancelled_alive(t) ==
  /\ version = "2.32"
  /\ goto(t, "wait", "reap")
  /\ UNCHANGED <<sigvars, sa_refcntr, lock, maskvars, child>>

(* The thread is cancelled in waitpid: cancel_handler kills the shell, waits *)
(* for it and gives up the reference; the thread ends.                       *)
cancelled(t) ==
  /\ version = "2.32"
  /\ goto(t, "wait", "reap")
  /\ child' = IF child[t].st = "running" THEN [child EXCEPT ![t].st = "killed"] ELSE child
  /\ UNCHANGED <<sigvars, sa_refcntr, lock, maskvars>>

\* Fault: the handler does not wait for the shell it killed.
cancel_reap_nowait(t) ==
  /\ goto(t, "reap", "sub_ref_cancel")
  /\ UNCHANGED <<sigvars, sa_refcntr, lock, maskvars, child>>

cancel_reap(t) == goto(t, "reap", "sub_ref_cancel") /\ collect(t)

cancel_release(t) ==
  /\ goto(t, "sub_ref_cancel", "gone")
  /\ release
  /\ UNCHANGED <<saved, user, unset_disp, lock, maskvars, child>>

-----------------------------------------------------------------------------
\* Fault: the mask is set back only by the last caller.
sub_ref_227_last(t) ==
  /\ version = "2.27"
  /\ goto(t, "sub_ref", "idle")
  /\ release
  /\ blocked' = IF sa_refcntr = 1 THEN [blocked EXCEPT ![t] = omask[t]] ELSE blocked
  /\ UNCHANGED <<saved, user, lock, omask, usermask, unset_disp, unset_mask, child>>

(* The end of a call.  2.27 sets the mask back on every return, 2.32 only    *)
(* where the last reference goes.                                            *)
sub_ref_227(t) ==
  /\ version = "2.27"
  /\ goto(t, "sub_ref", "idle")
  /\ release
  /\ blocked' = [blocked EXCEPT ![t] = omask[t]]
  /\ UNCHANGED <<saved, user, lock, omask, usermask, unset_disp, unset_mask, child>>

(* One of the calls that set things back fails and the call returns -1:      *)
(* either a sigaction of the last caller, and then sigprocmask is not tried, *)
(* or sigprocmask itself.                                                    *)
sub_ref_227_fails(t) ==
  /\ version = "2.27"
  /\ goto(t, "sub_ref", "idle")
  /\ lock = NoThread
  /\ sa_refcntr' = sa_refcntr - 1
  /\ unset_mask' = unset_mask \cup {t}
  /\ \/ /\ sa_refcntr = 1
        /\ \E failed \in SUBSET Signals \ {{}} :
             /\ disp' = [s \in Signals |-> IF s \in failed THEN disp[s] ELSE saved[s]]
             /\ unset_disp' = failed
     \/ /\ disp' = IF sa_refcntr = 1 THEN saved ELSE disp
        /\ UNCHANGED unset_disp
  /\ UNCHANGED <<saved, user, lock, blocked, omask, usermask, child>>

\* Fault: every caller restores the dispositions.
sub_ref_232_each(t) ==
  /\ version = "2.32"
  /\ goto(t, "sub_ref", "idle")
  /\ lock = NoThread
  /\ sa_refcntr' = sa_refcntr - 1
  /\ disp' = saved
  /\ blocked' = [blocked EXCEPT ![t] = omask[t]]
  /\ UNCHANGED <<saved, user, lock, omask, usermask, unset_disp, unset_mask, child>>

sub_ref_232(t) ==
  /\ version = "2.32"
  /\ goto(t, "sub_ref", "idle")
  /\ release
  /\ blocked' = IF sa_refcntr = 1 THEN [blocked EXCEPT ![t] = omask[t]] ELSE blocked
  /\ UNCHANGED <<saved, user, lock, omask, usermask, unset_disp, unset_mask, child>>

CallStep(t) ==
  /\ UNCHANGED version
  /\ \/ set_int(t) \/ set_quit(t) \/ set_int_fails(t) \/ set_quit_fails(t)
     \/ block_sigchld(t) \/ block_fails(t)
     \/ do_fork(t) \/ posix_spawn(t) \/ spawn_fails(t)
     \/ waitpid(t) \/ cancel_reap(t) \/ cancel_release(t)
     \/ sub_ref_227(t) \/ sub_ref_227_fails(t) \/ sub_ref_232(t)

Next ==
  /\ UNCHANGED version
  /\ \/ \E s \in Signals, d \in Dispositions : program_sigaction(s, d)
     \/ \E t \in Threads :
          \/ \E b \in BOOLEAN : program_sigmask(t, b)
          \/ add_ref(t) \/ CallStep(t) \/ cancelled(t) \/ child_exits(t)

Spec == Init /\ [][Next]_vars

(* The scheduler runs every thread and the kernel finishes a killed process; *)
(* no shell need ever end by itself and nobody need call or cancel.          *)
Fairness ==
  \A t \in Threads : WF_vars(CallStep(t)) /\ WF_vars(child[t].st = "killed" /\ child_exits(t))

FairSpec == Spec /\ Fairness

-----------------------------------------------------------------------------
TypeOK ==
  /\ version \in Versions
  /\ disp \in [Signals -> Dispositions]
  /\ saved \in [Signals -> Dispositions]
  /\ user \in [Signals -> Dispositions]
  /\ sa_refcntr \in Nat
  /\ lock \in Threads \cup {NoThread}
  /\ pc \in [Threads -> Stages]
  /\ blocked \in [Threads -> BOOLEAN]
  /\ omask \in [Threads -> BOOLEAN]
  /\ usermask \in [Threads -> BOOLEAN]
  /\ child \in [Threads -> Children]
  /\ unset_disp \subseteq Signals
  /\ unset_mask \subseteq Threads

(* sa_refcntr counts the calls in progress: nothing that fails, returns or is *)
(* cancelled leaves its reference behind or gives it up twice.                *)
RefCount == sa_refcntr = Cardinality(Holders)

(* While any call runs a shell, the process ignores SIGINT and SIGQUIT, even *)
(* when an overlapping call has just returned.                               *)
IgnoredDuringCall ==
  \A t \in Threads : pc[t] \in Active => \A s \in Signals : disp[s] = "SIG_IGN"

(* With no call in progress the program has the dispositions it had when the *)
(* first of the overlapping calls came, in whatever order they ended, failed *)
(* or were cancelled; only a signal whose disposition a 2.27 call could not  *)
(* set back, and said so by returning -1, is still ignored.                  *)
DispRestored ==
  Holders = {} =>
    \A s \in Signals : disp[s] = IF s \in unset_disp THEN "SIG_IGN" ELSE user[s]

(* A shell starts with the signals the program ignores ignored and the others *)
(* at their default, although it is started while the process ignores both.   *)
ChildSignals ==
  \A t \in Threads : child[t].st = "running" =>
    \A s \in Signals : child[t].disp[s] = exec(user[s])

(* The signal handling of system() taken together. *)
SignalsRight == IgnoredDuringCall /\ DispRestored /\ ChildSignals

(* A call that is over has collected its shell, also when it was cancelled. *)
ChildCollected ==
  \A t \in Threads : pc[t] \in {"idle", "gone"} => child[t] = NoChild

(* A thread is back from system() with the signal mask it called it with,     *)
(* SIGCHLD being still blocked only where the call could not set the mask     *)
(* back, and said so by returning -1; and its shell got that mask.            *)
MaskRestored ==
  \A t \in Threads :
    /\ pc[t] = "idle" => blocked[t] = (t \in unset_mask \/ usermask[t])
    /\ child[t].st = "running" => child[t].blocked = usermask[t]

(* glibc 2.27 keeps that promise, in whatever order overlapping calls end. *)
MaskRestored227 == version = "2.27" => MaskRestored

(* A call whose shell has ended, or that is cancelled, comes to its end. *)
CallEnds ==
  \A t \in Threads :
    (child[t].st = "zombie" \/ pc[t] = "reap") ~> pc[t] \in {"idle", "gone"}

-----------------------------------------------------------------------------
(* The inductive strengthening: who holds the lock, and what the static      *)
(* intr, quit hold at each stage of the call that sets them.                 *)
LockInv ==
  \A t \in Threads :
    pc[t] \in {"set_int", "set_quit"} <=> lock = t

LoneSetter ==
  \A t, u \in Threads : lock = t /\ u \in Holders => u = t

SavedInv ==
  /\ Holders # {} => unset_disp = {}
  /\ (\E t \in Threads : pc[t] \in Active) => saved = user
  /\ \A t \in Threads :
       /\ pc[t] = "set_int" => disp = user
       /\ pc[t] = "set_quit" =>
            /\ disp["SIGINT"] = "SIG_IGN"
            /\ saved["SIGINT"] = user["SIGINT"]
            /\ disp["SIGQUIT"] = user["SIGQUIT"]

ChildInv ==
  \A t \in Threads : child[t] # NoChild => pc[t] \in {"wait", "reap"}

(* Where the mask the program wants is kept at each stage of a 2.27 call,     *)
(* which no cancellation cuts short.                                         *)
MaskInv227 ==
  version = "2.27" =>
    \A t \in Threads :
      /\ pc[t] \in {"idle", "set_int", "set_quit", "block", "spawn", "wait", "sub_ref"}
      /\ pc[t] = "idle" => blocked[t] = (t \in unset_mask \/ usermask[t])
      /\ pc[t] \in {"set_int", "set_quit", "block"} => blocked[t] = usermask[t]
      /\ pc[t] \in {"spawn", "wait", "sub_ref"} => omask[t] = usermask[t] /\ blocked[t]
      /\ pc[t] # "idle" => t \notin unset_mask
      /\ child[t].st = "running" => child[t].blocked = usermask[t]

IInv ==
  /\ TypeOK /\ RefCount /\ IgnoredDuringCall /\ DispRestored /\ ChildSignals
  /\ LockInv /\ LoneSetter /\ SavedInv /\ ChildInv
=============================================================================
