------------------------------- MODULE Popen -------------------------------
(* popen(3) and pclose(3), each stream opened and closed by a thread of its  *)
(* own: iopopen.c of glibc 2.27 (fork, the chain walked in the child without *)
(* the lock) and of 2.32 (posix_spawn with proc_file_chain_lock held).       *)
(*                                                                           *)
(* The state that matters is the process's descriptor table: which pipe ends *)
(* are in it, whether they are close-on-exec, and what each shell inherits.  *)
(* proc_file_chain is only walked from end to end, so it is a set.           *)
EXTENDS Integers, FiniteSets

CONSTANTS File,      \* the streams
          Fd,        \* bound: the descriptor numbers 0 .. n
          None,      \* an unused descriptor
          Std,       \* a standard descriptor the program was started with
          Versions   \* the sources the process may be linked with

PipeEnd == [file : File, end : {"parent", "child"}, cloexec : BOOLEAN]

ASSUME PopenAssumption ==
  /\ {0, 1} \subseteq Fd /\ Fd \subseteq Nat
  /\ None # Std /\ None \notin PipeEnd /\ Std \notin PipeEnd
  /\ Versions \subseteq {"2.27", "2.32"}

VARIABLES fds,     \* descriptor -> None, Std, or the pipe end it refers to
          chain,   \* proc_file_chain
          stage,   \* stream -> how far its popen or pclose is
          mode,    \* stream -> do_read ("r") or do_write ("w")
          e,       \* stream -> do_cloexec
          pfd,     \* stream -> pipe_fds[parent_end]
          cfd,     \* stream -> pipe_fds[child_end]
          child,   \* stream -> its shell
          version  \* the source in use; it never changes

vars == <<fds, chain, stage, mode, e, pfd, cfd, child, version>>
stream == <<mode, e, pfd, cfd, version>>

End(f, x, c) == [file |-> f, end |-> x, cloexec |-> c]
Is(entry, f, x) == entry \in {End(f, x, b) : b \in BOOLEAN}

Stages == {"closed", "piped", "moved", "forked", "unsealed", "open", "unlinked", "waiting",
           "lost"}

NoShell == [st |-> "none"]
Zombie == [st |-> "zombie"]

Init ==
  /\ fds \in [Fd -> {None, Std}] /\ \A n \in Fd \ {0, 1} : fds[n] = None
  /\ chain = {}
  /\ stage = [f \in File |-> "closed"]
  /\ mode = [f \in File |-> "r"]
  /\ e = [f \in File |-> FALSE]
  /\ pfd = [f \in File |-> 0]
  /\ cfd = [f \in File |-> 0]
  /\ child = [f \in File |-> NoShell]
  /\ version \in Versions

\* The call's variables and the FILE are gone.
free(f) ==
  /\ mode' = [mode EXCEPT ![f] = "r"]
  /\ e' = [e EXCEPT ![f] = FALSE]
  /\ pfd' = [pfd EXCEPT ![f] = 0]
  /\ cfd' = [cfd EXCEPT ![f] = 0]
  /\ UNCHANGED version

goto(f, from, to) == stage[f] = from /\ stage' = [stage EXCEPT ![f] = to]

\* The kernel hands out the lowest unused descriptor.
Unused == {n \in Fd : fds[n] = None}
Lowest(S) == CHOOSE n \in S : \A k \in S : n <= k

\* What the shell uses: its standard output for "r", its standard input for "w".
child_pipe_fd(f) == IF mode[f] = "r" THEN 1 ELSE 0

-----------------------------------------------------------------------------
\* The shells, once f is given a new pipe: an end of its previous pipe that one
\* of them still has says nothing about the new one.
forget(f) ==
  [g \in File |-> IF child[g].st # "running" THEN child[g]
                  ELSE [child[g] EXCEPT !.holds = @ \ {f}]]

make_pipe(f, m, cloexec, sealed) ==
  /\ goto(f, "closed", "piped")
  /\ Cardinality(Unused) >= 2
  /\ LET fd0 == Lowest(Unused)
         fd1 == Lowest(Unused \ {fd0})
         parent == IF m = "r" THEN fd0 ELSE fd1
         chld == IF m = "r" THEN fd1 ELSE fd0
     IN  /\ pfd' = [pfd EXCEPT ![f] = parent]
         /\ cfd' = [cfd EXCEPT ![f] = chld]
         /\ fds' = [fds EXCEPT ![parent] = End(f, "parent", sealed),
                               ![chld] = End(f, "child", sealed)]
  /\ mode' = [mode EXCEPT ![f] = m]
  /\ e' = [e EXCEPT ![f] = cloexec]
  /\ child' = forget(f)
  /\ UNCHANGED <<chain, version>>

\* Fault: pipe instead of pipe2 (pipe_fds, O_CLOEXEC).
popen_unsealed(f, m, cloexec) == make_pipe(f, m, cloexec, FALSE)

(* _IO_new_proc_open up to pipe2 (pipe_fds, O_CLOEXEC). *)
popen(f, m, cloexec) == make_pipe(f, m, cloexec, TRUE)

\* Fault: the child end stays where it is, close-on-exec as it was made.
move_child_end_not(f) ==
  /\ version = "2.32"
  /\ goto(f, "piped", "moved")
  /\ UNCHANGED <<fds, cfd, chain, mode, e, pfd, child, version>>

\* 2.32: a child end that is already the descriptor the shell will use is
\* moved to another one.
move_child_end(f) ==
  /\ version = "2.32"
  /\ goto(f, "piped", "moved")
  /\ IF cfd[f] = child_pipe_fd(f)
     THEN LET tmp == Lowest(Unused)
          IN  /\ Unused # {}
              /\ fds' = [fds EXCEPT ![tmp] = End(f, "child", TRUE), ![cfd[f]] = None]
              /\ cfd' = [cfd EXCEPT ![f] = tmp]
     ELSE UNCHANGED <<fds, cfd>>
  /\ UNCHANGED <<chain, mode, e, pfd, child, version>>

\* A descriptor that dup2, or fcntl (fd, F_SETFD, 0), leaves open over an exec.
kept(entry) == IF entry \in PipeEnd THEN [entry EXCEPT !.cloexec = FALSE] ELSE entry

(* The table of the shell after exec.  The child end is put in its place;    *)
(* where it is there already, 2.27 takes its close-on-exec mark away, and    *)
(* the file action of 2.32 (external) is a plain dup2, which does nothing:   *)
(* the code moves the end so as not to need more of it.  The streams of the  *)
(* chain are closed, except where the new standard descriptor has taken      *)
(* their place, and close-on-exec descriptors go.                            *)
inherits(f) ==
  LET std == child_pipe_fd(f)
      own == IF cfd[f] = std /\ version = "2.32" THEN fds[std] ELSE kept(fds[cfd[f]])
      table == [fds EXCEPT ![std] = own]
      closed == {pfd[p] : p \in chain} \ {std}
  IN  [n \in Fd |->
        IF n \in closed \/ (table[n] \in PipeEnd /\ table[n].cloexec) THEN None ELSE table[n]]

shell(f) ==
  [st |-> "running",
   std |-> inherits(f)[child_pipe_fd(f)],
   holds |-> {g \in File : \E n \in Fd : Is(inherits(f)[n], g, "parent")},
   leaving |-> {g \in File : stage[g] \in {"unlinked", "waiting"}}]

\* Fault: the stream is opened to later shells before it is linked.
spawn_process_unlinked(f) ==
  /\ version = "2.32"
  /\ goto(f, "moved", "unsealed")
  /\ child' = [child EXCEPT ![f] = shell(f)]
  /\ fds' = [fds EXCEPT ![cfd[f]] = None, ![pfd[f]] = End(f, "parent", e[f])]
  /\ cfd' = [cfd EXCEPT ![f] = 0]
  /\ UNCHANGED <<chain, mode, e, pfd, version>>

(* spawn_process, with the lock held: the shell starts, the child end is     *)
(* closed, without "e" the parent end stays over an exec, and the stream is  *)
(* linked.                                                                   *)
spawn_process(f) ==
  /\ version = "2.32"
  /\ goto(f, "moved", "open")
  /\ child' = [child EXCEPT ![f] = shell(f)]
  /\ fds' = [fds EXCEPT ![cfd[f]] = None, ![pfd[f]] = End(f, "parent", e[f])]
  /\ cfd' = [cfd EXCEPT ![f] = 0]
  /\ chain' = chain \cup {f}
  /\ UNCHANGED <<mode, e, pfd, version>>

\* Fault: the parent end is not closed.
spawn_failure_half(f) ==
  /\ stage[f] \in (IF version = "2.32" THEN {"piped", "moved"} ELSE {"piped"})
  /\ stage' = [stage EXCEPT ![f] = "closed"]
  /\ fds' = [fds EXCEPT ![cfd[f]] = None]
  /\ free(f)
  /\ UNCHANGED <<chain, child>>

\* spawn_failure, and the failed fork of 2.27: both ends are closed.
spawn_failure(f) ==
  /\ stage[f] \in (IF version = "2.32" THEN {"piped", "moved"} ELSE {"piped"})
  /\ stage' = [stage EXCEPT ![f] = "closed"]
  /\ fds' = [fds EXCEPT ![cfd[f]] = None, ![pfd[f]] = None]
  /\ free(f)
  /\ UNCHANGED <<chain, child>>

(* 2.27: fork, then the parent's side, and the lock only around the link. *)
fork_child(f) ==
  /\ version = "2.27"
  /\ goto(f, "piped", "forked")
  /\ child' = [child EXCEPT ![f] = shell(f)]
  /\ UNCHANGED <<fds, chain, stream>>

unseal(f) ==
  /\ goto(f, "forked", "unsealed")
  /\ fds' = [fds EXCEPT ![cfd[f]] = None, ![pfd[f]] = End(f, "parent", e[f])]
  /\ cfd' = [cfd EXCEPT ![f] = 0]
  /\ UNCHANGED <<chain, mode, e, pfd, child, version>>

link(f) ==
  /\ goto(f, "unsealed", "open")
  /\ chain' = chain \cup {f}
  /\ UNCHANGED <<fds, child, stream>>

-----------------------------------------------------------------------------
(* _IO_new_proc_close: unlink with the lock held, close, wait for the shell. *)
pclose(f) ==
  /\ goto(f, "open", "unlinked")
  /\ chain' = chain \ {f}
  /\ UNCHANGED <<fds, child, stream>>

close_fd(f) ==
  /\ goto(f, "unlinked", "waiting")
  /\ fds' = [fds EXCEPT ![pfd[f]] = None]
  /\ UNCHANGED <<chain, child, stream>>

\* A close that fails has closed the descriptor all the same, and pclose returns
\* without waiting.
close_fd_fails(f) ==
  /\ goto(f, "unlinked", "lost")
  /\ fds' = [fds EXCEPT ![pfd[f]] = None]
  /\ UNCHANGED <<chain, child, stream>>

child_exits(f) ==
  /\ child[f].st = "running"
  /\ child' = [child EXCEPT ![f] = Zombie]
  /\ UNCHANGED <<fds, chain, stage, stream>>

waitpid(f) ==
  /\ goto(f, "waiting", "closed")
  /\ child[f].st = "zombie"
  /\ child' = [child EXCEPT ![f] = NoShell]
  /\ free(f)
  /\ UNCHANGED <<fds, chain>>

\* The zombie that a failed pclose leaves is not followed any further.
abandoned(f) ==
  /\ goto(f, "lost", "closed")
  /\ child[f].st = "zombie"
  /\ child' = [child EXCEPT ![f] = NoShell]
  /\ free(f)
  /\ UNCHANGED <<fds, chain>>

Next ==
  \E f \in File :
    \/ \E m \in {"r", "w"}, cloexec \in BOOLEAN : popen(f, m, cloexec)
    \/ move_child_end(f) \/ spawn_process(f) \/ spawn_failure(f)
    \/ fork_child(f) \/ unseal(f) \/ link(f)
    \/ pclose(f) \/ close_fd(f) \/ close_fd_fails(f)
    \/ child_exits(f) \/ waitpid(f) \/ abandoned(f)

Spec == Init /\ [][Next]_vars

(* A shell that writes ends by itself; one that reads ends when no process   *)
(* has the other end of its pipe any more. (It may end earlier too.)         *)
at_eof(f) ==
  mode[f] = "w" => /\ \A n \in Fd : ~Is(fds[n], f, "parent")
                   /\ \A g \in File : child[g].st = "running" => f \notin child[g].holds

(* Every call goes on, the program closes every stream it has opened, and    *)
(* shells end as above.                                                      *)
FairSpec ==
  /\ Spec
  /\ \A f \in File :
       /\ WF_vars(move_child_end(f) \/ spawn_process(f) \/ spawn_failure(f)
                  \/ fork_child(f) \/ unseal(f) \/ link(f)
                  \/ pclose(f) \/ close_fd(f) \/ close_fd_fails(f) \/ waitpid(f))
       /\ WF_vars(at_eof(f) /\ child_exits(f))

-----------------------------------------------------------------------------
Shell ==
  [st : {"running"}, std : {None, Std} \cup PipeEnd, holds : SUBSET File, leaving : SUBSET File]

TypeOK ==
  /\ fds \in [Fd -> {None, Std} \cup PipeEnd]
  /\ chain \subseteq File
  /\ stage \in [File -> Stages]
  /\ mode \in [File -> {"r", "w"}]
  /\ e \in [File -> BOOLEAN]
  /\ pfd \in [File -> Fd]
  /\ cfd \in [File -> Fd]
  /\ version \in Versions
  /\ child \in [File -> {NoShell, Zombie} \cup Shell]

(* A shell's standard descriptor is its own end of its own pipe, also when   *)
(* the program had closed its standard descriptors and an earlier stream or  *)
(* the new pipe itself sits on 0 or 1, and the shell has not the other end,  *)
(* which would keep it from ever seeing the end of its input.                *)
OwnPipe ==
  \A f \in File : child[f].st = "running" =>
    Is(child[f].std, f, "child") /\ f \notin child[f].holds

(* Every descriptor in the table belongs to a call that will close it or to  *)
(* an open stream, and every shell to a stream or a call that will wait for  *)
(* it, or to one whose close failed: no other error path and no close leaves *)
(* one behind.  And no call closes, or overwrites, the descriptor of         *)
(* another: the numbers a call keeps refer to its own pipe for as long as it *)
(* uses them.                                                                *)
TableClean ==
  /\ \A n \in Fd : fds[n] \in PipeEnd =>
       LET f == fds[n].file
       IN  IF fds[n].end = "child"
           THEN stage[f] \in {"piped", "moved", "forked"} /\ cfd[f] = n
           ELSE stage[f] \notin {"closed", "waiting", "lost"} /\ pfd[f] = n
  /\ \A f \in File :
       /\ stage[f] \in {"closed", "piped", "moved"} => child[f] = NoShell
       /\ stage[f] \in {"piped", "moved", "forked"} => Is(fds[cfd[f]], f, "child")
       /\ stage[f] \notin {"closed", "waiting", "lost"} => Is(fds[pfd[f]], f, "parent")

(* With 2.32 a shell never holds the parent end of another stream, except of *)
(* one whose pclose was already under way when the shell started.            *)
SealedWhenOpen ==
  version = "2.32" =>
    \A f \in File : child[f].st = "running" => child[f].holds \subseteq child[f].leaving

(* The inductive strengthening: the ends of a pipe are close-on-exec until   *)
(* the parent has closed the child's, the open streams are the linked ones,  *)
(* and with 2.32 none is open to others unlinked, nor is a child end that    *)
(* was moved where the shell will use it.                                    *)
SealInv ==
  /\ \A n \in Fd : fds[n] \in PipeEnd /\ stage[fds[n].file] \in {"piped", "moved", "forked"} =>
       fds[n].cloexec
  /\ \A f \in File : stage[f] = "open" => f \in chain
  /\ version = "2.32" => \A f \in File : stage[f] \notin {"forked", "unsealed"}
  /\ \A f \in File : stage[f] = "moved" => cfd[f] # child_pipe_fd(f)

IInv == TypeOK /\ OwnPipe /\ TableClean /\ SealInv /\ SealedWhenOpen

(* pclose returns, with its shell reaped unless the close fails: a stream    *)
(* that another shell has inherited delays the end of its own shell, but two *)
(* shells never wait for each other's streams, and none for its own.         *)
PcloseReturns == \A f \in File : stage[f] = "unlinked" ~> stage[f] \in {"closed", "lost"}
=============================================================================
