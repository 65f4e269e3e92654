------------------------------- MODULE GSpawn -------------------------------
(* gspawn.c of GLib 2.60.7: one call of g_spawn_async_with_pipes or          *)
(* g_spawn_sync, from its pipes to its return.  The caller, the intermediate *)
(* child and the child that becomes the program run concurrently and talk    *)
(* through pipes; each has its own copy of the descriptor table, and a pipe  *)
(* is at its end only when nobody has its write end.  Another thread of the  *)
(* caller may start a program at any moment.                                 *)
(*                                                                           *)
(* Descriptors have no numbers here.  The caller has 0, 1 and 2 open, so the *)
(* ends of its pipes are elsewhere and a dup2 to one of the three never      *)
(* finds its source there already.                                           *)
EXTENDS Naturals, Sequences, FiniteSets

CONSTANTS Streams,   \* the standard streams a caller may ask pipes for
          PipeSize,  \* how much a pipe holds
          MaxOut     \* bound: how much the program writes to each stream

ASSUME SpawnAssumption ==
  /\ Streams \subseteq {"stdin", "stdout", "stderr"}
  /\ PipeSize \in Nat \ {0}
  /\ MaxOut \in Nat

VARIABLES opt,       \* the arguments of the call
          pc,        \* what the caller does next
          fd,        \* process -> the pipe ends in its table, [pipe, 0 (read) or 1 (write)]
          mid,       \* the intermediate child
          exe,       \* the child that becomes the program
          err,       \* what is in child_err_report_pipe: up to two ints
          pids,      \* what is in child_pid_report_pipe
          pid,       \* the caller's variable pid
          result,    \* what the call returns
          ran,       \* the program was started
          killed,    \* a child was killed from outside
          held,      \* stream -> how much its pipe holds
          written,   \* stream -> how much the program wrote
          got        \* stream -> how much g_spawn_sync collected

vars == <<opt, pc, fd, mid, exe, err, pids, pid, result, ran, killed, held, written, got>>
streams == <<held, written, got>>
reports == <<err, pids>>

Process == {"self", "mid", "exe", "other"}
Ends == (Streams \cup {"err", "pid"}) \X {0, 1}

\* The child uses the read end of stdin and the write end of the others.
child_end(s) == <<s, IF s = "stdin" THEN 0 ELSE 1>>
parent_end(s) == <<s, IF s = "stdin" THEN 1 ELSE 0>>
child_ends == {child_end(s) : s \in opt.wanted}
parent_ends == {parent_end(s) : s \in opt.wanted}

\* g_unix_open_pipe gets FD_CLOEXEC for stderr, for the others on request.
cloexec(end) == opt.cloexec \/ end[1] = "stderr"

\* A pipe is at its end.
eof(p) == \A q \in Process : <<p, 1>> \notin fd[q]

Options ==
  {o \in [sync : BOOLEAN, intermediate_child : BOOLEAN, plain : BOOLEAN,
          close_descriptors : BOOLEAN, cloexec : BOOLEAN, wanted : SUBSET Streams] :
     o.sync => ~ o.intermediate_child /\ "stdin" \notin o.wanted}

Init ==
  /\ opt \in Options
  /\ pc = "pipes"
  /\ fd = [p \in Process |-> {}]
  /\ mid = "none" /\ exe = "none"
  /\ err = <<>> /\ pids = <<>>
  /\ pid = "none"
  /\ result = "none"
  /\ ran = FALSE /\ killed = FALSE
  /\ held = [s \in Streams |-> 0]
  /\ written = [s \in Streams |-> 0]
  /\ got = [s \in Streams |-> 0]

goto(from, to) == pc = from /\ pc' = to
opens(p) == fd' = [fd EXCEPT !["self"] = @ \cup {<<p, 0>>, <<p, 1>>}]
closes(p, S) == fd' = [fd EXCEPT ![p] = @ \ S]

-----------------------------------------------------------------------------
(* fork_exec_with_pipes: the pipes, one after the other. *)
unopened == {s \in opt.wanted : parent_end(s) \notin fd["self"]}
first(S) == IF "stdin" \in S THEN "stdin" ELSE IF "stdout" \in S THEN "stdout" ELSE "stderr"

open_pipe ==
  /\ pc = "pipes" /\ unopened # {}
  /\ opens(first(unopened))
  /\ UNCHANGED <<opt, pc, mid, exe, reports, pid, result, ran, killed, streams>>

open_pipe_fails ==
  /\ unopened # {}
  /\ goto("pipes", "fail_pipes")
  /\ UNCHANGED <<opt, fd, mid, exe, reports, pid, result, ran, killed, streams>>

\* posix_spawn is used where nothing has to be done that it cannot do.
posix_spawn_usable ==
  ~ opt.intermediate_child /\ opt.plain /\ ~ opt.close_descriptors

pipes_open ==
  /\ unopened = {}
  /\ goto("pipes", IF posix_spawn_usable THEN "posix_spawn" ELSE "err_pipe")
  /\ UNCHANGED <<opt, fd, mid, exe, reports, pid, result, ran, killed, streams>>

(* child_close_fds: the parent's ends up to the first stream without a pipe. *)
child_close_fds ==
  {parent_end(s) : s \in {t \in opt.wanted :
     /\ t = "stdout" => "stdin" \in opt.wanted
     /\ t = "stderr" => {"stdin", "stdout"} \subseteq opt.wanted}}

\* What is left of table T over an exec when the ends in marked were closed or
\* marked close-on-exec: the streams put on 0, 1 and 2, and what nobody marked.
over_exec(T, marked) ==
  (child_ends \cap T) \cup {x \in T \ marked : ~ cloexec(x)}

(* do_posix_spawn: the dups, then the closes, then the program; ENOEXEC      *)
(* sends the call to the other path, any other error ends it.                *)
do_posix_spawn ==
  /\ goto("posix_spawn", "close_ends")
  /\ exe' = "running" /\ ran' = TRUE /\ pid' = "exe"
  /\ fd' = [fd EXCEPT !["exe"] = over_exec(fd["self"] \ child_close_fds, child_ends)]
  /\ UNCHANGED <<opt, mid, reports, result, killed, streams>>

posix_spawn_fails(enoexec) ==
  /\ goto("posix_spawn", IF enoexec THEN "err_pipe" ELSE "fail_pipes")
  /\ UNCHANGED <<opt, fd, mid, exe, reports, pid, result, ran, killed, streams>>

(* fork_exec_with_fds: the report pipes, the fork. *)
open_err_pipe ==
  /\ goto("err_pipe", IF opt.intermediate_child THEN "pid_pipe" ELSE "fork")
  /\ opens("err")
  /\ UNCHANGED <<opt, mid, exe, reports, pid, result, ran, killed, streams>>

open_pid_pipe ==
  /\ goto("pid_pipe", "fork")
  /\ opens("pid")
  /\ UNCHANGED <<opt, mid, exe, reports, pid, result, ran, killed, streams>>

open_report_pipe_fails ==
  /\ \/ goto("err_pipe", "fail_pipes")
     \/ goto("pid_pipe", "reap_failed")
  /\ UNCHANGED <<opt, fd, mid, exe, reports, pid, result, ran, killed, streams>>

fork ==
  /\ goto("fork", "parent")
  /\ IF opt.intermediate_child
     THEN mid' = "forked" /\ pid' = "mid" /\ fd' = [fd EXCEPT !["mid"] = fd["self"]] /\ UNCHANGED exe
     ELSE exe' = "forked" /\ pid' = "exe" /\ fd' = [fd EXCEPT !["exe"] = fd["self"]] /\ UNCHANGED mid
  /\ UNCHANGED <<opt, reports, result, ran, killed, streams>>

fork_fails ==
  /\ goto("fork", "reap_failed")
  /\ UNCHANGED <<opt, fd, mid, exe, reports, pid, result, ran, killed, streams>>

-----------------------------------------------------------------------------
(* The intermediate child: it starts the other child, reports its pid and    *)
(* exits.                                                                    *)
mid_closes ==
  /\ mid = "forked"
  /\ mid' = "fork"
  /\ closes("mid", {<<"err", 0>>, <<"pid", 0>>} \cup child_close_fds)
  /\ UNCHANGED <<opt, pc, exe, reports, pid, result, ran, killed, streams>>

mid_forks ==
  /\ mid = "fork"
  /\ mid' = "report"
  /\ exe' = "forked"
  /\ fd' = [fd EXCEPT !["exe"] = fd["mid"]]
  /\ UNCHANGED <<opt, pc, reports, pid, result, ran, killed, streams>>

mid_fork_fails ==
  /\ mid = "fork"
  /\ mid' = "error"
  /\ pids' = Append(pids, "-1")
  /\ UNCHANGED <<opt, pc, fd, exe, err, pid, result, ran, killed, streams>>

\* An exit closes every descriptor.
mid_exits ==
  /\ \/ mid = "report" /\ pids' = Append(pids, "exe") /\ UNCHANGED err
     \/ mid = "error" /\ Len(err) = 2 /\ UNCHANGED reports
  /\ mid' = "zombie"
  /\ closes("mid", Ends)
  /\ UNCHANGED <<opt, pc, exe, pid, result, ran, killed, streams>>

(* write_err_and_exit: the message and errno, in two writes. *)
write_err ==
  /\ mid = "error" \/ exe = "error"
  /\ Len(err) < 2
  /\ err' = Append(err, IF err = <<>> THEN "msg" ELSE "errno")
  /\ UNCHANGED <<opt, pc, fd, mid, exe, pids, pid, result, ran, killed, streams>>

-----------------------------------------------------------------------------
(* The child that execs.  As an immediate child it first closes what the     *)
(* caller keeps, as a grandchild the pid pipe.                               *)
exe_closes ==
  /\ exe = "forked"
  /\ exe' = "exec"
  /\ closes("exe", IF opt.intermediate_child THEN {<<"pid", 1>>}
                   ELSE {<<"err", 0>>} \cup child_close_fds)
  /\ UNCHANGED <<opt, pc, mid, reports, pid, result, ran, killed, streams>>

\* Fault: the report pipe is not marked close-on-exec in the child.
do_exec_unmarked ==
  /\ exe = "exec"
  /\ exe' = "running" /\ ran' = TRUE
  /\ fd' = [fd EXCEPT !["exe"] = over_exec(@, IF opt.close_descriptors THEN Ends ELSE child_ends)]
  /\ UNCHANGED <<opt, pc, mid, reports, pid, result, killed, streams>>

(* do_exec: every descriptor, or else err_report, is marked close-on-exec,   *)
(* the streams are put in place, their first descriptors marked too, and the *)
(* program starts.                                                           *)
do_exec ==
  /\ exe = "exec"
  /\ exe' = "running" /\ ran' = TRUE
  /\ fd' = [fd EXCEPT !["exe"] = over_exec(@, IF opt.close_descriptors THEN Ends
                                              ELSE child_ends \cup {<<"err", 1>>})]
  /\ UNCHANGED <<opt, pc, mid, reports, pid, result, killed, streams>>

\* chdir, dup2 or g_execute fails.
do_exec_fails ==
  /\ exe = "exec"
  /\ exe' = "error"
  /\ UNCHANGED <<opt, pc, fd, mid, reports, pid, result, ran, killed, streams>>

program_writes(s) ==
  /\ exe = "running" /\ s \in opt.wanted \ {"stdin"}
  /\ held[s] < PipeSize /\ written[s] < MaxOut
  /\ held' = [held EXCEPT ![s] = @ + 1]
  /\ written' = [written EXCEPT ![s] = @ + 1]
  /\ UNCHANGED <<opt, pc, fd, mid, exe, reports, pid, result, ran, killed, got>>

\* The program ends once it has written all it has to write.
exe_exits ==
  /\ \/ exe = "running" /\ \A s \in opt.wanted \ {"stdin"} : written[s] = MaxOut
     \/ exe = "error" /\ Len(err) = 2
  /\ exe' = "zombie"
  /\ closes("exe", Ends)
  /\ UNCHANGED <<opt, pc, mid, reports, pid, result, ran, killed, streams>>

alive(c) == c \notin {"none", "zombie", "gone"}

kill(p) ==
  /\ killed' = TRUE
  /\ closes(p, Ends)
  /\ \/ p = "mid" /\ alive(mid) /\ mid' = "zombie" /\ UNCHANGED exe
     \/ p = "exe" /\ alive(exe) /\ exe' = "zombie" /\ UNCHANGED mid
  /\ UNCHANGED <<opt, pc, reports, pid, result, ran, streams>>

\* Another thread of the caller starts a program.
other_starts ==
  /\ fd["other"] = {}
  /\ pc # "done"
  /\ fd' = [fd EXCEPT !["other"] = {x \in fd["self"] : ~ cloexec(x)}]
  /\ UNCHANGED <<opt, pc, mid, exe, reports, pid, result, ran, killed, streams>>

other_exits ==
  /\ fd["other"] # {}
  /\ closes("other", Ends)
  /\ UNCHANGED <<opt, pc, mid, exe, reports, pid, result, ran, killed, streams>>

-----------------------------------------------------------------------------
(* The caller after the fork. *)
parent_closes ==
  /\ goto("parent", IF opt.intermediate_child THEN "reap_mid" ELSE "read_err")
  /\ closes("self", {<<"err", 1>>, <<"pid", 1>>})
  /\ UNCHANGED <<opt, mid, exe, reports, pid, result, ran, killed, streams>>

reap_mid ==
  /\ mid = "zombie"
  /\ goto("reap_mid", "read_err")
  /\ mid' = "gone"
  /\ UNCHANGED <<opt, fd, exe, reports, pid, result, ran, killed, streams>>

\* Fault: what is in the pipe is not waited for.
read_err_early ==
  /\ goto("read_err", IF Len(err) = 2 THEN "reap_failed"
                      ELSE IF opt.intermediate_child THEN "read_pid" ELSE "success")
  /\ UNCHANGED <<opt, fd, mid, exe, reports, pid, result, ran, killed, streams>>

(* read_ints until two ints or the end: two ints are an error. *)
read_err ==
  /\ Len(err) = 2 \/ eof("err")
  /\ goto("read_err", IF Len(err) = 2 THEN "reap_failed"
                      ELSE IF opt.intermediate_child THEN "read_pid" ELSE "success")
  /\ UNCHANGED <<opt, fd, mid, exe, reports, pid, result, ran, killed, streams>>

read_pid ==
  /\ Len(pids) = 1 \/ eof("pid")
  /\ goto("read_pid", IF pids = <<>> THEN "reap_failed" ELSE "success")
  /\ pid' = IF pids = <<>> THEN pid ELSE pids[1]
  /\ UNCHANGED <<opt, fd, mid, exe, reports, result, ran, killed, streams>>

success ==
  /\ goto("success", "close_ends")
  /\ closes("self", {<<"err", 0>>, <<"pid", 0>>})
  /\ UNCHANGED <<opt, mid, exe, reports, pid, result, ran, killed, streams>>

\* waitpid finds a child that has ended, or, for one that was reaped, ECHILD.
\* A grandchild is reaped by init.
waited(p) ==
  \/ p = "mid" /\ mid = "zombie" /\ mid' = "gone" /\ UNCHANGED exe
  \/ p = "exe" /\ exe = "zombie" /\ exe' = "gone" /\ UNCHANGED mid
  \/ p = "mid" /\ mid = "gone" /\ UNCHANGED <<mid, exe>>

(* cleanup_and_fail: the child is reaped, the report pipes are closed, and   *)
(* then fork_exec_with_pipes closes its own.                                 *)
reap_failed ==
  /\ goto("reap_failed", "fail_pipes")
  /\ IF pid = "none" THEN UNCHANGED <<mid, exe>> ELSE waited(pid)
  /\ closes("self", {"err", "pid"} \X {0, 1})
  /\ UNCHANGED <<opt, reports, pid, result, ran, killed, streams>>

\* Fault: the caller's ends are forgotten.
fail_pipes_half ==
  /\ goto("fail_pipes", "done")
  /\ result' = "FALSE"
  /\ closes("self", child_ends)
  /\ UNCHANGED <<opt, mid, exe, reports, pid, ran, killed, streams>>

fail_pipes ==
  /\ goto("fail_pipes", "done")
  /\ result' = "FALSE"
  /\ closes("self", child_ends \cup parent_ends)
  /\ UNCHANGED <<opt, mid, exe, reports, pid, ran, killed, streams>>

\* The uncared-about ends; g_spawn_async_with_pipes returns, g_spawn_sync reads on.
close_ends ==
  /\ goto("close_ends", IF opt.sync THEN "read" ELSE "done")
  /\ result' = IF opt.sync THEN "none" ELSE "TRUE"
  /\ closes("self", child_ends)
  /\ UNCHANGED <<opt, mid, exe, reports, pid, ran, killed, streams>>

-----------------------------------------------------------------------------
(* g_spawn_sync: select over the open pipes; what is ready is read, a pipe   *)
(* at its end is closed; then the child is waited for.                       *)
reading == {s \in opt.wanted : parent_end(s) \in fd["self"]}

\* Fault: stdout is read to its end before stderr is looked at.
read_data_in_order(s) ==
  /\ pc = "read" /\ s = first(reading) /\ held[s] > 0
  /\ got' = [got EXCEPT ![s] = @ + held[s]]
  /\ held' = [held EXCEPT ![s] = 0]
  /\ UNCHANGED <<opt, pc, fd, mid, exe, reports, pid, result, ran, killed, written>>

read_data(s) ==
  /\ pc = "read" /\ s \in reading /\ held[s] > 0
  /\ got' = [got EXCEPT ![s] = @ + held[s]]
  /\ held' = [held EXCEPT ![s] = 0]
  /\ UNCHANGED <<opt, pc, fd, mid, exe, reports, pid, result, ran, killed, written>>

\* Fault: the pipe is closed as soon as it is empty.
read_eof_early(s) ==
  /\ pc = "read" /\ s \in reading /\ held[s] = 0
  /\ closes("self", {parent_end(s)})
  /\ UNCHANGED <<opt, pc, mid, exe, reports, pid, result, ran, killed, streams>>

read_eof(s) ==
  /\ pc = "read" /\ s \in reading /\ held[s] = 0 /\ eof(s)
  /\ closes("self", {parent_end(s)})
  /\ UNCHANGED <<opt, pc, mid, exe, reports, pid, result, ran, killed, streams>>

sync_wait ==
  /\ reading = {}
  /\ goto("read", "done")
  /\ waited(pid)
  /\ result' = "TRUE"
  /\ UNCHANGED <<opt, fd, reports, pid, ran, killed, streams>>

Caller ==
  \/ open_pipe \/ open_pipe_fails \/ pipes_open
  \/ do_posix_spawn \/ (\E enoexec \in BOOLEAN : posix_spawn_fails(enoexec))
  \/ open_err_pipe \/ open_pid_pipe \/ open_report_pipe_fails
  \/ fork \/ fork_fails
  \/ parent_closes \/ reap_mid \/ read_err \/ read_pid \/ success
  \/ reap_failed \/ fail_pipes \/ close_ends
  \/ (\E s \in Streams : read_data(s) \/ read_eof(s))
  \/ sync_wait

Intermediate == mid_closes \/ mid_forks \/ mid_fork_fails \/ mid_exits
Child == exe_closes \/ do_exec \/ do_exec_fails
Program == (\E s \in Streams : program_writes(s)) \/ exe_exits

Next ==
  \/ Caller \/ Intermediate \/ write_err \/ Child \/ Program
  \/ (\E p \in {"mid", "exe"} : kill(p))
  \/ other_starts \/ other_exits

Spec == Init /\ [][Next]_vars

(* The caller and its children run on.  The program that is started has to   *)
(* end only for g_spawn_sync, which waits for it; the program of another     *)
(* thread need not end at all.                                               *)
FairSpec ==
  /\ Spec
  /\ WF_vars(Caller) /\ WF_vars(Intermediate) /\ WF_vars(write_err) /\ WF_vars(Child)
  /\ WF_vars(exe = "error" /\ exe_exits)
  /\ WF_vars(opt.sync /\ Program)

-----------------------------------------------------------------------------
TypeOK ==
  /\ opt \in Options
  /\ pc \in {"pipes", "posix_spawn", "err_pipe", "pid_pipe", "fork", "parent", "reap_mid",
             "read_err", "read_pid", "success", "reap_failed", "fail_pipes", "close_ends",
             "read", "done"}
  /\ fd \in [Process -> SUBSET Ends]
  /\ mid \in {"none", "forked", "fork", "report", "error", "zombie", "gone"}
  /\ exe \in {"none", "forked", "exec", "error", "running", "zombie", "gone"}
  /\ err \in {<<>>, <<"msg">>, <<"msg", "errno">>}
  /\ pids \in {<<>>, <<"exe">>, <<"-1">>}
  /\ pid \in {"none", "mid", "exe", "-1"}
  /\ result \in {"none", "TRUE", "FALSE"}
  /\ ran \in BOOLEAN /\ killed \in BOOLEAN
  /\ held \in [Streams -> 0 .. PipeSize]
  /\ written \in [Streams -> 0 .. MaxOut]
  /\ got \in [Streams -> 0 .. MaxOut]

(* Unless a child is killed, the call succeeds exactly when the program was  *)
(* started, although the three processes learn of it in any order, and it    *)
(* returns the pid of the program.                                           *)
Reported ==
  pc = "done" /\ ~ killed =>
    /\ result = "TRUE" <=> ran
    /\ result = "TRUE" => pid = "exe"

(* Whatever fails, the caller is left with its own ends of the pipes it      *)
(* asked for if the call succeeds, and with no descriptor otherwise; and no  *)
(* child is left to be reaped, except the one whose pid is returned to a     *)
(* caller that asked to reap it.                                             *)
NothingLeftBehind ==
  pc = "done" =>
    /\ fd["self"] = IF result = "TRUE" /\ ~ opt.sync THEN parent_ends ELSE {}
    /\ mid \in {"none", "gone"}
    /\ exe \notin {"none", "gone"} => opt.intermediate_child \/ (result = "TRUE" /\ ~ opt.sync)

(* The program has its ends of the streams and nothing else of the call's    *)
(* pipes: neither a report pipe, which would keep the caller waiting for as  *)
(* long as the program runs, nor the caller's end of a stream.  The one that *)
(* can be left is the caller's end of stdout, where stdin is not a pipe and  *)
(* nothing is closed or marked.                                              *)
OwnEndsOnly ==
  exe = "running" =>
    /\ child_ends \subseteq fd["exe"]
    /\ fd["exe"] \ child_ends \subseteq
         IF opt.close_descriptors \/ opt.cloexec \/ "stdin" \in opt.wanted
         THEN {} ELSE {parent_end("stdout")}

(* g_spawn_sync returns with all the program wrote. *)
OutputComplete ==
  pc = "done" /\ opt.sync /\ result = "TRUE" => got = written

(* The inductive invariant behind the four.  What is in the caller's table   *)
(* at each point of the call: ...                                            *)
all_ends == child_ends \cup parent_ends
report_reads == {<<"err", 0>>} \cup (IF opt.intermediate_child THEN {<<"pid", 0>>} ELSE {})
report_writes == {<<"err", 1>>} \cup (IF opt.intermediate_child THEN {<<"pid", 1>>} ELSE {})
SelfInv ==
  /\ pc = "pipes" => /\ fd["self"] \subseteq all_ends
                     /\ \A s \in opt.wanted : child_end(s) \in fd["self"] <=> parent_end(s) \in fd["self"]
  /\ pc \in {"posix_spawn", "err_pipe", "close_ends"} => fd["self"] = all_ends
  /\ pc = "pid_pipe" => fd["self"] = all_ends \cup {<<"err", 0>>, <<"err", 1>>}
  /\ pc \in {"fork", "parent"} => fd["self"] = all_ends \cup report_reads \cup report_writes
  /\ pc \in {"reap_mid", "read_err", "read_pid", "success"} => fd["self"] = all_ends \cup report_reads
  /\ pc = "reap_failed" => fd["self"] \subseteq all_ends \cup ({"err", "pid"} \X {0, 1})
  /\ pc = "fail_pipes" => fd["self"] \subseteq all_ends
  /\ pc = "read" => fd["self"] \subseteq parent_ends
  /\ pc = "done" => fd["self"] = IF result = "TRUE" /\ ~ opt.sync THEN parent_ends ELSE {}

(* ... which children there are then, and which of them the pid names; ...   *)
Before == {"pipes", "posix_spawn", "err_pipe", "pid_pipe", "fork"}
StageInv ==
  /\ pc \in {"posix_spawn", "pid_pipe", "reap_mid", "read_pid"} =>
       opt.intermediate_child = (pc # "posix_spawn")
  /\ pc = "posix_spawn" => ~ opt.close_descriptors
  /\ pc = "read" => opt.sync
  /\ pc \in Before => mid = "none" /\ exe = "none" /\ pid = "none" /\ result = "none"
  /\ pc = "done" <=> result # "none"
  /\ ~ opt.intermediate_child =>
       /\ mid = "none"
       /\ pc \in {"parent", "read_err", "success", "close_ends", "read"} \/ result = "TRUE" =>
            pid = "exe" /\ exe # "none"
       /\ pc \in {"parent", "read_err", "success", "close_ends", "read"} => exe # "gone"
       /\ pc = "reap_failed" => pid = "exe" \/ (pid = "none" /\ exe = "none")
       /\ pc = "fail_pipes" \/ result = "FALSE" \/ (result = "TRUE" /\ opt.sync) => exe \in {"none", "gone"}
       /\ pc \in {"success", "close_ends", "read"} \/ result = "TRUE" => exe \notin {"forked", "exec", "error"}
  /\ opt.intermediate_child =>
       /\ pc \in {"parent", "reap_mid"} => mid \notin {"none", "gone"} /\ pid = "mid"
       /\ pc \in {"read_err", "read_pid"} => mid = "gone" /\ pid = "mid"
       /\ pc \in {"success", "close_ends"} \/ result = "TRUE" => mid = "gone"
       /\ pc = "reap_failed" => (mid = "gone" /\ pid = "mid") \/ (mid = "none" /\ pid = "none")
       /\ pc = "fail_pipes" \/ result = "FALSE" => mid \in {"none", "gone"}
       /\ exe # "none" => mid \in {"report", "zombie", "gone"}

(* ... a child that has not started the program keeps the report pipe open,  *)
(* has its ends of the streams, and of the rest what it has not closed; ...  *)
HoldInv ==
  /\ mid \in {"forked", "fork", "report", "error"} => <<"err", 1>> \in fd["mid"]
  /\ exe \in {"forked", "exec", "error"} => <<"err", 1>> \in fd["exe"]
  /\ mid \in {"forked", "fork"} => child_ends \subseteq fd["mid"]
  /\ exe \in {"forked", "exec"} => child_ends \subseteq fd["exe"]
  /\ mid = "forked" => fd["mid"] \subseteq all_ends \cup report_reads \cup report_writes
  /\ mid = "fork" => fd["mid"] \subseteq (all_ends \ child_close_fds) \cup report_writes
  /\ exe = "forked" => fd["exe"] \subseteq
       IF opt.intermediate_child THEN (all_ends \ child_close_fds) \cup report_writes
                                 ELSE all_ends \cup report_reads \cup report_writes
  /\ exe = "exec" => fd["exe"] \subseteq (all_ends \ child_close_fds) \cup {<<"err", 1>>}

(* ... what has been reported, and what the caller concludes from it; ...    *)
ReportInv ==
  /\ exe = "running" => ran
  /\ ran => exe \in {"running", "zombie", "gone"} /\ err = <<>>
  /\ mid = "error" => exe = "none" /\ pids = <<"-1">>
  /\ mid \in {"none", "forked", "fork", "report"} => pids = <<>>
  /\ err # <<>> => exe \in {"error", "zombie", "gone"} \/ (exe = "none" /\ mid \in {"error", "zombie", "gone"})
  /\ ~ killed =>
       /\ exe \in {"zombie", "gone"} => ran \/ Len(err) = 2
       /\ mid \in {"report", "zombie", "gone"} => exe # "none" \/ Len(err) = 2
       /\ mid \in {"zombie", "gone"} /\ exe # "none" => pids = <<"exe">>
       /\ pc = "read_pid" => ran /\ pids = <<"exe">>
       /\ pc \in {"success", "close_ends", "read"} \/ result = "TRUE" => ran /\ pid = "exe"
       /\ pc \in {"reap_failed", "fail_pipes"} \/ result = "FALSE" =>
            Len(err) = 2 \/ (exe = "none" /\ mid = "none")

(* ... and nothing that the program wrote is lost, nor written after the     *)
(* caller has closed the pipe.                                               *)
StreamInv ==
  \A s \in Streams :
    /\ written[s] = got[s] + held[s]
    /\ s \notin opt.wanted \ {"stdin"} => written[s] = 0
    /\ (pc = "read" \/ (result = "TRUE" /\ opt.sync)) /\ s \notin reading =>
         held[s] = 0 /\ (s \in opt.wanted => exe # "running")

IInv ==
  TypeOK /\ SelfInv /\ StageInv /\ HoldInv /\ ReportInv /\ OwnEndsOnly /\ StreamInv

\* The pipes whose end the caller waits for.
awaited ==
  CASE pc = "read_err" -> {"err"} [] pc = "read_pid" -> {"pid"} [] pc = "read" -> reading
    [] OTHER -> {}

(* The call returns: no process waits for the end of a pipe that it or a     *)
(* process waiting for it keeps open, and a program that fills one pipe is   *)
(* not kept waiting for the other.  Only a program of another thread can     *)
(* keep it from returning: one that was started while a pipe without         *)
(* close-on-exec mark was open, got its write end, and stays.                *)
SpawnReturns == <>(pc = "done") \/ <>[](\E p \in awaited : <<p, 1>> \in fd["other"])
=============================================================================
