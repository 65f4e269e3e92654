---------------------------- MODULE GSpawnProofs ----------------------------
(***************************************************************************)
(* One call of g_spawn, for any streams, any size of the pipes and any     *)
(* amount of output: IInv is inductive, one lemma per action, and the      *)
(* safety properties of GSpawn follow from it.                             *)
(***************************************************************************)
EXTENDS GSpawn, SequenceTheorems, TLAPS

(* The arguments do not change, and neither do the sets of ends they ask for. *)
LEMMA Fixed ==
  ASSUME opt' = opt
  PROVE  /\ child_ends' = child_ends /\ parent_ends' = parent_ends /\ all_ends' = all_ends
         /\ report_reads' = report_reads /\ report_writes' = report_writes
         /\ child_close_fds' = child_close_fds /\ parent_end("stdout")' = parent_end("stdout")
<1>1. child_ends' = child_ends /\ parent_ends' = parent_ends
  BY DEF child_ends, parent_ends
<1>2. child_close_fds' = child_close_fds
  BY DEF child_close_fds
<1> QED BY <1>1, <1>2 DEF all_ends, report_reads, report_writes, parent_end

(* The ends of the child are not those of the caller, and no stream is a     *)
(* report pipe.                                                              *)
LEMMA TwoEnds ==
  ASSUME opt \in Options
  PROVE  /\ child_ends \cap parent_ends = {}
         /\ child_ends \subseteq Ends /\ parent_ends \subseteq Ends
         /\ \A i \in {0, 1} : <<"err", i>> \notin all_ends /\ <<"pid", i>> \notin all_ends
         /\ child_close_fds \subseteq parent_ends
<1>0. opt.wanted \subseteq Streams /\ "err" \notin Streams /\ "pid" \notin Streams
  BY SpawnAssumption DEF Options
<1>1. \A s, t \in opt.wanted : child_end(s) # parent_end(t)
  <2> SUFFICES ASSUME NEW s \in opt.wanted, NEW t \in opt.wanted PROVE child_end(s) # parent_end(t)
    OBVIOUS
  <2>1. CASE s = "stdin"
    BY <2>1 DEF child_end, parent_end
  <2>2. CASE s # "stdin"
    BY <2>2 DEF child_end, parent_end
  <2> QED BY <2>1, <2>2
<1>2. \A s \in opt.wanted : child_end(s) \in Ends /\ parent_end(s) \in Ends
  BY <1>0 DEF child_end, parent_end, Ends
<1>3. \A i \in {0, 1}, s \in opt.wanted : /\ <<"err", i>> # child_end(s) /\ <<"err", i>> # parent_end(s)
                                         /\ <<"pid", i>> # child_end(s) /\ <<"pid", i>> # parent_end(s)
  BY <1>0 DEF child_end, parent_end
<1>4. \A x \in child_ends : \E s \in opt.wanted : x = child_end(s)
  BY DEF child_ends
<1>5. \A x \in parent_ends : \E s \in opt.wanted : x = parent_end(s)
  BY DEF parent_ends
<1>6. child_close_fds \subseteq parent_ends
  BY DEF child_close_fds, parent_ends
<1> QED BY <1>1, <1>2, <1>3, <1>4, <1>5, <1>6 DEF all_ends

(* A step that is not the caller's leaves the caller's table alone. *)
LEMMA SameSelf ==
  ASSUME SelfInv, opt' = opt, pc' = pc, result' = result, fd'["self"] = fd["self"]
  PROVE  SelfInv'
  BY Fixed DEF SelfInv

(* A child that goes on as before, or ends, takes nothing from what holds of *)
(* the children's tables.                                                    *)
LEMMA SameChildren ==
  ASSUME HoldInv, OwnEndsOnly, opt' = opt,
         mid' \in {"none", "zombie", "gone"} \/ (mid' = mid /\ fd'["mid"] = fd["mid"]),
         exe' \in {"none", "zombie", "gone"} \/ (exe' = exe /\ fd'["exe"] = fd["exe"])
  PROVE  HoldInv' /\ OwnEndsOnly'
  BY Fixed DEF HoldInv, OwnEndsOnly

(* What is left over an exec was there before, the ends of the streams with  *)
(* it.                                                                       *)
LEMMA OverExec ==
  ASSUME NEW T, NEW marked
  PROVE  /\ over_exec(T, marked) \subseteq T
         /\ child_ends \subseteq T => child_ends \subseteq over_exec(T, marked)
  BY DEF over_exec

(* Of a table without the ends in child_close_fds, the only end that is left *)
(* besides is that of stdout, and only if nothing marked it and the list of  *)
(* the descriptors to close stopped before it.                               *)
LEMMA Strays ==
  ASSUME opt \in Options, NEW T, NEW marked,
         T \subseteq (all_ends \ child_close_fds) \cup {<<"err", 1>>},
         child_ends \subseteq marked, <<"err", 1>> \in T => <<"err", 1>> \in marked,
         opt.close_descriptors => T \subseteq marked
  PROVE  over_exec(T, marked) \ child_ends \subseteq
           IF opt.close_descriptors \/ opt.cloexec \/ "stdin" \in opt.wanted
           THEN {} ELSE {parent_end("stdout")}
<1> SUFFICES ASSUME NEW x \in over_exec(T, marked), x \notin child_ends
             PROVE  /\ ~ (opt.close_descriptors \/ opt.cloexec \/ "stdin" \in opt.wanted)
                    /\ x = parent_end("stdout")
  OBVIOUS
<1>1. x \in T /\ x \notin marked /\ ~ cloexec(x)
  BY DEF over_exec
<1>2. x \in parent_ends /\ x \notin child_close_fds
  BY <1>1 DEF all_ends
<1>3. PICK s \in opt.wanted : x = parent_end(s)
  BY <1>2 DEF parent_ends
<1>4. s \in {"stdin", "stdout", "stderr"}
  BY SpawnAssumption DEF Options
<1>5. s # "stderr" /\ ~ opt.cloexec
  <2>1. x[1] = s
    BY <1>3 DEF parent_end
  <2> QED BY <1>1, <2>1 DEF cloexec
<1>6. s = "stdout" /\ "stdin" \notin opt.wanted
  BY <1>2, <1>3, <1>4, <1>5 DEF child_close_fds
<1> QED BY <1>1, <1>3, <1>5, <1>6

(* The tables stay sets of pipe ends. *)
LEMMA Tables ==
  ASSUME fd \in [Process -> SUBSET Ends], NEW q \in Process, NEW T \in SUBSET Ends,
         fd' = [fd EXCEPT ![q] = T]
  PROVE  /\ fd' \in [Process -> SUBSET Ends] /\ fd'[q] = T
         /\ \A r \in Process \ {q} : fd'[r] = fd[r]
  OBVIOUS

(* What the two report pipes hold after a write. *)
LEMMA Writes ==
  /\ Append(<<>>, "msg") = <<"msg">> /\ Append(<<"msg">>, "errno") = <<"msg", "errno">>
  /\ Append(<<>>, "exe") = <<"exe">> /\ Append(<<>>, "-1") = <<"-1">>
  /\ Len(<<>>) = 0 /\ Len(<<"msg">>) = 1 /\ Len(<<"msg", "errno">>) = 2
  /\ <<"exe">> # <<>> /\ <<"-1">> # <<>> /\ <<"exe">> # <<"-1">>
<1>1. Append(<<>>, "msg") = <<"msg">>
  OBVIOUS
<1>2. Append(<<"msg">>, "errno") = <<"msg", "errno">>
  <2> DEFINE e == Append(<<"msg">>, "errno")
             f == <<"msg", "errno">>
  <2>0. <<"msg">> \in Seq({"msg", "errno"}) /\ Len(<<"msg">>) = 1 /\ <<"msg">>[1] = "msg"
    OBVIOUS
  <2>1. e \in Seq({"msg", "errno"}) /\ Len(e) = 2 /\ e[1] = "msg" /\ e[2] = "errno"
    <3> HIDE DEF e
    <3>1. /\ e \in Seq({"msg", "errno"}) /\ Len(e) = Len(<<"msg">>) + 1
          /\ \A i \in 1 .. Len(<<"msg">>) : e[i] = <<"msg">>[i]
          /\ e[Len(<<"msg">>) + 1] = "errno"
      BY <2>0, AppendProperties DEF e
    <3> QED BY <2>0, <3>1
  <2>2. f \in Seq({"msg", "errno"})
    OBVIOUS
  <2>5. Len(f) = 2 /\ f[1] = "msg" /\ f[2] = "errno"
    OBVIOUS
  <2> HIDE DEF e, f
  <2>3. \A i \in 1 .. Len(e) : e[i] = f[i]
    BY <2>1, <2>2, <2>5
  <2>4. e = f
    BY <2>1, <2>2, <2>3, <2>5, SeqEqual
  <2> QED BY <2>4 DEF e, f
<1>3. Append(<<>>, "exe") = <<"exe">>
  OBVIOUS
<1>4. Append(<<>>, "-1") = <<"-1">>
  OBVIOUS
<1>5. Len(<<>>) = 0
  OBVIOUS
<1>6. Len(<<"msg">>) = 1
  OBVIOUS
<1>7. Len(<<"msg", "errno">>) = 2
  OBVIOUS
<1>8. <<"exe">> # <<>> /\ <<"-1">> # <<>>
  OBVIOUS
<1>9. <<"exe">> # <<"-1">>
  OBVIOUS
<1> QED BY <1>1, <1>2, <1>3, <1>4, <1>5, <1>6, <1>7, <1>8, <1>9
-----------------------------------------------------------------------------

(* One more pipe, both ends of it. *)
LEMMA Inv_open_pipe ==
  ASSUME IInv, open_pipe
  PROVE  IInv'
<1>0. TypeOK /\ SelfInv /\ StageInv /\ HoldInv /\ ReportInv /\ OwnEndsOnly /\ StreamInv
  BY DEF IInv
<1>o. opt' = opt /\ fd'["exe"] = fd["exe"] /\ fd'["mid"] = fd["mid"] /\ fd'["other"] = fd["other"]
  BY <1>0 DEF TypeOK, Process, open_pipe, opens
<1>f. PICK p \in opt.wanted : /\ p \in Streams /\ parent_end(p) \notin fd["self"]
                              /\ fd' = [fd EXCEPT !["self"] = @ \cup {<<p, 0>>, <<p, 1>>}]
  <2>1. opt.wanted \subseteq Streams /\ Streams \subseteq {"stdin", "stdout", "stderr"}
    BY <1>0, SpawnAssumption DEF TypeOK, Options
  <2>2. first(unopened) \in unopened
    BY <2>1 DEF first, open_pipe, unopened
  <2> QED BY <2>1, <2>2 DEF open_pipe, opens, unopened
<1>g. fd'["self"] = fd["self"] \cup {<<p, 0>>, <<p, 1>>}
  BY <1>0, <1>f DEF TypeOK, Process
<1>1. TypeOK'
  <2>1. fd' \in [Process -> SUBSET Ends]
    BY <1>0, <1>f DEF TypeOK, Ends, Process
  <2> QED BY <1>0, <2>1 DEF TypeOK, open_pipe, reports, streams
<1>2. SelfInv'
  <2>1. {<<p, 0>>, <<p, 1>>} = {child_end(p), parent_end(p)}
    BY DEF child_end, parent_end
  <2>2. child_end(p) \in all_ends /\ parent_end(p) \in all_ends
    BY DEF all_ends, child_ends, parent_ends
  <2>3. \A s \in opt.wanted : s # p =>
          /\ child_end(s) \notin {<<p, 0>>, <<p, 1>>} /\ parent_end(s) \notin {<<p, 0>>, <<p, 1>>}
    BY DEF child_end, parent_end
  <2>4. pc = "pipes" /\ pc' = "pipes"
    BY DEF open_pipe
  <2>5. fd'["self"] \subseteq all_ends
    BY <1>0, <1>g, <2>1, <2>2, <2>4 DEF SelfInv
  <2>6. \A s \in opt.wanted : child_end(s) \in fd'["self"] <=> parent_end(s) \in fd'["self"]
    BY <1>0, <1>g, <2>1, <2>3, <2>4 DEF SelfInv
  <2>7. all_ends' = all_ends
    BY <1>o, Fixed
  <2>8. \A s : child_end(s)' = child_end(s) /\ parent_end(s)' = parent_end(s)
    BY DEF child_end, parent_end
  <2> QED BY <1>o, <2>4, <2>5, <2>6, <2>7, <2>8 DEF SelfInv
<1>3. StageInv'
  BY <1>0, <1>o, Fixed DEF StageInv, Before, TypeOK, Options, open_pipe, opens, unopened, reports,
     streams
<1>4. HoldInv'
  BY <1>0, <1>o, SameChildren DEF open_pipe
<1>5. ReportInv'
  BY <1>0, <1>o, Fixed DEF ReportInv, TypeOK, StageInv, Before, open_pipe, opens, unopened, reports,
     streams
<1>6. OwnEndsOnly'
  BY <1>0, <1>o, SameChildren DEF open_pipe
<1>7. StreamInv'
  BY <1>0, <1>o, Fixed DEF StreamInv, reading, TypeOK, Process, StageInv, HoldInv, Options,
     open_pipe, opens, unopened, reports, streams
<1> QED BY <1>1, <1>2, <1>3, <1>4, <1>5, <1>6, <1>7 DEF IInv

(* The pipes opened so far are to be closed. *)
LEMMA Inv_open_pipe_fails ==
  ASSUME IInv, open_pipe_fails
  PROVE  IInv'
<1>0. TypeOK /\ SelfInv /\ StageInv /\ HoldInv /\ ReportInv /\ OwnEndsOnly /\ StreamInv
  BY DEF IInv
<1>o. opt' = opt /\ fd' = fd
  BY <1>0 DEF TypeOK, Process, open_pipe_fails
<1>1. TypeOK'
  BY <1>0, <1>o, Fixed DEF TypeOK, Ends, Process, open_pipe_fails, goto, unopened, reports, streams
<1>2. SelfInv'
  BY <1>0, <1>o, Fixed DEF SelfInv, TypeOK, StageInv, Options, Process, open_pipe_fails, goto,
     unopened, reports, streams
<1>3. StageInv'
  BY <1>0, <1>o, Fixed DEF StageInv, Before, TypeOK, Options, open_pipe_fails, goto, unopened,
     reports, streams
<1>4. HoldInv'
  BY <1>0, <1>o, SameChildren DEF open_pipe_fails
<1>5. ReportInv'
  BY <1>0, <1>o, Fixed DEF ReportInv, TypeOK, StageInv, Before, open_pipe_fails, goto, unopened,
     reports, streams
<1>6. OwnEndsOnly'
  BY <1>0, <1>o, SameChildren DEF open_pipe_fails
<1>7. StreamInv'
  BY <1>0, <1>o, Fixed DEF StreamInv, reading, TypeOK, Process, StageInv, HoldInv, Options,
     open_pipe_fails, goto, unopened, reports, streams
<1> QED BY <1>1, <1>2, <1>3, <1>4, <1>5, <1>6, <1>7 DEF IInv

(* All pipes are there. *)
LEMMA Inv_pipes_open ==
  ASSUME IInv, pipes_open
  PROVE  IInv'
<1>0. TypeOK /\ SelfInv /\ StageInv /\ HoldInv /\ ReportInv /\ OwnEndsOnly /\ StreamInv
  BY DEF IInv
<1>o. opt' = opt /\ fd' = fd
  BY <1>0 DEF TypeOK, Process, pipes_open
<1>1. TypeOK'
  BY <1>0, <1>o, Fixed DEF TypeOK, Ends, Process, pipes_open, goto, unopened, posix_spawn_usable,
     reports, streams
<1>2. SelfInv'
  <2>1. fd["self"] = all_ends
    <3>1. \A s \in opt.wanted : parent_end(s) \in fd["self"] /\ child_end(s) \in fd["self"]
      BY <1>0 DEF pipes_open, unopened, goto, SelfInv
    <3>2. all_ends \subseteq fd["self"]
      BY <3>1 DEF all_ends, child_ends, parent_ends
    <3> QED BY <1>0, <3>2 DEF pipes_open, goto, SelfInv
  <2>2. pc' \in {"posix_spawn", "err_pipe"}
    BY DEF pipes_open, goto
  <2> QED BY <1>o, <2>1, <2>2, Fixed DEF SelfInv
<1>3. StageInv'
  BY <1>0, <1>o, Fixed DEF StageInv, Before, TypeOK, Options, pipes_open, goto, unopened,
     posix_spawn_usable, reports, streams
<1>4. HoldInv'
  BY <1>0, <1>o, SameChildren DEF pipes_open
<1>5. ReportInv'
  BY <1>0, <1>o, Fixed DEF ReportInv, TypeOK, StageInv, Before, pipes_open, goto, unopened,
     posix_spawn_usable, reports, streams
<1>6. OwnEndsOnly'
  BY <1>0, <1>o, SameChildren DEF pipes_open
<1>7. StreamInv'
  BY <1>0, <1>o, Fixed DEF StreamInv, reading, TypeOK, Process, StageInv, HoldInv, Options,
     pipes_open, goto, unopened, posix_spawn_usable, reports, streams
<1> QED BY <1>1, <1>2, <1>3, <1>4, <1>5, <1>6, <1>7 DEF IInv

(* The program starts at once. *)
LEMMA Inv_do_posix_spawn ==
  ASSUME IInv, do_posix_spawn
  PROVE  IInv'
<1>0. TypeOK /\ SelfInv /\ StageInv /\ HoldInv /\ ReportInv /\ OwnEndsOnly /\ StreamInv
  BY DEF IInv
<1>o. opt' = opt /\ fd'["mid"] = fd["mid"] /\ fd'["other"] = fd["other"] /\ fd'["self"] = fd["self"]
  BY <1>0 DEF TypeOK, Process, do_posix_spawn
<1>1. TypeOK'
  <2>1. child_ends \subseteq Ends /\ fd["self"] \subseteq Ends
    BY <1>0, TwoEnds DEF TypeOK, Process
  <2>2. fd' \in [Process -> SUBSET Ends]
    <3>1. over_exec(fd["self"] \ child_close_fds, child_ends) \in SUBSET Ends
      BY <2>1, OverExec
    <3>2. fd' = [fd EXCEPT !["exe"] = over_exec(fd["self"] \ child_close_fds, child_ends)]
      BY DEF do_posix_spawn
    <3>3. "exe" \in Process /\ fd \in [Process -> SUBSET Ends]
      BY <1>0 DEF TypeOK, Process
    <3> QED BY <3>1, <3>2, <3>3, Tables
  <2> QED BY <1>0, <2>2 DEF TypeOK, do_posix_spawn, goto, reports, streams
<1>2. SelfInv'
  BY <1>0, <1>o, Fixed DEF SelfInv, TypeOK, StageInv, Options, Process, do_posix_spawn, goto,
     over_exec, child_close_fds, reports, streams
<1>3. StageInv'
  BY <1>0, <1>o, Fixed DEF StageInv, Before, TypeOK, Options, do_posix_spawn, goto, over_exec,
     child_close_fds, reports, streams
<1>4. HoldInv'
  <2>1. fd'["exe"] = over_exec(fd["self"] \ child_close_fds, child_ends) /\ mid' = mid /\ exe' = "running"
    BY <1>0 DEF TypeOK, Process, do_posix_spawn
  <2> QED BY <1>0, <1>o, <2>1, Fixed DEF HoldInv
<1>5. ReportInv'
  BY <1>0, <1>o, Fixed DEF ReportInv, TypeOK, StageInv, Before, do_posix_spawn, goto, over_exec,
     child_close_fds, reports, streams
<1>6. OwnEndsOnly'
  <2>1. fd'["exe"] = over_exec(fd["self"] \ child_close_fds, child_ends)
    BY <1>0 DEF TypeOK, Process, do_posix_spawn
  <2> DEFINE T == fd["self"] \ child_close_fds
  <2>2. fd["self"] = all_ends /\ ~ opt.close_descriptors /\ opt \in Options
    BY <1>0 DEF SelfInv, StageInv, TypeOK, do_posix_spawn, goto
  <2>3. child_ends \subseteq T /\ <<"err", 1>> \notin T /\ T \subseteq all_ends \ child_close_fds
    BY <2>2, TwoEnds DEF all_ends
  <2> HIDE DEF T
  <2>4. over_exec(T, child_ends) \ child_ends \subseteq
           IF opt.close_descriptors \/ opt.cloexec \/ "stdin" \in opt.wanted
           THEN {} ELSE {parent_end("stdout")}
    BY <2>2, <2>3, Strays
  <2>5. child_ends \subseteq over_exec(T, child_ends)
    BY <2>3, OverExec
  <2> QED BY <1>o, <2>1, <2>4, <2>5, Fixed DEF OwnEndsOnly, T
<1>7. StreamInv'
  BY <1>0, <1>o, Fixed DEF StreamInv, reading, TypeOK, Process, StageInv, HoldInv, Options,
     do_posix_spawn, goto, over_exec, child_close_fds, reports, streams
<1> QED BY <1>1, <1>2, <1>3, <1>4, <1>5, <1>6, <1>7 DEF IInv

(* Nothing was started. *)
LEMMA Inv_posix_spawn_fails ==
  ASSUME IInv, NEW enoexec \in BOOLEAN, posix_spawn_fails(enoexec)
  PROVE  IInv'
<1>0. TypeOK /\ SelfInv /\ StageInv /\ HoldInv /\ ReportInv /\ OwnEndsOnly /\ StreamInv
  BY DEF IInv
<1>o. opt' = opt /\ fd' = fd
  BY <1>0 DEF TypeOK, Process, posix_spawn_fails
<1>1. TypeOK'
  BY <1>0, <1>o, Fixed DEF TypeOK, Ends, Process, posix_spawn_fails, goto, reports, streams
<1>2. SelfInv'
  BY <1>0, <1>o, Fixed DEF SelfInv, TypeOK, StageInv, Options, Process, posix_spawn_fails, goto,
     reports, streams
<1>3. StageInv'
  BY <1>0, <1>o, Fixed DEF StageInv, Before, TypeOK, Options, posix_spawn_fails, goto, reports,
     streams
<1>4. HoldInv'
  BY <1>0, <1>o, SameChildren DEF posix_spawn_fails
<1>5. ReportInv'
  BY <1>0, <1>o, Fixed DEF ReportInv, TypeOK, StageInv, Before, posix_spawn_fails, goto, reports,
     streams
<1>6. OwnEndsOnly'
  BY <1>0, <1>o, SameChildren DEF posix_spawn_fails
<1>7. StreamInv'
  BY <1>0, <1>o, Fixed DEF StreamInv, reading, TypeOK, Process, StageInv, HoldInv, Options,
     posix_spawn_fails, goto, reports, streams
<1> QED BY <1>1, <1>2, <1>3, <1>4, <1>5, <1>6, <1>7 DEF IInv

(* The pipe for errors. *)
LEMMA Inv_open_err_pipe ==
  ASSUME IInv, open_err_pipe
  PROVE  IInv'
<1>0. TypeOK /\ SelfInv /\ StageInv /\ HoldInv /\ ReportInv /\ OwnEndsOnly /\ StreamInv
  BY DEF IInv
<1>o. opt' = opt /\ fd'["exe"] = fd["exe"] /\ fd'["mid"] = fd["mid"] /\ fd'["other"] = fd["other"]
  BY <1>0 DEF TypeOK, Process, open_err_pipe, opens
<1>f. /\ fd["self"] = all_ends /\ fd'["self"] = fd["self"] \cup {<<"err", 0>>, <<"err", 1>>}
      /\ pc' = IF opt.intermediate_child THEN "pid_pipe" ELSE "fork"
  BY <1>0 DEF TypeOK, Process, SelfInv, open_err_pipe, opens, goto
<1>1. TypeOK'
  BY <1>0, <1>o, Fixed DEF TypeOK, Ends, Process, open_err_pipe, goto, opens, reports, streams
<1>2. SelfInv'
  <2>1. CASE opt.intermediate_child
    BY <1>f, <1>o, <2>1, Fixed DEF SelfInv
  <2>2. CASE ~ opt.intermediate_child
    <3>1. fd'["self"] = all_ends \cup report_reads \cup report_writes
      BY <1>f, <2>2 DEF report_reads, report_writes
    <3> QED BY <1>f, <1>o, <2>2, <3>1, Fixed DEF SelfInv
  <2> QED BY <2>1, <2>2
<1>3. StageInv'
  BY <1>0, <1>o, Fixed DEF StageInv, Before, TypeOK, Options, open_err_pipe, goto, opens, reports,
     streams
<1>4. HoldInv'
  BY <1>0, <1>o, SameChildren DEF open_err_pipe
<1>5. ReportInv'
  BY <1>0, <1>o, Fixed DEF ReportInv, TypeOK, StageInv, Before, open_err_pipe, goto, opens, reports,
     streams
<1>6. OwnEndsOnly'
  BY <1>0, <1>o, SameChildren DEF open_err_pipe
<1>7. StreamInv'
  BY <1>0, <1>o, Fixed DEF StreamInv, reading, TypeOK, Process, StageInv, HoldInv, Options,
     open_err_pipe, goto, opens, reports, streams
<1> QED BY <1>1, <1>2, <1>3, <1>4, <1>5, <1>6, <1>7 DEF IInv

(* The pipe for the pid. *)
LEMMA Inv_open_pid_pipe ==
  ASSUME IInv, open_pid_pipe
  PROVE  IInv'
<1>0. TypeOK /\ SelfInv /\ StageInv /\ HoldInv /\ ReportInv /\ OwnEndsOnly /\ StreamInv
  BY DEF IInv
<1>o. opt' = opt /\ fd'["exe"] = fd["exe"] /\ fd'["mid"] = fd["mid"] /\ fd'["other"] = fd["other"]
  BY <1>0 DEF TypeOK, Process, open_pid_pipe, opens
<1>1. TypeOK'
  BY <1>0, <1>o, Fixed DEF TypeOK, Ends, Process, open_pid_pipe, goto, opens, reports, streams
<1>2. SelfInv'
  <2>1. /\ fd["self"] = all_ends \cup {<<"err", 0>>, <<"err", 1>>}
        /\ fd'["self"] = fd["self"] \cup {<<"pid", 0>>, <<"pid", 1>>}
        /\ pc' = "fork" /\ opt.intermediate_child
    BY <1>0 DEF TypeOK, Process, SelfInv, StageInv, open_pid_pipe, opens, goto
  <2>2. fd'["self"] = all_ends \cup report_reads \cup report_writes
    BY <2>1 DEF report_reads, report_writes
  <2> QED BY <1>o, <2>1, <2>2, Fixed DEF SelfInv
<1>3. StageInv'
  BY <1>0, <1>o, Fixed DEF StageInv, Before, TypeOK, Options, open_pid_pipe, goto, opens, reports,
     streams
<1>4. HoldInv'
  BY <1>0, <1>o, SameChildren DEF open_pid_pipe
<1>5. ReportInv'
  BY <1>0, <1>o, Fixed DEF ReportInv, TypeOK, StageInv, Before, open_pid_pipe, goto, opens, reports,
     streams
<1>6. OwnEndsOnly'
  BY <1>0, <1>o, SameChildren DEF open_pid_pipe
<1>7. StreamInv'
  BY <1>0, <1>o, Fixed DEF StreamInv, reading, TypeOK, Process, StageInv, HoldInv, Options,
     open_pid_pipe, goto, opens, reports, streams
<1> QED BY <1>1, <1>2, <1>3, <1>4, <1>5, <1>6, <1>7 DEF IInv

(* Nothing was forked. *)
LEMMA Inv_open_report_pipe_fails ==
  ASSUME IInv, open_report_pipe_fails
  PROVE  IInv'
<1>0. TypeOK /\ SelfInv /\ StageInv /\ HoldInv /\ ReportInv /\ OwnEndsOnly /\ StreamInv
  BY DEF IInv
<1>o. opt' = opt /\ fd' = fd
  BY <1>0 DEF TypeOK, Process, open_report_pipe_fails
<1>1. TypeOK'
  BY <1>0, <1>o, Fixed DEF TypeOK, Ends, Process, open_report_pipe_fails, goto, reports, streams
<1>2. SelfInv'
  BY <1>0, <1>o, Fixed DEF SelfInv, TypeOK, StageInv, Options, Process, open_report_pipe_fails,
     goto, reports, streams
<1>3. StageInv'
  BY <1>0, <1>o, Fixed DEF StageInv, Before, TypeOK, Options, open_report_pipe_fails, goto, reports,
     streams
<1>4. HoldInv'
  BY <1>0, <1>o, SameChildren DEF open_report_pipe_fails
<1>5. ReportInv'
  BY <1>0, <1>o, Fixed DEF ReportInv, TypeOK, StageInv, Before, open_report_pipe_fails, goto,
     reports, streams
<1>6. OwnEndsOnly'
  BY <1>0, <1>o, SameChildren DEF open_report_pipe_fails
<1>7. StreamInv'
  BY <1>0, <1>o, Fixed DEF StreamInv, reading, TypeOK, Process, StageInv, HoldInv, Options,
     open_report_pipe_fails, goto, reports, streams
<1> QED BY <1>1, <1>2, <1>3, <1>4, <1>5, <1>6, <1>7 DEF IInv

(* The child starts with the table of the caller. *)
LEMMA Inv_fork ==
  ASSUME IInv, fork
  PROVE  IInv'
<1>0. TypeOK /\ SelfInv /\ StageInv /\ HoldInv /\ ReportInv /\ OwnEndsOnly /\ StreamInv
  BY DEF IInv
<1>o. opt' = opt /\ fd'["other"] = fd["other"] /\ fd'["self"] = fd["self"]
  BY <1>0 DEF TypeOK, Process, fork
<1>1. TypeOK'
  <2>1. fd' \in [Process -> SUBSET Ends]
    BY <1>0, Tables DEF TypeOK, Process, fork
  <2> QED BY <1>0, <2>1 DEF TypeOK, fork, goto, reports, streams
<1>2. SelfInv'
  BY <1>0, <1>o, Fixed DEF SelfInv, TypeOK, StageInv, Options, Process, fork, goto, reports, streams
<1>3. StageInv'
  BY <1>0, <1>o, Fixed DEF StageInv, Before, TypeOK, Options, fork, goto, reports, streams
<1>4. HoldInv'
  <2>0. fd["self"] = all_ends \cup report_reads \cup report_writes /\ child_ends \subseteq fd["self"]
    BY <1>0 DEF SelfInv, fork, goto, all_ends
  <2>1. <<"err", 1>> \in fd["self"] /\ mid = "none" /\ exe = "none"
    BY <1>0, <2>0 DEF StageInv, Before, fork, goto, report_writes
  <2>2. CASE opt.intermediate_child
    <3>1. mid' = "forked" /\ fd'["mid"] = fd["self"] /\ exe' = "none"
      BY <1>0, <2>1, <2>2 DEF TypeOK, Process, fork
    <3> QED BY <1>o, <2>0, <2>1, <3>1, Fixed DEF HoldInv
  <2>3. CASE ~ opt.intermediate_child
    <3>1. exe' = "forked" /\ fd'["exe"] = fd["self"] /\ mid' = "none"
      BY <1>0, <2>1, <2>3 DEF TypeOK, Process, fork
    <3> QED BY <1>o, <2>0, <2>1, <2>3, <3>1, Fixed DEF HoldInv
  <2> QED BY <2>2, <2>3
<1>5. ReportInv'
  BY <1>0, <1>o, Fixed DEF ReportInv, TypeOK, StageInv, Before, fork, goto, reports, streams
<1>6. OwnEndsOnly'
  BY <1>0, <1>o, Fixed DEF OwnEndsOnly, TypeOK, Process, StageInv, Before, fork, goto, reports,
     streams
<1>7. StreamInv'
  BY <1>0, <1>o, Fixed DEF StreamInv, reading, TypeOK, Process, StageInv, HoldInv, Options, fork,
     goto, reports, streams
<1> QED BY <1>1, <1>2, <1>3, <1>4, <1>5, <1>6, <1>7 DEF IInv

(* Nothing was forked. *)
LEMMA Inv_fork_fails ==
  ASSUME IInv, fork_fails
  PROVE  IInv'
<1>0. TypeOK /\ SelfInv /\ StageInv /\ HoldInv /\ ReportInv /\ OwnEndsOnly /\ StreamInv
  BY DEF IInv
<1>o. opt' = opt /\ fd' = fd
  BY <1>0 DEF TypeOK, Process, fork_fails
<1>1. TypeOK'
  BY <1>0, <1>o, Fixed DEF TypeOK, Ends, Process, fork_fails, goto, reports, streams
<1>2. SelfInv'
  <2>1. fd["self"] = all_ends \cup report_reads \cup report_writes /\ pc' = "reap_failed"
    BY <1>0 DEF SelfInv, fork_fails, goto
  <2>2. fd["self"] \subseteq all_ends \cup ({"err", "pid"} \X {0, 1})
    BY <2>1 DEF report_reads, report_writes
  <2> QED BY <1>o, <2>1, <2>2, Fixed DEF SelfInv
<1>3. StageInv'
  BY <1>0, <1>o, Fixed DEF StageInv, Before, TypeOK, Options, fork_fails, goto, reports, streams
<1>4. HoldInv'
  BY <1>0, <1>o, SameChildren DEF fork_fails
<1>5. ReportInv'
  BY <1>0, <1>o, Fixed DEF ReportInv, TypeOK, StageInv, Before, fork_fails, goto, reports, streams
<1>6. OwnEndsOnly'
  BY <1>0, <1>o, SameChildren DEF fork_fails
<1>7. StreamInv'
  BY <1>0, <1>o, Fixed DEF StreamInv, reading, TypeOK, Process, StageInv, HoldInv, Options,
     fork_fails, goto, reports, streams
<1> QED BY <1>1, <1>2, <1>3, <1>4, <1>5, <1>6, <1>7 DEF IInv

(* The intermediate child keeps its end of the report pipe. *)
LEMMA Inv_mid_closes ==
  ASSUME IInv, mid_closes
  PROVE  IInv'
<1>0. TypeOK /\ SelfInv /\ StageInv /\ HoldInv /\ ReportInv /\ OwnEndsOnly /\ StreamInv
  BY DEF IInv
<1>o. opt' = opt /\ fd'["exe"] = fd["exe"] /\ fd'["other"] = fd["other"] /\ fd'["self"] = fd["self"]
  BY <1>0 DEF TypeOK, Process, mid_closes, closes
<1>1. TypeOK'
  BY <1>0, <1>o, Fixed DEF TypeOK, Ends, Process, mid_closes, closes, child_close_fds, reports,
     streams
<1>2. SelfInv'
  BY <1>0, <1>o, SameSelf DEF mid_closes
<1>3. StageInv'
  BY <1>0, <1>o, Fixed DEF StageInv, Before, TypeOK, Options, mid_closes, closes, child_close_fds,
     reports, streams
<1>4. HoldInv'
  <2>1. <<"err", 1>> \in fd["mid"] /\ <<"err", 1>> \notin child_close_fds
    BY <1>0, TwoEnds DEF TypeOK, HoldInv, mid_closes, all_ends
  <2>2. fd'["mid"] = fd["mid"] \ ({<<"err", 0>>, <<"pid", 0>>} \cup child_close_fds)
    BY <1>0 DEF TypeOK, Process, mid_closes, closes
  <2>3. <<"err", 1>> \in fd'["mid"] /\ mid' = "fork" /\ exe' = exe
    BY <2>1, <2>2 DEF mid_closes
  <2>4. /\ child_ends \cap child_close_fds = {} /\ <<"err", 0>> \notin child_ends
        /\ <<"pid", 0>> \notin child_ends
    BY <1>0, TwoEnds DEF TypeOK, all_ends
  <2>5. child_ends \subseteq fd["mid"] /\ fd["mid"] \subseteq all_ends \cup report_reads \cup report_writes
    BY <1>0 DEF HoldInv, mid_closes
  <2>6. child_ends \subseteq fd'["mid"]
    BY <2>2, <2>4, <2>5
  <2>7. fd'["mid"] \subseteq (all_ends \ child_close_fds) \cup report_writes
    BY <2>2, <2>5 DEF report_reads
  <2> QED BY <1>0, <1>o, <2>3, <2>6, <2>7, Fixed DEF HoldInv
<1>5. ReportInv'
  BY <1>0, <1>o, Fixed DEF ReportInv, TypeOK, StageInv, Before, mid_closes, closes, child_close_fds,
     reports, streams
<1>6. OwnEndsOnly'
  BY <1>0, <1>o, Fixed DEF OwnEndsOnly, TypeOK, Process, StageInv, Before, mid_closes, closes,
     child_close_fds, reports, streams
<1>7. StreamInv'
  BY <1>0, <1>o, Fixed DEF StreamInv, reading, TypeOK, Process, StageInv, HoldInv, Options,
     mid_closes, closes, child_close_fds, reports, streams
<1> QED BY <1>1, <1>2, <1>3, <1>4, <1>5, <1>6, <1>7 DEF IInv

(* So does its child. *)
LEMMA Inv_mid_forks ==
  ASSUME IInv, mid_forks
  PROVE  IInv'
<1>0. TypeOK /\ SelfInv /\ StageInv /\ HoldInv /\ ReportInv /\ OwnEndsOnly /\ StreamInv
  BY DEF IInv
<1>o. opt' = opt /\ fd'["mid"] = fd["mid"] /\ fd'["other"] = fd["other"] /\ fd'["self"] = fd["self"]
  BY <1>0 DEF TypeOK, Process, mid_forks
<1>1. TypeOK'
  BY <1>0, <1>o, Fixed DEF TypeOK, Ends, Process, mid_forks, reports, streams
<1>2. SelfInv'
  BY <1>0, <1>o, SameSelf DEF mid_forks
<1>3. StageInv'
  BY <1>0, <1>o, Fixed DEF StageInv, Before, TypeOK, Options, mid_forks, reports, streams
<1>4. HoldInv'
  <2>1. /\ mid = "fork" /\ mid' = "report" /\ exe' = "forked" /\ fd'["exe"] = fd["mid"]
        /\ opt.intermediate_child
    BY <1>0 DEF TypeOK, Process, StageInv, mid_forks
  <2> QED BY <1>0, <1>o, <2>1, Fixed DEF HoldInv
<1>5. ReportInv'
  BY <1>0, <1>o, Fixed DEF ReportInv, TypeOK, StageInv, Before, mid_forks, reports, streams
<1>6. OwnEndsOnly'
  BY <1>0, <1>o, Fixed DEF OwnEndsOnly, TypeOK, Process, StageInv, Before, mid_forks, reports,
     streams
<1>7. StreamInv'
  BY <1>0, <1>o, Fixed DEF StreamInv, reading, TypeOK, Process, StageInv, HoldInv, Options,
     mid_forks, reports, streams
<1> QED BY <1>1, <1>2, <1>3, <1>4, <1>5, <1>6, <1>7 DEF IInv

(* It reports -1. *)
LEMMA Inv_mid_fork_fails ==
  ASSUME IInv, mid_fork_fails
  PROVE  IInv'
<1>0. TypeOK /\ SelfInv /\ StageInv /\ HoldInv /\ ReportInv /\ OwnEndsOnly /\ StreamInv
  BY DEF IInv
<1>o. opt' = opt /\ fd' = fd
  BY <1>0 DEF TypeOK, Process, mid_fork_fails
<1>1. TypeOK'
  <2>0. pids = <<>> /\ pids' = Append(pids, "-1")
    BY <1>0 DEF ReportInv, mid_fork_fails
  <2>1. pids' = <<"-1">>
    BY <2>0, Writes
  <2>2. mid' = "error" /\ UNCHANGED <<opt, pc, fd, exe, err, pid, result, ran, killed, held, written, got>>
    BY DEF mid_fork_fails, streams
  <2> QED BY <1>0, <2>1, <2>2 DEF TypeOK
<1>2. SelfInv'
  BY <1>0, <1>o, SameSelf DEF mid_fork_fails
<1>3. StageInv'
  BY <1>0, <1>o, Fixed DEF StageInv, Before, TypeOK, Options, mid_fork_fails, streams
<1>4. HoldInv'
  BY <1>0, <1>o, Fixed DEF HoldInv, TypeOK, Process, SelfInv, StageInv, mid_fork_fails, streams
<1>5. ReportInv'
  BY <1>0, <1>o, Fixed DEF ReportInv, TypeOK, StageInv, Before, mid_fork_fails, streams
<1>6. OwnEndsOnly'
  BY <1>0, <1>o, Fixed DEF OwnEndsOnly, TypeOK, Process, StageInv, Before, mid_fork_fails, streams
<1>7. StreamInv'
  BY <1>0, <1>o, Fixed DEF StreamInv, reading, TypeOK, Process, StageInv, HoldInv, Options,
     mid_fork_fails, streams
<1> QED BY <1>1, <1>2, <1>3, <1>4, <1>5, <1>6, <1>7 DEF IInv

(* It exits when it has reported. *)
LEMMA Inv_mid_exits ==
  ASSUME IInv, mid_exits
  PROVE  IInv'
<1>0. TypeOK /\ SelfInv /\ StageInv /\ HoldInv /\ ReportInv /\ OwnEndsOnly /\ StreamInv
  BY DEF IInv
<1>o. opt' = opt /\ fd'["exe"] = fd["exe"] /\ fd'["other"] = fd["other"] /\ fd'["self"] = fd["self"]
  BY <1>0 DEF TypeOK, Process, mid_exits, closes
<1>1. TypeOK'
  <2>1. pids' \in {pids, <<"exe">>} /\ err' = err
    BY <1>0, Writes DEF ReportInv, mid_exits, reports
  <2>2. fd' \in [Process -> SUBSET Ends]
    BY <1>0 DEF TypeOK, Process, mid_exits, closes
  <2> QED BY <1>0, <2>1, <2>2 DEF TypeOK, mid_exits, streams
<1>2. SelfInv'
  BY <1>0, <1>o, SameSelf DEF mid_exits
<1>3. StageInv'
  BY <1>0, <1>o, Fixed DEF StageInv, Before, TypeOK, Options, mid_exits, closes, reports, streams
<1>4. HoldInv'
  BY <1>0, <1>o, Fixed DEF HoldInv, TypeOK, Process, SelfInv, StageInv, mid_exits, closes, reports,
     streams
<1>5. ReportInv'
  <2>1. \/ mid = "report" /\ pids' = <<"exe">> /\ err' = err
        \/ mid = "error" /\ Len(err) = 2 /\ pids' = pids /\ err' = err
    BY <1>0, Writes DEF ReportInv, mid_exits, reports
  <2>2. mid' = "zombie" /\ UNCHANGED <<pc, exe, pid, result, ran, killed>>
    BY DEF mid_exits
  <2>3. pc # "read_pid"
    BY <1>0, <2>1 DEF StageInv
  <2>4. mid = "report" => err = <<>> \/ exe \in {"error", "zombie", "gone"}
    BY <1>0 DEF ReportInv
  <2>5. pc \in {"reap_failed", "fail_pipes"} \/ result = "FALSE" => mid \notin {"report", "error"}
    BY <1>0, <2>1 DEF StageInv, TypeOK, Options
  <2> QED BY <1>0, <2>1, <2>2, <2>3, <2>4, <2>5 DEF ReportInv
<1>6. OwnEndsOnly'
  BY <1>0, <1>o, Fixed DEF OwnEndsOnly, TypeOK, Process, StageInv, Before, mid_exits, closes,
     reports, streams
<1>7. StreamInv'
  BY <1>0, <1>o, Fixed DEF StreamInv, reading, TypeOK, Process, StageInv, HoldInv, Options,
     mid_exits, closes, reports, streams
<1> QED BY <1>1, <1>2, <1>3, <1>4, <1>5, <1>6, <1>7 DEF IInv

(* Only a child that did not start the program writes an error. *)
LEMMA Inv_write_err ==
  ASSUME IInv, write_err
  PROVE  IInv'
<1>0. TypeOK /\ SelfInv /\ StageInv /\ HoldInv /\ ReportInv /\ OwnEndsOnly /\ StreamInv
  BY DEF IInv
<1>o. opt' = opt /\ fd' = fd
  BY <1>0 DEF TypeOK, Process, write_err
<1>1. TypeOK'
  <2>1. err' \in {<<"msg">>, <<"msg", "errno">>}
    <3>1. err' = Append(err, IF err = <<>> THEN "msg" ELSE "errno") /\ Len(err) < 2
      BY DEF write_err
    <3>2. CASE err = <<>>
      BY <3>1, <3>2, Writes
    <3>3. CASE err = <<"msg">>
      <4>1. err # <<>>
        BY <3>3
      <4>2. err' = Append(<<"msg">>, "errno")
        BY <3>1, <3>3, <4>1
      <4> QED BY <4>2, Writes
    <3>4. CASE err = <<"msg", "errno">>
      <4>1. Len(err) = 2
        BY <3>4, Writes
      <4> QED BY <3>1, <4>1
    <3> QED BY <1>0, <3>2, <3>3, <3>4 DEF TypeOK
  <2> QED BY <1>0, <2>1 DEF TypeOK, write_err, streams
<1>2. SelfInv'
  BY <1>0, <1>o, SameSelf DEF write_err
<1>3. StageInv'
  BY <1>0, <1>o, Fixed DEF StageInv, Before, TypeOK, Options, write_err, streams
<1>4. HoldInv'
  BY <1>0, <1>o, SameChildren DEF write_err
<1>5. ReportInv'
  <2>0. Len(err) < 2 /\ (mid = "error" \/ exe = "error")
    BY DEF write_err
  <2>1. Len(err) # 2 /\ (mid = "error" \/ exe = "error")
    BY <2>0
  <2>2. UNCHANGED <<pc, mid, exe, pids, pid, result, ran, killed>>
    BY DEF write_err
  <2>3. ~ ran /\ (mid = "error" => exe = "none")
    BY <1>0, <2>1 DEF ReportInv
  <2>4. ~ killed /\ (pc \in {"reap_failed", "fail_pipes"} \/ result = "FALSE") => FALSE
    BY <1>0, <2>1 DEF ReportInv
  <2> QED BY <1>0, <2>1, <2>2, <2>3, <2>4 DEF ReportInv
<1>6. OwnEndsOnly'
  BY <1>0, <1>o, SameChildren DEF write_err
<1>7. StreamInv'
  BY <1>0, <1>o, Fixed DEF StreamInv, reading, TypeOK, Process, StageInv, HoldInv, Options,
     write_err, streams
<1> QED BY <1>1, <1>2, <1>3, <1>4, <1>5, <1>6, <1>7 DEF IInv

(* The child keeps its end of the report pipe. *)
LEMMA Inv_exe_closes ==
  ASSUME IInv, exe_closes
  PROVE  IInv'
<1>0. TypeOK /\ SelfInv /\ StageInv /\ HoldInv /\ ReportInv /\ OwnEndsOnly /\ StreamInv
  BY DEF IInv
<1>o. opt' = opt /\ fd'["mid"] = fd["mid"] /\ fd'["other"] = fd["other"] /\ fd'["self"] = fd["self"]
  BY <1>0 DEF TypeOK, Process, exe_closes, closes
<1>1. TypeOK'
  BY <1>0, <1>o, Fixed DEF TypeOK, Ends, Process, exe_closes, closes, child_close_fds, reports,
     streams
<1>2. SelfInv'
  BY <1>0, <1>o, SameSelf DEF exe_closes
<1>3. StageInv'
  BY <1>0, <1>o, Fixed DEF StageInv, Before, TypeOK, Options, exe_closes, closes, child_close_fds,
     reports, streams
<1>4. HoldInv'
  <2>1. <<"err", 1>> \in fd["exe"] /\ <<"err", 1>> \notin child_close_fds
    BY <1>0, TwoEnds DEF TypeOK, HoldInv, exe_closes, all_ends
  <2>2. fd'["exe"] = fd["exe"] \ (IF opt.intermediate_child THEN {<<"pid", 1>>}
                                  ELSE {<<"err", 0>>} \cup child_close_fds)
    BY <1>0 DEF TypeOK, Process, exe_closes, closes
  <2>3. <<"err", 1>> \in fd'["exe"] /\ exe' = "exec" /\ mid' = mid
    BY <2>1, <2>2 DEF exe_closes
  <2>4. /\ child_ends \cap child_close_fds = {} /\ <<"err", 0>> \notin child_ends
        /\ <<"pid", 1>> \notin child_ends
    BY <1>0, TwoEnds DEF TypeOK, all_ends
  <2>5. child_ends \subseteq fd["exe"] /\ exe = "forked"
    BY <1>0 DEF HoldInv, exe_closes
  <2>6. child_ends \subseteq fd'["exe"]
    BY <2>2, <2>4, <2>5
  <2>7. fd'["exe"] \subseteq (all_ends \ child_close_fds) \cup {<<"err", 1>>}
    <3>1. CASE opt.intermediate_child
      BY <1>0, <2>2, <2>5, <3>1 DEF HoldInv, report_writes
    <3>2. CASE ~ opt.intermediate_child
      BY <1>0, <2>2, <2>5, <3>2 DEF HoldInv, report_reads, report_writes
    <3> QED BY <3>1, <3>2
  <2> QED BY <1>0, <1>o, <2>3, <2>6, <2>7, Fixed DEF HoldInv
<1>5. ReportInv'
  BY <1>0, <1>o, Fixed DEF ReportInv, TypeOK, StageInv, Before, exe_closes, closes, child_close_fds,
     reports, streams
<1>6. OwnEndsOnly'
  BY <1>0, <1>o, Fixed DEF OwnEndsOnly, TypeOK, Process, StageInv, Before, exe_closes, closes,
     child_close_fds, reports, streams
<1>7. StreamInv'
  BY <1>0, <1>o, Fixed DEF StreamInv, reading, TypeOK, Process, StageInv, HoldInv, Options,
     exe_closes, closes, child_close_fds, reports, streams
<1> QED BY <1>1, <1>2, <1>3, <1>4, <1>5, <1>6, <1>7 DEF IInv

(* The program has its ends of the streams. *)
LEMMA Inv_do_exec ==
  ASSUME IInv, do_exec
  PROVE  IInv'
<1>0. TypeOK /\ SelfInv /\ StageInv /\ HoldInv /\ ReportInv /\ OwnEndsOnly /\ StreamInv
  BY DEF IInv
<1>o. opt' = opt /\ fd'["mid"] = fd["mid"] /\ fd'["other"] = fd["other"] /\ fd'["self"] = fd["self"]
  BY <1>0 DEF TypeOK, Process, do_exec
<1> DEFINE Marks == IF opt.close_descriptors THEN Ends ELSE child_ends \cup {<<"err", 1>>}
<1>m. fd' = [fd EXCEPT !["exe"] = over_exec(fd["exe"], Marks)] /\ exe' = "running" /\ mid' = mid
  BY DEF do_exec
<1> HIDE DEF Marks
<1>n. fd'["exe"] = over_exec(fd["exe"], Marks)
  BY <1>0, <1>m DEF TypeOK, Process
<1>1. TypeOK'
  <2>1. child_ends \subseteq Ends /\ fd["exe"] \subseteq Ends
    BY <1>0, TwoEnds DEF TypeOK, Process
  <2>2. fd' \in [Process -> SUBSET Ends]
    <3>1. over_exec(fd["exe"], Marks) \in SUBSET Ends
      BY <2>1, OverExec
    <3>2. fd' = [fd EXCEPT !["exe"] = over_exec(fd["exe"], Marks)]
      BY <1>m
    <3>3. "exe" \in Process /\ fd \in [Process -> SUBSET Ends]
      BY <1>0 DEF TypeOK, Process
    <3> QED BY <3>1, <3>2, <3>3, Tables
  <2>3. /\ exe' = "running" /\ ran' = TRUE
        /\ UNCHANGED <<opt, pc, mid, err, pids, pid, result, killed, held, written, got>>
    BY DEF do_exec, reports, streams
  <2> QED BY <1>0, <2>2, <2>3 DEF TypeOK
<1>2. SelfInv'
  BY <1>0, <1>o, SameSelf DEF do_exec
<1>3. StageInv'
  BY <1>0, <1>o, Fixed DEF StageInv, Before, TypeOK, Options, do_exec, over_exec, reports, streams
<1>4. HoldInv'
  <2>1. fd'["exe"] = over_exec(fd["exe"], Marks) /\ mid' = mid /\ exe' = "running"
    BY <1>m, <1>n
  <2> QED BY <1>0, <1>o, <2>1, Fixed DEF HoldInv
<1>5. ReportInv'
  BY <1>0, <1>o, Fixed DEF ReportInv, TypeOK, StageInv, Before, do_exec, over_exec, reports, streams
<1>6. OwnEndsOnly'
  <2> DEFINE T == fd["exe"]
  <2>1. /\ child_ends \subseteq T /\ T \subseteq (all_ends \ child_close_fds) \cup {<<"err", 1>>}
        /\ opt \in Options /\ T \subseteq Ends
    BY <1>0 DEF HoldInv, TypeOK, Process, do_exec
  <2>2. /\ child_ends \subseteq Marks /\ <<"err", 1>> \in Marks
        /\ opt.close_descriptors => T \subseteq Marks
    BY <2>1, TwoEnds DEF Marks, Ends
  <2> HIDE DEF T
  <2>3. over_exec(T, Marks) \ child_ends \subseteq
           IF opt.close_descriptors \/ opt.cloexec \/ "stdin" \in opt.wanted
           THEN {} ELSE {parent_end("stdout")}
    BY <2>1, <2>2, Strays
  <2>4. child_ends \subseteq over_exec(T, Marks)
    BY <2>1, OverExec
  <2> QED BY <1>n, <1>o, <2>3, <2>4, Fixed DEF OwnEndsOnly, T
<1>7. StreamInv'
  <2>1. exe = "exec" /\ UNCHANGED <<pc, result, held, written, got>>
    BY DEF do_exec, streams
  <2>2. ~ (pc = "read" \/ (result = "TRUE" /\ opt.sync))
    BY <1>0, <2>1 DEF TypeOK, Options, StageInv
  <2> QED BY <1>0, <1>o, <2>1, <2>2 DEF StreamInv
<1> QED BY <1>1, <1>2, <1>3, <1>4, <1>5, <1>6, <1>7 DEF IInv

(* The child is to report. *)
LEMMA Inv_do_exec_fails ==
  ASSUME IInv, do_exec_fails
  PROVE  IInv'
<1>0. TypeOK /\ SelfInv /\ StageInv /\ HoldInv /\ ReportInv /\ OwnEndsOnly /\ StreamInv
  BY DEF IInv
<1>o. opt' = opt /\ fd' = fd
  BY <1>0 DEF TypeOK, Process, do_exec_fails
<1>1. TypeOK'
  BY <1>0, <1>o, Fixed DEF TypeOK, Ends, Process, do_exec_fails, reports, streams
<1>2. SelfInv'
  BY <1>0, <1>o, SameSelf DEF do_exec_fails
<1>3. StageInv'
  BY <1>0, <1>o, Fixed DEF StageInv, Before, TypeOK, Options, do_exec_fails, reports, streams
<1>4. HoldInv'
  BY <1>0, <1>o, Fixed DEF HoldInv, TypeOK, Process, SelfInv, StageInv, do_exec_fails, reports,
     streams
<1>5. ReportInv'
  BY <1>0, <1>o, Fixed DEF ReportInv, TypeOK, StageInv, Before, do_exec_fails, reports, streams
<1>6. OwnEndsOnly'
  BY <1>0, <1>o, Fixed DEF OwnEndsOnly, TypeOK, Process, StageInv, Before, do_exec_fails, reports,
     streams
<1>7. StreamInv'
  BY <1>0, <1>o, Fixed DEF StreamInv, reading, TypeOK, Process, StageInv, HoldInv, Options,
     do_exec_fails, reports, streams
<1> QED BY <1>1, <1>2, <1>3, <1>4, <1>5, <1>6, <1>7 DEF IInv

(* What is written is held. *)
LEMMA Inv_program_writes ==
  ASSUME IInv, NEW s \in Streams, program_writes(s)
  PROVE  IInv'
<1>0. TypeOK /\ SelfInv /\ StageInv /\ HoldInv /\ ReportInv /\ OwnEndsOnly /\ StreamInv
  BY DEF IInv
<1>o. opt' = opt /\ fd' = fd
  BY <1>0 DEF TypeOK, Process, program_writes
<1>1. TypeOK'
  <2>1. held' \in [Streams -> 0 .. PipeSize] /\ written' \in [Streams -> 0 .. MaxOut]
    BY <1>0, SpawnAssumption DEF TypeOK, program_writes
  <2> QED BY <1>0, <2>1 DEF TypeOK, program_writes, reports
<1>2. SelfInv'
  BY <1>0, <1>o, SameSelf DEF program_writes
<1>3. StageInv'
  BY <1>0, <1>o, Fixed DEF StageInv, Before, TypeOK, Options, program_writes, reports
<1>4. HoldInv'
  BY <1>0, <1>o, SameChildren DEF program_writes
<1>5. ReportInv'
  BY <1>0, <1>o, Fixed DEF ReportInv, TypeOK, StageInv, Before, program_writes, reports
<1>6. OwnEndsOnly'
  BY <1>0, <1>o, SameChildren DEF program_writes
<1>7. StreamInv'
  <2>1. /\ exe = "running" /\ s \in opt.wanted \ {"stdin"}
        /\ UNCHANGED <<pc, fd, exe, result, got>>
    BY DEF program_writes
  <2>2. /\ \A u \in Streams \ {s} : held'[u] = held[u] /\ written'[u] = written[u]
        /\ held'[s] = held[s] + 1 /\ written'[s] = written[s] + 1
        /\ held[s] \in Int /\ got[s] \in Int
    BY <1>0 DEF TypeOK, program_writes
  <2>3. reading' = reading
    BY <1>o, <2>1 DEF reading, parent_end
  <2> QED BY <1>0, <1>o, <2>1, <2>2, <2>3 DEF StreamInv
<1> QED BY <1>1, <1>2, <1>3, <1>4, <1>5, <1>6, <1>7 DEF IInv

(* The child ends with the program run or the error reported. *)
LEMMA Inv_exe_exits ==
  ASSUME IInv, exe_exits
  PROVE  IInv'
<1>0. TypeOK /\ SelfInv /\ StageInv /\ HoldInv /\ ReportInv /\ OwnEndsOnly /\ StreamInv
  BY DEF IInv
<1>o. opt' = opt /\ fd'["mid"] = fd["mid"] /\ fd'["other"] = fd["other"] /\ fd'["self"] = fd["self"]
  BY <1>0 DEF TypeOK, Process, exe_exits, closes
<1>1. TypeOK'
  BY <1>0, <1>o, Fixed DEF TypeOK, Ends, Process, exe_exits, closes, reports, streams
<1>2. SelfInv'
  BY <1>0, <1>o, SameSelf DEF exe_exits
<1>3. StageInv'
  BY <1>0, <1>o, Fixed DEF StageInv, Before, TypeOK, Options, exe_exits, closes, reports, streams
<1>4. HoldInv'
  BY <1>0, <1>o, Fixed DEF HoldInv, TypeOK, Process, SelfInv, StageInv, exe_exits, closes, reports,
     streams
<1>5. ReportInv'
  BY <1>0, <1>o, Fixed DEF ReportInv, TypeOK, StageInv, Before, exe_exits, closes, reports, streams
<1>6. OwnEndsOnly'
  BY <1>0, <1>o, Fixed DEF OwnEndsOnly, TypeOK, Process, StageInv, Before, exe_exits, closes,
     reports, streams
<1>7. StreamInv'
  BY <1>0, <1>o, Fixed DEF StreamInv, reading, TypeOK, Process, StageInv, HoldInv, Options,
     exe_exits, closes, reports, streams
<1> QED BY <1>1, <1>2, <1>3, <1>4, <1>5, <1>6, <1>7 DEF IInv

(* A child is killed. *)
LEMMA Inv_kill ==
  ASSUME IInv, NEW p \in {"mid", "exe"}, kill(p)
  PROVE  IInv'
<1>0. TypeOK /\ SelfInv /\ StageInv /\ HoldInv /\ ReportInv /\ OwnEndsOnly /\ StreamInv
  BY DEF IInv
<1>o. opt' = opt /\ fd'["other"] = fd["other"] /\ fd'["self"] = fd["self"]
  BY <1>0 DEF TypeOK, Process, kill, closes
<1>1. TypeOK'
  BY <1>0, <1>o, Fixed DEF TypeOK, Ends, Process, kill, closes, alive, reports, streams
<1>2. SelfInv'
  BY <1>0, <1>o, SameSelf DEF kill
<1>3. StageInv'
  BY <1>0, <1>o, Fixed DEF StageInv, Before, TypeOK, Options, kill, closes, alive, reports, streams
<1>4. HoldInv'
  BY <1>0, <1>o, Fixed DEF HoldInv, TypeOK, Process, SelfInv, StageInv, kill, closes, alive,
     reports, streams
<1>5. ReportInv'
  BY <1>0, <1>o, Fixed DEF ReportInv, TypeOK, StageInv, Before, kill, closes, alive, reports,
     streams
<1>6. OwnEndsOnly'
  BY <1>0, <1>o, Fixed DEF OwnEndsOnly, TypeOK, Process, StageInv, Before, kill, closes, alive,
     reports, streams
<1>7. StreamInv'
  BY <1>0, <1>o, Fixed DEF StreamInv, reading, TypeOK, Process, StageInv, HoldInv, Options, kill,
     closes, alive, reports, streams
<1> QED BY <1>1, <1>2, <1>3, <1>4, <1>5, <1>6, <1>7 DEF IInv

(* Another program gets a copy of unmarked ends. *)
LEMMA Inv_other_starts ==
  ASSUME IInv, other_starts
  PROVE  IInv'
<1>0. TypeOK /\ SelfInv /\ StageInv /\ HoldInv /\ ReportInv /\ OwnEndsOnly /\ StreamInv
  BY DEF IInv
<1>o. opt' = opt /\ fd'["exe"] = fd["exe"] /\ fd'["mid"] = fd["mid"] /\ fd'["self"] = fd["self"]
  BY <1>0 DEF TypeOK, Process, other_starts
<1>1. TypeOK'
  BY <1>0, <1>o, Fixed DEF TypeOK, Ends, Process, other_starts, reports, streams
<1>2. SelfInv'
  BY <1>0, <1>o, SameSelf DEF other_starts
<1>3. StageInv'
  BY <1>0, <1>o, Fixed DEF StageInv, Before, TypeOK, Options, other_starts, reports, streams
<1>4. HoldInv'
  BY <1>0, <1>o, SameChildren DEF other_starts
<1>5. ReportInv'
  BY <1>0, <1>o, Fixed DEF ReportInv, TypeOK, StageInv, Before, other_starts, reports, streams
<1>6. OwnEndsOnly'
  BY <1>0, <1>o, SameChildren DEF other_starts
<1>7. StreamInv'
  BY <1>0, <1>o, Fixed DEF StreamInv, reading, TypeOK, Process, StageInv, HoldInv, Options,
     other_starts, reports, streams
<1> QED BY <1>1, <1>2, <1>3, <1>4, <1>5, <1>6, <1>7 DEF IInv

(* It ends. *)
LEMMA Inv_other_exits ==
  ASSUME IInv, other_exits
  PROVE  IInv'
<1>0. TypeOK /\ SelfInv /\ StageInv /\ HoldInv /\ ReportInv /\ OwnEndsOnly /\ StreamInv
  BY DEF IInv
<1>o. opt' = opt /\ fd'["exe"] = fd["exe"] /\ fd'["mid"] = fd["mid"] /\ fd'["self"] = fd["self"]
  BY <1>0 DEF TypeOK, Process, other_exits, closes
<1>1. TypeOK'
  BY <1>0, <1>o, Fixed DEF TypeOK, Ends, Process, other_exits, closes, reports, streams
<1>2. SelfInv'
  BY <1>0, <1>o, SameSelf DEF other_exits
<1>3. StageInv'
  BY <1>0, <1>o, Fixed DEF StageInv, Before, TypeOK, Options, other_exits, closes, reports, streams
<1>4. HoldInv'
  BY <1>0, <1>o, SameChildren DEF other_exits
<1>5. ReportInv'
  BY <1>0, <1>o, Fixed DEF ReportInv, TypeOK, StageInv, Before, other_exits, closes, reports,
     streams
<1>6. OwnEndsOnly'
  BY <1>0, <1>o, SameChildren DEF other_exits
<1>7. StreamInv'
  BY <1>0, <1>o, Fixed DEF StreamInv, reading, TypeOK, Process, StageInv, HoldInv, Options,
     other_exits, closes, reports, streams
<1> QED BY <1>1, <1>2, <1>3, <1>4, <1>5, <1>6, <1>7 DEF IInv

(* The caller closes the ends it writes to. *)
LEMMA Inv_parent_closes ==
  ASSUME IInv, parent_closes
  PROVE  IInv'
<1>0. TypeOK /\ SelfInv /\ StageInv /\ HoldInv /\ ReportInv /\ OwnEndsOnly /\ StreamInv
  BY DEF IInv
<1>o. opt' = opt /\ fd'["exe"] = fd["exe"] /\ fd'["mid"] = fd["mid"] /\ fd'["other"] = fd["other"]
  BY <1>0 DEF TypeOK, Process, parent_closes, closes
<1>1. TypeOK'
  BY <1>0, <1>o, Fixed DEF TypeOK, Ends, Process, parent_closes, goto, closes, reports, streams
<1>2. SelfInv'
  <2>1. /\ fd["self"] = all_ends \cup report_reads \cup report_writes
        /\ fd'["self"] = fd["self"] \ {<<"err", 1>>, <<"pid", 1>>}
        /\ pc' \in {"reap_mid", "read_err"}
    BY <1>0 DEF TypeOK, Process, SelfInv, parent_closes, closes, goto
  <2>2. <<"err", 1>> \notin all_ends /\ <<"pid", 1>> \notin all_ends
    BY <1>0, TwoEnds DEF TypeOK
  <2>3. fd'["self"] = all_ends \cup report_reads
    BY <2>1, <2>2 DEF report_reads, report_writes
  <2> QED BY <1>o, <2>1, <2>3, Fixed DEF SelfInv
<1>3. StageInv'
  BY <1>0, <1>o, Fixed DEF StageInv, Before, TypeOK, Options, parent_closes, goto, closes, reports,
     streams
<1>4. HoldInv'
  BY <1>0, <1>o, SameChildren DEF parent_closes
<1>5. ReportInv'
  BY <1>0, <1>o, Fixed DEF ReportInv, TypeOK, StageInv, Before, parent_closes, goto, closes,
     reports, streams
<1>6. OwnEndsOnly'
  BY <1>0, <1>o, SameChildren DEF parent_closes
<1>7. StreamInv'
  BY <1>0, <1>o, Fixed DEF StreamInv, reading, TypeOK, Process, StageInv, HoldInv, Options,
     parent_closes, goto, closes, reports, streams
<1> QED BY <1>1, <1>2, <1>3, <1>4, <1>5, <1>6, <1>7 DEF IInv

(* The intermediate child is reaped. *)
LEMMA Inv_reap_mid ==
  ASSUME IInv, reap_mid
  PROVE  IInv'
<1>0. TypeOK /\ SelfInv /\ StageInv /\ HoldInv /\ ReportInv /\ OwnEndsOnly /\ StreamInv
  BY DEF IInv
<1>o. opt' = opt /\ fd' = fd
  BY <1>0 DEF TypeOK, Process, reap_mid
<1>1. TypeOK'
  BY <1>0, <1>o, Fixed DEF TypeOK, Ends, Process, reap_mid, goto, reports, streams
<1>2. SelfInv'
  BY <1>0, <1>o, Fixed DEF SelfInv, TypeOK, StageInv, Options, Process, reap_mid, goto, reports,
     streams
<1>3. StageInv'
  BY <1>0, <1>o, Fixed DEF StageInv, Before, TypeOK, Options, reap_mid, goto, reports, streams
<1>4. HoldInv'
  BY <1>0, <1>o, SameChildren DEF reap_mid
<1>5. ReportInv'
  BY <1>0, <1>o, Fixed DEF ReportInv, TypeOK, StageInv, Before, reap_mid, goto, reports, streams
<1>6. OwnEndsOnly'
  BY <1>0, <1>o, SameChildren DEF reap_mid
<1>7. StreamInv'
  BY <1>0, <1>o, Fixed DEF StreamInv, reading, TypeOK, Process, StageInv, HoldInv, Options,
     reap_mid, goto, reports, streams
<1> QED BY <1>1, <1>2, <1>3, <1>4, <1>5, <1>6, <1>7 DEF IInv

(* An error is complete, or nobody can send one. *)
LEMMA Inv_read_err ==
  ASSUME IInv, read_err
  PROVE  IInv'
<1>0. TypeOK /\ SelfInv /\ StageInv /\ HoldInv /\ ReportInv /\ OwnEndsOnly /\ StreamInv
  BY DEF IInv
<1>o. opt' = opt /\ fd' = fd
  BY <1>0 DEF TypeOK, Process, read_err
<1>f. Len(err) # 2 => /\ exe \notin {"forked", "exec", "error"}
                      /\ pc' = IF opt.intermediate_child THEN "read_pid" ELSE "success"
  BY <1>0 DEF Process, HoldInv, eof, read_err, goto
<1>g. /\ pc = "read_err" /\ UNCHANGED <<mid, exe, err, pids, pid, result, ran, killed>>
      /\ Len(err) = 2 => pc' = "reap_failed"
  BY DEF read_err, goto, reports
<1>1. TypeOK'
  BY <1>0, <1>o, Fixed DEF TypeOK, Ends, Process, read_err, goto, eof, reports, streams
<1>2. SelfInv'
  <2>1. fd["self"] = all_ends \cup report_reads /\ pc' \in {"reap_failed", "read_pid", "success"}
    BY <1>0 DEF SelfInv, read_err, goto
  <2>2. fd["self"] \subseteq all_ends \cup ({"err", "pid"} \X {0, 1})
    BY <2>1 DEF report_reads
  <2> QED BY <1>o, <2>1, <2>2, Fixed DEF SelfInv
<1>3. StageInv'
  <2>1. result = "none"
    BY <1>0, <1>g DEF StageInv
  <2>2. CASE Len(err) = 2
    BY <1>0, <1>o, <1>g, <2>1, <2>2 DEF StageInv, Before
  <2>3. CASE Len(err) # 2
    BY <1>0, <1>o, <1>f, <1>g, <2>1, <2>3 DEF StageInv, Before
  <2> QED BY <2>2, <2>3
<1>4. HoldInv'
  BY <1>0, <1>o, SameChildren DEF read_err
<1>5. ReportInv'
  <2>1. result = "none"
    BY <1>0, <1>g DEF StageInv
  <2>2. CASE Len(err) = 2
    BY <1>0, <1>g, <2>1, <2>2 DEF ReportInv
  <2>3. CASE Len(err) # 2
    <3>1. CASE opt.intermediate_child
      <4>1. mid = "gone" /\ pc' = "read_pid"
        BY <1>0, <1>f, <1>g, <2>3, <3>1 DEF StageInv
      <4>2. ~ killed => ran /\ pids = <<"exe">>
        BY <1>0, <1>f, <2>3, <4>1 DEF TypeOK, ReportInv
      <4> QED BY <1>0, <1>g, <2>1, <4>1, <4>2 DEF ReportInv
    <3>2. CASE ~ opt.intermediate_child
      <4>1. exe # "none" /\ pid = "exe" /\ pc' = "success"
        BY <1>0, <1>f, <1>g, <2>3, <3>2 DEF StageInv
      <4>2. ~ killed => ran
        BY <1>0, <1>f, <2>3, <4>1 DEF TypeOK, ReportInv
      <4> QED BY <1>0, <1>g, <2>1, <4>1, <4>2 DEF ReportInv
    <3> QED BY <3>1, <3>2
  <2> QED BY <2>2, <2>3
<1>6. OwnEndsOnly'
  BY <1>0, <1>o, SameChildren DEF read_err
<1>7. StreamInv'
  BY <1>0, <1>o, Fixed DEF StreamInv, reading, TypeOK, Process, StageInv, HoldInv, Options,
     read_err, goto, eof, reports, streams
<1> QED BY <1>1, <1>2, <1>3, <1>4, <1>5, <1>6, <1>7 DEF IInv

(* The pid, if the intermediate child sent one. *)
LEMMA Inv_read_pid ==
  ASSUME IInv, read_pid
  PROVE  IInv'
<1>0. TypeOK /\ SelfInv /\ StageInv /\ HoldInv /\ ReportInv /\ OwnEndsOnly /\ StreamInv
  BY DEF IInv
<1>o. opt' = opt /\ fd' = fd
  BY <1>0 DEF TypeOK, Process, read_pid
<1>1. TypeOK'
  BY <1>0, <1>o, Fixed DEF TypeOK, Ends, Process, read_pid, goto, eof, reports, streams
<1>2. SelfInv'
  <2>1. fd["self"] = all_ends \cup report_reads /\ pc' \in {"reap_failed", "read_pid", "success"}
    BY <1>0 DEF SelfInv, read_pid, goto
  <2>2. fd["self"] \subseteq all_ends \cup ({"err", "pid"} \X {0, 1})
    BY <2>1 DEF report_reads
  <2> QED BY <1>o, <2>1, <2>2, Fixed DEF SelfInv
<1>3. StageInv'
  BY <1>0, <1>o, Fixed DEF StageInv, Before, TypeOK, Options, read_pid, goto, eof, reports, streams
<1>4. HoldInv'
  BY <1>0, <1>o, SameChildren DEF read_pid
<1>5. ReportInv'
  <2>1. /\ pc = "read_pid" /\ UNCHANGED <<mid, exe, err, pids, result, ran, killed>>
        /\ pids = <<>> => pc' = "reap_failed"
        /\ pids # <<>> => pc' = "success" /\ pid' = pids[1]
    BY DEF read_pid, goto, reports
  <2>2. result = "none"
    BY <1>0, <2>1 DEF StageInv
  <2>3. ~ killed => ran /\ pc' = "success" /\ pid' = "exe"
    BY <1>0, <2>1, Writes DEF ReportInv
  <2>4. pc' \in {"reap_failed", "success"}
    BY <2>1
  <2> QED BY <1>0, <2>1, <2>2, <2>3, <2>4 DEF ReportInv
<1>6. OwnEndsOnly'
  BY <1>0, <1>o, SameChildren DEF read_pid
<1>7. StreamInv'
  BY <1>0, <1>o, Fixed DEF StreamInv, reading, TypeOK, Process, StageInv, HoldInv, Options,
     read_pid, goto, eof, reports, streams
<1> QED BY <1>1, <1>2, <1>3, <1>4, <1>5, <1>6, <1>7 DEF IInv

(* The report pipes are closed. *)
LEMMA Inv_success ==
  ASSUME IInv, success
  PROVE  IInv'
<1>0. TypeOK /\ SelfInv /\ StageInv /\ HoldInv /\ ReportInv /\ OwnEndsOnly /\ StreamInv
  BY DEF IInv
<1>o. opt' = opt /\ fd'["exe"] = fd["exe"] /\ fd'["mid"] = fd["mid"] /\ fd'["other"] = fd["other"]
  BY <1>0 DEF TypeOK, Process, success, closes
<1>1. TypeOK'
  BY <1>0, <1>o, Fixed DEF TypeOK, Ends, Process, success, goto, closes, reports, streams
<1>2. SelfInv'
  <2>1. /\ fd["self"] = all_ends \cup report_reads /\ pc' = "close_ends"
        /\ fd'["self"] = fd["self"] \ {<<"err", 0>>, <<"pid", 0>>}
    BY <1>0 DEF TypeOK, Process, SelfInv, success, closes, goto
  <2>2. <<"err", 0>> \notin all_ends /\ <<"pid", 0>> \notin all_ends
    BY <1>0, TwoEnds DEF TypeOK
  <2>3. fd'["self"] = all_ends
    BY <2>1, <2>2 DEF report_reads
  <2> QED BY <1>o, <2>1, <2>3, Fixed DEF SelfInv
<1>3. StageInv'
  BY <1>0, <1>o, Fixed DEF StageInv, Before, TypeOK, Options, success, goto, closes, reports,
     streams
<1>4. HoldInv'
  BY <1>0, <1>o, SameChildren DEF success
<1>5. ReportInv'
  BY <1>0, <1>o, Fixed DEF ReportInv, TypeOK, StageInv, Before, success, goto, closes, reports,
     streams
<1>6. OwnEndsOnly'
  BY <1>0, <1>o, SameChildren DEF success
<1>7. StreamInv'
  BY <1>0, <1>o, Fixed DEF StreamInv, reading, TypeOK, Process, StageInv, HoldInv, Options, success,
     goto, closes, reports, streams
<1> QED BY <1>1, <1>2, <1>3, <1>4, <1>5, <1>6, <1>7 DEF IInv

(* The child that failed is reaped. *)
LEMMA Inv_reap_failed ==
  ASSUME IInv, reap_failed
  PROVE  IInv'
<1>0. TypeOK /\ SelfInv /\ StageInv /\ HoldInv /\ ReportInv /\ OwnEndsOnly /\ StreamInv
  BY DEF IInv
<1>o. opt' = opt /\ fd'["exe"] = fd["exe"] /\ fd'["mid"] = fd["mid"] /\ fd'["other"] = fd["other"]
  BY <1>0 DEF TypeOK, Process, reap_failed, closes
<1>1. TypeOK'
  BY <1>0, <1>o, Fixed DEF TypeOK, Ends, Process, reap_failed, goto, closes, waited, reports,
     streams
<1>2. SelfInv'
  BY <1>0, <1>o, Fixed DEF SelfInv, TypeOK, StageInv, Options, Process, reap_failed, goto, closes,
     waited, reports, streams
<1>3. StageInv'
  BY <1>0, <1>o, Fixed DEF StageInv, Before, TypeOK, Options, reap_failed, goto, closes, waited,
     reports, streams
<1>4. HoldInv'
  BY <1>0, <1>o, SameChildren DEF reap_failed, waited
<1>5. ReportInv'
  BY <1>0, <1>o, Fixed DEF ReportInv, TypeOK, StageInv, Before, reap_failed, goto, closes, waited,
     reports, streams
<1>6. OwnEndsOnly'
  BY <1>0, <1>o, SameChildren DEF reap_failed, waited
<1>7. StreamInv'
  BY <1>0, <1>o, Fixed DEF StreamInv, reading, TypeOK, Process, StageInv, HoldInv, Options,
     reap_failed, goto, closes, waited, reports, streams
<1> QED BY <1>1, <1>2, <1>3, <1>4, <1>5, <1>6, <1>7 DEF IInv

(* All pipes are closed. *)
LEMMA Inv_fail_pipes ==
  ASSUME IInv, fail_pipes
  PROVE  IInv'
<1>0. TypeOK /\ SelfInv /\ StageInv /\ HoldInv /\ ReportInv /\ OwnEndsOnly /\ StreamInv
  BY DEF IInv
<1>o. opt' = opt /\ fd'["exe"] = fd["exe"] /\ fd'["mid"] = fd["mid"] /\ fd'["other"] = fd["other"]
  BY <1>0 DEF TypeOK, Process, fail_pipes, closes
<1>1. TypeOK'
  BY <1>0, <1>o, Fixed DEF TypeOK, Ends, Process, fail_pipes, goto, closes, reports, streams
<1>2. SelfInv'
  <2>1. /\ fd["self"] \subseteq all_ends /\ pc' = "done" /\ result' = "FALSE"
        /\ fd'["self"] = fd["self"] \ (child_ends \cup parent_ends)
    BY <1>0 DEF TypeOK, Process, SelfInv, fail_pipes, closes, goto
  <2>2. fd'["self"] = {}
    BY <2>1 DEF all_ends
  <2> QED BY <2>1, <2>2 DEF SelfInv
<1>3. StageInv'
  BY <1>0, <1>o, Fixed DEF StageInv, Before, TypeOK, Options, fail_pipes, goto, closes, reports,
     streams
<1>4. HoldInv'
  BY <1>0, <1>o, SameChildren DEF fail_pipes
<1>5. ReportInv'
  BY <1>0, <1>o, Fixed DEF ReportInv, TypeOK, StageInv, Before, fail_pipes, goto, closes, reports,
     streams
<1>6. OwnEndsOnly'
  BY <1>0, <1>o, SameChildren DEF fail_pipes
<1>7. StreamInv'
  BY <1>0, <1>o, Fixed DEF StreamInv, reading, TypeOK, Process, StageInv, HoldInv, Options,
     fail_pipes, goto, closes, reports, streams
<1> QED BY <1>1, <1>2, <1>3, <1>4, <1>5, <1>6, <1>7 DEF IInv

(* The ends of the child are closed. *)
LEMMA Inv_close_ends ==
  ASSUME IInv, close_ends
  PROVE  IInv'
<1>0. TypeOK /\ SelfInv /\ StageInv /\ HoldInv /\ ReportInv /\ OwnEndsOnly /\ StreamInv
  BY DEF IInv
<1>o. opt' = opt /\ fd'["exe"] = fd["exe"] /\ fd'["mid"] = fd["mid"] /\ fd'["other"] = fd["other"]
  BY <1>0 DEF TypeOK, Process, close_ends, closes
<1>f. /\ fd["self"] = all_ends /\ fd'["self"] = fd["self"] \ child_ends
      /\ pc' = (IF opt.sync THEN "read" ELSE "done") /\ result' = (IF opt.sync THEN "none" ELSE "TRUE")
  BY <1>0 DEF TypeOK, Process, SelfInv, close_ends, closes, goto
<1>g. fd'["self"] = parent_ends
  <2>1. child_ends \cap parent_ends = {}
    BY <1>0, TwoEnds DEF TypeOK
  <2> QED BY <1>f, <2>1 DEF all_ends
<1>1. TypeOK'
  BY <1>0, <1>o, Fixed DEF TypeOK, Ends, Process, close_ends, goto, closes, reports, streams
<1>2. SelfInv'
  BY <1>o, <1>f, <1>g, Fixed DEF SelfInv
<1>3. StageInv'
  BY <1>0, <1>o, Fixed DEF StageInv, Before, TypeOK, Options, close_ends, goto, closes, reports,
     streams
<1>4. HoldInv'
  BY <1>0, <1>o, SameChildren DEF close_ends
<1>5. ReportInv'
  BY <1>0, <1>o, Fixed DEF ReportInv, TypeOK, StageInv, Before, close_ends, goto, closes, reports,
     streams
<1>6. OwnEndsOnly'
  BY <1>0, <1>o, SameChildren DEF close_ends
<1>7. StreamInv'
  <2>1. UNCHANGED <<held, written, got>>
    BY DEF close_ends, streams
  <2>2. \A s \in opt.wanted : parent_end(s) \in fd'["self"]
    BY <1>g DEF parent_ends
  <2>3. reading' = opt.wanted
    BY <1>o, <2>2 DEF reading, parent_end
  <2>4. \A s \in Streams : held[s] \in Nat /\ got[s] \in Nat
    BY <1>0 DEF TypeOK
  <2>5. \A s \in Streams : s \notin opt.wanted => held[s] = 0
    BY <1>0, <2>4 DEF StreamInv
  <2> QED BY <1>0, <1>o, <1>f, <2>1, <2>3, <2>5 DEF StreamInv
<1> QED BY <1>1, <1>2, <1>3, <1>4, <1>5, <1>6, <1>7 DEF IInv

(* What was held is collected. *)
LEMMA Inv_read_data ==
  ASSUME IInv, NEW s \in Streams, read_data(s)
  PROVE  IInv'
<1>0. TypeOK /\ SelfInv /\ StageInv /\ HoldInv /\ ReportInv /\ OwnEndsOnly /\ StreamInv
  BY DEF IInv
<1>o. opt' = opt /\ fd' = fd
  BY <1>0 DEF TypeOK, Process, read_data
<1>1. TypeOK'
  <2>1. got[s] + held[s] \in 0 .. MaxOut
    BY <1>0 DEF TypeOK, StreamInv
  <2>2. got' \in [Streams -> 0 .. MaxOut] /\ held' \in [Streams -> 0 .. PipeSize]
    BY <1>0, <2>1, SpawnAssumption DEF TypeOK, read_data
  <2> QED BY <1>0, <2>2 DEF TypeOK, read_data, reports
<1>2. SelfInv'
  BY <1>0, <1>o, SameSelf DEF read_data
<1>3. StageInv'
  BY <1>0, <1>o, Fixed DEF StageInv, Before, TypeOK, Options, read_data, reading, reports
<1>4. HoldInv'
  BY <1>0, <1>o, SameChildren DEF read_data
<1>5. ReportInv'
  BY <1>0, <1>o, Fixed DEF ReportInv, TypeOK, StageInv, Before, read_data, reading, reports
<1>6. OwnEndsOnly'
  BY <1>0, <1>o, SameChildren DEF read_data
<1>7. StreamInv'
  BY <1>0, <1>o, Fixed DEF StreamInv, reading, TypeOK, Process, StageInv, HoldInv, Options,
     read_data, reports
<1> QED BY <1>1, <1>2, <1>3, <1>4, <1>5, <1>6, <1>7 DEF IInv

(* A pipe is closed when nobody can write to it. *)
LEMMA Inv_read_eof ==
  ASSUME IInv, NEW s \in Streams, read_eof(s)
  PROVE  IInv'
<1>0. TypeOK /\ SelfInv /\ StageInv /\ HoldInv /\ ReportInv /\ OwnEndsOnly /\ StreamInv
  BY DEF IInv
<1>o. opt' = opt /\ fd'["exe"] = fd["exe"] /\ fd'["mid"] = fd["mid"] /\ fd'["other"] = fd["other"]
  BY <1>0 DEF TypeOK, Process, read_eof, closes
<1>1. TypeOK'
  BY <1>0, <1>o, Fixed DEF TypeOK, Ends, Process, read_eof, closes, reading, eof, reports, streams
<1>2. SelfInv'
  BY <1>0, <1>o, Fixed DEF SelfInv, TypeOK, StageInv, Options, Process, read_eof, closes, reading,
     eof, reports, streams
<1>3. StageInv'
  BY <1>0, <1>o, Fixed DEF StageInv, Before, TypeOK, Options, read_eof, closes, reading, eof,
     reports, streams
<1>4. HoldInv'
  BY <1>0, <1>o, SameChildren DEF read_eof
<1>5. ReportInv'
  BY <1>0, <1>o, Fixed DEF ReportInv, TypeOK, StageInv, Before, read_eof, closes, reading, eof,
     reports, streams
<1>6. OwnEndsOnly'
  BY <1>0, <1>o, SameChildren DEF read_eof
<1>7. StreamInv'
  <2>1. /\ pc = "read" /\ s \in opt.wanted /\ held[s] = 0 /\ fd'["self"] = fd["self"] \ {parent_end(s)}
        /\ UNCHANGED <<pc, exe, result, held, written, got>>
    BY <1>0 DEF TypeOK, Process, read_eof, reading, closes, streams
  <2>2. exe # "running"
    <3>1. s # "stdin"
      BY <1>0, <2>1 DEF TypeOK, Options, StageInv
    <3>2. <<s, 1>> \in child_ends /\ <<s, 1>> \notin fd["exe"]
      BY <2>1, <3>1 DEF child_ends, child_end, read_eof, eof, Process
    <3> QED BY <1>0, <3>2 DEF OwnEndsOnly
  <2>3. \A u \in Streams : u # s => parent_end(u) # parent_end(s)
    BY DEF parent_end
  <2>4. \A u \in Streams : u # s /\ u \in reading => u \in reading'
    BY <1>o, <2>1, <2>3 DEF reading, parent_end
  <2> QED BY <1>0, <1>o, <2>1, <2>2, <2>4 DEF StreamInv
<1> QED BY <1>1, <1>2, <1>3, <1>4, <1>5, <1>6, <1>7 DEF IInv

(* The program is reaped. *)
LEMMA Inv_sync_wait ==
  ASSUME IInv, sync_wait
  PROVE  IInv'
<1>0. TypeOK /\ SelfInv /\ StageInv /\ HoldInv /\ ReportInv /\ OwnEndsOnly /\ StreamInv
  BY DEF IInv
<1>o. opt' = opt /\ fd' = fd
  BY <1>0 DEF TypeOK, Process, sync_wait
<1>f. /\ opt.sync /\ ~ opt.intermediate_child /\ pid = "exe" /\ mid = "none"
      /\ pc = "read" /\ pc' = "done" /\ result' = "TRUE" /\ pid' = pid /\ reading = {}
  BY <1>0 DEF TypeOK, Options, StageInv, sync_wait, goto
<1>g. mid' = mid /\ exe' = "gone"
  BY <1>f DEF sync_wait, waited
<1>1. TypeOK'
  BY <1>0, <1>o, Fixed DEF TypeOK, Ends, Process, sync_wait, goto, waited, reading, reports, streams
<1>2. SelfInv'
  <2>1. fd["self"] \subseteq parent_ends /\ \A s \in opt.wanted : parent_end(s) \notin fd["self"]
    BY <1>0, <1>f DEF SelfInv, reading
  <2>2. fd["self"] = {}
    BY <2>1 DEF parent_ends
  <2> QED BY <1>o, <1>f, <2>2 DEF SelfInv
<1>3. StageInv'
  BY <1>0, <1>o, <1>f, <1>g DEF StageInv, Before
<1>4. HoldInv'
  BY <1>0, <1>o, SameChildren DEF sync_wait, waited
<1>5. ReportInv'
  BY <1>0, <1>o, Fixed DEF ReportInv, TypeOK, StageInv, Before, sync_wait, goto, waited, reading,
     reports, streams
<1>6. OwnEndsOnly'
  BY <1>0, <1>o, SameChildren DEF sync_wait, waited
<1>7. StreamInv'
  BY <1>0, <1>o, Fixed DEF StreamInv, reading, TypeOK, Process, StageInv, HoldInv, Options,
     sync_wait, goto, waited, reports, streams
<1> QED BY <1>1, <1>2, <1>3, <1>4, <1>5, <1>6, <1>7 DEF IInv

-----------------------------------------------------------------------------
(* At the start the caller has no pipe and no child. *)
LEMMA InitInv == Init => IInv
<1> SUFFICES ASSUME Init PROVE IInv
  OBVIOUS
<1>1. TypeOK
  <2>1. /\ fd \in [Process -> SUBSET Ends] /\ held \in [Streams -> 0 .. PipeSize]
        /\ written \in [Streams -> 0 .. MaxOut] /\ got \in [Streams -> 0 .. MaxOut]
    BY SpawnAssumption DEF Init
  <2> QED BY <2>1 DEF Init, TypeOK
<1>2. SelfInv /\ HoldInv /\ OwnEndsOnly
  BY DEF Init, SelfInv, HoldInv, OwnEndsOnly, Process
<1>3. StageInv
  BY DEF Init, StageInv, Before
<1>4. ReportInv
  BY DEF Init, ReportInv
<1>5. StreamInv
  BY DEF Init, StreamInv
<1> QED BY <1>1, <1>2, <1>3, <1>4, <1>5 DEF IInv

(* Every step of Next preserves the invariant. *)
LEMMA NextInv == IInv /\ [Next]_vars => IInv'
<1> SUFFICES ASSUME IInv, [Next]_vars PROVE IInv'
  OBVIOUS
<1>1. ASSUME Caller PROVE IInv'
  BY <1>1, Inv_open_pipe, Inv_open_pipe_fails, Inv_pipes_open, Inv_do_posix_spawn,
     Inv_posix_spawn_fails, Inv_open_err_pipe, Inv_open_pid_pipe, Inv_open_report_pipe_fails,
     Inv_fork, Inv_fork_fails, Inv_parent_closes, Inv_reap_mid, Inv_read_err, Inv_read_pid,
     Inv_success, Inv_reap_failed, Inv_fail_pipes, Inv_close_ends, Inv_read_data, Inv_read_eof,
     Inv_sync_wait, Zenon DEF Caller
<1>2. ASSUME Intermediate \/ write_err PROVE IInv'
  BY <1>2, Inv_mid_closes, Inv_mid_forks, Inv_mid_fork_fails, Inv_mid_exits, Inv_write_err, Zenon
     DEF Intermediate
<1>3. ASSUME Child \/ Program PROVE IInv'
  BY <1>3, Inv_exe_closes, Inv_do_exec, Inv_do_exec_fails, Inv_program_writes, Inv_exe_exits, Zenon
     DEF Child, Program
<1>4. ASSUME NEW p \in {"mid", "exe"}, kill(p) PROVE IInv'
  BY <1>4, Inv_kill
<1>5. ASSUME other_starts \/ other_exits PROVE IInv'
  BY <1>5, Inv_other_starts, Inv_other_exits
<1>6. CASE UNCHANGED vars
  <2>1. opt' = opt /\ fd' = fd /\ UNCHANGED <<pc, mid, exe, err, pids, pid, result, ran, killed>>
        /\ UNCHANGED <<held, written, got>>
    BY <1>6 DEF vars
  <2>2. TypeOK' /\ SelfInv' /\ HoldInv' /\ OwnEndsOnly'
    BY <2>1, SameSelf, SameChildren DEF IInv, TypeOK
  <2>3. StageInv' /\ ReportInv'
    BY <2>1 DEF IInv, StageInv, ReportInv
  <2>4. StreamInv'
    BY <2>1 DEF IInv, StreamInv, reading
  <2> QED BY <2>2, <2>3, <2>4 DEF IInv
<1> QED BY <1>1, <1>2, <1>3, <1>4, <1>5, <1>6 DEF Next

(* The invariant holds in every reachable state of a call, whatever it asks  *)
(* for.                                                                      *)
THEOREM Invariance == Spec => []IInv
  BY InitInv, NextInv, PTL DEF Spec

(* Unless a child is killed, fork_exec_with_fds returns TRUE exactly when    *)
(* the program was started, and then with the program's pid, in whatever     *)
(* order the three processes write and read the two report pipes.            *)
THEOREM ReportedTruly == Spec => []Reported
<1>1. IInv => Reported
  <2> SUFFICES ASSUME IInv, pc = "done", ~ killed
               PROVE  (result = "TRUE" <=> ran) /\ (result = "TRUE" => pid = "exe")
    BY DEF Reported
  <2>1. result \in {"TRUE", "FALSE"}
    BY DEF IInv, TypeOK, StageInv
  <2>2. CASE result = "TRUE"
    BY <2>2 DEF IInv, ReportInv
  <2>3. CASE result = "FALSE"
    <3>1. ran => err = <<>> /\ exe # "none"
      BY DEF IInv, ReportInv
    <3>2. Len(err) = 2 \/ exe = "none"
      BY <2>3 DEF IInv, ReportInv
    <3>3. err = <<>> => Len(err) = 0
      BY Writes
    <3> QED BY <2>3, <3>1, <3>2, <3>3
  <2> QED BY <2>1, <2>2, <2>3
<1> QED BY <1>1, Invariance, PTL

(* Wherever the call fails, the caller keeps no descriptor it did not ask    *)
(* for and no child that it would have to reap.                              *)
THEOREM NothingKept == Spec => []NothingLeftBehind
<1>1. IInv => NothingLeftBehind
  <2> SUFFICES ASSUME IInv, pc = "done"
               PROVE  /\ fd["self"] = IF result = "TRUE" /\ ~ opt.sync THEN parent_ends ELSE {}
                      /\ mid \in {"none", "gone"}
                      /\ exe \notin {"none", "gone"} =>
                           opt.intermediate_child \/ (result = "TRUE" /\ ~ opt.sync)
    BY DEF NothingLeftBehind
  <2>1. fd["self"] = IF result = "TRUE" /\ ~ opt.sync THEN parent_ends ELSE {}
    BY DEF IInv, SelfInv
  <2>2. result \in {"TRUE", "FALSE"}
    BY DEF IInv, TypeOK, StageInv
  <2>3. mid \in {"none", "gone"}
    BY <2>2 DEF IInv, StageInv
  <2>4. exe \notin {"none", "gone"} => opt.intermediate_child \/ (result = "TRUE" /\ ~ opt.sync)
    BY <2>2 DEF IInv, StageInv
  <2> QED BY <2>1, <2>3, <2>4
<1> QED BY <1>1, Invariance, PTL

(* The program, started by do_exec or by posix_spawn and with whatever       *)
(* options, has its ends of the streams, never a report pipe, and never the  *)
(* caller's end of a stream, except that of stdout where stdin is not a pipe *)
(* and nothing is closed or marked.                                          *)
THEOREM NoStrayEnds == Spec => []OwnEndsOnly
<1>1. IInv => OwnEndsOnly
  BY DEF IInv
<1> QED BY <1>1, Invariance, PTL

(* g_spawn_sync closes a pipe only when nothing more can come through it, so *)
(* it returns with all that the program wrote, for any size of the pipes.    *)
THEOREM NothingLost == Spec => []OutputComplete
<1>1. IInv => OutputComplete
  <2> SUFFICES ASSUME IInv, pc = "done", opt.sync, result = "TRUE"
               PROVE  got = written
    BY DEF OutputComplete
  <2>1. reading = {}
    BY DEF IInv, SelfInv, reading
  <2>2. \A s \in Streams : got[s] \in Nat /\ written[s] = got[s] + held[s] /\ held[s] = 0
    BY <2>1 DEF IInv, TypeOK, StreamInv
  <2>3. \A s \in Streams : got[s] = written[s]
    BY <2>2
  <2> QED BY <2>3 DEF IInv, TypeOK
<1> QED BY <1>1, Invariance, PTL
=============================================================================
