----------------------------- MODULE PopenProofs -----------------------------
(***************************************************************************)
(* The descriptor table of popen and pclose for any number of streams and   *)
(* descriptors and both sources: IInv is inductive, one lemma per action.   *)
(***************************************************************************)
EXTENDS Popen, TLAPS, FiniteSetTheorems, WellFoundedInduction

(* What it is to be an end of a pipe. *)
LEMMA IsFact ==
  ASSUME NEW f \in File, NEW x \in {"parent", "child"}, NEW y
  PROVE  Is(y, f, x) <=> y \in PipeEnd /\ y.file = f /\ y.end = x
<1>1. ASSUME Is(y, f, x) PROVE y \in PipeEnd /\ y.file = f /\ y.end = x
  BY <1>1 DEF Is, End, PipeEnd
<1>2. ASSUME y \in PipeEnd, y.file = f, y.end = x PROVE Is(y, f, x)
  <2>1. y = End(f, x, y.cloexec) /\ y.cloexec \in BOOLEAN
    BY <1>2 DEF End, PipeEnd
  <2> QED BY <2>1 DEF Is
<1> QED BY <1>1, <1>2

LEMMA EndFact ==
  ASSUME NEW f \in File, NEW x \in {"parent", "child"}, NEW c \in BOOLEAN
  PROVE  /\ End(f, x, c) \in PipeEnd /\ End(f, x, c).file = f /\ End(f, x, c).end = x
         /\ End(f, x, c).cloexec = c
  BY DEF End, PipeEnd

(* The kernel's choice is one of the unused descriptors. *)
LEMMA LowestFact ==
  ASSUME NEW S \in SUBSET Fd, S # {}
  PROVE  Lowest(S) \in S
<1>1. S \subseteq Nat
  BY PopenAssumption
<1> DEFINE R == {ss \in Nat \X Nat : ss[1] < ss[2]}
<1>2. IsWellFoundedOn(R, Nat)
  BY NatLessThanWellFounded, Zenon DEF OpToRel
<1> HIDE DEF R
<1>3. PICK n \in S : \A k \in S : ~ (<<k, n>> \in R)
  BY <1>1, <1>2, WFMin
<1>4. \A k \in S : n <= k
  <2> SUFFICES ASSUME NEW k \in S, ~ (n <= k) PROVE FALSE
    OBVIOUS
  <2>1. n \in Nat /\ k \in Nat /\ k < n
    BY <1>1
  <2>2. <<k, n>> \in Nat \X Nat /\ <<k, n>>[1] = k /\ <<k, n>>[2] = n
    BY <2>1
  <2>3. <<k, n>> \in R
    BY <2>1, <2>2, Zenon DEF R
  <2> QED BY <1>3, <2>3
<1> QED BY <1>4 DEF Lowest

(* Two unused descriptors, where there are two. *)
LEMMA TwoUnused ==
  ASSUME Cardinality(Unused) >= 2
  PROVE  /\ Lowest(Unused) \in Unused
         /\ Lowest(Unused \ {Lowest(Unused)}) \in Unused \ {Lowest(Unused)}
<1>1. Unused \subseteq Fd
  BY DEF Unused
<1>2. Unused # {}
  BY FS_EmptySet
<1>3. Lowest(Unused) \in Unused
  BY <1>1, <1>2, LowestFact
<1>4. Unused # {Lowest(Unused)}
  <2>1. Cardinality({Lowest(Unused)}) = 1
    BY FS_Singleton
  <2> QED BY <2>1
<1>5. Unused \ {Lowest(Unused)} # {}
  BY <1>3, <1>4
<1> QED BY <1>1, <1>3, <1>5, LowestFact

-----------------------------------------------------------------------------
(* Not the end of the pipe of another stream. *)
Mine(x, f) == x \notin PipeEnd \/ x.file = f

(* TableClean, for one stream. *)
EntryOK(n, f) ==
  fds[n] \in PipeEnd /\ fds[n].file = f =>
    IF fds[n].end = "child" THEN stage[f] \in {"piped", "moved", "forked"} /\ cfd[f] = n
                            ELSE stage[f] \notin {"closed", "waiting", "lost"} /\ pfd[f] = n

StreamOK(f) ==
  /\ stage[f] \in {"closed", "piped", "moved"} => child[f] = NoShell
  /\ stage[f] \in {"piped", "moved", "forked"} => Is(fds[cfd[f]], f, "child")
  /\ stage[f] \notin {"closed", "waiting", "lost"} => Is(fds[pfd[f]], f, "parent")

(* The rest of the process, as a step of the call for f leaves it. *)
OthersKept(f) ==
  \A g \in File \ {f} :
    /\ stage'[g] = stage[g] /\ pfd'[g] = pfd[g] /\ cfd'[g] = cfd[g]
    /\ child[g] = NoShell => child'[g] = NoShell

OwnTouched(f) == \A n \in Fd : fds'[n] = fds[n] \/ (Mine(fds[n], f) /\ Mine(fds'[n], f))

SealedOK(n, f) ==
  fds[n] \in PipeEnd /\ fds[n].file = f /\ stage[f] \in {"piped", "moved", "forked"} => fds[n].cloexec

LEMMA TableParts ==
  TypeOK => (TableClean <=> \A f \in File : StreamOK(f) /\ \A n \in Fd : EntryOK(n, f))
<1> SUFFICES ASSUME TypeOK PROVE TableClean <=> \A f \in File : StreamOK(f) /\ \A n \in Fd : EntryOK(n, f)
  OBVIOUS
<1>1. \A n \in Fd : fds[n] \in PipeEnd => fds[n].file \in File
  BY DEF PipeEnd
<1> QED BY <1>1 DEF TableClean, StreamOK, EntryOK

(* A step of the call for stream f leaves the table right when it touches     *)
(* only unused descriptors and ends of its own pipe, and leaves f itself      *)
(* right.                                                                     *)
LEMMA TableStep ==
  ASSUME TypeOK, TypeOK', TableClean, SealInv, NEW f \in File,
         OthersKept(f), OwnTouched(f),
         StreamOK(f)', \A n \in Fd : EntryOK(n, f)', \A n \in Fd : SealedOK(n, f)'
  PROVE  /\ TableClean'
         /\ \A n \in Fd : fds'[n] \in PipeEnd /\ stage'[fds'[n].file] \in {"piped", "moved", "forked"} =>
              fds'[n].cloexec
<1>1. \A g \in File : StreamOK(g) /\ \A n \in Fd : EntryOK(n, g)
  BY TableParts
<1>2. ASSUME NEW g \in File \ {f}, NEW n \in Fd
      PROVE  EntryOK(n, g)' /\ SealedOK(n, g)'
  <2>1. EntryOK(n, g)
    BY <1>1
  <2>2. SealedOK(n, g)
    BY DEF SealInv, SealedOK
  <2>3. fds'[n] = fds[n] \/ ~ (fds'[n] \in PipeEnd /\ fds'[n].file = g)
    BY DEF OwnTouched, Mine
  <2> QED BY <2>1, <2>2, <2>3 DEF EntryOK, SealedOK, OthersKept
<1>3. ASSUME NEW g \in File \ {f} PROVE StreamOK(g)'
  <2>1. StreamOK(g)
    BY <1>1
  <2>2. ASSUME NEW n \in Fd, NEW x \in {"parent", "child"}, Is(fds[n], g, x)
        PROVE  Is(fds'[n], g, x)
    <3>1. fds[n] \in PipeEnd /\ fds[n].file = g
      BY <2>2, IsFact
    <3>2. fds'[n] = fds[n]
      BY <3>1 DEF OwnTouched, Mine
    <3> QED BY <2>2, <3>2
  <2>3. pfd[g] \in Fd /\ cfd[g] \in Fd
    BY DEF TypeOK
  <2> QED BY <2>1, <2>2, <2>3 DEF StreamOK, OthersKept
<1>4. \A g \in File : StreamOK(g)' /\ \A n \in Fd : EntryOK(n, g)'
  BY <1>2, <1>3
<1>6. \A n \in Fd : fds'[n] \in PipeEnd => fds'[n].file \in File
  BY DEF PipeEnd
<1>5. TableClean'
  BY <1>4, <1>6 DEF TableClean, StreamOK, EntryOK
<1>7. \A g \in File, n \in Fd : SealedOK(n, g)'
  BY <1>2
<1> QED BY <1>5, <1>6, <1>7 DEF SealedOK

-----------------------------------------------------------------------------
(* The shells after forget(f) are the same, some without an end they had. *)
LEMMA ForgetFact ==
  ASSUME TypeOK, NEW f \in File
  PROVE  /\ forget(f) \in [File -> {NoShell, Zombie} \cup Shell]
         /\ \A g \in File : \/ forget(f)[g] = child[g]
                            \/ /\ child[g] \in Shell /\ forget(f)[g] \in Shell
                               /\ forget(f)[g].std = child[g].std
                               /\ forget(f)[g].leaving = child[g].leaving
                               /\ forget(f)[g].holds \subseteq child[g].holds
<1>1. \A g \in File : child[g].st = "running" <=> child[g] \in Shell
  BY DEF TypeOK, NoShell, Zombie, Shell
<1>2. ASSUME NEW c \in Shell
      PROVE  LET d == [c EXCEPT !.holds = @ \ {f}]
             IN  d \in Shell /\ d.std = c.std /\ d.leaving = c.leaving /\ d.holds \subseteq c.holds
  BY DEF Shell
<1>3. ASSUME NEW g \in File
      PROVE  /\ forget(f)[g] \in {NoShell, Zombie} \cup Shell
             /\ \/ forget(f)[g] = child[g]
                \/ /\ child[g] \in Shell /\ forget(f)[g] \in Shell
                   /\ forget(f)[g].std = child[g].std
                   /\ forget(f)[g].leaving = child[g].leaving
                   /\ forget(f)[g].holds \subseteq child[g].holds
  <2>1. CASE child[g].st # "running"
    BY <2>1 DEF forget, TypeOK
  <2>2. CASE child[g].st = "running"
    <3>1. child[g] \in Shell /\ forget(f)[g] = [child[g] EXCEPT !.holds = @ \ {f}]
      BY <2>2, <1>1 DEF forget
    <3> QED BY <3>1, <1>2
  <2> QED BY <2>1, <2>2
<1>4. forget(f) = [g \in File |-> forget(f)[g]]
  BY DEF forget
<1> QED BY <1>3, <1>4

(* Which shells are running. *)
LEMMA ShellKinds ==
  ASSUME TypeOK
  PROVE  \A g \in File : child[g].st = "running" <=> child[g] \in Shell
  BY DEF TypeOK, NoShell, Zombie, Shell

(* Where a stream's shell is started. *)
Ready(f) == stage[f] = "moved" \/ (stage[f] = "piped" /\ version = "2.27")

(* A new shell has its own end of its pipe in place, because the number the   *)
(* call keeps still refers to it and, with 2.32, is not the place itself.  It *)
(* has not the other end, which is close-on-exec, and with 2.32 no parent end *)
(* but of streams that are being closed: an open stream is in the chain and   *)
(* so closed in the shell, one not yet open is close-on-exec.                 *)
LEMMA NewShell ==
  ASSUME IInv, NEW f \in File, Ready(f)
  PROVE  /\ shell(f) \in Shell
         /\ Is(shell(f).std, f, "child") /\ f \notin shell(f).holds
         /\ version = "2.32" => shell(f).holds \subseteq shell(f).leaving
<1> DEFINE std == child_pipe_fd(f)
           own == IF cfd[f] = std /\ version = "2.32" THEN fds[std] ELSE kept(fds[cfd[f]])
           closed == {pfd[p] : p \in chain} \ {std}
           table == inherits(f)
<1>0. TypeOK /\ TableClean /\ SealInv
  BY DEF IInv
<1>1. std \in Fd
  BY PopenAssumption DEF child_pipe_fd
<1>a. own = kept(fds[cfd[f]])
  BY <1>0, PopenAssumption DEF Ready, SealInv, TypeOK
<1>b. fds[cfd[f]] \in PipeEnd /\ fds[cfd[f]].file = f /\ fds[cfd[f]].end = "child"
  BY <1>0, IsFact DEF TableClean, Ready
<1>c. own \in PipeEnd /\ own.file = f /\ own.end = "child" /\ own.cloexec = FALSE
  <2>1. own = [fds[cfd[f]] EXCEPT !.cloexec = FALSE]
    BY <1>a, <1>b DEF kept
  <2> HIDE DEF own
  <2> QED BY <1>b, <2>1 DEF PipeEnd
<1>2. /\ table[std] = own
      /\ \A n \in Fd \ {std} :
           table[n] = IF n \in closed \/ (fds[n] \in PipeEnd /\ fds[n].cloexec) THEN None ELSE fds[n]
  <2> DEFINE T == [fds EXCEPT ![std] = own]
  <2>1. \A n \in Fd : table[n] = IF n \in closed \/ (T[n] \in PipeEnd /\ T[n].cloexec) THEN None ELSE T[n]
    BY DEF inherits
  <2> HIDE DEF own, std, table
  <2>2. T[std] = own /\ \A n \in Fd \ {std} : T[n] = fds[n]
    BY <1>0, <1>1 DEF TypeOK
  <2> HIDE DEF T
  <2> QED BY <1>1, <1>c, <2>1, <2>2
<1>3. /\ shell(f) = [st |-> "running", std |-> table[std],
                     holds |-> {g \in File : \E n \in Fd : Is(table[n], g, "parent")},
                     leaving |-> {g \in File : stage[g] \in {"unlinked", "waiting"}}]
  BY DEF shell
<1> HIDE DEF std, table, own
<1>4. table[std] \in PipeEnd /\ Is(table[std], f, "child") /\ table[std].end = "child"
  BY <1>2, <1>c, IsFact
<1>5. ASSUME NEW g \in File, NEW n \in Fd, Is(table[n], g, "parent")
      PROVE  /\ n # std /\ n \notin closed /\ stage[g] \notin {"closed", "waiting", "lost"} /\ pfd[g] = n
             /\ stage[g] \notin {"piped", "moved", "forked"}
  <2>1. table[n] \in PipeEnd /\ table[n].file = g /\ table[n].end = "parent"
    BY <1>5, IsFact
  <2>2. n # std
    BY <2>1, <1>4
  <2>3. table[n] = fds[n] /\ n \notin closed /\ ~ fds[n].cloexec
    BY <1>2, <2>1, <2>2, PopenAssumption
  <2>4. stage[g] \notin {"closed", "waiting", "lost"} /\ pfd[g] = n
    BY <1>0, <2>1, <2>3 DEF TableClean
  <2>5. stage[g] \notin {"piped", "moved", "forked"}
    BY <1>0, <2>1, <2>3 DEF SealInv
  <2> QED BY <2>2, <2>3, <2>4, <2>5
<1>6. shell(f) \in Shell
  BY <1>3, <1>4 DEF Shell
<1>7. shell(f).std = table[std]
  BY <1>3
<1>8. /\ shell(f).holds = {g \in File : \E n \in Fd : Is(table[n], g, "parent")}
      /\ shell(f).leaving = {g \in File : stage[g] \in {"unlinked", "waiting"}}
  BY <1>3
<1>9. ASSUME version = "2.32" PROVE shell(f).holds \subseteq shell(f).leaving
  <2> SUFFICES ASSUME NEW g \in File, NEW n \in Fd, Is(table[n], g, "parent")
               PROVE  stage[g] \in {"unlinked", "waiting"}
    BY <1>8
  <2>1. /\ n # std /\ n \notin closed /\ stage[g] \notin {"closed", "waiting", "lost"} /\ pfd[g] = n
        /\ stage[g] \notin {"piped", "moved", "forked"}
    BY <1>5
  <2>2. stage[g] # "open" /\ stage[g] # "unsealed"
    BY <1>0, <1>9, <2>1 DEF SealInv
  <2>3. stage[g] \in Stages
    BY <1>0 DEF TypeOK
  <2> QED BY <2>1, <2>2, <2>3 DEF Stages
<1>10. f \notin shell(f).holds
  BY <1>5, <1>8 DEF Ready
<1> QED BY <1>4, <1>6, <1>7, <1>9, <1>10

(* A step keeps what is known of the shells when each shell after it is one   *)
(* that was there, perhaps with less, none, or a new one.                     *)
LEMMA ShellStep ==
  ASSUME IInv, TypeOK', version' = version,
         \A g \in File :
           \/ child'[g] \in {child[g], NoShell, Zombie}
           \/ /\ child[g] \in Shell /\ child'[g] \in Shell
              /\ child'[g].std = child[g].std /\ child'[g].leaving = child[g].leaving
              /\ child'[g].holds \subseteq child[g].holds
           \/ child'[g] = shell(g) /\ Ready(g)
  PROVE  OwnPipe' /\ SealedWhenOpen'
<1>1. \A g \in File : child[g].st = "running" <=> child[g] \in Shell
  BY ShellKinds DEF IInv
<1>2. \A g \in File : child'[g].st = "running" <=> child'[g] \in Shell
  BY DEF TypeOK, NoShell, Zombie, Shell
<1>3. NoShell \notin Shell /\ Zombie \notin Shell
  BY DEF NoShell, Zombie, Shell
<1>4. ASSUME NEW g \in File, child'[g] \in Shell
      PROVE  /\ Is(child'[g].std, g, "child") /\ g \notin child'[g].holds
             /\ version = "2.32" => child'[g].holds \subseteq child'[g].leaving
  <2>1. CASE child'[g] = shell(g) /\ Ready(g)
    BY <2>1, NewShell
  <2>2. CASE ~ (child'[g] = shell(g) /\ Ready(g))
    <3>1. child[g].st = "running"
      BY <1>1, <1>3, <1>4, <2>2
    <3>2. Is(child[g].std, g, "child") /\ g \notin child[g].holds /\ (version = "2.32" => child[g].holds \subseteq child[g].leaving)
      BY <3>1 DEF IInv, OwnPipe, SealedWhenOpen
    <3> QED BY <1>3, <1>4, <2>2, <3>2
  <2> QED BY <2>1, <2>2
<1> QED BY <1>2, <1>4 DEF OwnPipe, SealedWhenOpen

-----------------------------------------------------------------------------
(* At the start no pipe and no shell exists. *)
LEMMA InitInv == Init => IInv
<1> SUFFICES ASSUME Init PROVE IInv
  OBVIOUS
<1> USE DEF Init
<1>1. TypeOK
  BY PopenAssumption DEF TypeOK, Stages
<1>2. \A n \in Fd : fds[n] \notin PipeEnd
  BY PopenAssumption
<1>3. \A f \in File : child[f].st # "running"
  BY DEF NoShell
<1>4. OwnPipe /\ SealedWhenOpen
  BY <1>3 DEF OwnPipe, SealedWhenOpen
<1>5. TableClean
  BY <1>2 DEF TableClean
<1>6. SealInv
  BY <1>2 DEF SealInv
<1> QED BY <1>1, <1>4, <1>5, <1>6 DEF IInv

(* Two unused descriptors become the ends of the pipe. *)
LEMMA Inv_popen ==
  ASSUME IInv, NEW f \in File, NEW m \in {"r", "w"}, NEW c \in BOOLEAN, popen(f, m, c)
  PROVE  IInv'
<1>0. TypeOK /\ TableClean /\ SealInv
  BY DEF IInv
<1>k. StreamOK(f) /\ \A n \in Fd : EntryOK(n, f)
  BY <1>0, TableParts
<1> DEFINE fd0 == Lowest(Unused)
           fd1 == Lowest(Unused \ {fd0})
<1>a. fd0 \in Unused /\ fd1 \in Unused \ {fd0}
  BY TwoUnused DEF popen, make_pipe
<1>b. PICK p \in Fd, k \in Fd :
        /\ p # k /\ fds[p] = None /\ fds[k] = None
        /\ pfd' = [pfd EXCEPT ![f] = p] /\ cfd' = [cfd EXCEPT ![f] = k]
        /\ fds' = [fds EXCEPT ![p] = End(f, "parent", TRUE), ![k] = End(f, "child", TRUE)]
  <2>1. fd0 \in Fd /\ fd1 \in Fd /\ fd0 # fd1 /\ fds[fd0] = None /\ fds[fd1] = None
    BY <1>a DEF Unused
  <2>2. /\ pfd' = [pfd EXCEPT ![f] = IF m = "r" THEN fd0 ELSE fd1]
        /\ cfd' = [cfd EXCEPT ![f] = IF m = "r" THEN fd1 ELSE fd0]
        /\ fds' = [fds EXCEPT ![IF m = "r" THEN fd0 ELSE fd1] = End(f, "parent", TRUE),
                              ![IF m = "r" THEN fd1 ELSE fd0] = End(f, "child", TRUE)]
    BY DEF popen, make_pipe
  <2> HIDE DEF fd0, fd1
  <2> QED BY <2>1, <2>2
<1>c. /\ stage[f] = "closed" /\ stage' = [stage EXCEPT ![f] = "piped"] /\ child' = forget(f)
      /\ mode' = [mode EXCEPT ![f] = m] /\ e' = [e EXCEPT ![f] = c] /\ chain' = chain /\ version' = version
  BY DEF popen, make_pipe, goto
<1>p. /\ End(f, "parent", TRUE) \in PipeEnd /\ End(f, "parent", TRUE).file = f
      /\ End(f, "parent", TRUE).end = "parent" /\ End(f, "parent", TRUE).cloexec = TRUE
      /\ End(f, "child", TRUE) \in PipeEnd /\ End(f, "child", TRUE).file = f
      /\ End(f, "child", TRUE).end = "child" /\ End(f, "child", TRUE).cloexec = TRUE
  BY EndFact
<1>q. fds'[p] = End(f, "parent", TRUE) /\ fds'[k] = End(f, "child", TRUE) /\ \A n \in Fd \ {p, k} : fds'[n] = fds[n]
  BY <1>0, <1>b DEF TypeOK
<1>s. \A g \in File :
        \/ child'[g] \in {child[g], NoShell, Zombie}
        \/ /\ child[g] \in Shell /\ child'[g] \in Shell
           /\ child'[g].std = child[g].std /\ child'[g].leaving = child[g].leaving
           /\ child'[g].holds \subseteq child[g].holds
        \/ child'[g] = shell(g) /\ Ready(g)
  BY <1>0, <1>c, ForgetFact
<1>v. NoShell \notin Shell
  BY DEF NoShell, Shell
<1>w. \A g \in File : child[g] = NoShell => child'[g] = NoShell
  BY <1>0, <1>c, <1>v, ForgetFact
<1>1. TypeOK'
  <2>1. child' \in [File -> {NoShell, Zombie} \cup Shell]
    BY <1>0, <1>c, ForgetFact
  <2> QED BY <1>0, <1>b, <1>c, <1>p, <2>1 DEF TypeOK, Stages
<1>2. OthersKept(f)
  BY <1>0, <1>b, <1>c, <1>w DEF TypeOK, OthersKept
<1>3. OwnTouched(f)
  BY <1>b, <1>p, <1>q, PopenAssumption DEF OwnTouched, Mine
<1>4. StreamOK(f)'
  <2>1. stage'[f] = "piped" /\ pfd'[f] = p /\ cfd'[f] = k /\ child'[f] = NoShell
    BY <1>0, <1>b, <1>c, <1>k, <1>w DEF TypeOK, StreamOK
  <2>2. Is(fds'[p], f, "parent")
    BY <1>p, <1>q, IsFact
  <2>3. Is(fds'[k], f, "child")
    BY <1>p, <1>q, IsFact
  <2> QED BY <2>1, <2>2, <2>3 DEF StreamOK
<1>5. \A n \in Fd : EntryOK(n, f)'
  <2>1. stage'[f] = "piped" /\ pfd'[f] = p /\ cfd'[f] = k
    BY <1>0, <1>b, <1>c DEF TypeOK
  <2>2. \A n \in Fd : ~ (fds[n] \in PipeEnd /\ fds[n].file = f)
    BY <1>c, <1>k DEF EntryOK
  <2>3. ASSUME NEW n \in Fd \ {p, k} PROVE EntryOK(n, f)'
    BY <1>q, <2>2 DEF EntryOK
  <2>4. EntryOK(p, f)' /\ EntryOK(k, f)'
    BY <1>p, <1>q, <2>1 DEF EntryOK
  <2> QED BY <2>3, <2>4
<1>6. \A n \in Fd : SealedOK(n, f)'
  <2>2. \A n \in Fd : ~ (fds[n] \in PipeEnd /\ fds[n].file = f)
    BY <1>c, <1>k DEF EntryOK
  <2> QED BY <1>p, <1>q, <2>2 DEF SealedOK
<1>7. TableClean' /\ \A n \in Fd : fds'[n] \in PipeEnd /\ stage'[fds'[n].file] \in {"piped", "moved", "forked"} => fds'[n].cloexec
  BY <1>0, <1>1, <1>2, <1>3, <1>4, <1>5, <1>6, TableStep
<1>8. SealInv'
  <2>1. \A g \in File : stage'[g] = "open" => g \in chain'
    BY <1>0, <1>c DEF SealInv, TypeOK
  <2>2. version' = "2.32" => \A g \in File : stage'[g] \notin {"forked", "unsealed"}
    BY <1>0, <1>c DEF SealInv, TypeOK
  <2>3. \A g \in File : stage'[g] = "moved" => cfd'[g] # child_pipe_fd(g)'
    BY <1>0, <1>b, <1>c DEF SealInv, TypeOK, child_pipe_fd
  <2> QED BY <1>7, <2>1, <2>2, <2>3 DEF SealInv
<1>9. OwnPipe' /\ SealedWhenOpen'
  BY <1>s, <1>1, <1>c, ShellStep
<1> QED BY <1>1, <1>7, <1>8, <1>9 DEF IInv

(* The child end goes to an unused descriptor, or stays. *)
LEMMA Inv_move_child_end ==
  ASSUME IInv, NEW f \in File, move_child_end(f)
  PROVE  IInv'
<1>0. TypeOK /\ TableClean /\ SealInv
  BY DEF IInv
<1>k. StreamOK(f) /\ \A n \in Fd : EntryOK(n, f)
  BY <1>0, TableParts
<1>c. /\ stage[f] = "piped" /\ stage' = [stage EXCEPT ![f] = "moved"] /\ child' = child
      /\ mode' = mode /\ e' = e /\ chain' = chain /\ version' = version /\ pfd' = pfd
  BY DEF move_child_end, goto
<1>b. PICK k \in Fd :
        /\ k = cfd[f] \/ fds[k] = None
        /\ cfd' = [cfd EXCEPT ![f] = k]
        /\ k # child_pipe_fd(f)
        /\ \/ k = cfd[f] /\ fds' = fds
           \/ fds[k] = None /\ fds' = [fds EXCEPT ![k] = End(f, "child", TRUE), ![cfd[f]] = None]
  <2>1. CASE cfd[f] = child_pipe_fd(f)
    <3> DEFINE tmp == Lowest(Unused)
    <3>1. tmp \in Unused
      <4>1. Unused # {} /\ Unused \subseteq Fd
        BY <2>1 DEF move_child_end, Unused
      <4> QED BY <4>1, LowestFact
    <3>2. /\ fds' = [fds EXCEPT ![tmp] = End(f, "child", TRUE), ![cfd[f]] = None]
          /\ cfd' = [cfd EXCEPT ![f] = tmp]
      BY <2>1 DEF move_child_end
    <3> HIDE DEF tmp
    <3>3. tmp \in Fd /\ fds[tmp] = None
      BY <3>1 DEF Unused
    <3>4. fds[cfd[f]] # None
      BY <1>c, <1>k, IsFact, PopenAssumption DEF StreamOK
    <3> QED BY <2>1, <3>2, <3>3, <3>4
  <2>2. CASE cfd[f] # child_pipe_fd(f)
    <3>1. fds' = fds /\ cfd' = cfd
      BY <2>2 DEF move_child_end
    <3>2. cfd[f] \in Fd /\ cfd = [cfd EXCEPT ![f] = cfd[f]]
      BY <1>0 DEF TypeOK
    <3> QED BY <2>2, <3>1, <3>2
  <2> QED BY <2>1, <2>2
<1>i. cfd[f] \in Fd /\ pfd[f] \in Fd /\ Is(fds[cfd[f]], f, "child") /\ Is(fds[pfd[f]], f, "parent") /\ child[f] = NoShell
  BY <1>0, <1>c, <1>k DEF TypeOK, StreamOK
<1>j. /\ fds[cfd[f]] \in PipeEnd /\ fds[cfd[f]].file = f /\ fds[cfd[f]].end = "child"
      /\ fds[pfd[f]] \in PipeEnd /\ fds[pfd[f]].file = f /\ fds[pfd[f]].end = "parent"
      /\ None \notin PipeEnd
  BY <1>i, IsFact, PopenAssumption
<1>p. /\ End(f, "child", TRUE) \in PipeEnd /\ End(f, "child", TRUE).file = f
      /\ End(f, "child", TRUE).end = "child" /\ End(f, "child", TRUE).cloexec = TRUE
  BY EndFact
<1>q. \/ k = cfd[f] /\ fds' = fds
      \/ /\ k # cfd[f] /\ fds[k] = None /\ fds'[k] = End(f, "child", TRUE) /\ fds'[cfd[f]] = None
         /\ \A n \in Fd \ {k, cfd[f]} : fds'[n] = fds[n]
  BY <1>0, <1>b, <1>i, <1>j DEF TypeOK
<1>r. stage'[f] = "moved" /\ pfd'[f] = pfd[f] /\ cfd'[f] = k /\ child'[f] = NoShell
  BY <1>0, <1>b, <1>c, <1>i DEF TypeOK
<1>s. \A g \in File :
        \/ child'[g] \in {child[g], NoShell, Zombie}
        \/ /\ child[g] \in Shell /\ child'[g] \in Shell
           /\ child'[g].std = child[g].std /\ child'[g].leaving = child[g].leaving
           /\ child'[g].holds \subseteq child[g].holds
        \/ child'[g] = shell(g) /\ Ready(g)
  BY <1>0, <1>c DEF TypeOK
<1>1. TypeOK'
  <2>1. fds' \in [Fd -> {None, Std} \cup PipeEnd]
    BY <1>0, <1>b, <1>p DEF TypeOK
  <2> QED BY <1>0, <1>b, <1>c, <2>1 DEF TypeOK, Stages
<1>2. OthersKept(f)
  BY <1>0, <1>b, <1>c DEF TypeOK, OthersKept
<1>3. OwnTouched(f)
  BY <1>j, <1>p, <1>q DEF OwnTouched, Mine
<1>4. StreamOK(f)'
  <2>1. Is(fds'[k], f, "child")
    <3>1. Is(End(f, "child", TRUE), f, "child")
      BY <1>p, IsFact
    <3> QED BY <1>i, <1>q, <3>1
  <2>2. fds'[pfd[f]] = fds[pfd[f]]
    BY <1>i, <1>j, <1>q
  <2> QED BY <1>i, <1>r, <2>1, <2>2 DEF StreamOK
<1>5. \A n \in Fd : EntryOK(n, f)'
  <2> SUFFICES ASSUME NEW n \in Fd PROVE EntryOK(n, f)'
    OBVIOUS
  <2>1. EntryOK(n, f)
    BY <1>k
  <2>2. CASE fds' = fds /\ k = cfd[f]
    BY <1>c, <1>r, <2>1, <2>2 DEF EntryOK
  <2>3. CASE ~ (fds' = fds /\ k = cfd[f]) /\ n \notin {k, cfd[f]}
    <3>1. fds'[n] = fds[n]
      BY <1>q, <2>3
    <3> QED BY <1>c, <1>r, <2>1, <2>3, <3>1 DEF EntryOK
  <2>4. CASE ~ (fds' = fds /\ k = cfd[f]) /\ n \in {k, cfd[f]}
    BY <1>j, <1>p, <1>q, <1>r, <2>4 DEF EntryOK
  <2> QED BY <2>2, <2>3, <2>4
<1>6. \A n \in Fd : SealedOK(n, f)'
  <2>1. \A n \in Fd : SealedOK(n, f)
    BY <1>0 DEF SealInv, SealedOK
  <2> QED BY <1>c, <1>j, <1>p, <1>q, <2>1 DEF SealedOK
<1>7. TableClean' /\ \A n \in Fd : fds'[n] \in PipeEnd /\ stage'[fds'[n].file] \in {"piped", "moved", "forked"} => fds'[n].cloexec
  BY <1>0, <1>1, <1>2, <1>3, <1>4, <1>5, <1>6, TableStep
<1>8. SealInv'
  <2>1. \A g \in File : stage'[g] = "open" => g \in chain'
    BY <1>0, <1>c DEF SealInv, TypeOK
  <2>2. version' = "2.32" => \A g \in File : stage'[g] \notin {"forked", "unsealed"}
    BY <1>0, <1>c DEF SealInv, TypeOK
  <2>3. \A g \in File : stage'[g] = "moved" => cfd'[g] # child_pipe_fd(g)'
    BY <1>0, <1>b, <1>c DEF SealInv, TypeOK, child_pipe_fd
  <2> QED BY <1>7, <2>1, <2>2, <2>3 DEF SealInv
<1>9. OwnPipe' /\ SealedWhenOpen'
  BY <1>s, <1>1, <1>c, ShellStep
<1> QED BY <1>1, <1>7, <1>8, <1>9 DEF IInv

(* The shell starts, the child end goes, and the stream is linked. *)
LEMMA Inv_spawn_process ==
  ASSUME IInv, NEW f \in File, spawn_process(f)
  PROVE  IInv'
<1>0. TypeOK /\ TableClean /\ SealInv
  BY DEF IInv
<1>k. StreamOK(f) /\ \A n \in Fd : EntryOK(n, f)
  BY <1>0, TableParts
<1>c. /\ stage[f] = "moved" /\ stage' = [stage EXCEPT ![f] = "open"] /\ child' = [child EXCEPT ![f] = shell(f)]
      /\ mode' = mode /\ e' = e /\ chain' = chain \cup {f} /\ version' = version /\ pfd' = pfd
      /\ cfd' = [cfd EXCEPT ![f] = 0]
      /\ fds' = [fds EXCEPT ![cfd[f]] = None, ![pfd[f]] = End(f, "parent", e[f])]
  BY DEF spawn_process, goto
<1>i. cfd[f] \in Fd /\ pfd[f] \in Fd /\ 0 \in Fd /\ Is(fds[cfd[f]], f, "child") /\ Is(fds[pfd[f]], f, "parent")
  BY <1>0, <1>c, <1>k, PopenAssumption DEF TypeOK, StreamOK
<1>j. /\ fds[cfd[f]] \in PipeEnd /\ fds[cfd[f]].file = f /\ fds[cfd[f]].end = "child"
      /\ fds[pfd[f]] \in PipeEnd /\ fds[pfd[f]].file = f /\ fds[pfd[f]].end = "parent"
      /\ None \notin PipeEnd
  BY <1>i, IsFact, PopenAssumption
<1>p. /\ End(f, "parent", e[f]) \in PipeEnd /\ End(f, "parent", e[f]).file = f
      /\ End(f, "parent", e[f]).end = "parent"
  <2>1. e[f] \in BOOLEAN
    BY <1>0 DEF TypeOK
  <2> QED BY <2>1, EndFact
<1>q. /\ fds'[pfd[f]] = End(f, "parent", e[f]) /\ fds'[cfd[f]] = None
      /\ \A n \in Fd \ {pfd[f], cfd[f]} : fds'[n] = fds[n]
  BY <1>0, <1>c, <1>i, <1>j DEF TypeOK
<1>r. stage'[f] = "open" /\ pfd'[f] = pfd[f]
  BY <1>0, <1>c DEF TypeOK
<1>t. Ready(f)
  BY <1>c DEF Ready
<1>s. \A g \in File :
        \/ child'[g] \in {child[g], NoShell, Zombie}
        \/ /\ child[g] \in Shell /\ child'[g] \in Shell
           /\ child'[g].std = child[g].std /\ child'[g].leaving = child[g].leaving
           /\ child'[g].holds \subseteq child[g].holds
        \/ child'[g] = shell(g) /\ Ready(g)
  BY <1>0, <1>c, <1>t DEF TypeOK
<1>1. TypeOK'
  <2>1. fds' \in [Fd -> {None, Std} \cup PipeEnd]
    BY <1>0, <1>c, <1>p DEF TypeOK
  <2>2. child' \in [File -> {NoShell, Zombie} \cup Shell]
    BY <1>0, <1>c, <1>t, NewShell DEF TypeOK
  <2> QED BY <1>0, <1>c, <1>i, <2>1, <2>2 DEF TypeOK, Stages
<1>2. OthersKept(f)
  BY <1>0, <1>c DEF TypeOK, OthersKept
<1>3. OwnTouched(f)
  BY <1>j, <1>p, <1>q DEF OwnTouched, Mine
<1>4. StreamOK(f)'
  <2>1. Is(fds'[pfd[f]], f, "parent")
    BY <1>p, <1>q, IsFact
  <2> QED BY <1>r, <2>1 DEF StreamOK
<1>5. \A n \in Fd : EntryOK(n, f)'
  <2> SUFFICES ASSUME NEW n \in Fd PROVE EntryOK(n, f)'
    OBVIOUS
  <2>1. EntryOK(n, f)
    BY <1>k
  <2> QED BY <1>c, <1>j, <1>p, <1>q, <1>r, <2>1 DEF EntryOK
<1>6. \A n \in Fd : SealedOK(n, f)'
  BY <1>r DEF SealedOK
<1>7. TableClean' /\ \A n \in Fd : fds'[n] \in PipeEnd /\ stage'[fds'[n].file] \in {"piped", "moved", "forked"} => fds'[n].cloexec
  BY <1>0, <1>1, <1>2, <1>3, <1>4, <1>5, <1>6, TableStep
<1>8. SealInv'
  <2>1. \A g \in File : stage'[g] = "open" => g \in chain'
    BY <1>0, <1>c DEF SealInv, TypeOK
  <2>2. version' = "2.32" => \A g \in File : stage'[g] \notin {"forked", "unsealed"}
    BY <1>0, <1>c DEF SealInv, TypeOK
  <2>3. \A g \in File : stage'[g] = "moved" => cfd'[g] # child_pipe_fd(g)'
    BY <1>0, <1>c DEF SealInv, TypeOK, child_pipe_fd
  <2> QED BY <1>7, <2>1, <2>2, <2>3 DEF SealInv
<1>9. OwnPipe' /\ SealedWhenOpen'
  BY <1>s, <1>1, <1>c, ShellStep
<1> QED BY <1>1, <1>7, <1>8, <1>9 DEF IInv

(* The child end goes; the stream of 2.27 is open to other shells before it is linked. *)
LEMMA Inv_unseal ==
  ASSUME IInv, NEW f \in File, unseal(f)
  PROVE  IInv'
<1>0. TypeOK /\ TableClean /\ SealInv
  BY DEF IInv
<1>k. StreamOK(f) /\ \A n \in Fd : EntryOK(n, f)
  BY <1>0, TableParts
<1>c. /\ stage[f] = "forked" /\ stage' = [stage EXCEPT ![f] = "unsealed"] /\ child' = child
      /\ mode' = mode /\ e' = e /\ chain' = chain /\ version' = version /\ pfd' = pfd
      /\ cfd' = [cfd EXCEPT ![f] = 0]
      /\ fds' = [fds EXCEPT ![cfd[f]] = None, ![pfd[f]] = End(f, "parent", e[f])]
  BY DEF unseal, goto
<1>i. cfd[f] \in Fd /\ pfd[f] \in Fd /\ 0 \in Fd /\ Is(fds[cfd[f]], f, "child") /\ Is(fds[pfd[f]], f, "parent")
  BY <1>0, <1>c, <1>k, PopenAssumption DEF TypeOK, StreamOK
<1>j. /\ fds[cfd[f]] \in PipeEnd /\ fds[cfd[f]].file = f /\ fds[cfd[f]].end = "child"
      /\ fds[pfd[f]] \in PipeEnd /\ fds[pfd[f]].file = f /\ fds[pfd[f]].end = "parent"
      /\ None \notin PipeEnd
  BY <1>i, IsFact, PopenAssumption
<1>p. /\ End(f, "parent", e[f]) \in PipeEnd /\ End(f, "parent", e[f]).file = f
      /\ End(f, "parent", e[f]).end = "parent"
  <2>1. e[f] \in BOOLEAN
    BY <1>0 DEF TypeOK
  <2> QED BY <2>1, EndFact
<1>q. /\ fds'[pfd[f]] = End(f, "parent", e[f]) /\ fds'[cfd[f]] = None
      /\ \A n \in Fd \ {pfd[f], cfd[f]} : fds'[n] = fds[n]
  BY <1>0, <1>c, <1>i, <1>j DEF TypeOK
<1>r. stage'[f] = "unsealed" /\ pfd'[f] = pfd[f]
  BY <1>0, <1>c DEF TypeOK
<1>s. \A g \in File :
        \/ child'[g] \in {child[g], NoShell, Zombie}
        \/ /\ child[g] \in Shell /\ child'[g] \in Shell
           /\ child'[g].std = child[g].std /\ child'[g].leaving = child[g].leaving
           /\ child'[g].holds \subseteq child[g].holds
        \/ child'[g] = shell(g) /\ Ready(g)
  BY <1>0, <1>c DEF TypeOK
<1>1. TypeOK'
  <2>1. fds' \in [Fd -> {None, Std} \cup PipeEnd]
    BY <1>0, <1>c, <1>p DEF TypeOK
  <2>2. child' \in [File -> {NoShell, Zombie} \cup Shell]
    BY <1>0, <1>c DEF TypeOK
  <2> QED BY <1>0, <1>c, <1>i, <2>1, <2>2 DEF TypeOK, Stages
<1>2. OthersKept(f)
  BY <1>0, <1>c DEF TypeOK, OthersKept
<1>3. OwnTouched(f)
  BY <1>j, <1>p, <1>q DEF OwnTouched, Mine
<1>4. StreamOK(f)'
  <2>1. Is(fds'[pfd[f]], f, "parent")
    BY <1>p, <1>q, IsFact
  <2> QED BY <1>r, <2>1 DEF StreamOK
<1>5. \A n \in Fd : EntryOK(n, f)'
  <2> SUFFICES ASSUME NEW n \in Fd PROVE EntryOK(n, f)'
    OBVIOUS
  <2>1. EntryOK(n, f)
    BY <1>k
  <2> QED BY <1>c, <1>j, <1>p, <1>q, <1>r, <2>1 DEF EntryOK
<1>6. \A n \in Fd : SealedOK(n, f)'
  BY <1>r DEF SealedOK
<1>7. TableClean' /\ \A n \in Fd : fds'[n] \in PipeEnd /\ stage'[fds'[n].file] \in {"piped", "moved", "forked"} => fds'[n].cloexec
  BY <1>0, <1>1, <1>2, <1>3, <1>4, <1>5, <1>6, TableStep
<1>8. SealInv'
  <2>1. \A g \in File : stage'[g] = "open" => g \in chain'
    BY <1>0, <1>c DEF SealInv, TypeOK
  <2>2. version' = "2.32" => \A g \in File : stage'[g] \notin {"forked", "unsealed"}
    BY <1>0, <1>c DEF SealInv, TypeOK
  <2>3. \A g \in File : stage'[g] = "moved" => cfd'[g] # child_pipe_fd(g)'
    BY <1>0, <1>c DEF SealInv, TypeOK, child_pipe_fd
  <2> QED BY <1>7, <2>1, <2>2, <2>3 DEF SealInv
<1>9. OwnPipe' /\ SealedWhenOpen'
  BY <1>s, <1>1, <1>c, ShellStep
<1> QED BY <1>1, <1>7, <1>8, <1>9 DEF IInv

(* Both ends go. *)
LEMMA Inv_spawn_failure ==
  ASSUME IInv, NEW f \in File, spawn_failure(f)
  PROVE  IInv'
<1>0. TypeOK /\ TableClean /\ SealInv
  BY DEF IInv
<1>k. StreamOK(f) /\ \A n \in Fd : EntryOK(n, f)
  BY <1>0, TableParts
<1>c. /\ stage[f] \in {"piped", "moved"} /\ stage' = [stage EXCEPT ![f] = "closed"] /\ child' = child
      /\ mode' = [mode EXCEPT ![f] = "r"] /\ e' = [e EXCEPT ![f] = FALSE] /\ chain' = chain
      /\ version' = version /\ pfd' = [pfd EXCEPT ![f] = 0] /\ cfd' = [cfd EXCEPT ![f] = 0]
      /\ fds' = [fds EXCEPT ![cfd[f]] = None, ![pfd[f]] = None]
  BY DEF spawn_failure, free
<1>i. cfd[f] \in Fd /\ pfd[f] \in Fd /\ 0 \in Fd /\ Is(fds[cfd[f]], f, "child") /\ Is(fds[pfd[f]], f, "parent") /\ child[f] = NoShell
  BY <1>0, <1>c, <1>k, PopenAssumption DEF TypeOK, StreamOK
<1>j. /\ fds[cfd[f]] \in PipeEnd /\ fds[cfd[f]].file = f /\ fds[pfd[f]] \in PipeEnd /\ fds[pfd[f]].file = f
      /\ None \notin PipeEnd
  BY <1>i, IsFact, PopenAssumption
<1>q. fds'[pfd[f]] = None /\ fds'[cfd[f]] = None /\ \A n \in Fd \ {pfd[f], cfd[f]} : fds'[n] = fds[n]
  BY <1>0, <1>c, <1>i DEF TypeOK
<1>r. stage'[f] = "closed" /\ child'[f] = NoShell
  BY <1>0, <1>c, <1>i DEF TypeOK
<1>s. \A g \in File :
        \/ child'[g] \in {child[g], NoShell, Zombie}
        \/ /\ child[g] \in Shell /\ child'[g] \in Shell
           /\ child'[g].std = child[g].std /\ child'[g].leaving = child[g].leaving
           /\ child'[g].holds \subseteq child[g].holds
        \/ child'[g] = shell(g) /\ Ready(g)
  BY <1>0, <1>c DEF TypeOK
<1>1. TypeOK'
  BY <1>0, <1>c, <1>i DEF TypeOK, Stages
<1>2. OthersKept(f)
  BY <1>0, <1>c DEF TypeOK, OthersKept
<1>3. OwnTouched(f)
  BY <1>j, <1>q DEF OwnTouched, Mine
<1>4. StreamOK(f)'
  BY <1>r DEF StreamOK
<1>5. \A n \in Fd : EntryOK(n, f)'
  <2> SUFFICES ASSUME NEW n \in Fd PROVE ~ (fds'[n] \in PipeEnd /\ fds'[n].file = f)
    BY DEF EntryOK
  <2>1. EntryOK(n, f)
    BY <1>k
  <2> QED BY <1>j, <1>q, <2>1 DEF EntryOK
<1>6. \A n \in Fd : SealedOK(n, f)'
  BY <1>r DEF SealedOK
<1>7. TableClean' /\ \A n \in Fd : fds'[n] \in PipeEnd /\ stage'[fds'[n].file] \in {"piped", "moved", "forked"} => fds'[n].cloexec
  BY <1>0, <1>1, <1>2, <1>3, <1>4, <1>5, <1>6, TableStep
<1>8. SealInv'
  <2>1. \A g \in File : stage'[g] = "open" => g \in chain'
    BY <1>0, <1>c DEF SealInv, TypeOK
  <2>2. version' = "2.32" => \A g \in File : stage'[g] \notin {"forked", "unsealed"}
    BY <1>0, <1>c DEF SealInv, TypeOK
  <2>3. \A g \in File : stage'[g] = "moved" => cfd'[g] # child_pipe_fd(g)'
    BY <1>0, <1>c DEF SealInv, TypeOK, child_pipe_fd
  <2> QED BY <1>7, <2>1, <2>2, <2>3 DEF SealInv
<1>9. OwnPipe' /\ SealedWhenOpen'
  BY <1>s, <1>1, <1>c, ShellStep
<1> QED BY <1>1, <1>7, <1>8, <1>9 DEF IInv

(* 2.27: the shell starts with the table as it is. *)
LEMMA Inv_fork_child ==
  ASSUME IInv, NEW f \in File, fork_child(f)
  PROVE  IInv'
<1>0. TypeOK /\ TableClean /\ SealInv
  BY DEF IInv
<1>k. StreamOK(f) /\ \A n \in Fd : EntryOK(n, f)
  BY <1>0, TableParts
<1>c. /\ stage[f] = "piped" /\ stage' = [stage EXCEPT ![f] = "forked"] /\ child' = [child EXCEPT ![f] = shell(f)]
      /\ mode' = mode /\ e' = e /\ chain' = chain /\ version' = version /\ pfd' = pfd /\ cfd' = cfd /\ fds' = fds
      /\ version = "2.27"
  BY DEF fork_child, goto, stream
<1>t. Ready(f)
  BY <1>c DEF Ready
<1>s. \A g \in File :
        \/ child'[g] \in {child[g], NoShell, Zombie}
        \/ /\ child[g] \in Shell /\ child'[g] \in Shell
           /\ child'[g].std = child[g].std /\ child'[g].leaving = child[g].leaving
           /\ child'[g].holds \subseteq child[g].holds
        \/ child'[g] = shell(g) /\ Ready(g)
  BY <1>0, <1>c, <1>t DEF TypeOK
<1>1. TypeOK'
  BY <1>0, <1>c, <1>t, NewShell DEF TypeOK, Stages
<1>2. OthersKept(f)
  BY <1>0, <1>c DEF TypeOK, OthersKept
<1>3. OwnTouched(f)
  BY <1>c DEF OwnTouched, Mine
<1>4. StreamOK(f)'
  BY <1>0, <1>c, <1>k DEF StreamOK, TypeOK
<1>5. \A n \in Fd : EntryOK(n, f)'
  BY <1>0, <1>c, <1>k DEF EntryOK, TypeOK
<1>6. \A n \in Fd : SealedOK(n, f)'
  BY <1>0, <1>c DEF SealInv, SealedOK, TypeOK
<1>7. TableClean' /\ \A n \in Fd : fds'[n] \in PipeEnd /\ stage'[fds'[n].file] \in {"piped", "moved", "forked"} => fds'[n].cloexec
  BY <1>0, <1>1, <1>2, <1>3, <1>4, <1>5, <1>6, TableStep
<1>8. SealInv'
  <2>1. \A g \in File : stage'[g] = "open" => g \in chain'
    BY <1>0, <1>c DEF SealInv, TypeOK
  <2>2. version' = "2.32" => \A g \in File : stage'[g] \notin {"forked", "unsealed"}
    BY <1>0, <1>c DEF SealInv, TypeOK
  <2>3. \A g \in File : stage'[g] = "moved" => cfd'[g] # child_pipe_fd(g)'
    BY <1>0, <1>c DEF SealInv, TypeOK, child_pipe_fd
  <2> QED BY <1>7, <2>1, <2>2, <2>3 DEF SealInv
<1>9. OwnPipe' /\ SealedWhenOpen'
  BY <1>s, <1>1, <1>c, ShellStep
<1> QED BY <1>1, <1>7, <1>8, <1>9 DEF IInv

(* The stream is linked. *)
LEMMA Inv_link ==
  ASSUME IInv, NEW f \in File, link(f)
  PROVE  IInv'
<1>0. TypeOK /\ TableClean /\ SealInv
  BY DEF IInv
<1>k. StreamOK(f) /\ \A n \in Fd : EntryOK(n, f)
  BY <1>0, TableParts
<1>c. /\ stage[f] = "unsealed" /\ stage' = [stage EXCEPT ![f] = "open"] /\ child' = child
      /\ mode' = mode /\ e' = e /\ chain' = chain \cup {f} /\ version' = version /\ pfd' = pfd /\ cfd' = cfd /\ fds' = fds
  BY DEF link, goto, stream
<1>s. \A g \in File :
        \/ child'[g] \in {child[g], NoShell, Zombie}
        \/ /\ child[g] \in Shell /\ child'[g] \in Shell
           /\ child'[g].std = child[g].std /\ child'[g].leaving = child[g].leaving
           /\ child'[g].holds \subseteq child[g].holds
        \/ child'[g] = shell(g) /\ Ready(g)
  BY <1>0, <1>c DEF TypeOK
<1>1. TypeOK'
  BY <1>0, <1>c DEF TypeOK, Stages
<1>2. OthersKept(f)
  BY <1>0, <1>c DEF TypeOK, OthersKept
<1>3. OwnTouched(f)
  BY <1>c DEF OwnTouched, Mine
<1>4. StreamOK(f)'
  BY <1>0, <1>c, <1>k DEF StreamOK, TypeOK
<1>5. \A n \in Fd : EntryOK(n, f)'
  BY <1>0, <1>c, <1>k DEF EntryOK, TypeOK
<1>6. \A n \in Fd : SealedOK(n, f)'
  BY <1>0, <1>c DEF SealInv, SealedOK, TypeOK
<1>7. TableClean' /\ \A n \in Fd : fds'[n] \in PipeEnd /\ stage'[fds'[n].file] \in {"piped", "moved", "forked"} => fds'[n].cloexec
  BY <1>0, <1>1, <1>2, <1>3, <1>4, <1>5, <1>6, TableStep
<1>8. SealInv'
  <2>1. \A g \in File : stage'[g] = "open" => g \in chain'
    BY <1>0, <1>c DEF SealInv, TypeOK
  <2>2. version' = "2.32" => \A g \in File : stage'[g] \notin {"forked", "unsealed"}
    BY <1>0, <1>c DEF SealInv, TypeOK
  <2>3. \A g \in File : stage'[g] = "moved" => cfd'[g] # child_pipe_fd(g)'
    BY <1>0, <1>c DEF SealInv, TypeOK, child_pipe_fd
  <2> QED BY <1>7, <2>1, <2>2, <2>3 DEF SealInv
<1>9. OwnPipe' /\ SealedWhenOpen'
  BY <1>s, <1>1, <1>c, ShellStep
<1> QED BY <1>1, <1>7, <1>8, <1>9 DEF IInv

(* The stream is unlinked. *)
LEMMA Inv_pclose ==
  ASSUME IInv, NEW f \in File, pclose(f)
  PROVE  IInv'
<1>0. TypeOK /\ TableClean /\ SealInv
  BY DEF IInv
<1>k. StreamOK(f) /\ \A n \in Fd : EntryOK(n, f)
  BY <1>0, TableParts
<1>c. /\ stage[f] = "open" /\ stage' = [stage EXCEPT ![f] = "unlinked"] /\ child' = child
      /\ mode' = mode /\ e' = e /\ chain' = chain \ {f} /\ version' = version /\ pfd' = pfd /\ cfd' = cfd /\ fds' = fds
  BY DEF pclose, goto, stream
<1>s. \A g \in File :
        \/ child'[g] \in {child[g], NoShell, Zombie}
        \/ /\ child[g] \in Shell /\ child'[g] \in Shell
           /\ child'[g].std = child[g].std /\ child'[g].leaving = child[g].leaving
           /\ child'[g].holds \subseteq child[g].holds
        \/ child'[g] = shell(g) /\ Ready(g)
  BY <1>0, <1>c DEF TypeOK
<1>1. TypeOK'
  BY <1>0, <1>c DEF TypeOK, Stages
<1>2. OthersKept(f)
  BY <1>0, <1>c DEF TypeOK, OthersKept
<1>3. OwnTouched(f)
  BY <1>c DEF OwnTouched, Mine
<1>4. StreamOK(f)'
  BY <1>0, <1>c, <1>k DEF StreamOK, TypeOK
<1>5. \A n \in Fd : EntryOK(n, f)'
  BY <1>0, <1>c, <1>k DEF EntryOK, TypeOK
<1>6. \A n \in Fd : SealedOK(n, f)'
  BY <1>0, <1>c DEF SealInv, SealedOK, TypeOK
<1>7. TableClean' /\ \A n \in Fd : fds'[n] \in PipeEnd /\ stage'[fds'[n].file] \in {"piped", "moved", "forked"} => fds'[n].cloexec
  BY <1>0, <1>1, <1>2, <1>3, <1>4, <1>5, <1>6, TableStep
<1>8. SealInv'
  <2>1. \A g \in File : stage'[g] = "open" => g \in chain'
    BY <1>0, <1>c DEF SealInv, TypeOK
  <2>2. version' = "2.32" => \A g \in File : stage'[g] \notin {"forked", "unsealed"}
    BY <1>0, <1>c DEF SealInv, TypeOK
  <2>3. \A g \in File : stage'[g] = "moved" => cfd'[g] # child_pipe_fd(g)'
    BY <1>0, <1>c DEF SealInv, TypeOK, child_pipe_fd
  <2> QED BY <1>7, <2>1, <2>2, <2>3 DEF SealInv
<1>9. OwnPipe' /\ SealedWhenOpen'
  BY <1>s, <1>1, <1>c, ShellStep
<1> QED BY <1>1, <1>7, <1>8, <1>9 DEF IInv

(* The shell ends. *)
LEMMA Inv_child_exits ==
  ASSUME IInv, NEW f \in File, child_exits(f)
  PROVE  IInv'
<1>0. TypeOK /\ TableClean /\ SealInv
  BY DEF IInv
<1>k. StreamOK(f) /\ \A n \in Fd : EntryOK(n, f)
  BY <1>0, TableParts
<1>c. /\ stage' = stage /\ child' = [child EXCEPT ![f] = Zombie]
      /\ mode' = mode /\ e' = e /\ chain' = chain /\ version' = version /\ pfd' = pfd /\ cfd' = cfd /\ fds' = fds
      /\ child[f].st = "running"
  BY DEF child_exits, goto, stream
<1>s. \A g \in File :
        \/ child'[g] \in {child[g], NoShell, Zombie}
        \/ /\ child[g] \in Shell /\ child'[g] \in Shell
           /\ child'[g].std = child[g].std /\ child'[g].leaving = child[g].leaving
           /\ child'[g].holds \subseteq child[g].holds
        \/ child'[g] = shell(g) /\ Ready(g)
  BY <1>0, <1>c DEF TypeOK
<1>z. child[f] # NoShell
  BY <1>c DEF NoShell
<1>1. TypeOK'
  BY <1>0, <1>c DEF TypeOK, Stages
<1>2. OthersKept(f)
  BY <1>0, <1>c DEF TypeOK, OthersKept
<1>3. OwnTouched(f)
  BY <1>c DEF OwnTouched, Mine
<1>4. StreamOK(f)'
  BY <1>0, <1>c, <1>k, <1>z DEF StreamOK, TypeOK
<1>5. \A n \in Fd : EntryOK(n, f)'
  BY <1>0, <1>c, <1>k DEF EntryOK, TypeOK
<1>6. \A n \in Fd : SealedOK(n, f)'
  BY <1>0, <1>c DEF SealInv, SealedOK, TypeOK
<1>7. TableClean' /\ \A n \in Fd : fds'[n] \in PipeEnd /\ stage'[fds'[n].file] \in {"piped", "moved", "forked"} => fds'[n].cloexec
  BY <1>0, <1>1, <1>2, <1>3, <1>4, <1>5, <1>6, TableStep
<1>8. SealInv'
  <2>1. \A g \in File : stage'[g] = "open" => g \in chain'
    BY <1>0, <1>c DEF SealInv, TypeOK
  <2>2. version' = "2.32" => \A g \in File : stage'[g] \notin {"forked", "unsealed"}
    BY <1>0, <1>c DEF SealInv, TypeOK
  <2>3. \A g \in File : stage'[g] = "moved" => cfd'[g] # child_pipe_fd(g)'
    BY <1>0, <1>c DEF SealInv, TypeOK, child_pipe_fd
  <2> QED BY <1>7, <2>1, <2>2, <2>3 DEF SealInv
<1>9. OwnPipe' /\ SealedWhenOpen'
  BY <1>s, <1>1, <1>c, ShellStep
<1> QED BY <1>1, <1>7, <1>8, <1>9 DEF IInv

(* The parent end goes. *)
LEMMA Inv_close_fd ==
  ASSUME IInv, NEW f \in File, close_fd(f)
  PROVE  IInv'
<1>0. TypeOK /\ TableClean /\ SealInv
  BY DEF IInv
<1>k. StreamOK(f) /\ \A n \in Fd : EntryOK(n, f)
  BY <1>0, TableParts
<1>c. /\ stage[f] = "unlinked" /\ stage' = [stage EXCEPT ![f] = "waiting"] /\ child' = child
      /\ mode' = mode /\ e' = e /\ chain' = chain /\ version' = version /\ pfd' = pfd /\ cfd' = cfd
      /\ fds' = [fds EXCEPT ![pfd[f]] = None]
  BY DEF close_fd, goto, stream
<1>i. pfd[f] \in Fd /\ Is(fds[pfd[f]], f, "parent")
  BY <1>0, <1>c, <1>k DEF TypeOK, StreamOK
<1>j. fds[pfd[f]] \in PipeEnd /\ fds[pfd[f]].file = f /\ None \notin PipeEnd
  BY <1>i, IsFact, PopenAssumption
<1>q. fds'[pfd[f]] = None /\ \A n \in Fd \ {pfd[f]} : fds'[n] = fds[n]
  BY <1>0, <1>c, <1>i DEF TypeOK
<1>r. stage'[f] = "waiting"
  BY <1>0, <1>c DEF TypeOK
<1>s. \A g \in File :
        \/ child'[g] \in {child[g], NoShell, Zombie}
        \/ /\ child[g] \in Shell /\ child'[g] \in Shell
           /\ child'[g].std = child[g].std /\ child'[g].leaving = child[g].leaving
           /\ child'[g].holds \subseteq child[g].holds
        \/ child'[g] = shell(g) /\ Ready(g)
  BY <1>0, <1>c DEF TypeOK
<1>1. TypeOK'
  BY <1>0, <1>c, <1>i DEF TypeOK, Stages
<1>2. OthersKept(f)
  BY <1>0, <1>c DEF TypeOK, OthersKept
<1>3. OwnTouched(f)
  BY <1>j, <1>q DEF OwnTouched, Mine
<1>4. StreamOK(f)'
  BY <1>r DEF StreamOK
<1>5. \A n \in Fd : EntryOK(n, f)'
  <2> SUFFICES ASSUME NEW n \in Fd PROVE ~ (fds'[n] \in PipeEnd /\ fds'[n].file = f)
    BY DEF EntryOK
  <2>1. EntryOK(n, f)
    BY <1>k
  <2> QED BY <1>c, <1>j, <1>q, <2>1 DEF EntryOK
<1>6. \A n \in Fd : SealedOK(n, f)'
  BY <1>r DEF SealedOK
<1>7. TableClean' /\ \A n \in Fd : fds'[n] \in PipeEnd /\ stage'[fds'[n].file] \in {"piped", "moved", "forked"} => fds'[n].cloexec
  BY <1>0, <1>1, <1>2, <1>3, <1>4, <1>5, <1>6, TableStep
<1>8. SealInv'
  <2>1. \A g \in File : stage'[g] = "open" => g \in chain'
    BY <1>0, <1>c DEF SealInv, TypeOK
  <2>2. version' = "2.32" => \A g \in File : stage'[g] \notin {"forked", "unsealed"}
    BY <1>0, <1>c DEF SealInv, TypeOK
  <2>3. \A g \in File : stage'[g] = "moved" => cfd'[g] # child_pipe_fd(g)'
    BY <1>0, <1>c DEF SealInv, TypeOK, child_pipe_fd
  <2> QED BY <1>7, <2>1, <2>2, <2>3 DEF SealInv
<1>9. OwnPipe' /\ SealedWhenOpen'
  BY <1>s, <1>1, <1>c, ShellStep
<1> QED BY <1>1, <1>7, <1>8, <1>9 DEF IInv

(* The shell is reaped and the stream is gone. *)
LEMMA Inv_waitpid ==
  ASSUME IInv, NEW f \in File, waitpid(f)
  PROVE  IInv'
<1>0. TypeOK /\ TableClean /\ SealInv
  BY DEF IInv
<1>k. StreamOK(f) /\ \A n \in Fd : EntryOK(n, f)
  BY <1>0, TableParts
<1>c. /\ stage[f] = "waiting" /\ stage' = [stage EXCEPT ![f] = "closed"] /\ child' = [child EXCEPT ![f] = NoShell]
      /\ mode' = [mode EXCEPT ![f] = "r"] /\ e' = [e EXCEPT ![f] = FALSE] /\ chain' = chain
      /\ version' = version /\ pfd' = [pfd EXCEPT ![f] = 0] /\ cfd' = [cfd EXCEPT ![f] = 0] /\ fds' = fds
  BY DEF waitpid, goto, free
<1>i. 0 \in Fd
  BY PopenAssumption
<1>r. stage'[f] = "closed" /\ child'[f] = NoShell
  BY <1>0, <1>c DEF TypeOK
<1>s. \A g \in File :
        \/ child'[g] \in {child[g], NoShell, Zombie}
        \/ /\ child[g] \in Shell /\ child'[g] \in Shell
           /\ child'[g].std = child[g].std /\ child'[g].leaving = child[g].leaving
           /\ child'[g].holds \subseteq child[g].holds
        \/ child'[g] = shell(g) /\ Ready(g)
  BY <1>0, <1>c DEF TypeOK
<1>1. TypeOK'
  BY <1>0, <1>c, <1>i DEF TypeOK, Stages
<1>2. OthersKept(f)
  BY <1>0, <1>c DEF TypeOK, OthersKept
<1>3. OwnTouched(f)
  BY <1>c DEF OwnTouched, Mine
<1>4. StreamOK(f)'
  BY <1>r DEF StreamOK
<1>5. \A n \in Fd : EntryOK(n, f)'
  BY <1>c, <1>k DEF EntryOK
<1>6. \A n \in Fd : SealedOK(n, f)'
  BY <1>r DEF SealedOK
<1>7. TableClean' /\ \A n \in Fd : fds'[n] \in PipeEnd /\ stage'[fds'[n].file] \in {"piped", "moved", "forked"} => fds'[n].cloexec
  BY <1>0, <1>1, <1>2, <1>3, <1>4, <1>5, <1>6, TableStep
<1>8. SealInv'
  <2>1. \A g \in File : stage'[g] = "open" => g \in chain'
    BY <1>0, <1>c DEF SealInv, TypeOK
  <2>2. version' = "2.32" => \A g \in File : stage'[g] \notin {"forked", "unsealed"}
    BY <1>0, <1>c DEF SealInv, TypeOK
  <2>3. \A g \in File : stage'[g] = "moved" => cfd'[g] # child_pipe_fd(g)'
    BY <1>0, <1>c DEF SealInv, TypeOK, child_pipe_fd
  <2> QED BY <1>7, <2>1, <2>2, <2>3 DEF SealInv
<1>9. OwnPipe' /\ SealedWhenOpen'
  BY <1>s, <1>1, <1>c, ShellStep
<1> QED BY <1>1, <1>7, <1>8, <1>9 DEF IInv

(* The parent end goes, and the shell is not waited for. *)
LEMMA Inv_close_fd_fails ==
  ASSUME IInv, NEW f \in File, close_fd_fails(f)
  PROVE  IInv'
<1>0. TypeOK /\ TableClean /\ SealInv
  BY DEF IInv
<1>k. StreamOK(f) /\ \A n \in Fd : EntryOK(n, f)
  BY <1>0, TableParts
<1>c. /\ stage[f] = "unlinked" /\ stage' = [stage EXCEPT ![f] = "lost"] /\ child' = child
      /\ mode' = mode /\ e' = e /\ chain' = chain /\ version' = version /\ pfd' = pfd /\ cfd' = cfd
      /\ fds' = [fds EXCEPT ![pfd[f]] = None]
  BY DEF close_fd_fails, goto, stream
<1>i. pfd[f] \in Fd /\ Is(fds[pfd[f]], f, "parent")
  BY <1>0, <1>c, <1>k DEF TypeOK, StreamOK
<1>j. fds[pfd[f]] \in PipeEnd /\ fds[pfd[f]].file = f /\ None \notin PipeEnd
  BY <1>i, IsFact, PopenAssumption
<1>q. fds'[pfd[f]] = None /\ \A n \in Fd \ {pfd[f]} : fds'[n] = fds[n]
  BY <1>0, <1>c, <1>i DEF TypeOK
<1>r. stage'[f] = "lost"
  BY <1>0, <1>c DEF TypeOK
<1>s. \A g \in File :
        \/ child'[g] \in {child[g], NoShell, Zombie}
        \/ /\ child[g] \in Shell /\ child'[g] \in Shell
           /\ child'[g].std = child[g].std /\ child'[g].leaving = child[g].leaving
           /\ child'[g].holds \subseteq child[g].holds
        \/ child'[g] = shell(g) /\ Ready(g)
  BY <1>0, <1>c DEF TypeOK
<1>1. TypeOK'
  BY <1>0, <1>c, <1>i DEF TypeOK, Stages
<1>2. OthersKept(f)
  BY <1>0, <1>c DEF TypeOK, OthersKept
<1>3. OwnTouched(f)
  BY <1>j, <1>q DEF OwnTouched, Mine
<1>4. StreamOK(f)'
  BY <1>r DEF StreamOK
<1>5. \A n \in Fd : EntryOK(n, f)'
  <2> SUFFICES ASSUME NEW n \in Fd PROVE ~ (fds'[n] \in PipeEnd /\ fds'[n].file = f)
    BY DEF EntryOK
  <2>1. EntryOK(n, f)
    BY <1>k
  <2> QED BY <1>c, <1>j, <1>q, <2>1 DEF EntryOK
<1>6. \A n \in Fd : SealedOK(n, f)'
  BY <1>r DEF SealedOK
<1>7. TableClean' /\ \A n \in Fd : fds'[n] \in PipeEnd /\ stage'[fds'[n].file] \in {"piped", "moved", "forked"} => fds'[n].cloexec
  BY <1>0, <1>1, <1>2, <1>3, <1>4, <1>5, <1>6, TableStep
<1>8. SealInv'
  <2>1. \A g \in File : stage'[g] = "open" => g \in chain'
    BY <1>0, <1>c DEF SealInv, TypeOK
  <2>2. version' = "2.32" => \A g \in File : stage'[g] \notin {"forked", "unsealed"}
    BY <1>0, <1>c DEF SealInv, TypeOK
  <2>3. \A g \in File : stage'[g] = "moved" => cfd'[g] # child_pipe_fd(g)'
    BY <1>0, <1>c DEF SealInv, TypeOK, child_pipe_fd
  <2> QED BY <1>7, <2>1, <2>2, <2>3 DEF SealInv
<1>9. OwnPipe' /\ SealedWhenOpen'
  BY <1>s, <1>1, <1>c, ShellStep
<1> QED BY <1>1, <1>7, <1>8, <1>9 DEF IInv

(* A zombie that nobody waits for. *)
LEMMA Inv_abandoned ==
  ASSUME IInv, NEW f \in File, abandoned(f)
  PROVE  IInv'
<1>0. TypeOK /\ TableClean /\ SealInv
  BY DEF IInv
<1>k. StreamOK(f) /\ \A n \in Fd : EntryOK(n, f)
  BY <1>0, TableParts
<1>c. /\ stage[f] = "lost" /\ stage' = [stage EXCEPT ![f] = "closed"] /\ child' = [child EXCEPT ![f] = NoShell]
      /\ mode' = [mode EXCEPT ![f] = "r"] /\ e' = [e EXCEPT ![f] = FALSE] /\ chain' = chain
      /\ version' = version /\ pfd' = [pfd EXCEPT ![f] = 0] /\ cfd' = [cfd EXCEPT ![f] = 0] /\ fds' = fds
  BY DEF abandoned, goto, free
<1>i. 0 \in Fd
  BY PopenAssumption
<1>r. stage'[f] = "closed" /\ child'[f] = NoShell
  BY <1>0, <1>c DEF TypeOK
<1>s. \A g \in File :
        \/ child'[g] \in {child[g], NoShell, Zombie}
        \/ /\ child[g] \in Shell /\ child'[g] \in Shell
           /\ child'[g].std = child[g].std /\ child'[g].leaving = child[g].leaving
           /\ child'[g].holds \subseteq child[g].holds
        \/ child'[g] = shell(g) /\ Ready(g)
  BY <1>0, <1>c DEF TypeOK
<1>1. TypeOK'
  BY <1>0, <1>c, <1>i DEF TypeOK, Stages
<1>2. OthersKept(f)
  BY <1>0, <1>c DEF TypeOK, OthersKept
<1>3. OwnTouched(f)
  BY <1>c DEF OwnTouched, Mine
<1>4. StreamOK(f)'
  BY <1>r DEF StreamOK
<1>5. \A n \in Fd : EntryOK(n, f)'
  BY <1>c, <1>k DEF EntryOK
<1>6. \A n \in Fd : SealedOK(n, f)'
  BY <1>r DEF SealedOK
<1>7. TableClean' /\ \A n \in Fd : fds'[n] \in PipeEnd /\ stage'[fds'[n].file] \in {"piped", "moved", "forked"} => fds'[n].cloexec
  BY <1>0, <1>1, <1>2, <1>3, <1>4, <1>5, <1>6, TableStep
<1>8. SealInv'
  <2>1. \A g \in File : stage'[g] = "open" => g \in chain'
    BY <1>0, <1>c DEF SealInv, TypeOK
  <2>2. version' = "2.32" => \A g \in File : stage'[g] \notin {"forked", "unsealed"}
    BY <1>0, <1>c DEF SealInv, TypeOK
  <2>3. \A g \in File : stage'[g] = "moved" => cfd'[g] # child_pipe_fd(g)'
    BY <1>0, <1>c DEF SealInv, TypeOK, child_pipe_fd
  <2> QED BY <1>7, <2>1, <2>2, <2>3 DEF SealInv
<1>9. OwnPipe' /\ SealedWhenOpen'
  BY <1>s, <1>1, <1>c, ShellStep
<1> QED BY <1>1, <1>7, <1>8, <1>9 DEF IInv

-----------------------------------------------------------------------------
(* Every step of every call keeps the invariant. *)
LEMMA NextInv == IInv /\ [Next]_vars => IInv'
<1> SUFFICES ASSUME IInv, [Next]_vars PROVE IInv'
  OBVIOUS
<1>1. ASSUME NEW f \in File, NEW m \in {"r", "w"}, NEW c \in BOOLEAN, popen(f, m, c) PROVE IInv'
  BY <1>1, Inv_popen
<1>2. ASSUME NEW f \in File, move_child_end(f) \/ spawn_process(f) \/ spawn_failure(f) PROVE IInv'
  BY <1>2, Inv_move_child_end, Inv_spawn_process, Inv_spawn_failure
<1>3. ASSUME NEW f \in File, fork_child(f) \/ unseal(f) \/ link(f) PROVE IInv'
  BY <1>3, Inv_fork_child, Inv_unseal, Inv_link
<1>4. ASSUME NEW f \in File, pclose(f) \/ close_fd(f) \/ close_fd_fails(f) PROVE IInv'
  BY <1>4, Inv_pclose, Inv_close_fd, Inv_close_fd_fails
<1>6. ASSUME NEW f \in File, child_exits(f) \/ waitpid(f) \/ abandoned(f) PROVE IInv'
  BY <1>6, Inv_child_exits, Inv_waitpid, Inv_abandoned
<1>5. CASE UNCHANGED vars
  BY <1>5 DEF vars, IInv, TypeOK, OwnPipe, TableClean, SealInv, SealedWhenOpen,
              child_pipe_fd
<1> QED BY <1>1, <1>2, <1>3, <1>4, <1>5, <1>6 DEF Next

(* The invariant holds in every state, for any number of streams opened and   *)
(* closed concurrently.                                                       *)
THEOREM Invariance == Spec => []IInv
  BY InitInv, NextInv, PTL DEF Spec

(* Each shell that popen starts talks to its own pipe and has only its own    *)
(* end of it, whatever descriptors the program had closed and whoever else    *)
(* opens and closes streams.                                                  *)
THEOREM OwnPipes == Spec => []OwnPipe
<1>1. IInv => OwnPipe
  BY DEF IInv
<1> QED BY <1>1, Invariance, PTL

(* No failure, fork or close leaves a descriptor or a shell behind, and no    *)
(* call closes the descriptor of another.                                     *)
THEOREM NothingLeft == Spec => []TableClean
<1>1. IInv => TableClean
  BY DEF IInv
<1> QED BY <1>1, Invariance, PTL

(* With the source of 2.32 no shell inherits the parent end of a stream that  *)
(* is open or being opened.                                                   *)
THEOREM Sealed == Spec => []SealedWhenOpen
<1>1. IInv => SealedWhenOpen
  BY DEF IInv
<1> QED BY <1>1, Invariance, PTL
==============================================================================
