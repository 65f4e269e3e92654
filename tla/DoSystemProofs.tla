--------------------------- MODULE DoSystemProofs ---------------------------
(***************************************************************************)
(* The signal handling of do_system for any number of threads and for both *)
(* sources: IInv is inductive, one lemma per action.                       *)
(***************************************************************************)
EXTENDS DoSystem, FiniteSetTheorems, TLAPS

USE SystemAssumption DEF IInv, Signals, Active, Stages, Dispositions

(* sa_refcntr, being the number of calls in progress, is 0 exactly when there *)
(* is none and 1 exactly when the caller is the only one.                     *)
LEMMA CountMeaning ==
  ASSUME TypeOK, RefCount
  PROVE  /\ IsFiniteSet(Holders)
         /\ sa_refcntr = 0 <=> Holders = {}
         /\ \A t \in Holders : sa_refcntr = 1 <=> Holders = {t}
<1>1. IsFiniteSet(Holders)
  BY FS_Subset, Holders \subseteq Threads DEF Holders
<1>2. sa_refcntr = 0 <=> Holders = {}
  BY <1>1, FS_EmptySet DEF RefCount
<1>3. ASSUME NEW t \in Holders PROVE sa_refcntr = 1 <=> Holders = {t}
  <2>1. Cardinality(Holders) = 1 <=> \E x : Holders = {x}
    BY <1>1, FS_Singleton
  <2>2. (\E x : Holders = {x}) <=> Holders = {t}
    BY <1>3
  <2> QED BY <2>1, <2>2 DEF RefCount
<1> QED BY <1>1, <1>2, <1>3

(* A call that begins adds its thread to the holders. *)
LEMMA CountUp ==
  ASSUME TypeOK, RefCount, NEW t \in Threads, NEW st \in Stages \ {"idle", "gone"},
         pc[t] = "idle", pc' = [pc EXCEPT ![t] = st], sa_refcntr' = sa_refcntr + 1
  PROVE  RefCount'
<1>1. Holders' = Holders \cup {t} /\ t \notin Holders
  BY DEF Holders, TypeOK
<1>2. Cardinality(Holders \cup {t}) = Cardinality(Holders) + 1
  BY <1>1, CountMeaning, FS_AddElement
<1> QED BY <1>1, <1>2 DEF RefCount

(* A call that ends takes its thread away from the holders. *)
LEMMA CountDown ==
  ASSUME TypeOK, RefCount, NEW t \in Holders, NEW st \in {"idle", "gone"},
         pc' = [pc EXCEPT ![t] = st], sa_refcntr' = sa_refcntr - 1
  PROVE  RefCount' /\ sa_refcntr' \in Nat /\ Holders' = Holders \ {t}
<1>1. Holders' = Holders \ {t}
  BY DEF Holders, TypeOK
<1>2. Cardinality(Holders \ {t}) = Cardinality(Holders) - 1
  BY CountMeaning, FS_RemoveElement
<1>3. Cardinality(Holders \ {t}) \in Nat
  BY CountMeaning, FS_RemoveElement, FS_CardinalityType
<1> QED BY <1>1, <1>2, <1>3 DEF RefCount

(* A step inside a call leaves the holders alone. *)
LEMMA CountSame ==
  ASSUME TypeOK, RefCount, NEW t \in Holders, NEW st \in Stages \ {"idle", "gone"},
         pc' = [pc EXCEPT ![t] = st], sa_refcntr' = sa_refcntr
  PROVE  RefCount' /\ Holders' = Holders
<1>1. Holders' = Holders
  BY DEF Holders, TypeOK
<1> QED BY <1>1 DEF RefCount

(* At the start no call is in progress and the dispositions are the program's. *)
LEMMA InitInv == Init => IInv
<1> SUFFICES ASSUME Init PROVE IInv
  OBVIOUS
<1>1. TypeOK
  BY DEF Init, TypeOK, NoChild, Children
<1>2. Holders = {}
  BY DEF Init, Holders
<1>3. RefCount
  BY <1>2, FS_EmptySet DEF Init, RefCount
<1>4. IgnoredDuringCall /\ DispRestored /\ ChildSignals
  BY DEF Init, IgnoredDuringCall, DispRestored, ChildSignals, NoChild
<1>5. LockInv /\ LoneSetter /\ SavedInv /\ ChildInv
  BY DEF Init, LockInv, LoneSetter, SavedInv, ChildInv, NoChild
<1> QED BY <1>1, <1>3, <1>4, <1>5
-----------------------------------------------------------------------------
(* The program changes a disposition only while nothing is saved. *)
LEMMA Inv_program_sigaction ==
  ASSUME IInv, UNCHANGED version, NEW s \in Signals, NEW d \in Dispositions, program_sigaction(s, d)
  PROVE  IInv'
<1> USE DEF program_sigaction, maskvars
<1>0. sa_refcntr = 0 <=> Holders = {}
  BY CountMeaning
<1>1. \A u \in Holders : sa_refcntr = 1 <=> Holders = {u}
  BY CountMeaning
<1>2. RefCount' /\ sa_refcntr' \in Nat /\ Holders' = Holders
  BY DEF RefCount, Holders, TypeOK
<1>3. TypeOK'
  BY <1>2 DEF TypeOK, Children, NoChild, exec
<1>4. LockInv' /\ LoneSetter'
  BY <1>0, <1>2 DEF TypeOK, LockInv, LoneSetter, Holders
<1>5. IgnoredDuringCall'
  BY <1>0, <1>1 DEF TypeOK, IgnoredDuringCall, SavedInv, LockInv, LoneSetter, Holders
<1>6. DispRestored'
  BY <1>0, <1>1, <1>2 DEF TypeOK, DispRestored, SavedInv, IgnoredDuringCall, Holders
<1>7. SavedInv'
  BY <1>0, <1>1 DEF TypeOK, DispRestored, SavedInv, IgnoredDuringCall, LockInv, LoneSetter, Holders
<1>8. ChildInv'
  BY DEF TypeOK, ChildInv, NoChild, Children, Holders
<1>9. ChildSignals'
  BY DEF TypeOK, ChildSignals, ChildInv, SavedInv, IgnoredDuringCall, NoChild, Children, exec, Holders
<1> QED BY <1>2, <1>3, <1>4, <1>5, <1>6, <1>7, <1>8, <1>9

(* The mask of a thread is not shared. *)
LEMMA Inv_program_sigmask ==
  ASSUME IInv, UNCHANGED version, NEW t \in Threads, NEW b \in BOOLEAN, program_sigmask(t, b)
  PROVE  IInv'
<1> USE DEF program_sigmask, sigvars
<1>0. sa_refcntr = 0 <=> Holders = {}
  BY CountMeaning
<1>1. \A u \in Holders : sa_refcntr = 1 <=> Holders = {u}
  BY CountMeaning
<1>2. RefCount' /\ sa_refcntr' \in Nat /\ Holders' = Holders
  BY DEF RefCount, Holders, TypeOK
<1>3. TypeOK'
  BY <1>2 DEF TypeOK, Children, NoChild, exec
<1>4. LockInv' /\ LoneSetter'
  BY <1>0, <1>2 DEF TypeOK, LockInv, LoneSetter, Holders
<1>5. IgnoredDuringCall'
  BY <1>0, <1>1 DEF TypeOK, IgnoredDuringCall, SavedInv, LockInv, LoneSetter, Holders
<1>6. DispRestored'
  BY <1>0, <1>1, <1>2 DEF TypeOK, DispRestored, SavedInv, IgnoredDuringCall, Holders
<1>7. SavedInv'
  BY <1>0, <1>1 DEF TypeOK, DispRestored, SavedInv, IgnoredDuringCall, LockInv, LoneSetter, Holders
<1>8. ChildInv'
  BY DEF TypeOK, ChildInv, NoChild, Children, Holders
<1>9. ChildSignals'
  BY DEF TypeOK, ChildSignals, ChildInv, SavedInv, IgnoredDuringCall, NoChild, Children, exec, Holders
<1> QED BY <1>2, <1>3, <1>4, <1>5, <1>6, <1>7, <1>8, <1>9

(* The first caller finds nobody else in a call and keeps the lock; a later *)
(* one finds the dispositions set, because nobody holds the lock. *)
LEMMA Inv_add_ref ==
  ASSUME IInv, UNCHANGED version, NEW t \in Threads, add_ref(t)
  PROVE  IInv'
<1> USE DEF add_ref, sigvars, maskvars
<1>0. sa_refcntr = 0 <=> Holders = {}
  BY CountMeaning
<1>1. \A u \in Holders : sa_refcntr = 1 <=> Holders = {u}
  BY CountMeaning
<1>a. Holders' = Holders \cup {t} /\ sa_refcntr' \in Nat
  BY DEF Holders, TypeOK
<1>b. PICK st \in {"set_int", "block"} : pc' = [pc EXCEPT ![t] = st]
  OBVIOUS
<1>2. RefCount' /\ sa_refcntr' \in Nat /\ Holders' = Holders \cup {t}
  BY <1>a, <1>b, CountUp
<1>3. TypeOK'
  BY <1>2 DEF TypeOK, Children, NoChild, exec
<1>4. LockInv' /\ LoneSetter'
  BY <1>0, <1>2 DEF TypeOK, LockInv, LoneSetter, Holders
<1>5. IgnoredDuringCall'
  BY <1>0, <1>1 DEF TypeOK, IgnoredDuringCall, SavedInv, LockInv, LoneSetter, Holders
<1>6. DispRestored'
  BY <1>0, <1>1, <1>2 DEF TypeOK, DispRestored, SavedInv, IgnoredDuringCall, Holders
<1>7. SavedInv'
  <2>1. CASE sa_refcntr = 0
    BY <1>0, <2>1 DEF TypeOK, SavedInv, Holders
  <2>2. CASE sa_refcntr # 0
    <3>1. Holders # {} /\ unset_disp' = {} /\ user' = user /\ saved' = saved
      BY <1>0, <2>2 DEF SavedInv
    <3>2. \A u \in Threads : pc[u] \notin {"set_int", "set_quit"}
      BY DEF LockInv
    <3>3. \E u \in Threads : pc[u] \in Active
      BY <3>1, <3>2 DEF Holders, TypeOK
    <3> QED BY <2>2, <3>1, <3>2, <3>3 DEF SavedInv, TypeOK
  <2> QED BY <2>1, <2>2
<1>8. ChildInv'
  BY DEF TypeOK, ChildInv, NoChild, Children, Holders
<1>9. ChildSignals'
  <2>1. Holders = {} => \A u \in Threads : child[u] = NoChild
    BY DEF ChildInv, Holders, TypeOK
  <2>2. CASE sa_refcntr = 0
    BY <1>0, <2>1, <2>2 DEF TypeOK, ChildSignals, NoChild
  <2>3. CASE sa_refcntr # 0
    BY <2>3 DEF TypeOK, ChildSignals
  <2> QED BY <2>2, <2>3
<1> QED BY <1>2, <1>3, <1>4, <1>5, <1>6, <1>7, <1>8, <1>9

(* Only the caller that holds the lock saves a disposition. *)
LEMMA Inv_set_int ==
  ASSUME IInv, UNCHANGED version, NEW t \in Threads, set_int(t)
  PROVE  IInv'
<1> USE DEF set_int, goto, ignore_signal, maskvars
<1>0. sa_refcntr = 0 <=> Holders = {}
  BY CountMeaning
<1>1. \A u \in Holders : sa_refcntr = 1 <=> Holders = {u}
  BY CountMeaning
<1>a. t \in Holders
  BY DEF Holders
<1>2. RefCount' /\ sa_refcntr' \in Nat /\ Holders' = Holders
  BY <1>a, CountSame DEF TypeOK
<1>3. TypeOK'
  BY <1>2 DEF TypeOK, Children, NoChild, exec
<1>4. LockInv' /\ LoneSetter'
  BY <1>0, <1>2 DEF TypeOK, LockInv, LoneSetter, Holders
<1>5. IgnoredDuringCall'
  BY <1>0, <1>1 DEF TypeOK, IgnoredDuringCall, SavedInv, LockInv, LoneSetter, Holders
<1>6. DispRestored'
  BY <1>0, <1>1, <1>2 DEF TypeOK, DispRestored, SavedInv, IgnoredDuringCall, Holders
<1>7. SavedInv'
  BY <1>0, <1>1 DEF TypeOK, DispRestored, SavedInv, IgnoredDuringCall, LockInv, LoneSetter, Holders
<1>8. ChildInv'
  BY DEF TypeOK, ChildInv, NoChild, Children, Holders
<1>9. ChildSignals'
  BY DEF TypeOK, ChildSignals, ChildInv, SavedInv, IgnoredDuringCall, NoChild, Children, exec, Holders
<1> QED BY <1>2, <1>3, <1>4, <1>5, <1>6, <1>7, <1>8, <1>9

(* With the second signal the dispositions are complete before the lock goes. *)
LEMMA Inv_set_quit ==
  ASSUME IInv, UNCHANGED version, NEW t \in Threads, set_quit(t)
  PROVE  IInv'
<1> USE DEF set_quit, goto, ignore_signal, maskvars
<1>0. sa_refcntr = 0 <=> Holders = {}
  BY CountMeaning
<1>1. \A u \in Holders : sa_refcntr = 1 <=> Holders = {u}
  BY CountMeaning
<1>a. t \in Holders
  BY DEF Holders
<1>2. RefCount' /\ sa_refcntr' \in Nat /\ Holders' = Holders
  BY <1>a, CountSame DEF TypeOK
<1>3. TypeOK'
  BY <1>2 DEF TypeOK, Children, NoChild, exec
<1>4. LockInv' /\ LoneSetter'
  BY <1>0, <1>2 DEF TypeOK, LockInv, LoneSetter, Holders
<1>5. IgnoredDuringCall'
  BY <1>0, <1>1 DEF TypeOK, IgnoredDuringCall, SavedInv, LockInv, LoneSetter, Holders
<1>6. DispRestored'
  BY <1>0, <1>1, <1>2 DEF TypeOK, DispRestored, SavedInv, IgnoredDuringCall, Holders
<1>7. SavedInv'
  BY <1>0, <1>1 DEF TypeOK, DispRestored, SavedInv, IgnoredDuringCall, LockInv, LoneSetter, Holders
<1>8. ChildInv'
  BY DEF TypeOK, ChildInv, NoChild, Children, Holders
<1>9. ChildSignals'
  BY DEF TypeOK, ChildSignals, ChildInv, SavedInv, IgnoredDuringCall, NoChild, Children, exec, Holders
<1> QED BY <1>2, <1>3, <1>4, <1>5, <1>6, <1>7, <1>8, <1>9

(* A first caller that fails at once has changed nothing. *)
LEMMA Inv_set_int_fails ==
  ASSUME IInv, UNCHANGED version, NEW t \in Threads, set_int_fails(t)
  PROVE  IInv'
<1> USE DEF set_int_fails, goto, sigvars, maskvars
<1>0. sa_refcntr = 0 <=> Holders = {}
  BY CountMeaning
<1>1. \A u \in Holders : sa_refcntr = 1 <=> Holders = {u}
  BY CountMeaning
<1>a. t \in Holders
  BY DEF Holders
<1>2. RefCount' /\ sa_refcntr' \in Nat /\ Holders' = Holders \ {t}
  BY <1>a, CountDown
<1>3. TypeOK'
  BY <1>2 DEF TypeOK, Children, NoChild, exec
<1>4. LockInv' /\ LoneSetter'
  BY <1>0, <1>2 DEF TypeOK, LockInv, LoneSetter, Holders
<1>5. IgnoredDuringCall'
  BY <1>0, <1>1 DEF TypeOK, IgnoredDuringCall, SavedInv, LockInv, LoneSetter, Holders
<1>6. DispRestored'
  BY <1>0, <1>1, <1>2 DEF TypeOK, DispRestored, SavedInv, IgnoredDuringCall, Holders
<1>7. SavedInv'
  BY <1>0, <1>1 DEF TypeOK, DispRestored, SavedInv, IgnoredDuringCall, LockInv, LoneSetter, Holders
<1>8. ChildInv'
  BY DEF TypeOK, ChildInv, NoChild, Children, Holders
<1>9. ChildSignals'
  BY DEF TypeOK, ChildSignals, ChildInv, SavedInv, IgnoredDuringCall, NoChild, Children, exec, Holders
<1> QED BY <1>2, <1>3, <1>4, <1>5, <1>6, <1>7, <1>8, <1>9

(* A first caller that fails half-way gives SIGINT back. *)
LEMMA Inv_set_quit_fails ==
  ASSUME IInv, UNCHANGED version, NEW t \in Threads, set_quit_fails(t)
  PROVE  IInv'
<1> USE DEF set_quit_fails, goto, maskvars
<1>0. sa_refcntr = 0 <=> Holders = {}
  BY CountMeaning
<1>1. \A u \in Holders : sa_refcntr = 1 <=> Holders = {u}
  BY CountMeaning
<1>a. t \in Holders
  BY DEF Holders
<1>2. RefCount' /\ sa_refcntr' \in Nat /\ Holders' = Holders \ {t}
  BY <1>a, CountDown
<1>3. TypeOK'
  BY <1>2 DEF TypeOK, Children, NoChild, exec
<1>4. LockInv' /\ LoneSetter'
  BY <1>0, <1>2 DEF TypeOK, LockInv, LoneSetter, Holders
<1>5. IgnoredDuringCall'
  BY <1>0, <1>1 DEF TypeOK, IgnoredDuringCall, SavedInv, LockInv, LoneSetter, Holders
<1>6. DispRestored'
  BY <1>0, <1>1, <1>2 DEF TypeOK, DispRestored, SavedInv, IgnoredDuringCall, Holders
<1>7. SavedInv'
  BY <1>0, <1>1 DEF TypeOK, DispRestored, SavedInv, IgnoredDuringCall, LockInv, LoneSetter, Holders
<1>8. ChildInv'
  BY DEF TypeOK, ChildInv, NoChild, Children, Holders
<1>9. ChildSignals'
  BY DEF TypeOK, ChildSignals, ChildInv, SavedInv, IgnoredDuringCall, NoChild, Children, exec, Holders
<1> QED BY <1>2, <1>3, <1>4, <1>5, <1>6, <1>7, <1>8, <1>9

(* Blocking SIGCHLD touches only the mask of the caller. *)
LEMMA Inv_block_sigchld ==
  ASSUME IInv, UNCHANGED version, NEW t \in Threads, block_sigchld(t)
  PROVE  IInv'
<1> USE DEF block_sigchld, goto, sigvars
<1>0. sa_refcntr = 0 <=> Holders = {}
  BY CountMeaning
<1>1. \A u \in Holders : sa_refcntr = 1 <=> Holders = {u}
  BY CountMeaning
<1>a. t \in Holders
  BY DEF Holders
<1>2. RefCount' /\ sa_refcntr' \in Nat /\ Holders' = Holders
  BY <1>a, CountSame DEF TypeOK
<1>3. TypeOK'
  BY <1>2 DEF TypeOK, Children, NoChild, exec
<1>4. LockInv' /\ LoneSetter'
  BY <1>0, <1>2 DEF TypeOK, LockInv, LoneSetter, Holders
<1>5. IgnoredDuringCall'
  BY <1>0, <1>1 DEF TypeOK, IgnoredDuringCall, SavedInv, LockInv, LoneSetter, Holders
<1>6. DispRestored'
  BY <1>0, <1>1, <1>2 DEF TypeOK, DispRestored, SavedInv, IgnoredDuringCall, Holders
<1>7. SavedInv'
  BY <1>0, <1>1 DEF TypeOK, DispRestored, SavedInv, IgnoredDuringCall, LockInv, LoneSetter, Holders
<1>8. ChildInv'
  BY DEF TypeOK, ChildInv, NoChild, Children, Holders
<1>9. ChildSignals'
  BY DEF TypeOK, ChildSignals, ChildInv, SavedInv, IgnoredDuringCall, NoChild, Children, exec, Holders
<1> QED BY <1>2, <1>3, <1>4, <1>5, <1>6, <1>7, <1>8, <1>9

(* The caller whose mask cannot be set leaves like one that is done. *)
LEMMA Inv_block_fails ==
  ASSUME IInv, UNCHANGED version, NEW t \in Threads, block_fails(t)
  PROVE  IInv'
<1> USE DEF block_fails, goto, release, maskvars
<1>0. sa_refcntr = 0 <=> Holders = {}
  BY CountMeaning
<1>1. \A u \in Holders : sa_refcntr = 1 <=> Holders = {u}
  BY CountMeaning
<1>a. t \in Holders
  BY DEF Holders
<1>2. RefCount' /\ sa_refcntr' \in Nat /\ Holders' = Holders \ {t}
  BY <1>a, CountDown
<1>3. TypeOK'
  BY <1>2 DEF TypeOK, Children, NoChild, exec
<1>4. LockInv' /\ LoneSetter'
  BY <1>0, <1>2 DEF TypeOK, LockInv, LoneSetter, Holders
<1>5. IgnoredDuringCall'
  BY <1>0, <1>1 DEF TypeOK, IgnoredDuringCall, SavedInv, LockInv, LoneSetter, Holders
<1>6. DispRestored'
  BY <1>0, <1>1, <1>2 DEF TypeOK, DispRestored, SavedInv, IgnoredDuringCall, Holders
<1>7. SavedInv'
  BY <1>0, <1>1 DEF TypeOK, DispRestored, SavedInv, IgnoredDuringCall, LockInv, LoneSetter, Holders
<1>8. ChildInv'
  BY DEF TypeOK, ChildInv, NoChild, Children, Holders
<1>9. ChildSignals'
  BY DEF TypeOK, ChildSignals, ChildInv, SavedInv, IgnoredDuringCall, NoChild, Children, exec, Holders
<1> QED BY <1>2, <1>3, <1>4, <1>5, <1>6, <1>7, <1>8, <1>9

(* The forked shell takes the saved dispositions, which are the program's. *)
LEMMA Inv_do_fork ==
  ASSUME IInv, UNCHANGED version, NEW t \in Threads, do_fork(t)
  PROVE  IInv'
<1> USE DEF do_fork, goto, sigvars, maskvars
<1>0. sa_refcntr = 0 <=> Holders = {}
  BY CountMeaning
<1>1. \A u \in Holders : sa_refcntr = 1 <=> Holders = {u}
  BY CountMeaning
<1>a. t \in Holders
  BY DEF Holders
<1>2. RefCount' /\ sa_refcntr' \in Nat /\ Holders' = Holders
  BY <1>a, CountSame DEF TypeOK
<1>3. TypeOK'
  BY <1>2 DEF TypeOK, Children, NoChild, exec
<1>4. LockInv' /\ LoneSetter'
  BY <1>0, <1>2 DEF TypeOK, LockInv, LoneSetter, Holders
<1>5. IgnoredDuringCall'
  BY <1>0, <1>1 DEF TypeOK, IgnoredDuringCall, SavedInv, LockInv, LoneSetter, Holders
<1>6. DispRestored'
  BY <1>0, <1>1, <1>2 DEF TypeOK, DispRestored, SavedInv, IgnoredDuringCall, Holders
<1>7. SavedInv'
  BY <1>0, <1>1 DEF TypeOK, DispRestored, SavedInv, IgnoredDuringCall, LockInv, LoneSetter, Holders
<1>8. ChildInv'
  BY DEF TypeOK, ChildInv, NoChild, Children, Holders
<1>9. ChildSignals'
  BY DEF TypeOK, ChildSignals, ChildInv, SavedInv, IgnoredDuringCall, NoChild, Children, exec, Holders
<1> QED BY <1>2, <1>3, <1>4, <1>5, <1>6, <1>7, <1>8, <1>9

(* A signal that is not reset is one the program ignores. *)
LEMMA Inv_posix_spawn ==
  ASSUME IInv, UNCHANGED version, NEW t \in Threads, posix_spawn(t)
  PROVE  IInv'
<1> USE DEF posix_spawn, goto, sigvars, maskvars
<1>0. sa_refcntr = 0 <=> Holders = {}
  BY CountMeaning
<1>1. \A u \in Holders : sa_refcntr = 1 <=> Holders = {u}
  BY CountMeaning
<1>a. t \in Holders
  BY DEF Holders
<1>2. RefCount' /\ sa_refcntr' \in Nat /\ Holders' = Holders
  BY <1>a, CountSame DEF TypeOK
<1>3. TypeOK'
  BY <1>2 DEF TypeOK, Children, NoChild, exec
<1>4. LockInv' /\ LoneSetter'
  BY <1>0, <1>2 DEF TypeOK, LockInv, LoneSetter, Holders
<1>5. IgnoredDuringCall'
  BY <1>0, <1>1 DEF TypeOK, IgnoredDuringCall, SavedInv, LockInv, LoneSetter, Holders
<1>6. DispRestored'
  BY <1>0, <1>1, <1>2 DEF TypeOK, DispRestored, SavedInv, IgnoredDuringCall, Holders
<1>7. SavedInv'
  BY <1>0, <1>1 DEF TypeOK, DispRestored, SavedInv, IgnoredDuringCall, LockInv, LoneSetter, Holders
<1>8. ChildInv'
  BY DEF TypeOK, ChildInv, NoChild, Children, Holders
<1>9. ChildSignals'
  BY DEF TypeOK, ChildSignals, ChildInv, SavedInv, IgnoredDuringCall, NoChild, Children, exec, Holders
<1> QED BY <1>2, <1>3, <1>4, <1>5, <1>6, <1>7, <1>8, <1>9

(* Without a shell the call goes straight to its end. *)
LEMMA Inv_spawn_fails ==
  ASSUME IInv, UNCHANGED version, NEW t \in Threads, spawn_fails(t)
  PROVE  IInv'
<1> USE DEF spawn_fails, goto, sigvars, maskvars
<1>0. sa_refcntr = 0 <=> Holders = {}
  BY CountMeaning
<1>1. \A u \in Holders : sa_refcntr = 1 <=> Holders = {u}
  BY CountMeaning
<1>a. t \in Holders
  BY DEF Holders
<1>2. RefCount' /\ sa_refcntr' \in Nat /\ Holders' = Holders
  BY <1>a, CountSame DEF TypeOK
<1>3. TypeOK'
  BY <1>2 DEF TypeOK, Children, NoChild, exec
<1>4. LockInv' /\ LoneSetter'
  BY <1>0, <1>2 DEF TypeOK, LockInv, LoneSetter, Holders
<1>5. IgnoredDuringCall'
  BY <1>0, <1>1 DEF TypeOK, IgnoredDuringCall, SavedInv, LockInv, LoneSetter, Holders
<1>6. DispRestored'
  BY <1>0, <1>1, <1>2 DEF TypeOK, DispRestored, SavedInv, IgnoredDuringCall, Holders
<1>7. SavedInv'
  BY <1>0, <1>1 DEF TypeOK, DispRestored, SavedInv, IgnoredDuringCall, LockInv, LoneSetter, Holders
<1>8. ChildInv'
  BY DEF TypeOK, ChildInv, NoChild, Children, Holders
<1>9. ChildSignals'
  BY DEF TypeOK, ChildSignals, ChildInv, SavedInv, IgnoredDuringCall, NoChild, Children, exec, Holders
<1> QED BY <1>2, <1>3, <1>4, <1>5, <1>6, <1>7, <1>8, <1>9

(* A shell that ends changes nothing in the process. *)
LEMMA Inv_child_exits ==
  ASSUME IInv, UNCHANGED version, NEW t \in Threads, child_exits(t)
  PROVE  IInv'
<1> USE DEF child_exits, goto, sigvars, maskvars
<1>0. sa_refcntr = 0 <=> Holders = {}
  BY CountMeaning
<1>1. \A u \in Holders : sa_refcntr = 1 <=> Holders = {u}
  BY CountMeaning
<1>2. RefCount' /\ sa_refcntr' \in Nat /\ Holders' = Holders
  BY DEF RefCount, Holders, TypeOK
<1>3. TypeOK'
  BY <1>2 DEF TypeOK, Children, NoChild, exec
<1>4. LockInv' /\ LoneSetter'
  BY <1>0, <1>2 DEF TypeOK, LockInv, LoneSetter, Holders
<1>5. IgnoredDuringCall'
  BY <1>0, <1>1 DEF TypeOK, IgnoredDuringCall, SavedInv, LockInv, LoneSetter, Holders
<1>6. DispRestored'
  BY <1>0, <1>1, <1>2 DEF TypeOK, DispRestored, SavedInv, IgnoredDuringCall, Holders
<1>7. SavedInv'
  BY <1>0, <1>1 DEF TypeOK, DispRestored, SavedInv, IgnoredDuringCall, LockInv, LoneSetter, Holders
<1>8. ChildInv'
  BY DEF TypeOK, ChildInv, NoChild, Children, Holders
<1>9. ChildSignals'
  BY DEF TypeOK, ChildSignals, ChildInv, SavedInv, IgnoredDuringCall, NoChild, Children, exec, Holders
<1> QED BY <1>2, <1>3, <1>4, <1>5, <1>6, <1>7, <1>8, <1>9

(* Collecting the shell ends what there is to say about it. *)
LEMMA Inv_waitpid ==
  ASSUME IInv, UNCHANGED version, NEW t \in Threads, waitpid(t)
  PROVE  IInv'
<1> USE DEF waitpid, collect, goto, sigvars, maskvars
<1>0. sa_refcntr = 0 <=> Holders = {}
  BY CountMeaning
<1>1. \A u \in Holders : sa_refcntr = 1 <=> Holders = {u}
  BY CountMeaning
<1>a. t \in Holders
  BY DEF Holders
<1>2. RefCount' /\ sa_refcntr' \in Nat /\ Holders' = Holders
  BY <1>a, CountSame DEF TypeOK
<1>3. TypeOK'
  BY <1>2 DEF TypeOK, Children, NoChild, exec
<1>4. LockInv' /\ LoneSetter'
  BY <1>0, <1>2 DEF TypeOK, LockInv, LoneSetter, Holders
<1>5. IgnoredDuringCall'
  BY <1>0, <1>1 DEF TypeOK, IgnoredDuringCall, SavedInv, LockInv, LoneSetter, Holders
<1>6. DispRestored'
  BY <1>0, <1>1, <1>2 DEF TypeOK, DispRestored, SavedInv, IgnoredDuringCall, Holders
<1>7. SavedInv'
  BY <1>0, <1>1 DEF TypeOK, DispRestored, SavedInv, IgnoredDuringCall, LockInv, LoneSetter, Holders
<1>8. ChildInv'
  BY DEF TypeOK, ChildInv, NoChild, Children, Holders
<1>9. ChildSignals'
  BY DEF TypeOK, ChildSignals, ChildInv, SavedInv, IgnoredDuringCall, NoChild, Children, exec, Holders
<1> QED BY <1>2, <1>3, <1>4, <1>5, <1>6, <1>7, <1>8, <1>9

(* A cancelled call keeps its reference while it kills the shell. *)
LEMMA Inv_cancelled ==
  ASSUME IInv, UNCHANGED version, NEW t \in Threads, cancelled(t)
  PROVE  IInv'
<1> USE DEF cancelled, goto, sigvars, maskvars
<1>0. sa_refcntr = 0 <=> Holders = {}
  BY CountMeaning
<1>1. \A u \in Holders : sa_refcntr = 1 <=> Holders = {u}
  BY CountMeaning
<1>a. t \in Holders
  BY DEF Holders
<1>2. RefCount' /\ sa_refcntr' \in Nat /\ Holders' = Holders
  BY <1>a, CountSame DEF TypeOK
<1>3. TypeOK'
  BY <1>2 DEF TypeOK, Children, NoChild, exec
<1>4. LockInv' /\ LoneSetter'
  BY <1>0, <1>2 DEF TypeOK, LockInv, LoneSetter, Holders
<1>5. IgnoredDuringCall'
  BY <1>0, <1>1 DEF TypeOK, IgnoredDuringCall, SavedInv, LockInv, LoneSetter, Holders
<1>6. DispRestored'
  BY <1>0, <1>1, <1>2 DEF TypeOK, DispRestored, SavedInv, IgnoredDuringCall, Holders
<1>7. SavedInv'
  BY <1>0, <1>1 DEF TypeOK, DispRestored, SavedInv, IgnoredDuringCall, LockInv, LoneSetter, Holders
<1>8. ChildInv'
  BY DEF TypeOK, ChildInv, NoChild, Children, Holders
<1>9. ChildSignals'
  BY DEF TypeOK, ChildSignals, ChildInv, SavedInv, IgnoredDuringCall, NoChild, Children, exec, Holders
<1> QED BY <1>2, <1>3, <1>4, <1>5, <1>6, <1>7, <1>8, <1>9

(* The handler waits like the call would have. *)
LEMMA Inv_cancel_reap ==
  ASSUME IInv, UNCHANGED version, NEW t \in Threads, cancel_reap(t)
  PROVE  IInv'
<1> USE DEF cancel_reap, collect, goto, sigvars, maskvars
<1>0. sa_refcntr = 0 <=> Holders = {}
  BY CountMeaning
<1>1. \A u \in Holders : sa_refcntr = 1 <=> Holders = {u}
  BY CountMeaning
<1>a. t \in Holders
  BY DEF Holders
<1>2. RefCount' /\ sa_refcntr' \in Nat /\ Holders' = Holders
  BY <1>a, CountSame DEF TypeOK
<1>3. TypeOK'
  BY <1>2 DEF TypeOK, Children, NoChild, exec
<1>4. LockInv' /\ LoneSetter'
  BY <1>0, <1>2 DEF TypeOK, LockInv, LoneSetter, Holders
<1>5. IgnoredDuringCall'
  BY <1>0, <1>1 DEF TypeOK, IgnoredDuringCall, SavedInv, LockInv, LoneSetter, Holders
<1>6. DispRestored'
  BY <1>0, <1>1, <1>2 DEF TypeOK, DispRestored, SavedInv, IgnoredDuringCall, Holders
<1>7. SavedInv'
  BY <1>0, <1>1 DEF TypeOK, DispRestored, SavedInv, IgnoredDuringCall, LockInv, LoneSetter, Holders
<1>8. ChildInv'
  BY DEF TypeOK, ChildInv, NoChild, Children, Holders
<1>9. ChildSignals'
  BY DEF TypeOK, ChildSignals, ChildInv, SavedInv, IgnoredDuringCall, NoChild, Children, exec, Holders
<1> QED BY <1>2, <1>3, <1>4, <1>5, <1>6, <1>7, <1>8, <1>9

(* The handler gives the reference up like the call would have. *)
LEMMA Inv_cancel_release ==
  ASSUME IInv, UNCHANGED version, NEW t \in Threads, cancel_release(t)
  PROVE  IInv'
<1> USE DEF cancel_release, goto, release, maskvars
<1>0. sa_refcntr = 0 <=> Holders = {}
  BY CountMeaning
<1>1. \A u \in Holders : sa_refcntr = 1 <=> Holders = {u}
  BY CountMeaning
<1>a. t \in Holders
  BY DEF Holders
<1>2. RefCount' /\ sa_refcntr' \in Nat /\ Holders' = Holders \ {t}
  BY <1>a, CountDown
<1>3. TypeOK'
  BY <1>2 DEF TypeOK, Children, NoChild, exec
<1>4. LockInv' /\ LoneSetter'
  BY <1>0, <1>2 DEF TypeOK, LockInv, LoneSetter, Holders
<1>5. IgnoredDuringCall'
  BY <1>0, <1>1 DEF TypeOK, IgnoredDuringCall, SavedInv, LockInv, LoneSetter, Holders
<1>6. DispRestored'
  BY <1>0, <1>1, <1>2 DEF TypeOK, DispRestored, SavedInv, IgnoredDuringCall, Holders
<1>7. SavedInv'
  BY <1>0, <1>1 DEF TypeOK, DispRestored, SavedInv, IgnoredDuringCall, LockInv, LoneSetter, Holders
<1>8. ChildInv'
  BY DEF TypeOK, ChildInv, NoChild, Children, Holders
<1>9. ChildSignals'
  BY DEF TypeOK, ChildSignals, ChildInv, SavedInv, IgnoredDuringCall, NoChild, Children, exec, Holders
<1> QED BY <1>2, <1>3, <1>4, <1>5, <1>6, <1>7, <1>8, <1>9

(* The last caller gives back what is saved, any other leaves it. *)
LEMMA Inv_sub_ref_227 ==
  ASSUME IInv, UNCHANGED version, NEW t \in Threads, sub_ref_227(t)
  PROVE  IInv'
<1> USE DEF sub_ref_227, goto, release
<1>0. sa_refcntr = 0 <=> Holders = {}
  BY CountMeaning
<1>1. \A u \in Holders : sa_refcntr = 1 <=> Holders = {u}
  BY CountMeaning
<1>a. t \in Holders
  BY DEF Holders
<1>2. RefCount' /\ sa_refcntr' \in Nat /\ Holders' = Holders \ {t}
  BY <1>a, CountDown
<1>3. TypeOK'
  BY <1>2 DEF TypeOK, Children, NoChild, exec
<1>4. LockInv' /\ LoneSetter'
  BY <1>0, <1>2 DEF TypeOK, LockInv, LoneSetter, Holders
<1>5. IgnoredDuringCall'
  BY <1>0, <1>1 DEF TypeOK, IgnoredDuringCall, SavedInv, LockInv, LoneSetter, Holders
<1>6. DispRestored'
  BY <1>0, <1>1, <1>2 DEF TypeOK, DispRestored, SavedInv, IgnoredDuringCall, Holders
<1>7. SavedInv'
  BY <1>0, <1>1 DEF TypeOK, DispRestored, SavedInv, IgnoredDuringCall, LockInv, LoneSetter, Holders
<1>8. ChildInv'
  BY DEF TypeOK, ChildInv, NoChild, Children, Holders
<1>9. ChildSignals'
  BY DEF TypeOK, ChildSignals, ChildInv, SavedInv, IgnoredDuringCall, NoChild, Children, exec, Holders
<1> QED BY <1>2, <1>3, <1>4, <1>5, <1>6, <1>7, <1>8, <1>9

(* A last caller that cannot give a disposition back leaves it ignored and *)
(* on record.                                                              *)
LEMMA Inv_sub_ref_227_fails ==
  ASSUME IInv, UNCHANGED version, NEW t \in Threads, sub_ref_227_fails(t)
  PROVE  IInv'
<1> USE DEF sub_ref_227_fails, goto
<1>0. sa_refcntr = 0 <=> Holders = {}
  BY CountMeaning
<1>1. \A u \in Holders : sa_refcntr = 1 <=> Holders = {u}
  BY CountMeaning
<1>a. t \in Holders
  BY DEF Holders
<1>2. RefCount' /\ sa_refcntr' \in Nat /\ Holders' = Holders \ {t}
  BY <1>a, CountDown
<1>3. TypeOK'
  <2>1. disp' \in [Signals -> Dispositions] /\ unset_disp' \subseteq Signals
    <3>1. ASSUME NEW failed \in SUBSET Signals,
                 disp' = [s \in Signals |-> IF s \in failed THEN disp[s] ELSE saved[s]]
          PROVE  disp' \in [Signals -> Dispositions]
      BY <3>1 DEF TypeOK
    <3>2. disp' \in [Signals -> Dispositions]
      BY <3>1 DEF TypeOK
    <3> QED BY <3>2 DEF TypeOK
  <2> QED BY <1>2, <2>1 DEF TypeOK, Children, NoChild
<1>4. LockInv' /\ LoneSetter'
  BY <1>0, <1>2 DEF TypeOK, LockInv, LoneSetter, Holders
<1>5. IgnoredDuringCall'
  BY <1>0, <1>1 DEF TypeOK, IgnoredDuringCall, SavedInv, LockInv, LoneSetter, Holders
<1>6. DispRestored'
  BY <1>0, <1>1, <1>2 DEF TypeOK, DispRestored, SavedInv, IgnoredDuringCall, Holders
<1>7. SavedInv'
  <2>1. \A u \in Threads : pc'[u] \notin {"set_int", "set_quit"}
    BY DEF LockInv, TypeOK
  <2>2. saved = user /\ unset_disp = {}
    BY <1>a DEF SavedInv
  <2>3. Holders' # {} => sa_refcntr # 1
    BY <1>1, <1>2, <1>a
  <2> QED BY <2>1, <2>2, <2>3 DEF SavedInv
<1>8. ChildInv'
  BY DEF TypeOK, ChildInv, NoChild, Children, Holders
<1>9. ChildSignals'
  BY DEF TypeOK, ChildSignals, ChildInv, SavedInv, IgnoredDuringCall, NoChild, Children, exec, Holders
<1> QED BY <1>2, <1>3, <1>4, <1>5, <1>6, <1>7, <1>8, <1>9

(* The last caller gives back what is saved, any other leaves it. *)
LEMMA Inv_sub_ref_232 ==
  ASSUME IInv, UNCHANGED version, NEW t \in Threads, sub_ref_232(t)
  PROVE  IInv'
<1> USE DEF sub_ref_232, goto, release
<1>0. sa_refcntr = 0 <=> Holders = {}
  BY CountMeaning
<1>1. \A u \in Holders : sa_refcntr = 1 <=> Holders = {u}
  BY CountMeaning
<1>a. t \in Holders
  BY DEF Holders
<1>2. RefCount' /\ sa_refcntr' \in Nat /\ Holders' = Holders \ {t}
  BY <1>a, CountDown
<1>3. TypeOK'
  BY <1>2 DEF TypeOK, Children, NoChild, exec
<1>4. LockInv' /\ LoneSetter'
  BY <1>0, <1>2 DEF TypeOK, LockInv, LoneSetter, Holders
<1>5. IgnoredDuringCall'
  BY <1>0, <1>1 DEF TypeOK, IgnoredDuringCall, SavedInv, LockInv, LoneSetter, Holders
<1>6. DispRestored'
  BY <1>0, <1>1, <1>2 DEF TypeOK, DispRestored, SavedInv, IgnoredDuringCall, Holders
<1>7. SavedInv'
  BY <1>0, <1>1 DEF TypeOK, DispRestored, SavedInv, IgnoredDuringCall, LockInv, LoneSetter, Holders
<1>8. ChildInv'
  BY DEF TypeOK, ChildInv, NoChild, Children, Holders
<1>9. ChildSignals'
  BY DEF TypeOK, ChildSignals, ChildInv, SavedInv, IgnoredDuringCall, NoChild, Children, exec, Holders
<1> QED BY <1>2, <1>3, <1>4, <1>5, <1>6, <1>7, <1>8, <1>9

-----------------------------------------------------------------------------
(* Every step of the process keeps the invariant. *)
LEMMA NextInv == IInv /\ [Next]_vars => IInv'
<1> SUFFICES ASSUME IInv, [Next]_vars PROVE IInv'
  OBVIOUS
<1>1. ASSUME NEW s \in Signals, NEW d \in Dispositions, UNCHANGED version,
             program_sigaction(s, d) PROVE IInv'
  BY <1>1, Inv_program_sigaction
<1>2. ASSUME NEW t \in Threads, NEW b \in BOOLEAN, UNCHANGED version, program_sigmask(t, b) PROVE IInv'
  BY <1>2, Inv_program_sigmask
<1>3. ASSUME NEW t \in Threads, UNCHANGED version,
             add_ref(t) \/ cancelled(t) \/ child_exits(t)
      PROVE IInv'
  BY <1>3, Inv_add_ref, Inv_cancelled, Inv_child_exits
<1>4. ASSUME NEW t \in Threads, CallStep(t) PROVE IInv'
  BY <1>4, Inv_set_int, Inv_set_quit, Inv_set_int_fails, Inv_set_quit_fails,
     Inv_block_sigchld, Inv_block_fails, Inv_do_fork, Inv_posix_spawn, Inv_spawn_fails,
     Inv_waitpid, Inv_cancel_reap, Inv_cancel_release, Inv_sub_ref_227, Inv_sub_ref_227_fails,
     Inv_sub_ref_232
     DEF CallStep
<1>5. ASSUME UNCHANGED vars PROVE IInv'
  BY <1>5 DEF vars, sigvars, maskvars, TypeOK, RefCount, Holders, IgnoredDuringCall, DispRestored, ChildSignals,
              LockInv, LoneSetter, SavedInv, ChildInv
<1> QED BY <1>1, <1>2, <1>3, <1>4, <1>5 DEF Next

(* The invariant of do_system holds in every state, for any number of threads. *)
THEOREM Invariance == Spec => []IInv
  BY InitInv, NextInv, PTL DEF Spec

(* sa_refcntr counts the calls in progress, whatever fails or is cancelled. *)
THEOREM ReferenceCounting == Spec => []RefCount
<1>1. IInv => RefCount
  BY DEF IInv
<1> QED BY <1>1, Invariance, PTL

(* SIGINT and SIGQUIT are ignored during every call and given back after the *)
(* last one, and each shell gets what the program had asked for.             *)
THEOREM SignalSafety == Spec => []SignalsRight
<1>1. IInv => SignalsRight
  BY DEF IInv, SignalsRight
<1> QED BY <1>1, Invariance, PTL

(* A call that is over has collected its shell. *)
THEOREM NoShellLeft == Spec => []ChildCollected
<1>1. IInv => ChildCollected
  BY DEF IInv, ChildInv, ChildCollected
<1> QED BY <1>1, Invariance, PTL
-----------------------------------------------------------------------------
(* A step of a 2.27 process moves the wanted mask from blocked to omask and  *)
(* back, for the thread that takes it alone.                                 *)
LEMMA MaskStep ==
  ASSUME IInv, MaskInv227, [Next]_vars
  PROVE  MaskInv227'
<1> USE DEF MaskInv227, TypeOK, ChildInv
<1>1. CASE UNCHANGED vars
  BY <1>1 DEF vars, sigvars, maskvars
<1>2. ASSUME NEW s \in Signals, NEW d \in Dispositions, UNCHANGED version, program_sigaction(s, d)
      PROVE  MaskInv227'
  BY <1>2 DEF program_sigaction, maskvars
<1>3. ASSUME NEW t \in Threads, NEW b \in BOOLEAN, UNCHANGED version, program_sigmask(t, b)
      PROVE  MaskInv227'
  BY <1>3 DEF program_sigmask, NoChild
<1>4. ASSUME NEW t \in Threads, UNCHANGED version, add_ref(t)
      PROVE  MaskInv227'
  <2>1. child[t].st # "running"
    BY <1>4 DEF add_ref, NoChild
  <2> QED BY <1>4, <2>1 DEF add_ref
<1>5. ASSUME NEW t \in Threads, UNCHANGED version, cancelled(t)
      PROVE  MaskInv227'
  BY <1>5 DEF cancelled
<1>6. ASSUME NEW t \in Threads, UNCHANGED version, child_exits(t)
      PROVE  MaskInv227'
  BY <1>6 DEF child_exits, maskvars, Children, NoChild
<1>7. ASSUME NEW t \in Threads, CallStep(t)
      PROVE  MaskInv227'
  <2>1. CASE set_int(t)
    BY <1>7, <2>1 DEF CallStep, set_int, goto, ignore_signal, maskvars, NoChild
  <2>2. CASE set_quit(t)
    BY <1>7, <2>2 DEF CallStep, set_quit, goto, ignore_signal, maskvars, NoChild
  <2>3. CASE set_int_fails(t)
    BY <1>7, <2>3 DEF CallStep, set_int_fails, goto, maskvars, NoChild
  <2>4. CASE set_quit_fails(t)
    BY <1>7, <2>4 DEF CallStep, set_quit_fails, goto, maskvars, NoChild
  <2>5. CASE block_sigchld(t)
    BY <1>7, <2>5 DEF CallStep, block_sigchld, goto, maskvars, NoChild
  <2>6. CASE block_fails(t)
    BY <1>7, <2>6 DEF CallStep, block_fails, goto, release, maskvars, NoChild
  <2>7. CASE do_fork(t)
    BY <1>7, <2>7 DEF CallStep, do_fork, goto, maskvars, NoChild
  <2>8. CASE posix_spawn(t)
    BY <1>7, <2>8 DEF CallStep, posix_spawn, goto, maskvars, NoChild
  <2>9. CASE spawn_fails(t)
    BY <1>7, <2>9 DEF CallStep, spawn_fails, goto, maskvars, NoChild
  <2>10. CASE waitpid(t)
    BY <1>7, <2>10 DEF CallStep, waitpid, goto, collect, maskvars, NoChild
  <2>11. CASE cancel_reap(t)
    BY <1>7, <2>11 DEF CallStep, cancel_reap, goto, collect, maskvars, NoChild
  <2>12. CASE cancel_release(t)
    BY <1>7, <2>12 DEF CallStep, cancel_release, goto, release, maskvars, NoChild
  <2>13. CASE sub_ref_227(t)
    BY <1>7, <2>13 DEF CallStep, sub_ref_227, goto, release, maskvars, NoChild
  <2>14. CASE sub_ref_227_fails(t)
    BY <1>7, <2>14 DEF CallStep, sub_ref_227_fails, goto, maskvars, NoChild
  <2>15. CASE sub_ref_232(t)
    BY <1>7, <2>15 DEF CallStep, sub_ref_232, goto, release, maskvars, NoChild
  <2> QED BY <1>7, <2>1, <2>2, <2>3, <2>4, <2>5, <2>6, <2>7, <2>8, <2>9, <2>10, <2>11, <2>12, <2>13, <2>14, <2>15
         DEF CallStep
<1> QED BY <1>1, <1>2, <1>3, <1>4, <1>5, <1>6, <1>7 DEF Next

(* With glibc 2.27, not cancelled, every thread is back from system() with    *)
(* the mask it called it with, in whatever order overlapping calls end and    *)
(* whatever fails before; SIGCHLD stays blocked only where the call returned  *)
(* -1 because a disposition or the mask could not be set back.  Its shell got *)
(* the mask of the call in every case.                                        *)
THEOREM MaskKept227 == Spec => []MaskRestored227
<1>1. Init => MaskInv227
  BY DEF Init, MaskInv227, NoChild
<1>2. IInv /\ MaskInv227 /\ [Next]_vars => MaskInv227'
  BY MaskStep
<1>3. MaskInv227 => MaskRestored227
  BY DEF MaskInv227, MaskRestored227, MaskRestored
<1> QED BY <1>1, <1>2, <1>3, Invariance, PTL DEF Spec
=============================================================================
