-------------------------- MODULE ThreadLifeProofs --------------------------
(***************************************************************************)
(* The ownership rules of ThreadLife, for any number of threads: IInv is   *)
(* inductive, one lemma per action, and the safety properties and the      *)
(* refinement of StackPool follow from it.  OwnInv, inductive relative to  *)
(* IInv, gives the single owner and the exact count of the threads.        *)
(***************************************************************************)
EXTENDS ThreadLife, FiniteSetTheorems, TLAPS

USE StackAssumption, ActorAssumption
    DEF IInv, TypeOK, PoolTypeOK, Where, Tid, Bit, Phase, Pc, Actor

(* The initial state, with only the main thread, has no block in use. *)
LEMMA InitInv == Init => IInv
<1> SUFFICES ASSUME Init PROVE IInv
  OBVIOUS
<1>1. TypeOK
  BY DEF Init, PoolInit
<1>2. RefInv /\ ExclusiveInv /\ CallInv
  BY DEF Init, PoolInit, RefInv, ExclusiveInv, CallInv
<1>3. HandleInv /\ PhaseInv
  BY DEF Init, PoolInit, HandleInv, PhaseInv
<1> QED BY <1>1, <1>2, <1>3
-----------------------------------------------------------------------------
(* The caller of __deallocate_stack is the only one that works on the       *)
(* block, and a thread still on it has lost the race for TERMINATED: it     *)
(* stays cached because its tid is set.                                     *)
LEMMA Inv_deallocate ==
  ASSUME IInv, nthreads # 0, NEW a \in Actor, deallocate(a)
  PROVE  IInv'
<1>1. TypeOK'
  BY SMT DEF deallocate, unuse_stack, FREE_P, Return, Call
<1>2. RefInv'
  BY SMT DEF RefInv, ExclusiveInv, deallocate, unuse_stack, FREE_P, Return, Call
<1>3. ExclusiveInv'
  BY SMT DEF ExclusiveInv, deallocate, unuse_stack, FREE_P, Return, Call
<1>4. CallInv'
  BY SMT DEF RefInv, CallInv, deallocate, unuse_stack, FREE_P, Return, Call
<1>5. HandleInv'
  BY SMT DEF CallInv, HandleInv, deallocate, unuse_stack, FREE_P, Return, Call
<1>6. PhaseInv'
  BY SMT DEF CallInv, PhaseInv, deallocate, unuse_stack, FREE_P, Return, Call
<1> QED BY <1>1, <1>2, <1>3, <1>4, <1>5, <1>6

(* A block that is handed out is free, hence without a thread and without   *)
(* an actor working on it.                                                  *)
LEMMA Inv_pthread_create ==
  ASSUME IInv, nthreads # 0, NEW a \in Actor, NEW s \in Stack, NEW d \in BOOLEAN,
         NEW stop \in BOOLEAN, pthread_create(a, s, d, stop)
  PROVE  IInv'
<1>1. TypeOK'
  BY SMT DEF pthread_create, allocate_stack, FREE_P, CanCall, Call
<1>2. RefInv'
  BY SMT DEF RefInv, pthread_create, allocate_stack, FREE_P, CanCall, Call
<1>3. ExclusiveInv'
  BY SMT DEF RefInv, ExclusiveInv, pthread_create, allocate_stack, FREE_P, CanCall, Call
<1>4. CallInv'
  BY SMT DEF RefInv, CallInv, HandleInv, PhaseInv, pthread_create, allocate_stack, FREE_P, CanCall, Call
<1>5. HandleInv'
  BY SMT DEF HandleInv, pthread_create, allocate_stack, FREE_P, CanCall, Call
<1>6. PhaseInv'
  BY SMT DEF PhaseInv, pthread_create, allocate_stack, FREE_P, CanCall, Call
<1> QED BY <1>1, <1>2, <1>3, <1>4, <1>5, <1>6

(* Taking pd->lock changes nothing anybody else relies on. *)
LEMMA Inv_create_thread ==
  ASSUME IInv, nthreads # 0, NEW a \in Actor, create_thread(a)
  PROVE  IInv'
<1>1. TypeOK'
  BY SMT DEF RefInv, create_thread, Goto
<1>2. RefInv'
  BY SMT DEF RefInv, create_thread, Goto
<1>3. ExclusiveInv'
  BY SMT DEF ExclusiveInv, create_thread, Goto
<1>4. CallInv'
  BY SMT DEF RefInv, CallInv, create_thread, Goto
<1>5. HandleInv'
  BY SMT DEF HandleInv, create_thread, Goto
<1>6. PhaseInv'
  BY SMT DEF PhaseInv, create_thread, Goto
<1> QED BY <1>1, <1>2, <1>3, <1>4, <1>5, <1>6

(* From the clone on the thread has its tid; its handle is published only   *)
(* to callers that started it unstopped.                                    *)
LEMMA Inv_clone_ok ==
  ASSUME IInv, nthreads # 0, NEW a \in Actor, clone_ok(a)
  PROVE  IInv'
<1>1. TypeOK'
  <2>1. CASE stopped[arg[a]]
    BY <2>1, SMT DEF RefInv, clone_ok, put_tid, Goto
  <2>2. CASE ~stopped[arg[a]]
    BY <2>2, SMT DEF RefInv, clone_ok, put_tid, IS_DETACHED, Return, Call
  <2> QED BY <2>1, <2>2
<1>2. RefInv'
  BY SMT DEF RefInv, clone_ok, put_tid, IS_DETACHED, Goto, Return, Call
<1>3. ExclusiveInv'
  BY SMT DEF ExclusiveInv, PhaseInv, clone_ok, put_tid, IS_DETACHED, Goto, Return, Call
<1>4. CallInv'
  <2>1. CASE stopped[arg[a]]
    BY <2>1, SMT DEF RefInv, ExclusiveInv, CallInv, clone_ok, put_tid, Goto
  <2>2. CASE ~stopped[arg[a]]
    BY <2>2, SMT DEF RefInv, ExclusiveInv, CallInv, clone_ok, put_tid, IS_DETACHED, Return, Call
  <2> QED BY <2>1, <2>2
<1>5. HandleInv'
  <2>1. CASE stopped[arg[a]]
    BY <2>1, SMT DEF RefInv, CallInv, HandleInv, clone_ok, put_tid, Goto
  <2>2. CASE ~stopped[arg[a]]
    <3>1. \A b \in Actor : arg'[b] # arg[a]
      BY <2>2, SMT DEF RefInv, ExclusiveInv, clone_ok, Return, Call
    <3>2. IS_DETACHED(arg[a]) \/ joinid[arg[a]] = NULL
      BY DEF RefInv, HandleInv, IS_DETACHED, clone_ok
    <3> QED
      BY <2>2, <3>1, <3>2, SMT DEF RefInv, CallInv, HandleInv, clone_ok, put_tid, Return, Call
  <2> QED BY <2>1, <2>2
<1>6. PhaseInv'
  BY SMT DEF RefInv, CallInv, PhaseInv, clone_ok, put_tid, IS_DETACHED, Goto, Return, Call
<1> QED BY <1>1, <1>2, <1>3, <1>4, <1>5, <1>6

(* State (e): the creator keeps the block and goes on to free it. *)
LEMMA Inv_clone_fail ==
  ASSUME IInv, nthreads # 0, NEW a \in Actor, clone_fail(a)
  PROVE  IInv'
<1>1. TypeOK'
  BY SMT DEF clone_fail, Goto
<1>2. RefInv'
  BY SMT DEF RefInv, clone_fail, Goto
<1>3. ExclusiveInv'
  BY SMT DEF ExclusiveInv, clone_fail, Goto
<1>4. CallInv'
  BY SMT DEF RefInv, CallInv, clone_fail, Goto
<1>5. HandleInv'
  BY SMT DEF HandleInv, clone_fail, Goto
<1>6. PhaseInv'
  BY SMT DEF PhaseInv, clone_fail, Goto
<1> QED BY <1>1, <1>2, <1>3, <1>4, <1>5, <1>6

(* State (a): releasing pd->lock releases ownership to the process. *)
LEMMA Inv_setup_ok ==
  ASSUME IInv, nthreads # 0, NEW a \in Actor, setup_ok(a)
  PROVE  IInv'
<1>1. TypeOK'
  BY SMT DEF RefInv, setup_ok, IS_DETACHED, Return, Call
<1>2. RefInv'
  BY SMT DEF RefInv, setup_ok, IS_DETACHED, Return, Call
<1>3. ExclusiveInv'
  BY SMT DEF ExclusiveInv, setup_ok, IS_DETACHED, Return, Call
<1>4. CallInv'
  BY SMT DEF RefInv, ExclusiveInv, CallInv, setup_ok, IS_DETACHED, Return, Call
<1>5. HandleInv'
  BY SMT DEF RefInv, ExclusiveInv, CallInv, HandleInv, PhaseInv, setup_ok, IS_DETACHED, Return, Call
<1>6. PhaseInv'
  BY SMT DEF PhaseInv, setup_ok, IS_DETACHED, Return, Call
<1> QED BY <1>1, <1>2, <1>3, <1>4, <1>5, <1>6

(* States (c) and (d): the thread is cancelled, nobody gets the handle. *)
LEMMA Inv_setup_fail ==
  ASSUME IInv, nthreads # 0, NEW a \in Actor, setup_fail(a)
  PROVE  IInv'
<1>1. TypeOK'
  BY SMT DEF RefInv, setup_fail, Return, Call
<1>2. RefInv'
  BY SMT DEF RefInv, setup_fail, Return, Call
<1>3. ExclusiveInv'
  BY SMT DEF ExclusiveInv, setup_fail, Return, Call
<1>4. CallInv'
  BY SMT DEF RefInv, ExclusiveInv, CallInv, setup_fail, Return, Call
<1>5. HandleInv'
  BY SMT DEF HandleInv, setup_fail, Return, Call
<1>6. PhaseInv'
  BY SMT DEF PhaseInv, setup_fail, Return, Call
<1> QED BY <1>1, <1>2, <1>3, <1>4, <1>5, <1>6

(* start_thread reaches the start routine; the block is untouched. *)
LEMMA Inv_start_routine ==
  ASSUME IInv, nthreads # 0, NEW t \in Stack, start_routine(t)
  PROVE  IInv'
<1>1. TypeOK'
  BY SMT DEF start_routine, Goes
<1>2. RefInv'
  BY SMT DEF RefInv, start_routine, Goes
<1>3. ExclusiveInv'
  BY SMT DEF ExclusiveInv, start_routine, Goes
<1>4. CallInv'
  BY SMT DEF RefInv, CallInv, start_routine, Goes
<1>5. HandleInv'
  BY SMT DEF HandleInv, start_routine, Goes
<1>6. PhaseInv'
  BY SMT DEF PhaseInv, start_routine, Goes
<1> QED BY <1>1, <1>2, <1>3, <1>4, <1>5, <1>6

(* A stopped thread that is cancelled keeps its block on the way out. *)
LEMMA Inv_start_cancelled ==
  ASSUME IInv, nthreads # 0, NEW t \in Stack, start_cancelled(t)
  PROVE  IInv'
<1>1. TypeOK'
  BY SMT DEF start_cancelled, Goes
<1>2. RefInv'
  BY SMT DEF RefInv, start_cancelled, Goes
<1>3. ExclusiveInv'
  BY SMT DEF ExclusiveInv, start_cancelled, Goes
<1>4. CallInv'
  BY SMT DEF RefInv, CallInv, start_cancelled, Goes
<1>5. HandleInv'
  BY SMT DEF HandleInv, start_cancelled, Goes
<1>6. PhaseInv'
  BY SMT DEF PhaseInv, start_cancelled, Goes
<1> QED BY <1>1, <1>2, <1>3, <1>4, <1>5, <1>6

(* Returning from the start routine touches no descriptor. *)
LEMMA Inv_routine_returns ==
  ASSUME IInv, nthreads # 0, NEW t \in Stack, routine_returns(t)
  PROVE  IInv'
<1>1. TypeOK'
  BY SMT DEF routine_returns, Goes
<1>2. RefInv'
  BY SMT DEF RefInv, routine_returns, Goes
<1>3. ExclusiveInv'
  BY SMT DEF ExclusiveInv, routine_returns, Goes
<1>4. CallInv'
  BY SMT DEF CallInv, RefInv, routine_returns, Goes
<1>5. HandleInv'
  BY SMT DEF HandleInv, routine_returns, Goes
<1>6. PhaseInv'
  BY SMT DEF PhaseInv, routine_returns, Goes
<1> QED BY <1>1, <1>2, <1>3, <1>4, <1>5, <1>6

(* __nptl_nthreads is decremented by a thread that is counted in it. *)
LEMMA Inv_leave_process ==
  ASSUME IInv, nthreads # 0, NEW t \in Stack, leave_process(t)
  PROVE  IInv'
<1>1. TypeOK'
  BY SMT DEF leave_process, Goes
<1>2. RefInv'
  BY SMT DEF RefInv, leave_process, Goes
<1>3. ExclusiveInv'
  BY SMT DEF ExclusiveInv, leave_process, Goes
<1>4. CallInv'
  BY SMT DEF CallInv, RefInv, leave_process, Goes
<1>5. HandleInv'
  BY SMT DEF HandleInv, leave_process, Goes
<1>6. PhaseInv'
  BY SMT DEF PhaseInv, leave_process, Goes
<1> QED BY <1>1, <1>2, <1>3, <1>4, <1>5, <1>6

(* The thread sets its own EXITING bit. *)
LEMMA Inv_set_exiting ==
  ASSUME IInv, nthreads # 0, NEW t \in Stack, set_exiting(t)
  PROVE  IInv'
<1>1. TypeOK'
  BY SMT DEF set_exiting, Goes
<1>2. RefInv'
  BY SMT DEF RefInv, set_exiting, Goes
<1>3. ExclusiveInv'
  BY SMT DEF ExclusiveInv, set_exiting, Goes
<1>4. CallInv'
  BY SMT DEF RefInv, CallInv, set_exiting, Goes
<1>5. HandleInv'
  BY SMT DEF HandleInv, set_exiting, Goes
<1>6. PhaseInv'
  BY SMT DEF PhaseInv, set_exiting, Goes
<1> QED BY <1>1, <1>2, <1>3, <1>4, <1>5, <1>6

(* A detached thread that sets TERMINATED first is alone with its block: a  *)
(* joiner or detacher would contradict joinid = pd.                         *)
LEMMA Inv_check_detached ==
  ASSUME IInv, nthreads # 0, NEW t \in Stack, check_detached(t)
  PROVE  IInv'
<1>1. TypeOK'
  BY SMT DEF check_detached, free_tcb, IS_DETACHED, Goes, Return, Call
<1>2. RefInv'
  BY SMT DEF RefInv, PhaseInv, check_detached, free_tcb, IS_DETACHED, Goes, Return, Call
<1>3. ExclusiveInv'
  <2>1. CASE IS_DETACHED(t) /\ "TERMINATED" \notin bits[t]
    <3>1. \A b \in Actor : b # t /\ pc[b] # "idle" => arg[b] # t
      BY <2>1, SMT DEF RefInv, CallInv, HandleInv, IS_DETACHED, check_detached, Goes
    <3>2. pc' = [pc EXCEPT ![t] = "free"] /\ arg' = [arg EXCEPT ![t] = t]
      BY <2>1 DEF check_detached, free_tcb, Call
    <3> QED BY <3>1, <3>2, SMT DEF ExclusiveInv
  <2>2. CASE ~(IS_DETACHED(t) /\ "TERMINATED" \notin bits[t])
    <3>1. \/ pc' = [pc EXCEPT ![t] = "idle"] /\ arg' = [arg EXCEPT ![t] = NULL]
          \/ pc' = pc /\ arg' = arg
      BY <2>2 DEF check_detached, free_tcb, Return, Call
    <3> QED BY <3>1, SMT DEF ExclusiveInv
  <2> QED BY <2>1, <2>2
<1>4. CallInv'
  BY SMT DEF RefInv, CallInv, HandleInv, check_detached, free_tcb, IS_DETACHED, Goes, Return, Call
<1>5. HandleInv'
  BY SMT DEF HandleInv, check_detached, free_tcb, IS_DETACHED, Goes, Return, Call
<1>6. PhaseInv'
  BY SMT DEF PhaseInv, check_detached, free_tcb, IS_DETACHED, Goes, Return, Call
<1> QED BY <1>1, <1>2, <1>3, <1>4, <1>5, <1>6

(* The kernel clears the tid of a thread whose EXITING bit is set. *)
LEMMA Inv_exit_thread ==
  ASSUME IInv, nthreads # 0, NEW t \in Stack, exit_thread(t)
  PROVE  IInv'
<1>1. TypeOK'
  BY SMT DEF exit_thread, put_tid, Goes
<1>2. RefInv'
  BY SMT DEF RefInv, exit_thread, put_tid, Goes
<1>3. ExclusiveInv'
  BY SMT DEF ExclusiveInv, exit_thread, put_tid, Goes
<1>4. CallInv'
  BY SMT DEF RefInv, CallInv, exit_thread, put_tid, Goes
<1>5. HandleInv'
  BY SMT DEF HandleInv, PhaseInv, exit_thread, put_tid, Goes
<1>6. PhaseInv'
  BY SMT DEF PhaseInv, exit_thread, put_tid, Goes
<1> QED BY <1>1, <1>2, <1>3, <1>4, <1>5, <1>6

(* The main thread leaves; it owns no block. *)
LEMMA Inv_main_exit ==
  ASSUME IInv, nthreads # 0, main_exit
  PROVE  IInv'
<1>1. TypeOK'
  BY SMT DEF main_exit, CanCall
<1>2. RefInv'
  BY SMT DEF RefInv, main_exit, CanCall
<1>3. ExclusiveInv'
  BY SMT DEF ExclusiveInv, main_exit, CanCall
<1>4. CallInv'
  BY SMT DEF RefInv, CallInv, main_exit, CanCall
<1>5. HandleInv'
  BY SMT DEF HandleInv, main_exit, CanCall
<1>6. PhaseInv'
  BY SMT DEF PhaseInv, main_exit, CanCall
<1> QED BY <1>1, <1>2, <1>3, <1>4, <1>5, <1>6

(* The joiner takes the handle, and with it the only reference to the       *)
(* block.                                                                   *)
LEMMA Inv_pthread_join ==
  ASSUME IInv, nthreads # 0, NEW a \in Actor, NEW s \in Stack, NEW timed \in BOOLEAN, pthread_join(a, s, timed)
  PROVE  IInv'
<1>1. TypeOK'
  BY SMT DEF pthread_join, JoinError, CanCall, Call
<1>2. RefInv'
  BY SMT DEF RefInv, HandleInv, pthread_join, JoinError, CanCall, Call
<1>3. ExclusiveInv'
  BY SMT DEF ExclusiveInv, HandleInv, pthread_join, JoinError, CanCall, Call
<1>4. CallInv'
  BY SMT DEF RefInv, CallInv, pthread_join, JoinError, CanCall, Call
<1>5. HandleInv'
  BY SMT DEF HandleInv, pthread_join, JoinError, CanCall, Call
<1>6. PhaseInv'
  BY SMT DEF PhaseInv, pthread_join, JoinError, CanCall, Call
<1> QED BY <1>1, <1>2, <1>3, <1>4, <1>5, <1>6

(* The joiner has read the zero the kernel stored. *)
LEMMA Inv_join_wakes ==
  ASSUME IInv, nthreads # 0, NEW a \in Actor, join_wakes(a)
  PROVE  IInv'
<1>1. TypeOK'
  BY SMT DEF join_wakes, Goto
<1>2. RefInv'
  BY SMT DEF RefInv, join_wakes, Goto
<1>3. ExclusiveInv'
  BY SMT DEF ExclusiveInv, join_wakes, Goto
<1>4. CallInv'
  BY SMT DEF RefInv, CallInv, join_wakes, Goto
<1>5. HandleInv'
  BY SMT DEF HandleInv, join_wakes, Goto
<1>6. PhaseInv'
  BY SMT DEF PhaseInv, join_wakes, Goto
<1> QED BY <1>1, <1>2, <1>3, <1>4, <1>5, <1>6

(* The joined thread is dead and nobody else may free it. *)
LEMMA Inv_join_frees ==
  ASSUME IInv, nthreads # 0, NEW a \in Actor, join_frees(a)
  PROVE  IInv'
<1>1. TypeOK'
  BY SMT DEF RefInv, join_frees, free_tcb, put_tid, Return, Call
<1>2. RefInv'
  BY SMT DEF RefInv, join_frees, free_tcb, put_tid, Return, Call
<1>3. ExclusiveInv'
  BY SMT DEF ExclusiveInv, join_frees, free_tcb, put_tid, Return, Call
<1>4. CallInv'
  BY SMT DEF RefInv, ExclusiveInv, CallInv, join_frees, free_tcb, put_tid, Return, Call
<1>5. HandleInv'
  BY SMT DEF HandleInv, join_frees, free_tcb, put_tid, Return, Call
<1>6. PhaseInv'
  BY SMT DEF CallInv, PhaseInv, join_frees, free_tcb, put_tid, Return, Call
<1> QED BY <1>1, <1>2, <1>3, <1>4, <1>5, <1>6

(* The handle goes back to the process. *)
LEMMA Inv_join_timeout ==
  ASSUME IInv, nthreads # 0, NEW a \in Actor, join_timeout(a)
  PROVE  IInv'
<1>1. TypeOK'
  BY SMT DEF RefInv, join_timeout, Return, Call
<1>2. RefInv'
  BY SMT DEF RefInv, join_timeout, Return, Call
<1>3. ExclusiveInv'
  BY SMT DEF ExclusiveInv, join_timeout, Return, Call
<1>4. CallInv'
  BY SMT DEF RefInv, ExclusiveInv, CallInv, join_timeout, Return, Call
<1>5. HandleInv'
  BY SMT DEF RefInv, ExclusiveInv, CallInv, HandleInv, join_timeout, Return, Call
<1>6. PhaseInv'
  BY SMT DEF PhaseInv, join_timeout, Return, Call
<1> QED BY <1>1, <1>2, <1>3, <1>4, <1>5, <1>6

(* The cancelled joiner leaves the handle behind as it found it. *)
LEMMA Inv_join_cancelled ==
  ASSUME IInv, nthreads # 0, NEW a \in Actor, join_cancelled(a)
  PROVE  IInv'
<1>1. TypeOK'
  BY SMT DEF RefInv, join_cancelled, Goes, Return, Call
<1>2. RefInv'
  BY SMT DEF RefInv, join_cancelled, Goes, Return, Call
<1>3. ExclusiveInv'
  BY SMT DEF ExclusiveInv, join_cancelled, Goes, Return, Call
<1>4. CallInv'
  BY SMT DEF RefInv, ExclusiveInv, CallInv, join_cancelled, Goes, Return, Call
<1>5. HandleInv'
  BY SMT DEF RefInv, ExclusiveInv, CallInv, HandleInv, join_cancelled, Goes, Return, Call
<1>6. PhaseInv'
  BY SMT DEF PhaseInv, join_cancelled, Goes, Return, Call
<1> QED BY <1>1, <1>2, <1>3, <1>4, <1>5, <1>6

(* The detacher is the only one with a right to the thread; if the thread   *)
(* is exiting, TERMINATED decides which of the two frees it.                *)
LEMMA Inv_pthread_detach ==
  ASSUME IInv, nthreads # 0, NEW a \in Actor, NEW s \in Stack, pthread_detach(a, s)
  PROVE  IInv'
<1>1. TypeOK'
  BY SMT DEF pthread_detach, free_tcb, CanCall, Return, Call
<1>2. RefInv'
  BY SMT DEF RefInv, HandleInv, pthread_detach, free_tcb, CanCall, Return, Call
<1>3. ExclusiveInv'
  <2>1. \A b \in Actor : arg[b] # s
    BY DEF HandleInv, pthread_detach
  <2>2. \/ pc' = [pc EXCEPT ![a] = "idle"] /\ arg' = [arg EXCEPT ![a] = NULL]
        \/ pc' = [pc EXCEPT ![a] = "free"] /\ arg' = [arg EXCEPT ![a] = s]
        \/ pc' = pc /\ arg' = arg
    BY DEF pthread_detach, free_tcb, Return, Call
  <2> QED BY <2>1, <2>2, SMT DEF ExclusiveInv
<1>4. CallInv'
  BY SMT DEF RefInv, CallInv, pthread_detach, free_tcb, CanCall, Return, Call
<1>5. HandleInv'
  BY SMT DEF HandleInv, pthread_detach, free_tcb, CanCall, Return, Call
<1>6. PhaseInv'
  BY SMT DEF PhaseInv, pthread_detach, free_tcb, CanCall, Return, Call
<1> QED BY <1>1, <1>2, <1>3, <1>4, <1>5, <1>6

(* Only the CANCELED bit of a thread with a handle changes. *)
LEMMA Inv_pthread_cancel ==
  ASSUME IInv, nthreads # 0, NEW a \in Actor, NEW s \in Stack, pthread_cancel(a, s)
  PROVE  IInv'
<1>1. TypeOK'
  BY SMT DEF pthread_cancel, CanCall
<1>2. RefInv'
  BY SMT DEF RefInv, pthread_cancel, CanCall
<1>3. ExclusiveInv'
  BY SMT DEF ExclusiveInv, pthread_cancel, CanCall
<1>4. CallInv'
  BY SMT DEF CallInv, RefInv, pthread_cancel, CanCall
<1>5. HandleInv'
  BY SMT DEF HandleInv, pthread_cancel, CanCall
<1>6. PhaseInv'
  BY SMT DEF PhaseInv, pthread_cancel, CanCall
<1> QED BY <1>1, <1>2, <1>3, <1>4, <1>5, <1>6

-----------------------------------------------------------------------------
HIDE DEF IInv, TypeOK, PoolTypeOK, Where, Tid, Bit, Phase, Pc, Actor

(* Every step of Next preserves the invariant. *)
LEMMA NextInv == IInv /\ [Next]_vars => IInv'
<1> SUFFICES ASSUME IInv, [Next]_vars PROVE IInv'
  OBVIOUS
<1>1. ASSUME nthreads # 0, NEW a \in Actor, Creating(a) PROVE IInv'
  BY <1>1, Inv_pthread_create, Inv_create_thread, Inv_clone_ok, Inv_clone_fail,
     Inv_setup_ok, Inv_setup_fail, Zenon DEF Creating
<1>2. ASSUME nthreads # 0, NEW a \in Actor, Calling(a) PROVE IInv'
  BY <1>2, Inv_pthread_join, Inv_join_wakes, Inv_join_frees, Inv_join_timeout,
     Inv_join_cancelled, Inv_pthread_detach, Inv_pthread_cancel, Inv_deallocate, Zenon DEF Calling
<1>3. ASSUME nthreads # 0, NEW t \in Stack, start_thread(t) PROVE IInv'
  BY <1>3, Inv_start_routine, Inv_start_cancelled, Inv_routine_returns, Inv_leave_process,
     Inv_set_exiting, Inv_check_detached, Inv_exit_thread, Zenon DEF start_thread
<1>4. ASSUME nthreads # 0, main_exit PROVE IInv'
  BY <1>4, Inv_main_exit
<1>5. CASE UNCHANGED vars
  BY <1>5, SMT DEF vars, IInv, TypeOK, PoolTypeOK, RefInv, ExclusiveInv, CallInv, HandleInv, PhaseInv
<1> QED BY <1>1, <1>2, <1>3, <1>4, <1>5 DEF Next

(* The ownership invariant holds in every reachable state, whatever the     *)
(* number of threads and the order of their creates, exits, joins, timeouts,*)
(* cancellations and detaches.                                              *)
THEOREM Invariance == Spec => []IInv
  BY InitInv, NextInv, PTL DEF Spec

(* Type correctness of the thread and stack state. *)
THEOREM TypeCorrect == Spec => []TypeOK
<1>1. IInv => TypeOK
  BY DEF IInv
<1> QED BY <1>1, Invariance, PTL

(* No call works on a descriptor whose block was given back, and no thread  *)
(* loses its block before it has set its EXITING bit.                       *)
THEOREM MemorySafety == Spec => []NoUseAfterFree
<1>1. IInv => NoUseAfterFree
  BY SMT DEF NoUseAfterFree, IInv, TypeOK, Actor, RefInv, PhaseInv
<1> QED BY <1>1, Invariance, PTL

(* pthread_join returns only for a thread that is dead, and no joiner waits *)
(* on a descriptor already marked as joined.                                *)
THEOREM JoinSafety == Spec => []JoinAfterExit
<1>1. IInv => JoinAfterExit
  BY SMT DEF JoinAfterExit, IInv, TypeOK, RefInv, CallInv, HandleInv, PhaseInv
<1> QED BY <1>1, Invariance, PTL

-----------------------------------------------------------------------------
(* Every step of a thread is a step of the pool of stacks, or leaves it     *)
(* alone.                                                                   *)
LEMMA PoolStep == IInv /\ [Next]_vars => [PoolNext]_poolVars
<1> SUFFICES ASSUME IInv, [Next]_vars PROVE [PoolNext]_poolVars
  OBVIOUS
<1> USE DEF poolVars, IInv, TypeOK, RefInv
<1>1. ASSUME NEW a \in Actor, Creating(a) PROVE [PoolNext]_poolVars
  <2>1. ASSUME NEW s \in Stack, NEW d \in BOOLEAN, NEW stop \in BOOLEAN,
               pthread_create(a, s, d, stop)
        PROVE  PoolNext
    BY <2>1 DEF pthread_create, PoolNext
  <2>2. ASSUME clone_ok(a) PROVE PoolNext
    <3>1. arg[a] \in Stack /\ set_tid(arg[a])
      BY <2>2, SMT DEF clone_ok, CallInv, set_tid, FREE_P, put_tid
    <3> QED BY <3>1 DEF PoolNext
  <2>3. ASSUME \/ create_thread(a)
               \/ clone_fail(a) \/ setup_ok(a) \/ setup_fail(a)
        PROVE  UNCHANGED poolVars
    BY <2>3 DEF create_thread, clone_fail, setup_ok, setup_fail
  <2> QED BY <1>1, <2>1, <2>2, <2>3 DEF Creating
<1>2. ASSUME NEW a \in Actor, Calling(a) PROVE [PoolNext]_poolVars
  <2>1. ASSUME deallocate(a) PROVE PoolNext
    <3>1. arg[a] \in Stack /\ deallocate_stack(arg[a])
      <4>1. arg[a] \in Stack /\ where[arg[a]] = "used"
        BY <2>1 DEF deallocate
      <4> QED BY <2>1, <4>1 DEF deallocate, deallocate_stack
    <3> QED BY <3>1 DEF PoolNext
  <2>2. ASSUME join_frees(a) PROVE PoolNext
    <3>1. arg[a] \in Stack /\ mark_joined(arg[a])
      BY <2>2 DEF join_frees, CallInv, mark_joined
    <3> QED BY <3>1 DEF PoolNext
  <2>3. ASSUME \/ \E s \in Stack, timed \in BOOLEAN : pthread_join(a, s, timed)
               \/ join_wakes(a) \/ join_timeout(a) \/ join_cancelled(a)
               \/ \E s \in Stack : pthread_detach(a, s) \/ pthread_cancel(a, s)
        PROVE  UNCHANGED poolVars
    BY <2>3 DEF pthread_join, join_wakes, join_timeout, join_cancelled,
                pthread_detach, pthread_cancel
  <2> QED BY <1>2, <2>1, <2>2, <2>3 DEF Calling
<1>3. ASSUME NEW t \in Stack, start_thread(t) PROVE [PoolNext]_poolVars
  <2>1. ASSUME exit_thread(t) PROVE PoolNext
    <3>1. clear_tid(t)
      BY <2>1, SMT DEF exit_thread, Goes, PhaseInv, clear_tid, put_tid
    <3> QED BY <3>1 DEF PoolNext
  <2>2. ASSUME \/ start_routine(t) \/ start_cancelled(t) \/ routine_returns(t)
               \/ leave_process(t) \/ set_exiting(t) \/ check_detached(t)
        PROVE  UNCHANGED poolVars
    BY <2>2 DEF start_routine, start_cancelled, routine_returns, leave_process,
                set_exiting, check_detached
  <2> QED BY <1>3, <2>1, <2>2 DEF start_thread
<1>4. ASSUME main_exit PROVE UNCHANGED poolVars
  BY <1>4 DEF main_exit
<1>5. CASE UNCHANGED vars
  BY <1>5 DEF vars
<1> QED BY <1>1, <1>2, <1>3, <1>4, <1>5 DEF Next

(* The threads use the stacks as the pool allows: a stack is given back     *)
(* once, handed out only when free, and marked as joined once, after death. *)
THEOREM PoolRefinement == Spec => PoolSpec
<1>1. Init => PoolInit
  BY DEF Init
<1> QED BY <1>1, PoolStep, Invariance, PTL DEF Spec, PoolSpec

(* No step of any thread unmaps or hands out a mapped block whose thread    *)
(* the kernel has not reported dead; its owner may only queue it.           *)
THEOREM LiveStacks == Spec => LiveStackKept
<1> DEFINE Kept ==
      \A s \in Stack \ UserStack :
          tid[s] = 1 /\ where'[s] # where[s] => where[s] = "used" /\ where'[s] = "cached"
<1>1. ASSUME PoolTypeOK, [PoolNext]_poolVars PROVE Kept
  <2> SUFFICES ASSUME NEW s \in Stack \ UserStack, tid[s] = 1, where'[s] # where[s]
               PROVE  where[s] = "used" /\ where'[s] = "cached"
    OBVIOUS
  <2> USE <1>1 DEF PoolTypeOK, Where, Tid, FREE_P
  <2>1. ASSUME NEW c \in Stack, allocate_stack(c) PROVE FALSE
    BY <2>1 DEF allocate_stack
  <2>2. ASSUME NEW c \in Stack, deallocate_stack(c)
        PROVE  where[s] = "used" /\ where'[s] = "cached"
    <3>1. CASE c \in UserStack
      BY <2>2, <3>1 DEF deallocate_stack, unuse_stack
    <3>2. CASE c \notin UserStack
      BY <2>2, <3>2 DEF deallocate_stack, unuse_stack
    <3> QED BY <3>1, <3>2
  <2>3. ASSUME NEW c \in Stack, set_tid(c) \/ clear_tid(c) \/ mark_joined(c) PROVE FALSE
    BY <2>3 DEF set_tid, clear_tid, mark_joined, put_tid
  <2>4. ASSUME trim_cache PROVE FALSE
    BY <2>4 DEF trim_cache
  <2>5. CASE UNCHANGED poolVars
    BY <2>5 DEF poolVars
  <2> QED BY <1>1, <2>1, <2>2, <2>3, <2>4, <2>5 DEF PoolNext
<1>2. IInv /\ [Next]_vars => [Kept]_vars
  BY <1>1, PoolStep DEF IInv, TypeOK
<1> QED BY <1>2, Invariance, PTL DEF Spec, LiveStackKept

-----------------------------------------------------------------------------
USE StackAssumption, ActorAssumption
    DEF IInv, TypeOK, PoolTypeOK, Where, Tid, Bit, Phase, Pc, Actor

(* OwnedInv, for one block. *)
OwnerOK(s) ==
    where[s] = "used" => IF Orphan(s) THEN \A a \in Actor : arg[a] # s ELSE HasOwner(s)

(* A step that does not touch a block or who works on it leaves its owner. *)
LEMMA Untouched ==
  ASSUME NEW s \in Stack, OwnerOK(s), where'[s] = "used" => where[s] = "used",
         joinid'[s] = joinid[s], stopped'[s] = stopped[s], lock'[s] = lock[s], bits'[s] = bits[s],
         handle'[s] = handle[s], phase'[s] = "none" <=> phase[s] = "none",
         \A x \in Actor : arg'[x] = s <=> arg[x] = s
  PROVE  OwnerOK(s)'
  BY DEF OwnerOK, Orphan, HasOwner, IS_DETACHED

(* A block that somebody works on, and that is no orphan, has its owner. *)
LEMMA WorkedOn ==
  ASSUME NEW s \in Stack, NEW x \in Actor, arg'[x] = s, Orphan(s)' => FALSE
  PROVE  OwnerOK(s)'
  BY DEF OwnerOK, HasOwner

(* What an actor in a call knows of the block it works on. *)
LEMMA CallFacts ==
  ASSUME IInv, NEW a \in Actor, pc[a] # "idle"
  PROVE  /\ arg[a] \in Stack /\ where[arg[a]] = "used" /\ \A x \in Actor \ {a} : arg[x] # arg[a]
         /\ joinid[arg[a]] \in {NULL, arg[a]}
         /\ pc[a] \in {"create", "clone"} =>
              handle[arg[a]] = "none" /\ phase[arg[a]] = "none" /\ bits[arg[a]] = {}
         /\ pc[a] = "clone" /\ stopped[arg[a]] => lock[arg[a]]
         /\ pc[a] = "setup" =>
              /\ handle[arg[a]] = "none" /\ phase[arg[a]] = "started"
              /\ stopped[arg[a]] /\ lock[arg[a]] /\ bits[arg[a]] = {}
         /\ pc[a] \in {"wait", "timedwait", "woken"} => handle[arg[a]] = "claimed"
         /\ pc[a] = "free" => handle[arg[a]] = "none"
<1>1. arg[a] \in Stack /\ where[arg[a]] = "used"
  BY DEF RefInv
<1>2. \A x \in Actor \ {a} : arg[x] # arg[a]
  BY <1>1 DEF RefInv, ExclusiveInv
<1>3. joinid[arg[a]] \in {NULL, arg[a]}
  BY <1>1 DEF HandleInv
<1>4. /\ pc[a] \in {"create", "clone"} =>
           handle[arg[a]] = "none" /\ phase[arg[a]] = "none" /\ bits[arg[a]] = {}
      /\ pc[a] = "clone" /\ stopped[arg[a]] => lock[arg[a]]
      /\ pc[a] = "setup" =>
           /\ handle[arg[a]] = "none" /\ phase[arg[a]] = "started"
           /\ stopped[arg[a]] /\ lock[arg[a]] /\ bits[arg[a]] = {}
      /\ pc[a] \in {"wait", "timedwait", "woken"} => handle[arg[a]] = "claimed"
      /\ pc[a] = "free" => handle[arg[a]] = "none"
  BY DEF CallInv
<1> QED BY <1>1, <1>2, <1>3, <1>4

(* A block the application may join or detach. *)
LEMMA HandleFacts ==
  ASSUME IInv, NEW s \in Stack, handle[s] # "none"
  PROVE  /\ where[s] = "used" /\ joinid[s] = NULL /\ "TERMINATED" \notin bits[s]
         /\ tid[s] = 1 \/ (tid[s] = 0 /\ "EXITING" \in bits[s])
         /\ phase[s] # "none" \/ "EXITING" \in bits[s]
         /\ handle[s] = "open" => \A a \in Actor : arg[a] # s
<1>1. tid[s] = 1 => phase[s] # "none"
  BY DEF PhaseInv
<1> QED BY <1>1 DEF HandleInv

(* At the start no block is in use. *)
LEMMA OwnInit == Init => OwnInv
<1> SUFFICES ASSUME Init PROVE CallerInv /\ LockInv /\ OwnedInv
  BY DEF OwnInv
<1>1. CallerInv
  BY DEF Init, CallerInv
<1>2. LockInv
  BY DEF Init, LockInv
<1>3. OwnedInv
  BY DEF Init, PoolInit, OwnedInv
<1> QED BY <1>1, <1>2, <1>3

(* The block that is given back needs no owner any more. *)
LEMMA Own_deallocate ==
  ASSUME IInv, OwnInv, NEW a \in Actor, deallocate(a)
  PROVE  OwnInv'
<1>0. TypeOK /\ CallerInv /\ LockInv /\ \A s \in Stack : OwnerOK(s)
  BY DEF OwnInv, OwnedInv, OwnerOK
<1>b. PICK b \in Stack : b = arg[a]
  BY CallFacts DEF deallocate
<1>k. /\ where[b] = "used" /\ (\A x \in Actor \ {a} : arg[x] # b) /\ joinid[b] \in {NULL, b} /\ arg[a] = b
  BY <1>b, CallFacts  DEF deallocate
<1>e. /\ pc' = [pc EXCEPT ![a] = "idle"] /\ arg' = [arg EXCEPT ![a] = NULL]
      /\ where'[b] # "used" /\ (\A s \in Stack : where'[s] = "used" => where[s] = "used")
      /\ UNCHANGED <<joinid, bits, lock, stopped, phase, handle>>
  <2>1. where'[b] # "used" /\ \A s \in Stack : where'[s] = "used" => where[s] = "used"
    BY <1>0, <1>b DEF deallocate, unuse_stack
  <2> QED BY <2>1 DEF deallocate, Return, Call
<1> HIDE DEF IInv
<1>1. CallerInv'
  BY <1>0, <1>e DEF CallerInv
<1>2. LockInv'
  BY <1>0, <1>e DEF LockInv, IS_DETACHED
<1>3. ASSUME NEW s \in Stack PROVE OwnerOK(s)'
  <2>1. CASE s # b
    BY <1>0, <1>e, <1>k, <2>1, Untouched
  <2>2. CASE s = b
    BY <1>e, <2>2 DEF OwnerOK
  <2> QED BY <2>1, <2>2
<1> QED BY <1>1, <1>2, <1>3 DEF OwnInv, OwnedInv, OwnerOK

(* The creator owns the block. *)
LEMMA Own_pthread_create ==
  ASSUME IInv, OwnInv, NEW a \in Actor, NEW b \in Stack, NEW d \in BOOLEAN, NEW stop \in BOOLEAN,
         pthread_create(a, b, d, stop)
  PROVE  OwnInv'
<1>0. TypeOK /\ CallerInv /\ LockInv /\ \A s \in Stack : OwnerOK(s)
  BY DEF OwnInv, OwnedInv, OwnerOK
<1>k. /\ where[b] # "used" /\ handle[b] = "none" /\ phase[b] = "none"
      /\ \A x \in Actor : arg[x] # b
  BY DEF pthread_create, allocate_stack, FREE_P, RefInv, HandleInv, PhaseInv
<1>e. /\ pc' = [pc EXCEPT ![a] = "create"] /\ arg' = [arg EXCEPT ![a] = b] /\ phase[a] = "routine" /\ pc[a] = "idle"
      /\ where' = [where EXCEPT ![b] = "used"] /\ bits' = [bits EXCEPT ![b] = {}]
      /\ lock' = [lock EXCEPT ![b] = FALSE] /\ joinid' = [joinid EXCEPT ![b] = IF d THEN b ELSE NULL]
      /\ stopped' = [stopped EXCEPT ![b] = stop] /\ phase' = phase /\ handle' = handle
  BY DEF pthread_create, allocate_stack, CanCall, Call
<1> HIDE DEF IInv
<1>1. CallerInv'
  BY <1>0, <1>e DEF CallerInv
<1>2. LockInv'
  BY <1>0, <1>e, <1>k DEF LockInv, IS_DETACHED
<1>3. ASSUME NEW s \in Stack PROVE OwnerOK(s)'
  <2>0. arg[a] = NULL
    BY <1>e DEF IInv, RefInv
  <2>1. CASE s # b
    <3>1. \A x \in Actor : arg'[x] = s <=> arg[x] = s
      BY <1>0, <1>e, <2>0, <2>1
    <3> QED BY <1>0, <1>e, <1>k, <2>1, <3>1, Untouched
  <2>2. CASE s = b
    <3>1. arg'[a] = b /\ ~ lock'[b]
      BY <1>0, <1>e
    <3> QED BY <2>2, <3>1, WorkedOn DEF Orphan
  <2> QED BY <2>1, <2>2
<1> QED BY <1>1, <1>2, <1>3 DEF OwnInv, OwnedInv, OwnerOK

(* It keeps it when it takes pd->lock. *)
LEMMA Own_create_thread ==
  ASSUME IInv, OwnInv, NEW a \in Actor, create_thread(a)
  PROVE  OwnInv'
<1>0. TypeOK /\ CallerInv /\ LockInv /\ \A s \in Stack : OwnerOK(s)
  BY DEF OwnInv, OwnedInv, OwnerOK
<1>b. PICK b \in Stack : b = arg[a]
  BY CallFacts DEF create_thread
<1>k. /\ where[b] = "used" /\ (\A x \in Actor \ {a} : arg[x] # b) /\ joinid[b] \in {NULL, b} /\ arg[a] = b
      /\ handle[b] = "none" /\ bits[b] = {} /\ phase[b] = "none" /\ pc[a] = "create"
  BY <1>b, CallFacts DEF create_thread
<1>e. /\ pc' = [pc EXCEPT ![a] = "clone"] /\ arg' = arg /\ lock' = [lock EXCEPT ![arg[a]] = @ \/ stopped[arg[a]]]
      /\ UNCHANGED <<where, joinid, bits, stopped, phase, handle>>
  BY DEF create_thread, Goto
<1> HIDE DEF IInv
<1>1. CallerInv'
  BY <1>0, <1>e, <1>k DEF CallerInv
<1>2. LockInv'
  <2>1. \A s \in Stack \ {b} : lock'[s] = lock[s]
    BY <1>0, <1>e, <1>k
  <2> QED BY <1>0, <1>e, <1>k, <2>1 DEF LockInv, IS_DETACHED
<1>3. ASSUME NEW s \in Stack PROVE OwnerOK(s)'
  <2>1. CASE s # b
    <3>1. lock'[s] = lock[s]
      BY <1>0, <1>e, <1>k, <2>1
    <3> QED BY <1>0, <1>e, <2>1, <3>1, Untouched
  <2>2. CASE s = b
    <3>1. arg'[a] = s /\ bits'[s] = {}
      BY <1>e, <1>k, <2>2
    <3> QED BY <3>1, WorkedOn DEF Orphan
  <2> QED BY <2>1, <2>2
<1> QED BY <1>1, <1>2, <1>3 DEF OwnInv, OwnedInv, OwnerOK

(* The block goes to the process or to the thread, or stays with a *)
(* creator that has stopped the thread. *)
LEMMA Own_clone_ok ==
  ASSUME IInv, OwnInv, NEW a \in Actor, clone_ok(a)
  PROVE  OwnInv'
<1>0. TypeOK /\ CallerInv /\ LockInv /\ \A s \in Stack : OwnerOK(s)
  BY DEF OwnInv, OwnedInv, OwnerOK
<1>b. PICK b \in Stack : b = arg[a]
  BY CallFacts DEF clone_ok
<1>k. /\ where[b] = "used" /\ (\A x \in Actor \ {a} : arg[x] # b) /\ joinid[b] \in {NULL, b} /\ arg[a] = b
      /\ handle[b] = "none" /\ bits[b] = {} /\ phase[b] = "none" /\ pc[a] = "clone"
  BY <1>b, CallFacts DEF clone_ok
<1>e. /\ phase' = [phase EXCEPT ![b] = "started"]
      /\ \/ stopped[b] /\ pc' = [pc EXCEPT ![a] = "setup"] /\ arg' = arg /\ handle' = handle
         \/ /\ ~ stopped[b] /\ pc' = [pc EXCEPT ![a] = "idle"] /\ arg' = [arg EXCEPT ![a] = NULL]
            /\ handle' = [handle EXCEPT ![b] = IF IS_DETACHED(b) THEN "none" ELSE "open"]
      /\ UNCHANGED <<where, joinid, bits, stopped, lock>>
  BY <1>b DEF clone_ok, put_tid, Goto, Return, Call
<1> HIDE DEF IInv
<1>1. CallerInv'
  <2>1. a # b /\ pc[b] = "idle"
    BY <1>0, <1>k DEF CallerInv
  <2> QED BY <1>0, <1>e, <1>k, <2>1 DEF CallerInv
<1>2. LockInv'
  <2>1. \A s \in Stack \ {b} : handle'[s] = handle[s] /\ phase'[s] = phase[s]
    BY <1>0, <1>e
  <2>2. phase'[b] = "started" /\ (stopped[b] => handle'[b] = "none")
    BY <1>0, <1>e, <1>k
  <2> QED BY <1>0, <1>e, <2>1, <2>2 DEF LockInv, IS_DETACHED
<1>3. ASSUME NEW s \in Stack PROVE OwnerOK(s)'
  <2>1. CASE s # b
    <3>1. /\ handle'[s] = handle[s] /\ phase'[s] = phase[s]
          /\ \A x \in Actor : arg'[x] = s <=> arg[x] = s
      BY <1>0, <1>e, <1>k, <2>1
    <3> QED BY <1>0, <1>e, <3>1, Untouched
  <2>2. CASE s = b
    <3>1. phase'[s] = "started" /\ bits'[s] = {} /\ joinid'[s] \in {NULL, s} /\ joinid' = joinid
      BY <1>0, <1>e, <1>k, <2>2
    <3>2. arg'[a] = s \/ handle'[s] = "open" \/ joinid[s] = s
      BY <1>0, <1>e, <1>k, <2>2 DEF IS_DETACHED
    <3> QED BY <3>1, <3>2 DEF OwnerOK, HasOwner, Orphan, IS_DETACHED
  <2> QED BY <2>1, <2>2
<1> QED BY <1>1, <1>2, <1>3 DEF OwnInv, OwnedInv, OwnerOK

(* Without a thread the block stays with its creator. *)
LEMMA Own_clone_fail ==
  ASSUME IInv, OwnInv, NEW a \in Actor, clone_fail(a)
  PROVE  OwnInv'
<1>0. CallerInv /\ LockInv /\ OwnedInv
  BY DEF OwnInv
<1> USE <1>0 DEF clone_fail, Goto
<1>1. CallerInv'
  BY DEF CallerInv
<1>2. LockInv'
  BY DEF LockInv, HandleInv, CallInv, RefInv, PhaseInv, IS_DETACHED
<1>3. ASSUME NEW s \in Stack, where'[s] = "used"
      PROVE  IF Orphan(s)' THEN \A x \in Actor : arg'[x] # s ELSE HasOwner(s)'
  BY <1>3 DEF OwnedInv, Orphan, HasOwner, IS_DETACHED, LockInv, HandleInv, CallInv, RefInv, ExclusiveInv, PhaseInv
<1> QED BY <1>1, <1>2, <1>3 DEF OwnInv, OwnedInv

(* The block goes to the process or to the thread. *)
LEMMA Own_setup_ok ==
  ASSUME IInv, OwnInv, NEW a \in Actor, setup_ok(a)
  PROVE  OwnInv'
<1>0. TypeOK /\ CallerInv /\ LockInv /\ \A s \in Stack : OwnerOK(s)
  BY DEF OwnInv, OwnedInv, OwnerOK
<1>b. PICK b \in Stack : b = arg[a]
  BY CallFacts DEF setup_ok
<1>k. /\ where[b] = "used" /\ (\A x \in Actor \ {a} : arg[x] # b) /\ joinid[b] \in {NULL, b} /\ arg[a] = b
      /\ handle[b] = "none" /\ bits[b] = {} /\ phase[b] = "started" /\ pc[a] = "setup"
  BY <1>b, CallFacts DEF setup_ok
<1>e. /\ pc' = [pc EXCEPT ![a] = "idle"] /\ arg' = [arg EXCEPT ![a] = NULL]
      /\ lock' = [lock EXCEPT ![b] = FALSE]
      /\ handle' = [handle EXCEPT ![b] = IF IS_DETACHED(b) THEN "none" ELSE "open"]
      /\ UNCHANGED <<where, joinid, bits, stopped, phase>>
  BY <1>b DEF setup_ok, Return, Call
<1> HIDE DEF IInv
<1>1. CallerInv'
  BY <1>0, <1>e DEF CallerInv
<1>2. LockInv'
  <2>1. \A s \in Stack \ {b} : handle'[s] = handle[s] /\ lock'[s] = lock[s]
    BY <1>0, <1>e
  <2>2. ~ lock'[b]
    BY <1>0, <1>e
  <2> QED BY <1>0, <1>e, <1>k, <2>1, <2>2 DEF LockInv, IS_DETACHED
<1>3. ASSUME NEW s \in Stack PROVE OwnerOK(s)'
  <2>1. CASE s # b
    <3>1. /\ handle'[s] = handle[s] /\ lock'[s] = lock[s]
          /\ \A x \in Actor : arg'[x] = s <=> arg[x] = s
      BY <1>0, <1>e, <1>k, <2>1
    <3> QED BY <1>0, <1>e, <3>1, Untouched
  <2>2. CASE s = b
    <3>1. /\ phase'[s] = "started" /\ bits'[s] = {} /\ joinid'[s] \in {NULL, s} /\ joinid' = joinid
          /\ handle'[s] = IF joinid[s] = s THEN "none" ELSE "open"
      BY <1>0, <1>e, <1>k, <2>2 DEF IS_DETACHED
    <3> QED BY <3>1 DEF OwnerOK, HasOwner, Orphan, IS_DETACHED
  <2> QED BY <2>1, <2>2
<1> QED BY <1>1, <1>2, <1>3 DEF OwnInv, OwnedInv, OwnerOK

(* A detached thread gets its block, a joinable one becomes an orphan. *)
LEMMA Own_setup_fail ==
  ASSUME IInv, OwnInv, NEW a \in Actor, setup_fail(a)
  PROVE  OwnInv'
<1>0. TypeOK /\ CallerInv /\ LockInv /\ \A s \in Stack : OwnerOK(s)
  BY DEF OwnInv, OwnedInv, OwnerOK
<1>b. PICK b \in Stack : b = arg[a]
  BY CallFacts DEF setup_fail
<1>k. /\ where[b] = "used" /\ (\A x \in Actor \ {a} : arg[x] # b) /\ joinid[b] \in {NULL, b} /\ arg[a] = b
      /\ handle[b] = "none" /\ bits[b] = {} /\ phase[b] = "started" /\ pc[a] = "setup"
      /\ stopped[b] /\ lock[b]
  BY <1>b, CallFacts DEF setup_fail
<1>e. /\ pc' = [pc EXCEPT ![a] = "idle"] /\ arg' = [arg EXCEPT ![a] = NULL]
      /\ bits' = [bits EXCEPT ![b] = @ \cup {"CANCELED"}]
      /\ UNCHANGED <<where, joinid, lock, handle, stopped, phase>>
  BY <1>b DEF setup_fail, Return, Call
<1> HIDE DEF IInv
<1>1. CallerInv'
  BY <1>0, <1>e DEF CallerInv
<1>2. LockInv'
  BY <1>0, <1>e DEF LockInv, IS_DETACHED
<1>3. ASSUME NEW s \in Stack PROVE OwnerOK(s)'
  <2>1. CASE s # b
    <3>1. bits'[s] = bits[s] /\ \A x \in Actor : arg'[x] = s <=> arg[x] = s
      BY <1>0, <1>e, <1>k, <2>1
    <3> QED BY <1>0, <1>e, <3>1, Untouched
  <2>2. CASE s = b
    <3>1. /\ phase'[s] = "started" /\ bits'[s] = {"CANCELED"} /\ joinid'[s] \in {NULL, s}
          /\ handle'[s] = "none" /\ stopped'[s] /\ lock'[s] /\ where'[s] = "used"
      BY <1>0, <1>e, <1>k, <2>2
    <3>2. \A x \in Actor : arg'[x] # s
      BY <1>0, <1>e, <1>k, <2>2
    <3> QED BY <3>1, <3>2 DEF OwnerOK, HasOwner, Orphan, IS_DETACHED
  <2> QED BY <2>1, <2>2
<1> QED BY <1>1, <1>2, <1>3 DEF OwnInv, OwnedInv, OwnerOK

(* A thread that starts changes no owner. *)
LEMMA Own_start_routine ==
  ASSUME IInv, OwnInv, NEW t \in Stack, start_routine(t)
  PROVE  OwnInv'
<1>0. CallerInv /\ LockInv /\ OwnedInv
  BY DEF OwnInv
<1> USE <1>0 DEF start_routine, Goes
<1>1. CallerInv'
  BY DEF CallerInv
<1>2. LockInv'
  BY DEF LockInv, HandleInv, CallInv, RefInv, PhaseInv, IS_DETACHED
<1>3. ASSUME NEW s \in Stack, where'[s] = "used"
      PROVE  IF Orphan(s)' THEN \A x \in Actor : arg'[x] # s ELSE HasOwner(s)'
  BY <1>3 DEF OwnedInv, Orphan, HasOwner, IS_DETACHED, LockInv, HandleInv, CallInv, RefInv, ExclusiveInv, PhaseInv
<1> QED BY <1>1, <1>2, <1>3 DEF OwnInv, OwnedInv

(* Nor does one that is cancelled before it starts. *)
LEMMA Own_start_cancelled ==
  ASSUME IInv, OwnInv, NEW t \in Stack, start_cancelled(t)
  PROVE  OwnInv'
<1>0. CallerInv /\ LockInv /\ OwnedInv
  BY DEF OwnInv
<1> USE <1>0 DEF start_cancelled, Goes
<1>1. CallerInv'
  BY DEF CallerInv
<1>2. LockInv'
  BY DEF LockInv, HandleInv, CallInv, RefInv, PhaseInv, IS_DETACHED
<1>3. ASSUME NEW s \in Stack, where'[s] = "used"
      PROVE  IF Orphan(s)' THEN \A x \in Actor : arg'[x] # s ELSE HasOwner(s)'
  BY <1>3 DEF OwnedInv, Orphan, HasOwner, IS_DETACHED, LockInv, HandleInv, CallInv, RefInv, ExclusiveInv, PhaseInv
<1> QED BY <1>1, <1>2, <1>3 DEF OwnInv, OwnedInv

(* Nor one that returns. *)
LEMMA Own_routine_returns ==
  ASSUME IInv, OwnInv, NEW t \in Stack, routine_returns(t)
  PROVE  OwnInv'
<1>0. CallerInv /\ LockInv /\ OwnedInv
  BY DEF OwnInv
<1> USE <1>0 DEF routine_returns, Goes
<1>1. CallerInv'
  BY DEF CallerInv
<1>2. LockInv'
  BY DEF LockInv, HandleInv, CallInv, RefInv, PhaseInv, IS_DETACHED
<1>3. ASSUME NEW s \in Stack, where'[s] = "used"
      PROVE  IF Orphan(s)' THEN \A x \in Actor : arg'[x] # s ELSE HasOwner(s)'
  BY <1>3 DEF OwnedInv, Orphan, HasOwner, IS_DETACHED, LockInv, HandleInv, CallInv, RefInv, ExclusiveInv, PhaseInv
<1> QED BY <1>1, <1>2, <1>3 DEF OwnInv, OwnedInv

(* Nor one that leaves. *)
LEMMA Own_leave_process ==
  ASSUME IInv, OwnInv, NEW t \in Stack, leave_process(t)
  PROVE  OwnInv'
<1>0. CallerInv /\ LockInv /\ OwnedInv
  BY DEF OwnInv
<1> USE <1>0 DEF leave_process, Goes
<1>1. CallerInv'
  BY DEF CallerInv
<1>2. LockInv'
  BY DEF LockInv, HandleInv, CallInv, RefInv, PhaseInv, IS_DETACHED
<1>3. ASSUME NEW s \in Stack, where'[s] = "used"
      PROVE  IF Orphan(s)' THEN \A x \in Actor : arg'[x] # s ELSE HasOwner(s)'
  BY <1>3 DEF OwnedInv, Orphan, HasOwner, IS_DETACHED, LockInv, HandleInv, CallInv, RefInv, ExclusiveInv, PhaseInv
<1> QED BY <1>1, <1>2, <1>3 DEF OwnInv, OwnedInv

(* Nor one that says it exits. *)
LEMMA Own_set_exiting ==
  ASSUME IInv, OwnInv, NEW t \in Stack, set_exiting(t)
  PROVE  OwnInv'
<1>0. CallerInv /\ LockInv /\ OwnedInv
  BY DEF OwnInv
<1> USE <1>0 DEF set_exiting, Goes
<1>1. CallerInv'
  BY DEF CallerInv
<1>2. LockInv'
  BY DEF LockInv, HandleInv, CallInv, RefInv, PhaseInv, IS_DETACHED
<1>3. ASSUME NEW s \in Stack, where'[s] = "used"
      PROVE  IF Orphan(s)' THEN \A x \in Actor : arg'[x] # s ELSE HasOwner(s)'
  BY <1>3 DEF OwnedInv, Orphan, HasOwner, IS_DETACHED, LockInv, HandleInv, CallInv, RefInv, ExclusiveInv, PhaseInv
<1> QED BY <1>1, <1>2, <1>3 DEF OwnInv, OwnedInv

(* A detached thread takes its block with it. *)
LEMMA Own_check_detached ==
  ASSUME IInv, OwnInv, NEW t \in Stack, check_detached(t)
  PROVE  OwnInv'
<1>0. TypeOK /\ CallerInv /\ LockInv /\ \A s \in Stack : OwnerOK(s)
  BY DEF OwnInv, OwnedInv, OwnerOK
<1>k. phase[t] = "check" /\ pc[t] = "idle" /\ arg[t] = NULL
  <2>1. phase[t] = "check"
    BY DEF check_detached, Goes
  <2>2. pc[t] = "idle"
    BY <1>0, <2>1 DEF CallerInv
  <2> QED BY <2>1, <2>2 DEF RefInv
<1>e. /\ phase' = [phase EXCEPT ![t] = "exit"] /\ UNCHANGED <<where, joinid, lock, stopped, handle>>
      /\ \/ /\ joinid[t] = t /\ "TERMINATED" \notin bits[t] /\ bits' = [bits EXCEPT ![t] = @ \cup {"TERMINATED"}]
            /\ pc' = [pc EXCEPT ![t] = "free"] /\ arg' = [arg EXCEPT ![t] = t]
         \/ joinid[t] = t /\ "TERMINATED" \in bits[t] /\ bits' = bits /\ pc' = pc /\ arg' = arg
         \/ joinid[t] # t /\ bits' = bits /\ pc' = pc /\ arg' = arg
  <2>1. "TERMINATED" \in bits[t] => bits = [bits EXCEPT ![t] = @ \cup {"TERMINATED"}]
    BY <1>0
  <2>2. pc = [pc EXCEPT ![t] = "idle"] /\ arg = [arg EXCEPT ![t] = NULL]
    BY <1>0, <1>k
  <2> QED BY <2>1, <2>2 DEF check_detached, free_tcb, IS_DETACHED, Goes, Return, Call
<1> HIDE DEF IInv
<1>1. CallerInv'
  <2>1. \A a \in Actor \ {t} : pc'[a] = pc[a] /\ phase'[a] = phase[a]
    BY <1>0, <1>e
  <2>2. phase'[t] = "exit" /\ pc'[t] \in {"idle", "free"}
    BY <1>0, <1>e, <1>k
  <2> QED BY <1>0, <2>1, <2>2 DEF CallerInv
<1>2. LockInv'
  <2>1. \A s \in Stack \ {t} : bits'[s] = bits[s] /\ phase'[s] = phase[s]
    BY <1>0, <1>e
  <2>2. joinid[t] = t => "TERMINATED" \in bits'[t]
    BY <1>0, <1>e
  <2> QED BY <1>0, <1>e, <2>1, <2>2 DEF LockInv, IS_DETACHED
<1>3. ASSUME NEW s \in Stack PROVE OwnerOK(s)'
  <2>1. CASE s # t \/ bits' = bits
    <3>1. /\ bits'[s] = bits[s] /\ (phase'[s] = "none" <=> phase[s] = "none")
          /\ \A x \in Actor : arg'[x] = s <=> arg[x] = s
      BY <1>0, <1>e, <1>k, <2>1
    <3> QED BY <1>0, <1>e, <3>1, Untouched
  <2>2. CASE s = t /\ bits' # bits
    <3>1. arg'[t] = s /\ joinid'[s] = s
      BY <1>0, <1>e, <2>2
    <3> QED BY <3>1, WorkedOn DEF Orphan, IS_DETACHED
  <2> QED BY <2>1, <2>2
<1> QED BY <1>1, <1>2, <1>3 DEF OwnInv, OwnedInv, OwnerOK

(* A thread that ends has nothing left to free. *)
LEMMA Own_exit_thread ==
  ASSUME IInv, OwnInv, NEW t \in Stack, exit_thread(t)
  PROVE  OwnInv'
<1>0. CallerInv /\ LockInv /\ OwnedInv
  BY DEF OwnInv
<1> USE <1>0 DEF exit_thread, put_tid, Goes
<1>1. CallerInv'
  BY DEF CallerInv
<1>2. LockInv'
  BY DEF LockInv, HandleInv, CallInv, RefInv, PhaseInv, IS_DETACHED
<1>3. ASSUME NEW s \in Stack, where'[s] = "used"
      PROVE  IF Orphan(s)' THEN \A x \in Actor : arg'[x] # s ELSE HasOwner(s)'
  BY <1>3 DEF OwnedInv, Orphan, HasOwner, IS_DETACHED, LockInv, HandleInv, CallInv, RefInv, ExclusiveInv, PhaseInv
<1> QED BY <1>1, <1>2, <1>3 DEF OwnInv, OwnedInv

(* The main thread owns nothing when it leaves. *)
LEMMA Own_main_exit ==
  ASSUME IInv, OwnInv, main_exit
  PROVE  OwnInv'
<1>0. CallerInv /\ LockInv /\ OwnedInv
  BY DEF OwnInv
<1> USE <1>0 DEF main_exit, CanCall
<1>1. CallerInv'
  BY DEF CallerInv
<1>2. LockInv'
  BY DEF LockInv, HandleInv, CallInv, RefInv, PhaseInv, IS_DETACHED
<1>3. ASSUME NEW s \in Stack, where'[s] = "used"
      PROVE  IF Orphan(s)' THEN \A x \in Actor : arg'[x] # s ELSE HasOwner(s)'
  BY <1>3 DEF OwnedInv, Orphan, HasOwner, IS_DETACHED, LockInv, HandleInv, CallInv, RefInv, ExclusiveInv, PhaseInv
<1> QED BY <1>1, <1>2, <1>3 DEF OwnInv, OwnedInv

(* The joiner takes the block over from the process. *)
LEMMA Own_pthread_join ==
  ASSUME IInv, OwnInv, NEW a \in Actor, NEW b \in Stack, NEW timed \in BOOLEAN, pthread_join(a, b, timed)
  PROVE  OwnInv'
<1>0. TypeOK /\ CallerInv /\ LockInv /\ \A s \in Stack : OwnerOK(s)
  BY DEF OwnInv, OwnedInv, OwnerOK
<1>k. handle[b] = "open" /\ joinid[b] = NULL /\ where[b] = "used" /\ pc[a] = "idle" /\ phase[a] = "routine" /\ arg[a] = NULL
  <2>1. handle[b] = "open" /\ pc[a] = "idle" /\ phase[a] = "routine"
    BY DEF pthread_join, CanCall
  <2> QED BY <2>1, HandleFacts DEF RefInv
<1>e. /\ pc' = [pc EXCEPT ![a] = IF timed THEN "timedwait" ELSE "wait"] /\ arg' = [arg EXCEPT ![a] = b]
      /\ handle' = [handle EXCEPT ![b] = "claimed"]
      /\ UNCHANGED <<where, joinid, bits, lock, stopped, phase>>
  BY DEF pthread_join, Call
<1> HIDE DEF IInv
<1>1. CallerInv'
  BY <1>0, <1>e, <1>k DEF CallerInv
<1>2. LockInv'
  BY <1>0, <1>e, <1>k DEF LockInv, IS_DETACHED
<1>3. ASSUME NEW s \in Stack PROVE OwnerOK(s)'
  <2>1. CASE s # b
    <3>1. handle'[s] = handle[s] /\ \A x \in Actor : arg'[x] = s <=> arg[x] = s
      BY <1>0, <1>e, <1>k, <2>1
    <3> QED BY <1>0, <1>e, <3>1, Untouched
  <2>2. CASE s = b
    <3>1. arg'[a] = s /\ handle'[s] = "claimed"
      BY <1>0, <1>e, <2>2
    <3> QED BY <3>1, WorkedOn DEF Orphan
  <2> QED BY <2>1, <2>2
<1> QED BY <1>1, <1>2, <1>3 DEF OwnInv, OwnedInv, OwnerOK

(* It keeps it when the thread has ended. *)
LEMMA Own_join_wakes ==
  ASSUME IInv, OwnInv, NEW a \in Actor, join_wakes(a)
  PROVE  OwnInv'
<1>0. CallerInv /\ LockInv /\ OwnedInv
  BY DEF OwnInv
<1> USE <1>0 DEF join_wakes, Goto
<1>1. CallerInv'
  BY DEF CallerInv
<1>2. LockInv'
  BY DEF LockInv, HandleInv, CallInv, RefInv, PhaseInv, IS_DETACHED
<1>3. ASSUME NEW s \in Stack, where'[s] = "used"
      PROVE  IF Orphan(s)' THEN \A x \in Actor : arg'[x] # s ELSE HasOwner(s)'
  BY <1>3 DEF OwnedInv, Orphan, HasOwner, IS_DETACHED, LockInv, HandleInv, CallInv, RefInv, ExclusiveInv, PhaseInv
<1> QED BY <1>1, <1>2, <1>3 DEF OwnInv, OwnedInv

(* It is the first to set TERMINATED. *)
LEMMA Own_join_frees ==
  ASSUME IInv, OwnInv, NEW a \in Actor, join_frees(a)
  PROVE  OwnInv'
<1>0. TypeOK /\ CallerInv /\ LockInv /\ \A s \in Stack : OwnerOK(s)
  BY DEF OwnInv, OwnedInv, OwnerOK
<1>b. PICK b \in Stack : b = arg[a]
  BY CallFacts DEF join_frees
<1>k. /\ where[b] = "used" /\ (\A x \in Actor \ {a} : arg[x] # b) /\ joinid[b] \in {NULL, b} /\ arg[a] = b
      /\ handle[b] = "claimed" /\ "TERMINATED" \notin bits[b] /\ pc[a] = "woken"
  BY <1>b, CallFacts, HandleFacts DEF join_frees
<1>e. /\ pc' = [pc EXCEPT ![a] = "free"] /\ arg' = [arg EXCEPT ![a] = b]
      /\ bits' = [bits EXCEPT ![b] = @ \cup {"TERMINATED"}] /\ handle' = [handle EXCEPT ![b] = "none"]
      /\ UNCHANGED <<where, joinid, lock, stopped, phase>>
  BY <1>b, <1>k DEF join_frees, put_tid, free_tcb, Call
<1> HIDE DEF IInv
<1>1. CallerInv'
  BY <1>0, <1>e, <1>k DEF CallerInv
<1>2. LockInv'
  BY <1>0, <1>e, <1>k DEF LockInv, IS_DETACHED
<1>3. ASSUME NEW s \in Stack PROVE OwnerOK(s)'
  <2>1. CASE s # b
    <3>1. handle'[s] = handle[s] /\ bits'[s] = bits[s] /\ \A x \in Actor : arg'[x] = s <=> arg[x] = s
      BY <1>0, <1>e, <1>k, <2>1
    <3> QED BY <1>0, <1>e, <3>1, Untouched
  <2>2. CASE s = b
    <3>1. arg'[a] = s /\ ~ (stopped'[s] /\ lock'[s])
      BY <1>0, <1>e, <1>k, <2>2 DEF LockInv
    <3> QED BY <3>1, WorkedOn DEF Orphan
  <2> QED BY <2>1, <2>2
<1> QED BY <1>1, <1>2, <1>3 DEF OwnInv, OwnedInv, OwnerOK

(* A join that fails gives the block back to the process. *)
LEMMA Own_join_timeout ==
  ASSUME IInv, OwnInv, NEW a \in Actor, join_timeout(a)
  PROVE  OwnInv'
<1>0. TypeOK /\ CallerInv /\ LockInv /\ \A s \in Stack : OwnerOK(s)
  BY DEF OwnInv, OwnedInv, OwnerOK
<1>b. PICK b \in Stack : b = arg[a]
  BY CallFacts DEF join_timeout
<1>k. /\ where[b] = "used" /\ (\A x \in Actor \ {a} : arg[x] # b) /\ joinid[b] \in {NULL, b} /\ arg[a] = b
      /\ handle[b] = "claimed" /\ joinid[b] = NULL /\ pc[a] = "timedwait"
  BY <1>b, CallFacts, HandleFacts DEF join_timeout
<1>e. /\ pc' = [pc EXCEPT ![a] = "idle"] /\ arg' = [arg EXCEPT ![a] = NULL]
      /\ joinid' = [joinid EXCEPT ![b] = NULL] /\ handle' = [handle EXCEPT ![b] = "open"]
      /\ UNCHANGED <<where, bits, lock, stopped, phase>>
  BY <1>b DEF join_timeout, Return, Call
<1> HIDE DEF IInv
<1>1. CallerInv'
  BY <1>0, <1>e, <1>k DEF CallerInv
<1>2. LockInv'
  <2>1. joinid' = joinid
    BY <1>0, <1>e, <1>k
  <2> QED BY <1>0, <1>e, <1>k, <2>1 DEF LockInv, IS_DETACHED
<1>3. ASSUME NEW s \in Stack PROVE OwnerOK(s)'
  <2>1. CASE s # b
    <3>1. /\ handle'[s] = handle[s] /\ joinid'[s] = joinid[s]
          /\ \A x \in Actor : arg'[x] = s <=> arg[x] = s
      BY <1>0, <1>e, <1>k, <2>1
    <3> QED BY <1>0, <1>e, <3>1, Untouched
  <2>2. CASE s = b
    <3>1. handle'[s] = "open"
      BY <1>0, <1>e, <2>2
    <3> QED BY <3>1 DEF OwnerOK, HasOwner, Orphan
  <2> QED BY <2>1, <2>2
<1> QED BY <1>1, <1>2, <1>3 DEF OwnInv, OwnedInv, OwnerOK

(* So does one that is cancelled. *)
LEMMA Own_join_cancelled ==
  ASSUME IInv, OwnInv, NEW a \in Actor, join_cancelled(a)
  PROVE  OwnInv'
<1>0. TypeOK /\ CallerInv /\ LockInv /\ \A s \in Stack : OwnerOK(s)
  BY DEF OwnInv, OwnedInv, OwnerOK
<1>b. PICK b \in Stack : b = arg[a]
  BY CallFacts DEF join_cancelled
<1>k. /\ where[b] = "used" /\ (\A x \in Actor \ {a} : arg[x] # b) /\ joinid[b] \in {NULL, b} /\ arg[a] = b
      /\ handle[b] = "claimed" /\ pc[a] \in {"wait", "timedwait"}
  BY <1>b, CallFacts DEF join_cancelled
<1>e. /\ pc' = [pc EXCEPT ![a] = "idle"] /\ arg' = [arg EXCEPT ![a] = NULL]
      /\ phase[a] = "routine" /\ phase' = [phase EXCEPT ![a] = "leaving"] /\ handle' = [handle EXCEPT ![b] = "open"]
      /\ UNCHANGED <<where, joinid, bits, lock, stopped>>
  BY <1>b DEF join_cancelled, Goes, Return, Call
<1> HIDE DEF IInv
<1>1. CallerInv'
  <2>1. \A x \in Actor \ {a} : pc'[x] = pc[x] /\ phase'[x] = phase[x]
    BY <1>0, <1>e
  <2>2. pc'[a] = "idle"
    BY <1>0, <1>e
  <2> QED BY <1>0, <2>1, <2>2 DEF CallerInv
<1>2. LockInv'
  <2>1. \A s \in Stack : phase'[s] = "exit" => phase[s] = "exit"
    BY <1>0, <1>e
  <2> QED BY <1>0, <1>e, <1>k, <2>1 DEF LockInv, IS_DETACHED
<1>3. ASSUME NEW s \in Stack PROVE OwnerOK(s)'
  <2>1. CASE s # b
    <3>1. /\ handle'[s] = handle[s] /\ (phase'[s] = "none" <=> phase[s] = "none")
          /\ \A x \in Actor : arg'[x] = s <=> arg[x] = s
      BY <1>0, <1>e, <1>k, <2>1
    <3> QED BY <1>0, <1>e, <3>1, Untouched
  <2>2. CASE s = b
    <3>1. handle'[s] = "open"
      BY <1>0, <1>e, <2>2
    <3> QED BY <3>1 DEF OwnerOK, HasOwner, Orphan
  <2> QED BY <2>1, <2>2
<1> QED BY <1>1, <1>2, <1>3 DEF OwnInv, OwnedInv, OwnerOK

(* The block goes to the thread, or to the caller if the thread is exiting. *)
LEMMA Own_pthread_detach ==
  ASSUME IInv, OwnInv, NEW a \in Actor, NEW b \in Stack, pthread_detach(a, b)
  PROVE  OwnInv'
<1>0. TypeOK /\ CallerInv /\ LockInv /\ \A s \in Stack : OwnerOK(s)
  BY DEF OwnInv, OwnedInv, OwnerOK
<1>k. /\ handle[b] = "open" /\ joinid[b] = NULL /\ pc[a] = "idle" /\ phase[a] = "routine" /\ arg[a] = NULL
      /\ "TERMINATED" \notin bits[b] /\ (phase[b] # "none" \/ "EXITING" \in bits[b]) /\ (\A x \in Actor : arg[x] # b)
      /\ phase[b] = "exit" => "EXITING" \in bits[b]
  <2>1. handle[b] = "open" /\ pc[a] = "idle" /\ phase[a] = "routine"
    BY DEF pthread_detach, CanCall
  <2>2. phase[b] = "exit" => "EXITING" \in bits[b]
    BY DEF PhaseInv
  <2>3. arg[a] = NULL
    BY <2>1 DEF RefInv
  <2> QED BY <2>1, <2>2, <2>3, HandleFacts
<1>e. /\ joinid' = [joinid EXCEPT ![b] = b] /\ handle' = [handle EXCEPT ![b] = "none"]
      /\ \/ /\ "EXITING" \in bits[b] /\ bits' = [bits EXCEPT ![b] = @ \cup {"TERMINATED"}]
            /\ pc' = [pc EXCEPT ![a] = "free"] /\ arg' = [arg EXCEPT ![a] = b]
         \/ "EXITING" \notin bits[b] /\ bits' = bits /\ pc' = pc /\ arg' = arg
      /\ UNCHANGED <<where, lock, stopped, phase>>
  BY <1>k DEF pthread_detach, free_tcb, Call
<1> HIDE DEF IInv
<1>1. CallerInv'
  BY <1>0, <1>e, <1>k DEF CallerInv
<1>2. LockInv'
  <2>1. \A s \in Stack \ {b} : bits'[s] = bits[s] /\ joinid'[s] = joinid[s] /\ handle'[s] = handle[s]
    BY <1>0, <1>e
  <2>2. handle'[b] = "none" /\ (phase[b] = "exit" => "TERMINATED" \in bits'[b])
    BY <1>0, <1>e, <1>k
  <2> QED BY <1>0, <1>e, <2>1, <2>2 DEF LockInv, IS_DETACHED
<1>3. ASSUME NEW s \in Stack PROVE OwnerOK(s)'
  <2>1. CASE s # b
    <3>1. /\ bits'[s] = bits[s] /\ joinid'[s] = joinid[s] /\ handle'[s] = handle[s]
          /\ \A x \in Actor : arg'[x] = s <=> arg[x] = s
      BY <1>0, <1>e, <1>k, <2>1
    <3> QED BY <1>0, <1>e, <3>1, Untouched
  <2>2. CASE s = b
    <3>1. joinid'[s] = s
      BY <1>0, <1>e, <2>2
    <3>2. arg'[a] = s \/ (phase'[s] # "none" /\ "TERMINATED" \notin bits'[s])
      BY <1>0, <1>e, <1>k, <2>2
    <3> QED BY <3>1, <3>2 DEF OwnerOK, HasOwner, Orphan, IS_DETACHED
  <2> QED BY <2>1, <2>2
<1> QED BY <1>1, <1>2, <1>3 DEF OwnInv, OwnedInv, OwnerOK

(* To cancel a thread changes no owner. *)
LEMMA Own_pthread_cancel ==
  ASSUME IInv, OwnInv, NEW a \in Actor, NEW b \in Stack, pthread_cancel(a, b)
  PROVE  OwnInv'
<1>0. CallerInv /\ LockInv /\ OwnedInv
  BY DEF OwnInv
<1> USE <1>0 DEF pthread_cancel, CanCall
<1>1. CallerInv'
  BY DEF CallerInv
<1>2. LockInv'
  BY DEF LockInv, HandleInv, CallInv, RefInv, PhaseInv, IS_DETACHED
<1>3. ASSUME NEW s \in Stack, where'[s] = "used"
      PROVE  IF Orphan(s)' THEN \A x \in Actor : arg'[x] # s ELSE HasOwner(s)'
  BY <1>3 DEF OwnedInv, Orphan, HasOwner, IS_DETACHED, LockInv, HandleInv, CallInv, RefInv, ExclusiveInv, PhaseInv
<1> QED BY <1>1, <1>2, <1>3 DEF OwnInv, OwnedInv

-----------------------------------------------------------------------------
HIDE DEF IInv, TypeOK, PoolTypeOK, Where, Tid, Bit, Phase, Pc, Actor

(* Every step of Next preserves the ownership of the blocks. *)
LEMMA OwnNext == IInv /\ OwnInv /\ [Next]_vars => OwnInv'
<1> SUFFICES ASSUME IInv, OwnInv, [Next]_vars PROVE OwnInv'
  OBVIOUS
<1>1. ASSUME NEW a \in Actor, Creating(a) PROVE OwnInv'
  BY <1>1, Own_pthread_create, Own_create_thread, Own_clone_ok, Own_clone_fail,
     Own_setup_ok, Own_setup_fail, Zenon DEF Creating
<1>2. ASSUME NEW a \in Actor, Calling(a) PROVE OwnInv'
  BY <1>2, Own_pthread_join, Own_join_wakes, Own_join_frees, Own_join_timeout,
     Own_join_cancelled, Own_pthread_detach, Own_pthread_cancel, Own_deallocate, Zenon DEF Calling
<1>3. ASSUME NEW t \in Stack, start_thread(t) PROVE OwnInv'
  BY <1>3, Own_start_routine, Own_start_cancelled, Own_routine_returns, Own_leave_process,
     Own_set_exiting, Own_check_detached, Own_exit_thread, Zenon DEF start_thread
<1>4. ASSUME main_exit PROVE OwnInv'
  BY <1>4, Own_main_exit
<1>5. CASE UNCHANGED vars
  BY <1>5 DEF vars, OwnInv, CallerInv, LockInv, OwnedInv, Orphan, HasOwner, IS_DETACHED
<1> QED BY <1>1, <1>2, <1>3, <1>4, <1>5 DEF Next

(* Every block in use that is no orphan has somebody who will free it, in   *)
(* every reachable state.                                                   *)
THEOREM Ownership == Spec => []OwnInv
  BY Invariance, OwnInit, OwnNext, PTL DEF Spec

(* An actor has a block as its argument exactly while it owns or joins it.  *)
LEMMA ArgOwns ==
  ASSUME IInv, NEW s \in Stack, NEW a \in Actor
  PROVE  Owned(a, s) \/ Joining(a, s) <=> arg[a] = s
<1>1. pc[a] \in Pc /\ (pc[a] = "idle" <=> arg[a] = NULL) /\ s # NULL
  BY ActorAssumption DEF IInv, TypeOK, RefInv, Actor
<1> QED BY <1>1 DEF Owned, Joining, Pc

(* The owners of a block, part by part. *)
ThreadOwns(s) ==
    /\ IS_DETACHED(s) /\ phase[s] # "none" /\ "TERMINATED" \notin bits[s]
    /\ ~ \E a \in Actor : Owned(a, s)

LEMMA OwnersAre ==
  ASSUME IInv, NEW s \in Stack
  PROVE  \A o : o \in Owners(s) <=> \/ \E a \in Actor : arg[a] = s /\ o = <<"actor", a>>
                                    \/ handle[s] = "open" /\ o = <<"process", NULL>>
                                    \/ ThreadOwns(s) /\ o = <<"thread", s>>
  BY ArgOwns, Zenon DEF Owners, ThreadOwns

(* At most one of them. *)
LEMMA NobodyElse ==
  ASSUME IInv, NEW s \in Stack
  PROVE  /\ \A a, b \in Actor : arg[a] = s /\ arg[b] = s => a = b
         /\ \A a \in Actor : arg[a] = s => handle[s] # "open" /\ ~ ThreadOwns(s)
         /\ handle[s] = "open" => ~ ThreadOwns(s)
<1>1. \A a \in Actor : arg[a] = s => pc[a] # "idle"
  BY ActorAssumption DEF IInv, RefInv, Actor
<1>2. \A a, b \in Actor : arg[a] = s /\ arg[b] = s => a = b
  BY <1>1 DEF IInv, ExclusiveInv
<1>3. handle[s] # "none" => joinid[s] = NULL /\ NULL # s
  BY ActorAssumption DEF IInv, HandleInv, Actor
<1>4. ASSUME NEW a \in Actor, arg[a] = s PROVE handle[s] # "open" /\ ~ ThreadOwns(s)
  <2>1. handle[s] # "open"
    BY <1>4 DEF IInv, HandleInv
  <2>2. Owned(a, s) \/ handle[s] = "claimed"
    BY <1>4, ArgOwns DEF Joining, IInv, CallInv
  <2> QED BY <1>3, <1>4, <2>1, <2>2 DEF ThreadOwns, IS_DETACHED
<1>5. handle[s] = "open" => ~ ThreadOwns(s)
  BY <1>3 DEF ThreadOwns, IS_DETACHED
<1> QED BY <1>2, <1>4, <1>5

(* A block in use has exactly one owner, orphans and free blocks have none: *)
(* no sequence of creates, exits, joins, timeouts, cancellations and        *)
(* detaches, of any number of threads, frees a block twice or loses one     *)
(* that was handed to the application.                                      *)
THEOREM SingleOwner == Spec => []UniqueOwner
<1>1. ASSUME IInv, OwnInv, NEW s \in Stack
      PROVE  Cardinality(Owners(s)) = IF where[s] = "used" /\ ~ Orphan(s) THEN 1 ELSE 0
  <2>0. /\ \A o : o \in Owners(s) <=> \/ \E a \in Actor : arg[a] = s /\ o = <<"actor", a>>
                                      \/ handle[s] = "open" /\ o = <<"process", NULL>>
                                      \/ ThreadOwns(s) /\ o = <<"thread", s>>
        /\ \A a, b \in Actor : arg[a] = s /\ arg[b] = s => a = b
        /\ \A a \in Actor : arg[a] = s => handle[s] # "open" /\ ~ ThreadOwns(s)
        /\ handle[s] = "open" => ~ ThreadOwns(s)
    BY <1>1, OwnersAre, NobodyElse, Zenon
  <2>1. CASE where[s] # "used" \/ Orphan(s)
    <3>1. (\A a \in Actor : arg[a] # s) /\ handle[s] # "open" /\ ~ ThreadOwns(s)
      <4>1. CASE where[s] # "used"
        <5>1. \A a \in Actor : arg[a] # s
          BY <1>1, <4>1, ActorAssumption DEF IInv, RefInv, Actor
        <5>2. handle[s] # "open"
          BY <1>1, <4>1 DEF IInv, HandleInv
        <5>3. phase[s] # "none" => "TERMINATED" \in bits[s]
          BY <1>1, <4>1 DEF IInv, TypeOK, PhaseInv, Phase, Actor
        <5> QED BY <5>1, <5>2, <5>3 DEF ThreadOwns
      <4>2. CASE Orphan(s)
        <5>1. \A a \in Actor : arg[a] # s
          BY <1>1, <4>2 DEF OwnInv, OwnedInv, Orphan
        <5> QED BY <4>2, <5>1 DEF Orphan, ThreadOwns
      <4> QED BY <2>1, <4>1, <4>2
    <3>2. Owners(s) = {}
      BY <2>0, <3>1, Zenon
    <3>3. Cardinality(Owners(s)) = 0
      BY <3>2, FS_EmptySet
    <3> QED BY <2>1, <3>3
  <2>2. CASE where[s] = "used" /\ ~ Orphan(s)
    <3>0. HasOwner(s)
      BY <1>1, <2>2 DEF OwnInv, OwnedInv
    <3>1. \E o : Owners(s) = {o}
      <4>1. ASSUME NEW a \in Actor, arg[a] = s PROVE Owners(s) = {<<"actor", a>>}
        BY <2>0, <4>1, Zenon
      <4>2. ASSUME handle[s] = "open" PROVE Owners(s) = {<<"process", NULL>>}
        BY <2>0, <4>2, Zenon
      <4>3. ASSUME \A a \in Actor : arg[a] # s, handle[s] # "open" PROVE Owners(s) = {<<"thread", s>>}
        <5>1. ThreadOwns(s)
          BY <1>1, <3>0, <4>3, ArgOwns, Zenon DEF HasOwner, ThreadOwns
        <5> QED BY <2>0, <4>3, <5>1, Zenon
      <4> QED BY <4>1, <4>2, <4>3, Zenon
    <3>2. Cardinality(Owners(s)) = 1
      BY <3>1, FS_Singleton
    <3> QED BY <2>2, <3>2
  <2> QED BY <2>1, <2>2
<1>2. IInv /\ OwnInv => UniqueOwner
  BY <1>1, Zenon DEF UniqueOwner
<1> QED BY <1>2, Invariance, Ownership, PTL
-----------------------------------------------------------------------------
(* The threads that have not yet left, and the creators about to clone.     *)
Running == {a \in Actor : phase[a] \in {"started", "routine", "leaving"}}
Births == {a \in Actor : pc[a] \in {"create", "clone"}}

(* Both are finite, and all the counting there is.                          *)
LEMMA Counting ==
  /\ IsFiniteSet(Running) /\ IsFiniteSet(Births)
  /\ Cardinality(Running) \in Nat /\ Cardinality(Births) \in Nat
<1>1. IsFiniteSet(Actor)
  BY ActorAssumption, FS_AddElement DEF Actor
<1>2. Running \in SUBSET Actor /\ Births \in SUBSET Actor
  BY DEF Running, Births
<1>3. IsFiniteSet(Running) /\ IsFiniteSet(Births)
  BY <1>1, <1>2, FS_Subset
<1> QED BY <1>3, FS_CardinalityType

(* A step that moves nobody between these sets and leaves the count alone.  *)
LEMMA SameCount ==
  ASSUME ThreadCount, nthreads' = nthreads,
         \A x \in Actor : phase'[x] \in {"started", "routine", "leaving"}
                            <=> phase[x] \in {"started", "routine", "leaving"},
         \A x \in Actor : pc'[x] \in {"create", "clone"} <=> pc[x] \in {"create", "clone"}
  PROVE  ThreadCount'
<1>1. Running' = Running /\ Births' = Births
  BY DEF Running, Births
<1> QED BY <1>1 DEF ThreadCount, Running, Births

(* The steps of a call that count nothing. *)
LEMMA CountCall ==
  ASSUME IInv, ThreadCount, NEW a \in Actor,
         \/ create_thread(a) \/ setup_ok(a) \/ setup_fail(a) \/ join_wakes(a) \/ join_frees(a)
         \/ join_timeout(a) \/ join_cancelled(a) \/ deallocate(a)
         \/ \E b \in Stack : \/ \E timed \in BOOLEAN : pthread_join(a, b, timed)
                             \/ pthread_detach(a, b) \/ pthread_cancel(a, b)
  PROVE  ThreadCount'
<1>1. nthreads' = nthreads
  BY DEF create_thread, setup_ok, setup_fail, join_wakes, join_frees, join_timeout, join_cancelled,
         deallocate, pthread_join, pthread_detach, pthread_cancel
<1>2. phase' = phase \/ (phase[a] = "routine" /\ phase' = [phase EXCEPT ![a] = "leaving"])
  BY DEF create_thread, setup_ok, setup_fail, join_wakes, join_frees, join_timeout, join_cancelled,
         deallocate, pthread_join, pthread_detach, pthread_cancel, Goes
<1>3. \E l \in Pc : /\ pc' = pc \/ pc' = [pc EXCEPT ![a] = l]
                    /\ pc' # pc => (l \in {"create", "clone"} <=> pc[a] \in {"create", "clone"})
  <2>1. CASE create_thread(a)
    BY <2>1 DEF create_thread, Goto, Pc
  <2>2. CASE setup_ok(a) \/ setup_fail(a) \/ join_timeout(a) \/ join_cancelled(a) \/ deallocate(a)
    BY <2>2 DEF setup_ok, setup_fail, join_timeout, join_cancelled, deallocate, Return, Call, Pc
  <2>3. CASE join_wakes(a) \/ join_frees(a)
    BY <2>3 DEF join_wakes, join_frees, free_tcb, Goto, Return, Call, Pc
  <2>4. ASSUME NEW b \in Stack, NEW timed \in BOOLEAN, pthread_join(a, b, timed)
        PROVE  \E l \in Pc : /\ pc' = [pc EXCEPT ![a] = l]
                             /\ l \in {"create", "clone"} <=> pc[a] \in {"create", "clone"}
    BY <2>4 DEF pthread_join, CanCall, Call, Pc
  <2>5. ASSUME NEW b \in Stack, pthread_detach(a, b) \/ pthread_cancel(a, b)
        PROVE  pc' = pc \/ \E l \in Pc : /\ pc' = [pc EXCEPT ![a] = l]
                                         /\ l \in {"create", "clone"} <=> pc[a] \in {"create", "clone"}
    BY <2>5 DEF pthread_detach, pthread_cancel, free_tcb, CanCall, Return, Call, Pc
  <2>6. "idle" \in Pc
    BY DEF Pc
  <2> QED BY <2>1, <2>2, <2>3, <2>4, <2>5, <2>6
<1>4. phase \in [Actor -> Phase] /\ pc \in [Actor -> Pc]
  BY DEF IInv, TypeOK
<1>5. \A x \in Actor : phase'[x] \in {"started", "routine", "leaving"}
                         <=> phase[x] \in {"started", "routine", "leaving"}
  BY <1>2, <1>4
<1>6. \A x \in Actor : pc'[x] \in {"create", "clone"} <=> pc[x] \in {"create", "clone"}
  BY <1>3, <1>4
<1> QED BY <1>1, <1>5, <1>6, SameCount

(* The steps of a thread that count nothing. *)
LEMMA CountThread ==
  ASSUME IInv, OwnInv, ThreadCount, NEW t \in Stack,
         \/ start_routine(t) \/ start_cancelled(t) \/ routine_returns(t)
         \/ set_exiting(t) \/ check_detached(t) \/ exit_thread(t)
  PROVE  ThreadCount'
<1>0. t \in Actor /\ phase \in [Actor -> Phase] /\ pc \in [Actor -> Pc]
  BY DEF IInv, TypeOK, Actor
<1>1. nthreads' = nthreads
  BY DEF start_routine, start_cancelled, routine_returns, set_exiting, check_detached, exit_thread
<1>2. \E l : /\ phase' = [phase EXCEPT ![t] = l]
             /\ l \in {"started", "routine", "leaving"} <=> phase[t] \in {"started", "routine", "leaving"}
  BY DEF start_routine, start_cancelled, routine_returns, set_exiting, check_detached, exit_thread, Goes
<1>3. \/ pc' = pc
      \/ /\ pc[t] \notin {"create", "clone"}
         /\ \E l \in {"idle", "free"} : pc' = [pc EXCEPT ![t] = l]
  <2>1. CASE check_detached(t)
    <3>1. pc[t] \notin {"create", "clone"}
      BY <1>0, <2>1 DEF check_detached, Goes, OwnInv, CallerInv
    <3> QED BY <2>1, <3>1 DEF check_detached, free_tcb, Return, Call
  <2>2. CASE ~ check_detached(t)
    BY <2>2 DEF start_routine, start_cancelled, routine_returns, set_exiting, exit_thread
  <2> QED BY <2>1, <2>2
<1>4. \A x \in Actor : phase'[x] \in {"started", "routine", "leaving"}
                         <=> phase[x] \in {"started", "routine", "leaving"}
  BY <1>0, <1>2
<1>5. \A x \in Actor : pc'[x] \in {"create", "clone"} <=> pc[x] \in {"create", "clone"}
  BY <1>0, <1>3
<1> QED BY <1>1, <1>4, <1>5, SameCount

(* pthread_create counts the thread it is about to clone ... *)
LEMMA CountCreate ==
  ASSUME IInv, ThreadCount, NEW a \in Actor, NEW b \in Stack, NEW d \in BOOLEAN, NEW stop \in BOOLEAN,
         pthread_create(a, b, d, stop)
  PROVE  ThreadCount'
<1>0. pc \in [Actor -> Pc]
  BY DEF IInv, TypeOK
<1>1. /\ pc[a] = "idle" /\ pc' = [pc EXCEPT ![a] = "create"]
      /\ phase' = phase /\ nthreads' = nthreads + 1
  BY DEF pthread_create, CanCall, Call
<1>2. Running' = Running /\ Births' = Births \cup {a} /\ a \notin Births
  BY <1>0, <1>1 DEF Running, Births
<1>3. Cardinality(Births \cup {a}) = Cardinality(Births) + 1
  BY <1>2, Counting, FS_AddElement
<1>n. nthreads = Cardinality(Running) + Cardinality(Births)
  BY DEF ThreadCount, Running, Births
<1>q. nthreads' = Cardinality(Running') + Cardinality(Births')
  BY <1>1, <1>2, <1>3, <1>n, Counting
<1> QED BY <1>q DEF ThreadCount, Running, Births

(* ... the clone makes it a thread ... *)
LEMMA CountClone ==
  ASSUME IInv, ThreadCount, NEW a \in Actor, clone_ok(a)
  PROVE  ThreadCount'
<1>b. PICK b \in Stack : b = arg[a]
  BY CallFacts DEF clone_ok
<1>0. pc \in [Actor -> Pc] /\ phase \in [Actor -> Phase] /\ b \in Actor
  BY DEF IInv, TypeOK, Actor
<1>1. pc[a] = "clone" /\ phase[b] = "none"
  BY <1>b, CallFacts DEF clone_ok
<1>2. /\ \E l \in {"idle", "setup"} : pc' = [pc EXCEPT ![a] = l]
      /\ phase' = [phase EXCEPT ![b] = "started"] /\ nthreads' = nthreads
  BY <1>b DEF clone_ok, Goto, Return, Call
<1>3. Running' = Running \cup {b} /\ b \notin Running
  BY <1>0, <1>1, <1>2 DEF Running
<1>4. Births' = Births \ {a} /\ a \in Births
  BY <1>0, <1>1, <1>2 DEF Births
<1>5. Cardinality(Running \cup {b}) = Cardinality(Running) + 1
  BY <1>3, Counting, FS_AddElement
<1>6. Cardinality(Births \ {a}) = Cardinality(Births) - 1
  BY <1>4, Counting, FS_RemoveElement
<1>n. nthreads = Cardinality(Running) + Cardinality(Births)
  BY DEF ThreadCount, Running, Births
<1>q. nthreads' = Cardinality(Running') + Cardinality(Births')
  BY <1>2, <1>3, <1>4, <1>5, <1>6, <1>n, Counting
<1> QED BY <1>q DEF ThreadCount, Running, Births

(* ... or the count is taken back ... *)
LEMMA CountCloneFail ==
  ASSUME IInv, ThreadCount, NEW a \in Actor, clone_fail(a)
  PROVE  ThreadCount'
<1>0. pc \in [Actor -> Pc]
  BY DEF IInv, TypeOK
<1>1. /\ pc[a] = "clone" /\ pc' = [pc EXCEPT ![a] = "free"]
      /\ phase' = phase /\ nthreads' = nthreads - 1
  BY DEF clone_fail, Goto
<1>2. Running' = Running /\ Births' = Births \ {a} /\ a \in Births
  BY <1>0, <1>1 DEF Running, Births
<1>3. Cardinality(Births \ {a}) = Cardinality(Births) - 1
  BY <1>2, Counting, FS_RemoveElement
<1>n. nthreads = Cardinality(Running) + Cardinality(Births)
  BY DEF ThreadCount, Running, Births
<1>q. nthreads' = Cardinality(Running') + Cardinality(Births')
  BY <1>1, <1>2, <1>3, <1>n, Counting
<1> QED BY <1>q DEF ThreadCount, Running, Births

(* ... and a thread that leaves, the main thread included, is counted out.  *)
LEMMA CountLeave ==
  ASSUME IInv, ThreadCount, NEW t \in Actor, phase[t] \in {"routine", "leaving"},
         NEW l \in {"none", "exitbit"}, phase' = [phase EXCEPT ![t] = l],
         pc' = pc, nthreads' = nthreads - 1
  PROVE  ThreadCount'
<1>0. phase \in [Actor -> Phase]
  BY DEF IInv, TypeOK
<1>2. Births' = Births /\ Running' = Running \ {t} /\ t \in Running
  BY <1>0 DEF Running, Births
<1>3. Cardinality(Running \ {t}) = Cardinality(Running) - 1
  BY <1>2, Counting, FS_RemoveElement
<1>n. nthreads = Cardinality(Running) + Cardinality(Births)
  BY DEF ThreadCount, Running, Births
<1>q. nthreads' = Cardinality(Running') + Cardinality(Births')
  BY <1>2, <1>3, <1>n, Counting
<1> QED BY <1>q DEF ThreadCount, Running, Births

(* __nptl_nthreads is exact in every reachable state, for any number of     *)
(* threads: it reaches zero with the last thread and not before.            *)
THEOREM CountExact == Spec => []ThreadCount
<1>1. Init => ThreadCount
  <2> SUFFICES ASSUME Init PROVE ThreadCount
    OBVIOUS
  <2>1. Running = {Main} /\ Births = {} /\ nthreads = 1
    BY DEF Init, Running, Births, Actor
  <2>2. nthreads = Cardinality(Running) + Cardinality(Births)
    <3>1. Cardinality({Main}) = 1 /\ Cardinality({}) = 0
      BY FS_Singleton, FS_EmptySet
    <3> QED BY <2>1, <3>1
  <2> QED BY <2>2 DEF ThreadCount, Running, Births
<1>2. IInv /\ OwnInv /\ ThreadCount /\ [Next]_vars => ThreadCount'
  <2> SUFFICES ASSUME IInv, OwnInv, ThreadCount, [Next]_vars PROVE ThreadCount'
    OBVIOUS
  <2>1. ASSUME NEW a \in Actor, Creating(a) PROVE ThreadCount'
    BY <2>1, CountCreate, CountClone, CountCloneFail, CountCall, Zenon DEF Creating
  <2>2. ASSUME NEW a \in Actor, Calling(a) PROVE ThreadCount'
    BY <2>2, CountCall, Zenon DEF Calling
  <2>3. ASSUME NEW t \in Stack, start_thread(t) PROVE ThreadCount'
    <3>1. CASE leave_process(t)
      <4>1. t \in Actor
        BY DEF Actor
      <4>2. /\ phase[t] = "leaving" /\ phase' = [phase EXCEPT ![t] = "exitbit"]
            /\ pc' = pc /\ nthreads' = nthreads - 1
        BY <3>1 DEF leave_process, Goes
      <4> QED BY <4>1, <4>2, CountLeave
    <3>2. CASE ~ leave_process(t)
      BY <2>3, <3>2, CountThread, Zenon DEF start_thread
    <3> QED BY <3>1, <3>2
  <2>4. ASSUME main_exit PROVE ThreadCount'
    <3>1. Main \in Actor
      BY DEF Actor
    <3>2. /\ phase[Main] = "routine" /\ phase' = [phase EXCEPT ![Main] = "none"]
          /\ pc' = pc /\ nthreads' = nthreads - 1
      BY <2>4 DEF main_exit, CanCall
    <3> QED BY <3>1, <3>2, CountLeave
  <2>5. CASE UNCHANGED vars
    BY <2>5 DEF vars, ThreadCount
  <2> QED BY <2>1, <2>2, <2>3, <2>4, <2>5 DEF Next
<1> QED BY <1>1, <1>2, Invariance, Ownership, PTL DEF Spec
=============================================================================
