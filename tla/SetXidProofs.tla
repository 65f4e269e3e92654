---------------------------- MODULE SetXidProofs ----------------------------
(***************************************************************************)
(* __nptl_setxid for any number of threads, creators and callers: IInv is  *)
(* inductive, one lemma per action, and the two safety properties of       *)
(* SetXid follow from it.                                                  *)
(***************************************************************************)
EXTENDS SetXid, FiniteSetTheorems, TLAPS

(* The descriptors and NULL. *)
LEMMA Names == Main \in Thread /\ NULL \notin Thread
  BY SetXidAssumption

(* There are finitely many answers to come. *)
LEMMA OwingFinite == IsFiniteSet(Owing) /\ Cardinality(Owing) \in Nat
<1>1. Owing \in SUBSET Thread
  BY DEF Owing
<1>2. IsFiniteSet(Owing)
  BY <1>1, SetXidAssumption, FS_Subset
<1> QED BY <1>2, FS_CardinalityType
-----------------------------------------------------------------------------

(* A descriptor is listed before it has a thread, between two calls. *)
LEMMA Inv_allocate_stack ==
  ASSUME IInv, NEW c \in Thread, NEW t \in Thread, allocate_stack(c, t)
  PROVE  IInv'
<1>0. /\ TypeOK /\ ListInv /\ BirthInv /\ BitInv /\ OwingInv /\ AnswersCounted
      /\ ~ lossy => CredInv
  BY DEF IInv
<1>1. TypeOK'
  BY <1>0, Names DEF TypeOK, Ids, ListInv, BirthInv, allocate_stack, AtLiberty, becomes, Set,
     signals, walk
<1>2. ListInv'
  BY <1>0, Names DEF TypeOK, Ids, ListInv, others, Alive, Marking, BirthInv, allocate_stack,
     AtLiberty, becomes, Set, signals, walk
<1>3. BirthInv'
  <2>1. /\ phase[c] = "running" /\ call[c] = "idle" /\ lock = NULL /\ xpc = "no"
        /\ t \notin listed /\ c # t /\ xpc' = "no" /\ listed' = listed \cup {t}
    BY <1>0 DEF allocate_stack, AtLiberty, ListInv, Alive, walk
  <2>2. /\ \A u \in Thread \ {t} : futex'[u] = futex[u] /\ phase'[u] = phase[u]
        /\ futex'[t] = -1 /\ phase'[t] = "none"
    BY <1>0 DEF TypeOK, allocate_stack, Set, becomes
  <2>3. /\ \A d \in Thread \ {c} : call'[d] = call[d] /\ new'[d] = new[d]
        /\ call'[c] = "listed" /\ new'[c] = t
    BY <1>0 DEF TypeOK, allocate_stack, Set
  <2>4. phase[t] # "running" /\ \A d \in Thread : Holding(d) => new[d] # t
    BY <1>0, <2>1 DEF BirthInv, allocate_stack, Alive
  <2>5. ASSUME NEW d \in Thread
        PROVE  /\ call'[d] # "idle" => phase'[d] = "running" /\ new'[d] \in Thread
               /\ Holding(d)' => new'[d] \in listed' /\ phase'[new'[d]] = "none"
               /\ NotCloned(d)' => futex'[new'[d]] < 0
    BY <1>0, <2>1, <2>2, <2>3, <2>4 DEF BirthInv, Holding, NotCloned
  <2>6. ASSUME NEW d \in Thread, NEW e \in Thread, d # e, Holding(d)', Holding(e)'
        PROVE  new'[d] # new'[e]
    BY <1>0, <2>3, <2>4, <2>6 DEF BirthInv, Holding, NotCloned
  <2>7. ASSUME NEW u \in Thread
        PROVE  /\ phase'[u] = "starting" => futex'[u] < 0
               /\ futex'[u] # -2
    BY <1>0, <2>1, <2>2 DEF BirthInv
  <2> QED BY <2>1, <2>5, <2>6, <2>7 DEF BirthInv
<1>4. BitInv'
  BY <1>0, Names DEF TypeOK, Ids, BitInv, others, Alive, ListInv, BirthInv, allocate_stack,
     AtLiberty, becomes, Set, signals, walk
<1>5. OwingInv'
  BY <1>0, Names DEF TypeOK, Ids, OwingInv, BitInv, ListInv, allocate_stack, AtLiberty, becomes,
     Set, signals, walk
<1>6. AnswersCounted'
  BY <1>0, Names DEF AnswersCounted, Owing, allocate_stack, AtLiberty, becomes, Set, signals, walk
<1>7. ASSUME ~ lossy' PROVE CredInv'
  BY <1>0, <1>7, Names DEF TypeOK, Ids, CredInv, Live, Target, Result, permitted, others, Marking,
     ListInv, BirthInv, BitInv, OwingInv, allocate_stack, AtLiberty, becomes, Set, signals, walk
<1> QED BY <1>1, <1>2, <1>3, <1>4, <1>5, <1>6, <1>7 DEF IInv

(* The bits of the last thread go while nobody can mark the descriptor. *)
LEMMA Inv_reset_cancelhandling ==
  ASSUME IInv, NEW c \in Thread, reset_cancelhandling(c)
  PROVE  IInv'
<1>0. /\ TypeOK /\ ListInv /\ BirthInv /\ BitInv /\ OwingInv /\ AnswersCounted
      /\ ~ lossy => CredInv
  BY DEF IInv
<1>1. TypeOK'
  BY <1>0, Names DEF TypeOK, Ids, ListInv, BirthInv, reset_cancelhandling, Creating, Set, to,
     signals, walk
<1>2. ListInv'
  BY <1>0, Names DEF TypeOK, Ids, ListInv, others, Alive, Marking, BirthInv, reset_cancelhandling,
     Creating, Set, to, signals, walk
<1>3. BirthInv'
  BY <1>0, Names DEF TypeOK, Ids, BirthInv, NotCloned, Holding, others, Marking, ListInv, BitInv,
     reset_cancelhandling, Creating, Set, to, signals, walk
<1>4. BitInv'
  <2>1. PICK n \in Thread : n = new[c] /\ "SETXID" \notin bits[n] /\ phase[n] = "none"
    <3>1. /\ new[c] \in Thread /\ phase[new[c]] = "none" /\ futex[new[c]] < 0
          /\ futex[new[c]] \in -2 .. 1
      BY <1>0 DEF TypeOK, reset_cancelhandling, Creating, BirthInv, NotCloned, Holding
    <3> QED BY <1>0, <3>1 DEF BitInv
  <2>2. bits' = [bits EXCEPT ![n] = {}] /\ call' = [call EXCEPT ![c] = "ready"] /\ call[c] = "listed"
    BY <2>1 DEF reset_cancelhandling, Creating, Set, to
  <2>3. \A u \in Thread : bits'[u] = IF u = n THEN {} ELSE bits[u]
    BY <1>0, <2>2 DEF TypeOK
  <2>4. /\ new' = new /\ phase' = phase /\ futex' = futex /\ xpc' = xpc /\ todo' = todo
        /\ listed' = listed /\ lock' = lock
    BY DEF reset_cancelhandling, to, walk
  <2>5. \A d \in Thread : call'[d] \in {"ready", "blocked"} => "EXITING" \notin bits'[new'[d]]
    BY <1>0, <2>1, <2>2, <2>3, <2>4 DEF TypeOK, BitInv, BirthInv
  <2> QED BY <1>0, <2>1, <2>3, <2>4, <2>5 DEF BitInv, Alive, others
<1>5. OwingInv'
  <2>1. PICK n \in Thread : n = new[c] /\ "SETXID" \notin bits[n] /\ phase[n] = "none"
    <3>1. /\ new[c] \in Thread /\ phase[new[c]] = "none" /\ futex[new[c]] < 0
          /\ futex[new[c]] \in -2 .. 1
      BY <1>0 DEF TypeOK, reset_cancelhandling, Creating, BirthInv, NotCloned, Holding
    <3> QED BY <1>0, <3>1 DEF BitInv
  <2>2. bits' = [bits EXCEPT ![n] = {}] /\ call' = [call EXCEPT ![c] = "ready"] /\ call[c] = "listed"
    BY <2>1 DEF reset_cancelhandling, Creating, Set, to
  <2> QED BY <1>0, <2>1, <2>2 DEF TypeOK, OwingInv, reset_cancelhandling, signals, walk
<1>6. AnswersCounted'
  BY <1>0, Names DEF AnswersCounted, Owing, reset_cancelhandling, Creating, Set, to, signals, walk
<1>7. ASSUME ~ lossy' PROVE CredInv'
  <2>1. PICK n \in Thread : n = new[c] /\ "SETXID" \notin bits[n] /\ phase[n] = "none"
    <3>1. /\ new[c] \in Thread /\ phase[new[c]] = "none" /\ futex[new[c]] < 0
          /\ futex[new[c]] \in -2 .. 1
      BY <1>0 DEF TypeOK, reset_cancelhandling, Creating, BirthInv, NotCloned, Holding
    <3> QED BY <1>0, <3>1 DEF BitInv
  <2>2. bits' = [bits EXCEPT ![n] = {}] /\ call' = [call EXCEPT ![c] = "ready"] /\ call[c] = "listed"
    BY <2>1 DEF reset_cancelhandling, Creating, Set, to
  <2>3. \A u \in Thread : "SETXID" \in bits'[u] <=> "SETXID" \in bits[u]
    BY <1>0, <2>1, <2>2 DEF TypeOK
  <2>4. CredInv /\ UNCHANGED <<listed, lock, phase, cred, walk, cmd, aborted>>
    BY <1>0, <1>7 DEF reset_cancelhandling
  <2> QED BY <2>3, <2>4 DEF CredInv, Live, Target, Result, permitted, others, walk
<1> QED BY <1>1, <1>2, <1>3, <1>4, <1>5, <1>6, <1>7 DEF IInv

(* A failed guard changes only what the creator does next. *)
LEMMA Inv_mprot_error ==
  ASSUME IInv, NEW c \in Thread, mprot_error(c)
  PROVE  IInv'
<1>0. /\ TypeOK /\ ListInv /\ BirthInv /\ BitInv /\ OwingInv /\ AnswersCounted
      /\ ~ lossy => CredInv
  BY DEF IInv
<1>1. TypeOK'
  BY <1>0, Names DEF TypeOK, Ids, ListInv, BirthInv, mprot_error, Creating, to, Set, threads,
     signals, walk
<1>2. ListInv'
  BY <1>0, Names DEF TypeOK, Ids, ListInv, others, Alive, Marking, BirthInv, mprot_error, Creating,
     to, Set, threads, signals, walk
<1>3. BirthInv'
  BY <1>0, Names DEF TypeOK, Ids, BirthInv, NotCloned, Holding, others, Marking, ListInv, BitInv,
     mprot_error, Creating, to, Set, threads, signals, walk
<1>4. BitInv'
  BY <1>0, Names DEF TypeOK, Ids, BitInv, others, Alive, ListInv, BirthInv, mprot_error, Creating,
     to, Set, threads, signals, walk
<1>5. OwingInv'
  BY <1>0, Names DEF TypeOK, Ids, OwingInv, BitInv, ListInv, mprot_error, Creating, to, Set,
     threads, signals, walk
<1>6. AnswersCounted'
  BY <1>0, Names DEF AnswersCounted, Owing, mprot_error, Creating, to, Set, threads, signals, walk
<1>7. ASSUME ~ lossy' PROVE CredInv'
  BY <1>0, <1>7, Names DEF TypeOK, Ids, CredInv, Live, Target, Result, permitted, others, Marking,
     ListInv, BirthInv, BitInv, OwingInv, mprot_error, Creating, to, Set, threads, signals, walk
<1> QED BY <1>1, <1>2, <1>3, <1>4, <1>5, <1>6, <1>7 DEF IInv

(* The creator takes back its own descriptor, between two calls. *)
LEMMA Inv_drop_stack ==
  ASSUME IInv, NEW c \in Thread, drop_stack(c)
  PROVE  IInv'
<1>0. /\ TypeOK /\ ListInv /\ BirthInv /\ BitInv /\ OwingInv /\ AnswersCounted
      /\ ~ lossy => CredInv
  BY DEF IInv
<1>1. TypeOK'
  BY <1>0, Names DEF TypeOK, Ids, ListInv, BirthInv, drop_stack, Creating, delist, Set, threads,
     signals, walk
<1>2. ListInv'
  <2>1. PICK n \in Thread : n = new[c] /\ phase[n] = "none"
    BY <1>0 DEF drop_stack, Creating, BirthInv, NotCloned, Holding
  <2>2. /\ lock = NULL /\ xpc = "no" /\ listed' = listed \ {n}
        /\ UNCHANGED <<lock, phase, xpc>>
    BY <1>0, <2>1 DEF drop_stack, delist, ListInv, threads, walk
  <2> QED BY <1>0, <2>1, <2>2 DEF ListInv, Alive
<1>3. BirthInv'
  BY <1>0, Names DEF TypeOK, Ids, BirthInv, NotCloned, Holding, others, Marking, ListInv, BitInv,
     drop_stack, Creating, delist, Set, threads, signals, walk
<1>4. BitInv'
  BY <1>0, Names DEF TypeOK, Ids, BitInv, others, Alive, ListInv, BirthInv, drop_stack, Creating,
     delist, Set, threads, signals, walk
<1>5. OwingInv'
  BY <1>0, Names DEF TypeOK, Ids, OwingInv, BitInv, ListInv, drop_stack, Creating, delist, Set,
     threads, signals, walk
<1>6. AnswersCounted'
  BY <1>0, Names DEF AnswersCounted, Owing, drop_stack, Creating, delist, Set, threads, signals,
     walk
<1>7. ASSUME ~ lossy' PROVE CredInv'
  BY <1>0, <1>7, Names DEF TypeOK, Ids, CredInv, Live, Target, Result, permitted, others, Marking,
     ListInv, BirthInv, BitInv, OwingInv, drop_stack, Creating, delist, Set, threads, signals, walk
<1> QED BY <1>1, <1>2, <1>3, <1>4, <1>5, <1>6, <1>7 DEF IInv

(* So does the block of the signals. *)
LEMMA Inv_block_signals ==
  ASSUME IInv, NEW c \in Thread, block_signals(c)
  PROVE  IInv'
<1>0. /\ TypeOK /\ ListInv /\ BirthInv /\ BitInv /\ OwingInv /\ AnswersCounted
      /\ ~ lossy => CredInv
  BY DEF IInv
<1>1. TypeOK'
  BY <1>0, Names DEF TypeOK, Ids, ListInv, BirthInv, block_signals, Creating, to, Set, threads,
     signals, walk
<1>2. ListInv'
  BY <1>0, Names DEF TypeOK, Ids, ListInv, others, Alive, Marking, BirthInv, block_signals,
     Creating, to, Set, threads, signals, walk
<1>3. BirthInv'
  BY <1>0, Names DEF TypeOK, Ids, BirthInv, NotCloned, Holding, others, Marking, ListInv, BitInv,
     block_signals, Creating, to, Set, threads, signals, walk
<1>4. BitInv'
  BY <1>0, Names DEF TypeOK, Ids, BitInv, others, Alive, ListInv, BirthInv, block_signals, Creating,
     to, Set, threads, signals, walk
<1>5. OwingInv'
  BY <1>0, Names DEF TypeOK, Ids, OwingInv, BitInv, ListInv, block_signals, Creating, to, Set,
     threads, signals, walk
<1>6. AnswersCounted'
  BY <1>0, Names DEF AnswersCounted, Owing, block_signals, Creating, to, Set, threads, signals, walk
<1>7. ASSUME ~ lossy' PROVE CredInv'
  BY <1>0, <1>7, Names DEF TypeOK, Ids, CredInv, Live, Target, Result, permitted, others, Marking,
     ListInv, BirthInv, BitInv, OwingInv, block_signals, Creating, to, Set, threads, signals, walk
<1> QED BY <1>1, <1>2, <1>3, <1>4, <1>5, <1>6, <1>7 DEF IInv

(* The new thread has the ids of a creator that is not yet signalled. *)
LEMMA Inv_clone ==
  ASSUME IInv, NEW c \in Thread, clone(c)
  PROVE  IInv'
<1>0. /\ TypeOK /\ ListInv /\ BirthInv /\ BitInv /\ OwingInv /\ AnswersCounted
      /\ ~ lossy => CredInv
  BY DEF IInv
<1>1. TypeOK'
  BY <1>0, Names DEF TypeOK, Ids, ListInv, BirthInv, clone, Creating, becomes, Set, to, signals,
     walk
<1>2. ListInv'
  <2>1. PICK n \in Thread : n = new[c] /\ phase[n] = "none" /\ n \in listed /\ futex[n] < 0
    BY <1>0 DEF clone, Creating, BirthInv, NotCloned, Holding
  <2>2. /\ phase' = [phase EXCEPT ![n] = "starting"] /\ cred' = [cred EXCEPT ![n] = cred[c]]
        /\ call' = [call EXCEPT ![c] = "cloned"] /\ call[c] = "blocked" /\ new' = new
        /\ UNCHANGED <<listed, lock, bits, futex, signals, walk, cmd, lossy, aborted>>
    BY <2>1 DEF clone, Creating, becomes, Set, to
  <2>3. lock # NULL => lock # c /\ lock # n
    BY <1>0, <2>1, <2>2 DEF ListInv
  <2> QED BY <1>0, <2>1, <2>2, <2>3 DEF TypeOK, ListInv, Alive, others, walk
<1>3. BirthInv'
  BY <1>0, Names DEF TypeOK, Ids, BirthInv, NotCloned, Holding, others, Marking, ListInv, BitInv,
     clone, Creating, becomes, Set, to, signals, walk
<1>4. BitInv'
  <2>1. PICK n \in Thread : n = new[c] /\ phase[n] = "none" /\ n \in listed /\ futex[n] < 0
    BY <1>0 DEF clone, Creating, BirthInv, NotCloned, Holding
  <2>2. /\ phase' = [phase EXCEPT ![n] = "starting"] /\ cred' = [cred EXCEPT ![n] = cred[c]]
        /\ call' = [call EXCEPT ![c] = "cloned"] /\ call[c] = "blocked" /\ new' = new
        /\ UNCHANGED <<listed, lock, bits, futex, signals, walk, cmd, lossy, aborted>>
    BY <2>1 DEF clone, Creating, becomes, Set, to
  <2>3. bits[n] = {}
    BY <1>0, <2>1, <2>2 DEF TypeOK, BitInv
  <2>4. \A u \in Thread \ {n} : phase'[u] = phase[u]
    BY <1>0, <2>2 DEF TypeOK
  <2>5. \A d \in Thread : call'[d] \in {"ready", "blocked"} => call[d] \in {"ready", "blocked"}
    BY <1>0, <2>2 DEF TypeOK
  <2>6. phase'[n] = "starting"
    BY <1>0, <2>2 DEF TypeOK
  <2> QED BY <1>0, <2>1, <2>2, <2>3, <2>4, <2>5, <2>6 DEF BitInv, Alive, others, walk
<1>5. OwingInv'
  BY <1>0, Names DEF TypeOK, Ids, OwingInv, BitInv, ListInv, clone, Creating, becomes, Set, to,
     signals, walk
<1>6. AnswersCounted'
  BY <1>0, Names DEF AnswersCounted, Owing, clone, Creating, becomes, Set, to, signals, walk
<1>7. ASSUME ~ lossy' PROVE CredInv'
  <2>1. PICK n \in Thread : n = new[c] /\ phase[n] = "none" /\ n \in listed /\ futex[n] < 0
    BY <1>0 DEF clone, Creating, BirthInv, NotCloned, Holding
  <2>2. /\ phase' = [phase EXCEPT ![n] = "starting"] /\ cred' = [cred EXCEPT ![n] = cred[c]]
        /\ call' = [call EXCEPT ![c] = "cloned"] /\ call[c] = "blocked" /\ new' = new
        /\ UNCHANGED <<listed, lock, bits, futex, signals, walk, cmd, lossy, aborted>>
    BY <2>1 DEF clone, Creating, becomes, Set, to
  <2>3. /\ \A u \in Thread \ {n} : phase'[u] = phase[u] /\ cred'[u] = cred[u]
        /\ phase'[n] = "starting" /\ cred'[n] = cred[c]
    BY <1>0, <2>2 DEF TypeOK
  <2>4. /\ Live(c) /\ lock # n /\ "SETXID" \notin bits[n] /\ c # n
        /\ xpc # "no" => lock \in Thread /\ cmd' = cmd
        /\ xpc # "no" => xpc \in Marking /\ (n \in todo \/ (xpc = "asleep_clone" /\ cur = n))
    <3>1. Live(c) /\ c # n
      BY <1>0, <2>1, <2>2 DEF BirthInv, Live
    <3>2. lock # n /\ (xpc # "no" => lock \in Thread)
      BY <1>0, <2>1, Names DEF TypeOK, ListInv
    <3>3. "SETXID" \notin bits[n]
      BY <1>0, <2>1 DEF TypeOK, BitInv
    <3>4. xpc # "no" => xpc \in Marking /\ (n \in todo \/ (xpc = "asleep_clone" /\ cur = n))
      <4>1. futex[n] = -1 \/ futex[n] = -2
        BY <1>0, <2>1 DEF TypeOK
      <4> QED BY <1>0, <2>1, <3>2, <4>1 DEF BirthInv, others, Marking
    <3> QED BY <2>2, <3>1, <3>2, <3>3, <3>4
  <2>5. CredInv /\ UNCHANGED <<listed, lock, bits, xpc, todo, cur, signalled, cmd, aborted>>
    BY <1>0, <1>7, <2>2 DEF walk
  <2>6. CASE xpc = "no"
    BY <2>3, <2>4, <2>5, <2>6 DEF CredInv, Live
  <2>7. CASE xpc # "no"
    <3>1. Target' = Target /\ Result(lock)' = Result(lock) /\ cred'[lock] = cred[lock]
      BY <2>3, <2>4, <2>5, <2>7 DEF Target, Result, permitted
    <3>2. cred[c] = cred[lock]
      BY <2>4, <2>5, <2>7 DEF CredInv
    <3> QED BY <2>3, <2>4, <2>5, <2>7, <3>1, <3>2 DEF CredInv, Live, others, Marking
  <2> QED BY <2>6, <2>7
<1> QED BY <1>1, <1>2, <1>3, <1>4, <1>5, <1>6, <1>7 DEF IInv

(* A failed clone leaves the descriptor without a thread. *)
LEMMA Inv_clone_fails ==
  ASSUME IInv, NEW c \in Thread, clone_fails(c)
  PROVE  IInv'
<1>0. /\ TypeOK /\ ListInv /\ BirthInv /\ BitInv /\ OwingInv /\ AnswersCounted
      /\ ~ lossy => CredInv
  BY DEF IInv
<1>1. TypeOK'
  BY <1>0, Names DEF TypeOK, Ids, ListInv, BirthInv, clone_fails, Creating, to, Set, threads,
     signals, walk
<1>2. ListInv'
  BY <1>0, Names DEF TypeOK, Ids, ListInv, others, Alive, Marking, BirthInv, clone_fails, Creating,
     to, Set, threads, signals, walk
<1>3. BirthInv'
  BY <1>0, Names DEF TypeOK, Ids, BirthInv, NotCloned, Holding, others, Marking, ListInv, BitInv,
     clone_fails, Creating, to, Set, threads, signals, walk
<1>4. BitInv'
  BY <1>0, Names DEF TypeOK, Ids, BitInv, others, Alive, ListInv, BirthInv, clone_fails, Creating,
     to, Set, threads, signals, walk
<1>5. OwingInv'
  BY <1>0, Names DEF TypeOK, Ids, OwingInv, BitInv, ListInv, clone_fails, Creating, to, Set,
     threads, signals, walk
<1>6. AnswersCounted'
  BY <1>0, Names DEF AnswersCounted, Owing, clone_fails, Creating, to, Set, threads, signals, walk
<1>7. ASSUME ~ lossy' PROVE CredInv'
  BY <1>0, <1>7, Names DEF TypeOK, Ids, CredInv, Live, Target, Result, permitted, others, Marking,
     ListInv, BirthInv, BitInv, OwingInv, clone_fails, Creating, to, Set, threads, signals, walk
<1> QED BY <1>1, <1>2, <1>3, <1>4, <1>5, <1>6, <1>7 DEF IInv

(* The creator is done. *)
LEMMA Inv_restore_signals ==
  ASSUME IInv, NEW c \in Thread, restore_signals(c)
  PROVE  IInv'
<1>0. /\ TypeOK /\ ListInv /\ BirthInv /\ BitInv /\ OwingInv /\ AnswersCounted
      /\ ~ lossy => CredInv
  BY DEF IInv
<1>1. TypeOK'
  BY <1>0, Names DEF TypeOK, Ids, ListInv, BirthInv, restore_signals, Creating, Set, threads,
     signals, walk
<1>2. ListInv'
  BY <1>0, Names DEF TypeOK, Ids, ListInv, others, Alive, Marking, BirthInv, restore_signals,
     Creating, Set, threads, signals, walk
<1>3. BirthInv'
  BY <1>0, Names DEF TypeOK, Ids, BirthInv, NotCloned, Holding, others, Marking, ListInv, BitInv,
     restore_signals, Creating, Set, threads, signals, walk
<1>4. BitInv'
  BY <1>0, Names DEF TypeOK, Ids, BitInv, others, Alive, ListInv, BirthInv, restore_signals,
     Creating, Set, threads, signals, walk
<1>5. OwingInv'
  BY <1>0, Names DEF TypeOK, Ids, OwingInv, BitInv, ListInv, restore_signals, Creating, Set,
     threads, signals, walk
<1>6. AnswersCounted'
  BY <1>0, Names DEF AnswersCounted, Owing, restore_signals, Creating, Set, threads, signals, walk
<1>7. ASSUME ~ lossy' PROVE CredInv'
  BY <1>0, <1>7, Names DEF TypeOK, Ids, CredInv, Live, Target, Result, permitted, others, Marking,
     ListInv, BirthInv, BitInv, OwingInv, restore_signals, Creating, Set, threads, signals, walk
<1> QED BY <1>1, <1>2, <1>3, <1>4, <1>5, <1>6, <1>7 DEF IInv

(* The descriptor of a stillborn thread may be marked, to no effect. *)
LEMMA Inv_stillborn ==
  ASSUME IInv, NEW c \in Thread, stillborn(c)
  PROVE  IInv'
<1>0. /\ TypeOK /\ ListInv /\ BirthInv /\ BitInv /\ OwingInv /\ AnswersCounted
      /\ ~ lossy => CredInv
  BY DEF IInv
<1>1. TypeOK'
  BY <1>0, Names DEF TypeOK, Ids, ListInv, BirthInv, stillborn, Creating, allow_setxid, Set, to,
     signals
<1>2. ListInv'
  BY <1>0, Names DEF TypeOK, Ids, ListInv, others, Alive, Marking, BirthInv, stillborn, Creating,
     allow_setxid, Set, to, signals
<1>3. BirthInv'
  BY <1>0, Names DEF TypeOK, Ids, BirthInv, NotCloned, Holding, others, Marking, ListInv, BitInv,
     stillborn, Creating, allow_setxid, Set, to, signals
<1>4. BitInv'
  BY <1>0, Names DEF TypeOK, Ids, BitInv, others, Alive, ListInv, BirthInv, stillborn, Creating,
     allow_setxid, Set, to, signals
<1>5. OwingInv'
  BY <1>0, Names DEF TypeOK, Ids, OwingInv, BitInv, ListInv, stillborn, Creating, allow_setxid, Set,
     to, signals
<1>6. AnswersCounted'
  BY <1>0, Names DEF AnswersCounted, Owing, stillborn, Creating, allow_setxid, Set, to, signals
<1>7. ASSUME ~ lossy' PROVE CredInv'
  BY <1>0, <1>7, Names DEF TypeOK, Ids, CredInv, Live, Target, Result, permitted, others, Marking,
     ListInv, BirthInv, BitInv, OwingInv, stillborn, Creating, allow_setxid, Set, to, signals
<1> QED BY <1>1, <1>2, <1>3, <1>4, <1>5, <1>6, <1>7 DEF IInv

(* A thread that starts can be marked from now on. *)
LEMMA Inv_start_thread ==
  ASSUME IInv, NEW t \in Thread, start_thread(t)
  PROVE  IInv'
<1>0. /\ TypeOK /\ ListInv /\ BirthInv /\ BitInv /\ OwingInv /\ AnswersCounted
      /\ ~ lossy => CredInv
  BY DEF IInv
<1>1. TypeOK'
  BY <1>0, Names DEF TypeOK, Ids, ListInv, BirthInv, start_thread, Own, allow_setxid, Set, becomes,
     creation, signals
<1>2. ListInv'
  BY <1>0, Names DEF TypeOK, Ids, ListInv, others, Alive, Marking, BirthInv, start_thread, Own,
     allow_setxid, Set, becomes, creation, signals
<1>3. BirthInv'
  BY <1>0, Names DEF TypeOK, Ids, BirthInv, NotCloned, Holding, others, Marking, ListInv, BitInv,
     start_thread, Own, allow_setxid, Set, becomes, creation, signals
<1>4. BitInv'
  BY <1>0, Names DEF TypeOK, Ids, BitInv, others, Alive, ListInv, BirthInv, start_thread, Own,
     allow_setxid, Set, becomes, creation, signals
<1>5. OwingInv'
  BY <1>0, Names DEF TypeOK, Ids, OwingInv, BitInv, ListInv, start_thread, Own, allow_setxid, Set,
     becomes, creation, signals
<1>6. AnswersCounted'
  BY <1>0, Names DEF AnswersCounted, Owing, start_thread, Own, allow_setxid, Set, becomes, creation,
     signals
<1>7. ASSUME ~ lossy' PROVE CredInv'
  BY <1>0, <1>7, Names DEF TypeOK, Ids, CredInv, Live, Target, Result, permitted, others, Marking,
     ListInv, BirthInv, BitInv, OwingInv, start_thread, Own, allow_setxid, Set, becomes, creation,
     signals
<1> QED BY <1>1, <1>2, <1>3, <1>4, <1>5, <1>6, <1>7 DEF IInv

(* A thread that exits keeps its mark. *)
LEMMA Inv_set_exiting ==
  ASSUME IInv, NEW t \in Thread, set_exiting(t)
  PROVE  IInv'
<1>0. /\ TypeOK /\ ListInv /\ BirthInv /\ BitInv /\ OwingInv /\ AnswersCounted
      /\ ~ lossy => CredInv
  BY DEF IInv
<1>1. TypeOK'
  BY <1>0, Names DEF TypeOK, Ids, ListInv, BirthInv, set_exiting, AtLiberty, becomes, creation,
     signals, walk
<1>2. ListInv'
  BY <1>0, Names DEF TypeOK, Ids, ListInv, others, Alive, Marking, BirthInv, set_exiting, AtLiberty,
     becomes, creation, signals, walk
<1>3. BirthInv'
  BY <1>0, Names DEF TypeOK, Ids, BirthInv, NotCloned, Holding, others, Marking, ListInv, BitInv,
     set_exiting, AtLiberty, becomes, creation, signals, walk
<1>4. BitInv'
  <2>1. /\ phase[t] = "running" /\ call[t] = "idle"
        /\ \A u \in Thread \ {t} : phase'[u] = phase[u] /\ bits'[u] = bits[u]
        /\ phase'[t] = "exiting" /\ bits'[t] = bits[t] \cup {"EXITING"}
    BY <1>0 DEF TypeOK, set_exiting, AtLiberty, becomes
  <2>2. UNCHANGED <<listed, lock, futex, call, new, xpc, todo>>
    BY DEF set_exiting, creation, walk
  <2>3. \A c \in Thread : call[c] \in {"ready", "blocked"} => new[c] \in Thread /\ new[c] # t
    BY <1>0, <2>1 DEF BirthInv, NotCloned, Holding
  <2> QED BY <1>0, <2>1, <2>2, <2>3 DEF BitInv, Alive, others
<1>5. OwingInv'
  BY <1>0, Names DEF TypeOK, Ids, OwingInv, BitInv, ListInv, set_exiting, AtLiberty, becomes,
     creation, signals, walk
<1>6. AnswersCounted'
  BY <1>0, Names DEF AnswersCounted, Owing, set_exiting, AtLiberty, becomes, creation, signals, walk
<1>7. ASSUME ~ lossy' PROVE CredInv'
  BY <1>0, <1>7, Names DEF TypeOK, Ids, CredInv, Live, Target, Result, permitted, others, Marking,
     ListInv, BirthInv, BitInv, OwingInv, set_exiting, AtLiberty, becomes, creation, signals, walk
<1> QED BY <1>1, <1>2, <1>3, <1>4, <1>5, <1>6, <1>7 DEF IInv

(* It goes on only without one, ... *)
LEMMA Inv_check_setxid ==
  ASSUME IInv, NEW t \in Thread, check_setxid(t)
  PROVE  IInv'
<1>0. /\ TypeOK /\ ListInv /\ BirthInv /\ BitInv /\ OwingInv /\ AnswersCounted
      /\ ~ lossy => CredInv
  BY DEF IInv
<1>1. TypeOK'
  BY <1>0, Names DEF TypeOK, Ids, ListInv, BirthInv, check_setxid, Own, becomes, creation, signals,
     walk
<1>2. ListInv'
  BY <1>0, Names DEF TypeOK, Ids, ListInv, others, Alive, Marking, BirthInv, check_setxid, Own,
     becomes, creation, signals, walk
<1>3. BirthInv'
  BY <1>0, Names DEF TypeOK, Ids, BirthInv, NotCloned, Holding, others, Marking, ListInv, BitInv,
     check_setxid, Own, becomes, creation, signals, walk
<1>4. BitInv'
  BY <1>0, Names DEF TypeOK, Ids, BitInv, others, Alive, ListInv, BirthInv, check_setxid, Own,
     becomes, creation, signals, walk
<1>5. OwingInv'
  BY <1>0, Names DEF TypeOK, Ids, OwingInv, BitInv, ListInv, check_setxid, Own, becomes, creation,
     signals, walk
<1>6. AnswersCounted'
  BY <1>0, Names DEF AnswersCounted, Owing, check_setxid, Own, becomes, creation, signals, walk
<1>7. ASSUME ~ lossy' PROVE CredInv'
  BY <1>0, <1>7, Names DEF TypeOK, Ids, CredInv, Live, Target, Result, permitted, others, Marking,
     ListInv, BirthInv, BitInv, OwingInv, check_setxid, Own, becomes, creation, signals, walk
<1> QED BY <1>1, <1>2, <1>3, <1>4, <1>5, <1>6, <1>7 DEF IInv

(* ... waits, ... *)
LEMMA Inv_wait_setxid ==
  ASSUME IInv, NEW t \in Thread, wait_setxid(t)
  PROVE  IInv'
<1>0. /\ TypeOK /\ ListInv /\ BirthInv /\ BitInv /\ OwingInv /\ AnswersCounted
      /\ ~ lossy => CredInv
  BY DEF IInv
<1>1. TypeOK'
  BY <1>0, Names DEF TypeOK, Ids, ListInv, BirthInv, wait_setxid, Own, becomes, creation, signals,
     walk
<1>2. ListInv'
  BY <1>0, Names DEF TypeOK, Ids, ListInv, others, Alive, Marking, BirthInv, wait_setxid, Own,
     becomes, creation, signals, walk
<1>3. BirthInv'
  BY <1>0, Names DEF TypeOK, Ids, BirthInv, NotCloned, Holding, others, Marking, ListInv, BitInv,
     wait_setxid, Own, becomes, creation, signals, walk
<1>4. BitInv'
  BY <1>0, Names DEF TypeOK, Ids, BitInv, others, Alive, ListInv, BirthInv, wait_setxid, Own,
     becomes, creation, signals, walk
<1>5. OwingInv'
  BY <1>0, Names DEF TypeOK, Ids, OwingInv, BitInv, ListInv, wait_setxid, Own, becomes, creation,
     signals, walk
<1>6. AnswersCounted'
  BY <1>0, Names DEF AnswersCounted, Owing, wait_setxid, Own, becomes, creation, signals, walk
<1>7. ASSUME ~ lossy' PROVE CredInv'
  BY <1>0, <1>7, Names DEF TypeOK, Ids, CredInv, Live, Target, Result, permitted, others, Marking,
     ListInv, BirthInv, BitInv, OwingInv, wait_setxid, Own, becomes, creation, signals, walk
<1> QED BY <1>1, <1>2, <1>3, <1>4, <1>5, <1>6, <1>7 DEF IInv

(* ... and tests for it again. *)
LEMMA Inv_test_setxid ==
  ASSUME IInv, NEW t \in Thread, test_setxid(t)
  PROVE  IInv'
<1>0. /\ TypeOK /\ ListInv /\ BirthInv /\ BitInv /\ OwingInv /\ AnswersCounted
      /\ ~ lossy => CredInv
  BY DEF IInv
<1>1. TypeOK'
  BY <1>0, Names DEF TypeOK, Ids, ListInv, BirthInv, test_setxid, Own, becomes, creation, signals,
     walk
<1>2. ListInv'
  BY <1>0, Names DEF TypeOK, Ids, ListInv, others, Alive, Marking, BirthInv, test_setxid, Own,
     becomes, creation, signals, walk
<1>3. BirthInv'
  BY <1>0, Names DEF TypeOK, Ids, BirthInv, NotCloned, Holding, others, Marking, ListInv, BitInv,
     test_setxid, Own, becomes, creation, signals, walk
<1>4. BitInv'
  BY <1>0, Names DEF TypeOK, Ids, BitInv, others, Alive, ListInv, BirthInv, test_setxid, Own,
     becomes, creation, signals, walk
<1>5. OwingInv'
  BY <1>0, Names DEF TypeOK, Ids, OwingInv, BitInv, ListInv, test_setxid, Own, becomes, creation,
     signals, walk
<1>6. AnswersCounted'
  BY <1>0, Names DEF AnswersCounted, Owing, test_setxid, Own, becomes, creation, signals, walk
<1>7. ASSUME ~ lossy' PROVE CredInv'
  BY <1>0, <1>7, Names DEF TypeOK, Ids, CredInv, Live, Target, Result, permitted, others, Marking,
     ListInv, BirthInv, BitInv, OwingInv, test_setxid, Own, becomes, creation, signals, walk
<1> QED BY <1>1, <1>2, <1>3, <1>4, <1>5, <1>6, <1>7 DEF IInv

(* The futex of an exiting thread is reset. *)
LEMMA Inv_reset_futex ==
  ASSUME IInv, NEW t \in Thread, reset_futex(t)
  PROVE  IInv'
<1>0. /\ TypeOK /\ ListInv /\ BirthInv /\ BitInv /\ OwingInv /\ AnswersCounted
      /\ ~ lossy => CredInv
  BY DEF IInv
<1>1. TypeOK'
  BY <1>0, Names DEF TypeOK, Ids, ListInv, BirthInv, reset_futex, Own, Set, becomes, creation,
     signals, walk
<1>2. ListInv'
  BY <1>0, Names DEF TypeOK, Ids, ListInv, others, Alive, Marking, BirthInv, reset_futex, Own, Set,
     becomes, creation, signals, walk
<1>3. BirthInv'
  BY <1>0, Names DEF TypeOK, Ids, BirthInv, NotCloned, Holding, others, Marking, ListInv, BitInv,
     reset_futex, Own, Set, becomes, creation, signals, walk
<1>4. BitInv'
  BY <1>0, Names DEF TypeOK, Ids, BitInv, others, Alive, ListInv, BirthInv, reset_futex, Own, Set,
     becomes, creation, signals, walk
<1>5. OwingInv'
  BY <1>0, Names DEF TypeOK, Ids, OwingInv, BitInv, ListInv, reset_futex, Own, Set, becomes,
     creation, signals, walk
<1>6. AnswersCounted'
  BY <1>0, Names DEF AnswersCounted, Owing, reset_futex, Own, Set, becomes, creation, signals, walk
<1>7. ASSUME ~ lossy' PROVE CredInv'
  BY <1>0, <1>7, Names DEF TypeOK, Ids, CredInv, Live, Target, Result, permitted, others, Marking,
     ListInv, BirthInv, BitInv, OwingInv, reset_futex, Own, Set, becomes, creation, signals, walk
<1> QED BY <1>1, <1>2, <1>3, <1>4, <1>5, <1>6, <1>7 DEF IInv

(* An exiting thread leaves the lists between two calls. *)
LEMMA Inv_free_tcb ==
  ASSUME IInv, NEW t \in Thread, free_tcb(t)
  PROVE  IInv'
<1>0. /\ TypeOK /\ ListInv /\ BirthInv /\ BitInv /\ OwingInv /\ AnswersCounted
      /\ ~ lossy => CredInv
  BY DEF IInv
<1>1. TypeOK'
  BY <1>0, Names DEF TypeOK, Ids, ListInv, BirthInv, free_tcb, Own, delist, becomes, creation,
     signals, walk
<1>2. ListInv'
  BY <1>0, Names DEF TypeOK, Ids, ListInv, others, Alive, Marking, BirthInv, free_tcb, Own, delist,
     becomes, creation, signals, walk
<1>3. BirthInv'
  BY <1>0, Names DEF TypeOK, Ids, BirthInv, NotCloned, Holding, others, Marking, ListInv, BitInv,
     free_tcb, Own, delist, becomes, creation, signals, walk
<1>4. BitInv'
  BY <1>0, Names DEF TypeOK, Ids, BitInv, others, Alive, ListInv, BirthInv, free_tcb, Own, delist,
     becomes, creation, signals, walk
<1>5. OwingInv'
  BY <1>0, Names DEF TypeOK, Ids, OwingInv, BitInv, ListInv, free_tcb, Own, delist, becomes,
     creation, signals, walk
<1>6. AnswersCounted'
  BY <1>0, Names DEF AnswersCounted, Owing, free_tcb, Own, delist, becomes, creation, signals, walk
<1>7. ASSUME ~ lossy' PROVE CredInv'
  BY <1>0, <1>7, Names DEF TypeOK, Ids, CredInv, Live, Target, Result, permitted, others, Marking,
     ListInv, BirthInv, BitInv, OwingInv, free_tcb, Own, delist, becomes, creation, signals, walk
<1> QED BY <1>1, <1>2, <1>3, <1>4, <1>5, <1>6, <1>7 DEF IInv

(* A thread that ends is not marked. *)
LEMMA Inv_exit_thread ==
  ASSUME IInv, NEW t \in Thread, exit_thread(t)
  PROVE  IInv'
<1>0. /\ TypeOK /\ ListInv /\ BirthInv /\ BitInv /\ OwingInv /\ AnswersCounted
      /\ ~ lossy => CredInv
  BY DEF IInv
<1>1. TypeOK'
  BY <1>0, Names DEF TypeOK, Ids, ListInv, BirthInv, exit_thread, Own, becomes, Set, creation,
     signals, walk
<1>2. ListInv'
  BY <1>0, Names DEF TypeOK, Ids, ListInv, others, Alive, Marking, BirthInv, exit_thread, Own,
     becomes, Set, creation, signals, walk
<1>3. BirthInv'
  BY <1>0, Names DEF TypeOK, Ids, BirthInv, NotCloned, Holding, others, Marking, ListInv, BitInv,
     exit_thread, Own, becomes, Set, creation, signals, walk
<1>4. BitInv'
  BY <1>0, Names DEF TypeOK, Ids, BitInv, others, Alive, ListInv, BirthInv, exit_thread, Own,
     becomes, Set, creation, signals, walk
<1>5. OwingInv'
  BY <1>0, Names DEF TypeOK, Ids, OwingInv, BitInv, ListInv, exit_thread, Own, becomes, Set,
     creation, signals, walk
<1>6. AnswersCounted'
  BY <1>0, Names DEF AnswersCounted, Owing, exit_thread, Own, becomes, Set, creation, signals, walk
<1>7. ASSUME ~ lossy' PROVE CredInv'
  BY <1>0, <1>7, Names DEF TypeOK, Ids, CredInv, Live, Target, Result, permitted, others, Marking,
     ListInv, BirthInv, BitInv, OwingInv, exit_thread, Own, becomes, Set, creation, signals, walk
<1> QED BY <1>1, <1>2, <1>3, <1>4, <1>5, <1>6, <1>7 DEF IInv

(* Nor is one that is joined. *)
LEMMA Inv_join ==
  ASSUME IInv, NEW t \in Thread, join(t)
  PROVE  IInv'
<1>0. /\ TypeOK /\ ListInv /\ BirthInv /\ BitInv /\ OwingInv /\ AnswersCounted
      /\ ~ lossy => CredInv
  BY DEF IInv
<1>1. TypeOK'
  BY <1>0, Names DEF TypeOK, Ids, ListInv, BirthInv, join, delist, threads, creation, signals, walk
<1>2. ListInv'
  BY <1>0, Names DEF TypeOK, Ids, ListInv, others, Alive, Marking, BirthInv, join, delist, threads,
     creation, signals, walk
<1>3. BirthInv'
  BY <1>0, Names DEF TypeOK, Ids, BirthInv, NotCloned, Holding, others, Marking, ListInv, BitInv,
     join, delist, threads, creation, signals, walk
<1>4. BitInv'
  BY <1>0, Names DEF TypeOK, Ids, BitInv, others, Alive, ListInv, BirthInv, join, delist, threads,
     creation, signals, walk
<1>5. OwingInv'
  BY <1>0, Names DEF TypeOK, Ids, OwingInv, BitInv, ListInv, join, delist, threads, creation,
     signals, walk
<1>6. AnswersCounted'
  BY <1>0, Names DEF AnswersCounted, Owing, join, delist, threads, creation, signals, walk
<1>7. ASSUME ~ lossy' PROVE CredInv'
  BY <1>0, <1>7, Names DEF TypeOK, Ids, CredInv, Live, Target, Result, permitted, others, Marking,
     ListInv, BirthInv, BitInv, OwingInv, join, delist, threads, creation, signals, walk
<1> QED BY <1>1, <1>2, <1>3, <1>4, <1>5, <1>6, <1>7 DEF IInv

(* A call starts with nobody marked and all ids equal. *)
LEMMA Inv_setxid_start ==
  ASSUME IInv, NEW s \in Thread, NEW id \in Ids, setxid_start(s, id)
  PROVE  IInv'
<1>0. /\ TypeOK /\ ListInv /\ BirthInv /\ BitInv /\ OwingInv /\ AnswersCounted
      /\ ~ lossy => CredInv
  BY DEF IInv
<1>1. TypeOK'
  BY <1>0, Names DEF TypeOK, Ids, ListInv, BirthInv, setxid_start, AtLiberty, threads, creation,
     signals
<1>2. ListInv'
  BY <1>0, Names DEF TypeOK, Ids, ListInv, others, Alive, Marking, BirthInv, setxid_start,
     AtLiberty, threads, creation, signals
<1>3. BirthInv'
  BY <1>0, Names DEF TypeOK, Ids, BirthInv, NotCloned, Holding, others, Marking, ListInv, BitInv,
     setxid_start, AtLiberty, threads, creation, signals
<1>4. BitInv'
  BY <1>0, Names DEF TypeOK, Ids, BitInv, others, Alive, ListInv, BirthInv, setxid_start, AtLiberty,
     threads, creation, signals
<1>5. OwingInv'
  BY <1>0, Names DEF TypeOK, Ids, OwingInv, BitInv, ListInv, setxid_start, AtLiberty, threads,
     creation, signals
<1>6. AnswersCounted'
  <2>1. xpc = "no" /\ xpc' = "mark" /\ cmd'.cntr = 0
    BY <1>0 DEF ListInv, setxid_start
  <2>2. Owing' = {}
    BY <1>0, <2>1 DEF AnswersCounted, Owing, setxid_start, signals
  <2>3. Cardinality({}) = 0
    BY FS_EmptySet
  <2> QED BY <2>1, <2>2, <2>3 DEF AnswersCounted
<1>7. ASSUME ~ lossy' PROVE CredInv'
  BY <1>0, <1>7, Names DEF TypeOK, Ids, CredInv, Live, Target, Result, permitted, others, Marking,
     ListInv, BirthInv, BitInv, OwingInv, setxid_start, AtLiberty, threads, creation, signals
<1> QED BY <1>1, <1>2, <1>3, <1>4, <1>5, <1>6, <1>7 DEF IInv

(* The walk waits for a thread that is not cloned. *)
LEMMA Inv_setxid_mark_thread ==
  ASSUME IInv, NEW t \in Thread, setxid_mark_thread(t)
  PROVE  IInv'
<1>0. /\ TypeOK /\ ListInv /\ BirthInv /\ BitInv /\ OwingInv /\ AnswersCounted
      /\ ~ lossy => CredInv
  BY DEF IInv
<1>1. TypeOK'
  BY <1>0, Names DEF TypeOK, Ids, ListInv, BirthInv, setxid_mark_thread, Set, creation, signals
<1>2. ListInv'
  BY <1>0, Names DEF TypeOK, Ids, ListInv, others, Alive, Marking, BirthInv, setxid_mark_thread,
     Set, creation, signals
<1>3. BirthInv'
  BY <1>0, Names DEF TypeOK, Ids, BirthInv, NotCloned, Holding, others, Marking, ListInv, BitInv,
     setxid_mark_thread, Set, creation, signals
<1>4. BitInv'
  BY <1>0, Names DEF TypeOK, Ids, BitInv, others, Alive, ListInv, BirthInv, setxid_mark_thread, Set,
     creation, signals
<1>5. OwingInv'
  BY <1>0, Names DEF TypeOK, Ids, OwingInv, BitInv, ListInv, setxid_mark_thread, Set, creation,
     signals
<1>6. AnswersCounted'
  BY <1>0, Names DEF AnswersCounted, Owing, setxid_mark_thread, Set, creation, signals
<1>7. ASSUME ~ lossy' PROVE CredInv'
  BY <1>0, <1>7, Names DEF TypeOK, Ids, CredInv, Live, Target, Result, permitted, others, Marking,
     ListInv, BirthInv, BitInv, OwingInv, setxid_mark_thread, Set, creation, signals
<1> QED BY <1>1, <1>2, <1>3, <1>4, <1>5, <1>6, <1>7 DEF IInv

(* The futex of a cloned thread is set. *)
LEMMA Inv_setxid_hold ==
  ASSUME IInv, setxid_hold
  PROVE  IInv'
<1>0. /\ TypeOK /\ ListInv /\ BirthInv /\ BitInv /\ OwingInv /\ AnswersCounted
      /\ ~ lossy => CredInv
  BY DEF IInv
<1>1. TypeOK'
  <2>1. futex' \in [Thread -> -2 .. 1]
    <3>1. futex \in [Thread -> -2 .. 1] /\ 0 \in -2 .. 1
      BY <1>0 DEF TypeOK
    <3> QED BY <3>1 DEF setxid_hold, Set
  <2> QED BY <1>0, <2>1 DEF TypeOK, setxid_hold, creation, signals
<1>2. ListInv'
  BY <1>0, Names DEF TypeOK, Ids, ListInv, others, Alive, Marking, BirthInv, setxid_hold, Set,
     creation, signals
<1>3. BirthInv'
  BY <1>0, Names DEF TypeOK, Ids, BirthInv, NotCloned, Holding, others, Marking, ListInv, BitInv,
     setxid_hold, Set, creation, signals
<1>4. BitInv'
  BY <1>0, Names DEF TypeOK, Ids, BitInv, others, Alive, ListInv, BirthInv, setxid_hold, Set,
     creation, signals
<1>5. OwingInv'
  BY <1>0, Names DEF TypeOK, Ids, OwingInv, BitInv, ListInv, setxid_hold, Set, creation, signals
<1>6. AnswersCounted'
  BY <1>0, Names DEF AnswersCounted, Owing, setxid_hold, Set, creation, signals
<1>7. ASSUME ~ lossy' PROVE CredInv'
  BY <1>0, <1>7, Names DEF TypeOK, Ids, CredInv, Live, Target, Result, permitted, others, Marking,
     ListInv, BirthInv, BitInv, OwingInv, setxid_hold, Set, creation, signals
<1> QED BY <1>1, <1>2, <1>3, <1>4, <1>5, <1>6, <1>7 DEF IInv

(* A thread is marked unless it is exiting. *)
LEMMA Inv_setxid_flag ==
  ASSUME IInv, setxid_flag
  PROVE  IInv'
<1>0. /\ TypeOK /\ ListInv /\ BirthInv /\ BitInv /\ OwingInv /\ AnswersCounted
      /\ ~ lossy => CredInv
  BY DEF IInv
<1>1. TypeOK'
  BY <1>0, Names DEF TypeOK, Ids, ListInv, BirthInv, setxid_flag, Set, wake, becomes, creation,
     signals
<1>2. ListInv'
  BY <1>0, Names DEF TypeOK, Ids, ListInv, others, Alive, Marking, BirthInv, setxid_flag, Set, wake,
     becomes, creation, signals
<1>3. BirthInv'
  BY <1>0, Names DEF TypeOK, Ids, BirthInv, NotCloned, Holding, others, Marking, ListInv, BitInv,
     setxid_flag, Set, wake, becomes, creation, signals
<1>4. BitInv'
  <2>1. PICK k \in Thread : /\ k = cur /\ k \in others \ todo /\ xpc = "flag" /\ futex[k] >= 0
                            /\ cur' = NULL /\ xpc' = "mark"
    <3>1. cur \in Thread /\ cur \in others \ todo /\ xpc = "flag"
      BY <1>0, Names DEF TypeOK, ListInv, others, setxid_flag
    <3>2. futex[cur] >= 0
      BY <1>0, <3>1 DEF TypeOK, BirthInv
    <3> QED BY <3>1, <3>2 DEF setxid_flag
  <2>2. \A u \in Thread \ {k} : bits'[u] = bits[u] /\ futex'[u] = futex[u] /\ phase'[u] = phase[u]
    BY <1>0, <2>1 DEF TypeOK, setxid_flag, Set, wake, becomes
  <2>3. \/ "EXITING" \in bits[k] /\ bits'[k] = bits[k]
        \/ "EXITING" \notin bits[k] /\ bits'[k] = bits[k] \cup {"SETXID"} /\ phase'[k] = phase[k] /\ futex'[k] = futex[k]
    BY <1>0, <2>1 DEF TypeOK, setxid_flag
  <2>4. (phase'[k] = phase[k] \/ (phase[k] = "asleep" /\ phase'[k] = "test")) /\ futex'[k] \in {futex[k], 1}
    BY <1>0, <2>1 DEF TypeOK, setxid_flag, Set, wake, becomes
  <2>5. UNCHANGED <<listed, lock, cred, call, new, todo, cmd, aborted>>
    BY DEF setxid_flag, creation
  <2>6. "EXITING" \notin bits[k] => phase[k] \in {"none", "starting", "running"}
    BY <1>0 DEF BitInv
  <2>7. phase[k] # "starting"
    BY <1>0, <2>1 DEF TypeOK, BirthInv
  <2>9. \A c \in Thread : call[c] \in {"ready", "blocked"} => new[c] # k
    BY <1>0, <2>1 DEF TypeOK, BirthInv, NotCloned
  <2>8. others' = others /\ k \in others /\ xpc = "flag" /\ xpc' = "mark"
    BY <2>1, <2>5 DEF others
  <2>10. futex'[k] >= 0 /\ \A u \in Thread : futex[u] >= 0 => futex'[u] >= 0
    BY <2>1, <2>2, <2>4
  <2>11. \A u \in Thread :
           /\ phase'[u] \in {"starting", "running"} => "EXITING" \notin bits'[u]
           /\ phase'[u] \notin {"none", "starting", "running"} => "EXITING" \in bits'[u]
    BY <1>0, <2>2, <2>3, <2>4, <2>6 DEF BitInv
  <2>12. \A u \in Thread : "SETXID" \in bits'[u] =>
           /\ u \in others /\ futex'[u] >= 0
           /\ phase'[u] \in {"none", "running", "exiting", "wait", "asleep", "test"}
    BY <1>0, <2>2, <2>3, <2>4, <2>6, <2>7, <2>8, <2>10 DEF BitInv
  <2>13. \A c \in Thread : call'[c] \in {"ready", "blocked"} => "EXITING" \notin bits'[new'[c]]
    BY <1>0, <2>2, <2>5, <2>9 DEF BitInv, BirthInv
  <2> QED BY <2>8, <2>11, <2>12, <2>13 DEF BitInv
<1>5. OwingInv'
  BY <1>0, Names DEF TypeOK, Ids, OwingInv, BitInv, ListInv, setxid_flag, Set, wake, becomes,
     creation, signals
<1>6. AnswersCounted'
  BY <1>0, Names DEF AnswersCounted, Owing, setxid_flag, Set, wake, becomes, creation, signals
<1>7. ASSUME ~ lossy' PROVE CredInv'
  <2>1. PICK k \in Thread : /\ k = cur /\ k \in others \ todo /\ xpc = "flag" /\ futex[k] >= 0
                            /\ cur' = NULL /\ xpc' = "mark"
    <3>1. cur \in Thread /\ cur \in others \ todo /\ xpc = "flag"
      BY <1>0, Names DEF TypeOK, ListInv, others, setxid_flag
    <3>2. futex[cur] >= 0
      BY <1>0, <3>1 DEF TypeOK, BirthInv
    <3> QED BY <3>1, <3>2 DEF setxid_flag
  <2>2. \A u \in Thread \ {k} : bits'[u] = bits[u] /\ futex'[u] = futex[u] /\ phase'[u] = phase[u]
    BY <1>0, <2>1 DEF TypeOK, setxid_flag, Set, wake, becomes
  <2>3. \/ "EXITING" \in bits[k] /\ bits'[k] = bits[k]
        \/ "EXITING" \notin bits[k] /\ bits'[k] = bits[k] \cup {"SETXID"} /\ phase'[k] = phase[k] /\ futex'[k] = futex[k]
    BY <1>0, <2>1 DEF TypeOK, setxid_flag
  <2>4. (phase'[k] = phase[k] \/ (phase[k] = "asleep" /\ phase'[k] = "test")) /\ futex'[k] \in {futex[k], 1}
    BY <1>0, <2>1 DEF TypeOK, setxid_flag, Set, wake, becomes
  <2>5. UNCHANGED <<listed, lock, cred, call, new, todo, cmd, aborted>>
    BY DEF setxid_flag, creation
  <2>6. CredInv /\ (\A u \in Thread : Live(u)' <=> Live(u)) /\ xpc # "no"
    BY <1>0, <1>7, <2>1, <2>2, <2>4 DEF setxid_flag, Live
  <2>7. Live(k) => "SETXID" \in bits'[k]
    BY <1>0, <2>3 DEF BitInv, Live
  <2>8. "SETXID" \in bits'[k] /\ phase'[k] # "none" => Live(k) \/ ("SETXID" \in bits[k] /\ phase[k] # "none")
    BY <1>0, <2>3, <2>4 DEF BitInv, Live
  <2>9. /\ Target' = Target /\ Result(lock)' = Result(lock)
        /\ others' = others /\ xpc \in Marking /\ xpc' \in Marking
    BY <2>1, <2>5 DEF Target, Result, permitted, others, Marking
  <2> QED BY <2>1, <2>2, <2>5, <2>6, <2>7, <2>8, <2>9 DEF CredInv
<1> QED BY <1>1, <1>2, <1>3, <1>4, <1>5, <1>6, <1>7 DEF IInv

(* A round begins when no answer is due. *)
LEMMA Inv_setxid_round ==
  ASSUME IInv, setxid_round
  PROVE  IInv'
<1>0. /\ TypeOK /\ ListInv /\ BirthInv /\ BitInv /\ OwingInv /\ AnswersCounted
      /\ ~ lossy => CredInv
  BY DEF IInv
<1>1. TypeOK'
  BY <1>0 DEF TypeOK, others, setxid_round, threads, creation, signals
<1>2. ListInv'
  BY <1>0, Names DEF TypeOK, Ids, ListInv, others, Alive, Marking, BirthInv, setxid_round, threads,
     creation, signals
<1>3. BirthInv'
  BY <1>0, Names DEF TypeOK, Ids, BirthInv, NotCloned, Holding, others, Marking, ListInv, BitInv,
     setxid_round, threads, creation, signals
<1>4. BitInv'
  BY <1>0, Names DEF TypeOK, Ids, BitInv, others, Alive, ListInv, BirthInv, setxid_round, threads,
     creation, signals
<1>5. OwingInv'
  BY <1>0, Names DEF TypeOK, Ids, OwingInv, BitInv, ListInv, setxid_round, threads, creation,
     signals
<1>6. AnswersCounted'
  BY <1>0, Names DEF AnswersCounted, Owing, setxid_round, threads, creation, signals
<1>7. ASSUME ~ lossy' PROVE CredInv'
  <2>1. /\ (xpc = "mark" /\ todo = {}) \/ xpc = "again"
        /\ xpc' = "signal" /\ todo' = others /\ CredInv
        /\ UNCHANGED <<listed, lock, phase, bits, cred, cmd, aborted>>
    BY <1>0, <1>7 DEF setxid_round, threads
  <2>2. \A u \in Thread : Live(u) /\ u # lock => u \in others
    BY <1>0 DEF ListInv, Live, Alive, others
  <2>3. Target' = Target /\ Result(lock)' = Result(lock) /\ others' = others
    BY <2>1 DEF Target, Result, permitted, others
  <2> QED BY <2>1, <2>2, <2>3 DEF CredInv, Live, Marking
<1> QED BY <1>1, <1>2, <1>3, <1>4, <1>5, <1>6, <1>7 DEF IInv

(* A thread is left out only if it is not marked, or the signal is lost. *)
LEMMA Inv_setxid_skip_thread ==
  ASSUME IInv, NEW t \in Thread, setxid_skip_thread(t)
  PROVE  IInv'
<1>0. /\ TypeOK /\ ListInv /\ BirthInv /\ BitInv /\ OwingInv /\ AnswersCounted
      /\ ~ lossy => CredInv
  BY DEF IInv
<1>1. TypeOK'
  BY <1>0, Names DEF TypeOK, Ids, ListInv, BirthInv, setxid_skip_thread, threads, creation, signals
<1>2. ListInv'
  BY <1>0, Names DEF TypeOK, Ids, ListInv, others, Alive, Marking, BirthInv, setxid_skip_thread,
     threads, creation, signals
<1>3. BirthInv'
  BY <1>0, Names DEF TypeOK, Ids, BirthInv, NotCloned, Holding, others, Marking, ListInv, BitInv,
     setxid_skip_thread, threads, creation, signals
<1>4. BitInv'
  BY <1>0, Names DEF TypeOK, Ids, BitInv, others, Alive, ListInv, BirthInv, setxid_skip_thread,
     threads, creation, signals
<1>5. OwingInv'
  BY <1>0, Names DEF TypeOK, Ids, OwingInv, BitInv, ListInv, setxid_skip_thread, threads, creation,
     signals
<1>6. AnswersCounted'
  BY <1>0, Names DEF AnswersCounted, Owing, setxid_skip_thread, threads, creation, signals
<1>7. ASSUME ~ lossy' PROVE CredInv'
  <2>1. /\ xpc = "signal" /\ todo' = todo \ {t} /\ CredInv /\ ~ ("SETXID" \in bits[t] /\ Alive(t))
        /\ UNCHANGED <<listed, lock, phase, bits, cred, xpc, cmd, signalled, aborted>>
    BY <1>0, <1>7 DEF TypeOK, setxid_skip_thread, threads
  <2>2. ~ ("SETXID" \in bits[t] /\ phase[t] # "none")
    BY <1>0, <2>1 DEF BitInv, Alive
  <2>3. Target' = Target /\ Result(lock)' = Result(lock) /\ others' = others
    BY <2>1 DEF Target, Result, permitted, others
  <2> QED BY <2>1, <2>2, <2>3 DEF CredInv, Live, Marking
<1> QED BY <1>1, <1>2, <1>3, <1>4, <1>5, <1>6, <1>7 DEF IInv

(* The signal goes to a marked thread that owes no answer. *)
LEMMA Inv_setxid_signal_thread ==
  ASSUME IInv, NEW t \in Thread, setxid_signal_thread(t)
  PROVE  IInv'
<1>0. /\ TypeOK /\ ListInv /\ BirthInv /\ BitInv /\ OwingInv /\ AnswersCounted
      /\ ~ lossy => CredInv
  BY DEF IInv
<1>1. TypeOK'
  BY <1>0, Names DEF TypeOK, Ids, ListInv, BirthInv, setxid_signal_thread, Set, threads, creation
<1>2. ListInv'
  BY <1>0, Names DEF TypeOK, Ids, ListInv, others, Alive, Marking, BirthInv, setxid_signal_thread,
     Set, threads, creation
<1>3. BirthInv'
  BY <1>0, Names DEF TypeOK, Ids, BirthInv, NotCloned, Holding, others, Marking, ListInv, BitInv,
     setxid_signal_thread, Set, threads, creation
<1>4. BitInv'
  BY <1>0, Names DEF TypeOK, Ids, BitInv, others, Alive, ListInv, BirthInv, setxid_signal_thread,
     Set, threads, creation
<1>5. OwingInv'
  <2>1. /\ xpc' = "count" /\ todo' = todo \ {t} /\ t \in todo /\ "SETXID" \in bits[t] /\ phase[t] # "none"
        /\ \A u \in Thread \ {t} : pending'[u] = pending[u]
        /\ handler' = handler /\ bits' = bits /\ phase' = phase /\ xpc = "signal"
    BY <1>0 DEF TypeOK, setxid_signal_thread, Set, threads, Alive
  <2> QED BY <1>0, <2>1 DEF OwingInv
<1>6. AnswersCounted'
  <2>1. Owing' = Owing \cup {t} /\ t \notin Owing
    BY <1>0 DEF TypeOK, OwingInv, Owing, setxid_signal_thread, Set
  <2>2. Cardinality(Owing \cup {t}) = Cardinality(Owing) + 1
    BY <2>1, OwingFinite, FS_AddElement
  <2> QED BY <1>0, <2>1, <2>2, OwingFinite DEF AnswersCounted, setxid_signal_thread
<1>7. ASSUME ~ lossy' PROVE CredInv'
  BY <1>0, <1>7, Names DEF TypeOK, Ids, CredInv, Live, Target, Result, permitted, others, Marking,
     ListInv, BirthInv, BitInv, OwingInv, setxid_signal_thread, Set, threads, creation
<1> QED BY <1>1, <1>2, <1>3, <1>4, <1>5, <1>6, <1>7 DEF IInv

(* Now its answer is counted. *)
LEMMA Inv_setxid_count ==
  ASSUME IInv, setxid_count
  PROVE  IInv'
<1>0. /\ TypeOK /\ ListInv /\ BirthInv /\ BitInv /\ OwingInv /\ AnswersCounted
      /\ ~ lossy => CredInv
  BY DEF IInv
<1>1. TypeOK'
  BY <1>0, Names DEF TypeOK, Ids, ListInv, BirthInv, setxid_count, threads, creation, signals
<1>2. ListInv'
  BY <1>0, Names DEF TypeOK, Ids, ListInv, others, Alive, Marking, BirthInv, setxid_count, threads,
     creation, signals
<1>3. BirthInv'
  BY <1>0, Names DEF TypeOK, Ids, BirthInv, NotCloned, Holding, others, Marking, ListInv, BitInv,
     setxid_count, threads, creation, signals
<1>4. BitInv'
  BY <1>0, Names DEF TypeOK, Ids, BitInv, others, Alive, ListInv, BirthInv, setxid_count, threads,
     creation, signals
<1>5. OwingInv'
  BY <1>0, Names DEF TypeOK, Ids, OwingInv, BitInv, ListInv, setxid_count, threads, creation,
     signals
<1>6. AnswersCounted'
  <2>1. Owing' = Owing
    BY DEF Owing, setxid_count, signals
  <2>2. cmd'.cntr = cmd.cntr + 1 /\ cmd.cntr \in Int
    BY <1>0 DEF TypeOK, setxid_count
  <2> QED BY <1>0, <2>1, <2>2, OwingFinite DEF AnswersCounted, setxid_count
<1>7. ASSUME ~ lossy' PROVE CredInv'
  BY <1>0, <1>7, Names DEF TypeOK, Ids, CredInv, Live, Target, Result, permitted, others, Marking,
     ListInv, BirthInv, BitInv, OwingInv, setxid_count, threads, creation, signals
<1> QED BY <1>1, <1>2, <1>3, <1>4, <1>5, <1>6, <1>7 DEF IInv

(* The round is over when all have answered. *)
LEMMA Inv_setxid_wait ==
  ASSUME IInv, setxid_wait
  PROVE  IInv'
<1>0. /\ TypeOK /\ ListInv /\ BirthInv /\ BitInv /\ OwingInv /\ AnswersCounted
      /\ ~ lossy => CredInv
  BY DEF IInv
<1>1. TypeOK'
  BY <1>0 DEF TypeOK, others, setxid_wait, threads, creation, signals
<1>2. ListInv'
  BY <1>0, Names DEF TypeOK, Ids, ListInv, others, Alive, Marking, BirthInv, setxid_wait, threads,
     creation, signals
<1>3. BirthInv'
  BY <1>0, Names DEF TypeOK, Ids, BirthInv, NotCloned, Holding, others, Marking, ListInv, BitInv,
     setxid_wait, threads, creation, signals
<1>4. BitInv'
  BY <1>0, Names DEF TypeOK, Ids, BitInv, others, Alive, ListInv, BirthInv, setxid_wait, threads,
     creation, signals
<1>5. OwingInv'
  <2>1. CASE cmd.cntr # 0
    <3>1. todo' = todo /\ xpc' = "asleep" /\ xpc \in {"signal", "wait"}
      BY <2>1 DEF setxid_wait
    <3> QED BY <1>0, <3>1 DEF OwingInv, setxid_wait, threads, signals
  <2>2. CASE cmd.cntr = 0
    <3>1. Owing = {}
      <4>1. Cardinality(Owing) = 0
        BY <1>0, <2>2, OwingFinite DEF AnswersCounted, setxid_wait
      <4> QED BY <4>1, OwingFinite, FS_EmptySet
    <3> QED BY <3>1 DEF OwingInv, Owing, setxid_wait, threads, signals
  <2> QED BY <2>1, <2>2
<1>6. AnswersCounted'
  BY <1>0, Names DEF AnswersCounted, Owing, setxid_wait, threads, creation, signals
<1>7. ASSUME ~ lossy' PROVE CredInv'
  BY <1>0, <1>7, Names DEF TypeOK, Ids, CredInv, Live, Target, Result, permitted, others, Marking,
     ListInv, BirthInv, BitInv, OwingInv, setxid_wait, threads, creation, signals
<1> QED BY <1>1, <1>2, <1>3, <1>4, <1>5, <1>6, <1>7 DEF IInv

(* The marks go, ... *)
LEMMA Inv_setxid_unmark_thread ==
  ASSUME IInv, NEW t \in Thread, setxid_unmark_thread(t)
  PROVE  IInv'
<1>0. /\ TypeOK /\ ListInv /\ BirthInv /\ BitInv /\ OwingInv /\ AnswersCounted
      /\ ~ lossy => CredInv
  BY DEF IInv
<1>1. TypeOK'
  BY <1>0, Names DEF TypeOK, Ids, ListInv, BirthInv, setxid_unmark_thread, creation, signals
<1>2. ListInv'
  BY <1>0, Names DEF TypeOK, Ids, ListInv, others, Alive, Marking, BirthInv, setxid_unmark_thread,
     creation, signals
<1>3. BirthInv'
  BY <1>0, Names DEF TypeOK, Ids, BirthInv, NotCloned, Holding, others, Marking, ListInv, BitInv,
     setxid_unmark_thread, creation, signals
<1>4. BitInv'
  BY <1>0, Names DEF TypeOK, Ids, BitInv, others, Alive, ListInv, BirthInv, setxid_unmark_thread,
     creation, signals
<1>5. OwingInv'
  BY <1>0, Names DEF TypeOK, Ids, OwingInv, BitInv, ListInv, setxid_unmark_thread, creation, signals
<1>6. AnswersCounted'
  BY <1>0, Names DEF AnswersCounted, Owing, setxid_unmark_thread, creation, signals
<1>7. ASSUME ~ lossy' PROVE CredInv'
  BY <1>0, <1>7, Names DEF TypeOK, Ids, CredInv, Live, Target, Result, permitted, others, Marking,
     ListInv, BirthInv, BitInv, OwingInv, setxid_unmark_thread, creation, signals
<1> QED BY <1>1, <1>2, <1>3, <1>4, <1>5, <1>6, <1>7 DEF IInv

(* ... and who waits for that is woken. *)
LEMMA Inv_setxid_release ==
  ASSUME IInv, setxid_release
  PROVE  IInv'
<1>0. /\ TypeOK /\ ListInv /\ BirthInv /\ BitInv /\ OwingInv /\ AnswersCounted
      /\ ~ lossy => CredInv
  BY DEF IInv
<1>1. TypeOK'
  <2>1. futex' \in [Thread -> -2 .. 1]
    <3>1. futex \in [Thread -> -2 .. 1] /\ 1 \in -2 .. 1
      BY <1>0 DEF TypeOK
    <3> QED BY <3>1 DEF setxid_release, Set
  <2>2. phase' = phase \/ phase' = [phase EXCEPT ![cur] = "test"]
    BY DEF setxid_release, wake, becomes
  <2> QED BY <1>0, <2>1, <2>2 DEF TypeOK, setxid_release, creation, signals
<1>2. ListInv'
  BY <1>0, Names DEF TypeOK, Ids, ListInv, others, Alive, Marking, BirthInv, setxid_release, Set,
     wake, becomes, creation, signals
<1>3. BirthInv'
  BY <1>0, Names DEF TypeOK, Ids, BirthInv, NotCloned, Holding, others, Marking, ListInv, BitInv,
     setxid_release, Set, wake, becomes, creation, signals
<1>4. BitInv'
  BY <1>0, Names DEF TypeOK, Ids, BitInv, others, Alive, ListInv, BirthInv, setxid_release, Set,
     wake, becomes, creation, signals
<1>5. OwingInv'
  BY <1>0, Names DEF TypeOK, Ids, OwingInv, BitInv, ListInv, setxid_release, Set, wake, becomes,
     creation, signals
<1>6. AnswersCounted'
  BY <1>0, Names DEF AnswersCounted, Owing, setxid_release, Set, wake, becomes, creation, signals
<1>7. ASSUME ~ lossy' PROVE CredInv'
  BY <1>0, <1>7, Names DEF TypeOK, Ids, CredInv, Live, Target, Result, permitted, others, Marking,
     ListInv, BirthInv, BitInv, OwingInv, setxid_release, Set, wake, becomes, creation, signals
<1> QED BY <1>1, <1>2, <1>3, <1>4, <1>5, <1>6, <1>7 DEF IInv

(* The caller is the last to get the new ids. *)
LEMMA Inv_setxid_self ==
  ASSUME IInv, setxid_self
  PROVE  IInv'
<1>0. /\ TypeOK /\ ListInv /\ BirthInv /\ BitInv /\ OwingInv /\ AnswersCounted
      /\ ~ lossy => CredInv
  BY DEF IInv
<1>1. TypeOK'
  <2>1. cred' \in [Thread -> Ids] /\ aborted' \in BOOLEAN
    BY <1>0 DEF TypeOK, setxid_self, syscall, Set, __nptl_setxid_error
  <2> QED BY <1>0, <2>1 DEF TypeOK, Ids, NoCommand, setxid_self, creation, signals
<1>2. ListInv'
  BY <1>0, Names DEF TypeOK, Ids, ListInv, others, Alive, Marking, BirthInv, setxid_self,
     __nptl_setxid_error, syscall, Set, creation, signals
<1>3. BirthInv'
  BY <1>0, Names DEF TypeOK, Ids, BirthInv, NotCloned, Holding, others, Marking, ListInv, BitInv,
     setxid_self, __nptl_setxid_error, syscall, Set, creation, signals
<1>4. BitInv'
  BY <1>0, Names DEF TypeOK, Ids, BitInv, others, Alive, ListInv, BirthInv, setxid_self,
     __nptl_setxid_error, syscall, Set, creation, signals
<1>5. OwingInv'
  BY <1>0, Names DEF TypeOK, Ids, OwingInv, BitInv, ListInv, setxid_self, __nptl_setxid_error,
     syscall, Set, creation, signals
<1>6. AnswersCounted'
  <2>1. Owing' = {}
    BY <1>0 DEF OwingInv, Owing, setxid_self, signals
  <2> QED BY <2>1 DEF AnswersCounted, setxid_self
<1>7. ASSUME ~ lossy' PROVE CredInv'
  BY <1>0, <1>7, Names DEF TypeOK, Ids, CredInv, Live, Target, Result, permitted, others, Marking,
     ListInv, BirthInv, BitInv, OwingInv, setxid_self, __nptl_setxid_error, syscall, Set, creation,
     signals
<1> QED BY <1>1, <1>2, <1>3, <1>4, <1>5, <1>6, <1>7 DEF IInv

(* A pending signal becomes a running handler. *)
LEMMA Inv_deliver ==
  ASSUME IInv, NEW t \in Thread, deliver(t)
  PROVE  IInv'
<1>0. /\ TypeOK /\ ListInv /\ BirthInv /\ BitInv /\ OwingInv /\ AnswersCounted
      /\ ~ lossy => CredInv
  BY DEF IInv
<1>1. TypeOK'
  BY <1>0, Names DEF TypeOK, Ids, ListInv, BirthInv, deliver, Set, becomes, creation, walk
<1>2. ListInv'
  BY <1>0, Names DEF TypeOK, Ids, ListInv, others, Alive, Marking, BirthInv, deliver, Set, becomes,
     creation, walk
<1>3. BirthInv'
  BY <1>0, Names DEF TypeOK, Ids, BirthInv, NotCloned, Holding, others, Marking, ListInv, BitInv,
     deliver, Set, becomes, creation, walk
<1>4. BitInv'
  BY <1>0, Names DEF TypeOK, Ids, BitInv, others, Alive, ListInv, BirthInv, deliver, Set, becomes,
     creation, walk
<1>5. OwingInv'
  BY <1>0, Names DEF TypeOK, Ids, OwingInv, BitInv, ListInv, deliver, Set, becomes, creation, walk
<1>6. AnswersCounted'
  <2>1. Owing' = Owing
    BY <1>0 DEF TypeOK, OwingInv, Owing, deliver, Set
  <2> QED BY <1>0, <2>1 DEF AnswersCounted, deliver, walk
<1>7. ASSUME ~ lossy' PROVE CredInv'
  BY <1>0, <1>7, Names DEF TypeOK, Ids, CredInv, Live, Target, Result, permitted, others, Marking,
     ListInv, BirthInv, BitInv, OwingInv, deliver, Set, becomes, creation, walk
<1> QED BY <1>1, <1>2, <1>3, <1>4, <1>5, <1>6, <1>7 DEF IInv

(* The handler changes the ids of its thread and takes the mark. *)
LEMMA Inv_handler_syscall ==
  ASSUME IInv, NEW t \in Thread, handler_syscall(t)
  PROVE  IInv'
<1>0. /\ TypeOK /\ ListInv /\ BirthInv /\ BitInv /\ OwingInv /\ AnswersCounted
      /\ ~ lossy => CredInv
  BY DEF IInv
<1>1. TypeOK'
  <2>1. cred' \in [Thread -> Ids] /\ aborted' \in BOOLEAN
    BY <1>0 DEF TypeOK, handler_syscall, syscall, Set, __nptl_setxid_error
  <2>2. cmd' \in [id : Ids, cntr : Int, error : {-1, 0, 1}]
    BY <1>0 DEF TypeOK, handler_syscall, Result
  <2>3. futex' \in [Thread -> -2 .. 1] /\ bits' \in [Thread -> SUBSET {"EXITING", "SETXID"}]
    BY <1>0 DEF TypeOK, handler_syscall, Set
  <2> QED BY <1>0, <2>1, <2>2, <2>3 DEF TypeOK, Set, handler_syscall, creation, walk
<1>2. ListInv'
  BY <1>0, Names DEF TypeOK, Ids, ListInv, others, Alive, Marking, BirthInv, handler_syscall,
     __nptl_setxid_error, syscall, Set, creation, walk
<1>3. BirthInv'
  <2>1. /\ phase[t] \notin {"none", "starting"} /\ futex[t] >= 0
        /\ \A u \in Thread \ {t} : futex'[u] = futex[u]
        /\ futex'[t] = 1
    BY <1>0 DEF TypeOK, BitInv, OwingInv, handler_syscall, Set
  <2>2. UNCHANGED <<listed, lock, phase, call, new, xpc, todo, cur>>
    BY DEF handler_syscall, creation, walk
  <2>3. \A c \in Thread : NotCloned(c) => new[c] \in Thread /\ new[c] # t
    BY <1>0, <2>1 DEF BirthInv, NotCloned, Holding
  <2> QED BY <1>0, <2>1, <2>2, <2>3 DEF BirthInv, NotCloned, Holding, others
<1>4. BitInv'
  BY <1>0, Names DEF TypeOK, Ids, BitInv, others, Alive, ListInv, BirthInv, handler_syscall,
     __nptl_setxid_error, syscall, Set, creation, walk
<1>5. OwingInv'
  BY <1>0, Names DEF TypeOK, Ids, OwingInv, BitInv, ListInv, handler_syscall, __nptl_setxid_error,
     syscall, Set, creation, walk
<1>6. AnswersCounted'
  BY <1>0, Names DEF AnswersCounted, Owing, handler_syscall, __nptl_setxid_error, syscall, Set,
     creation, walk
<1>7. ASSUME ~ lossy' PROVE CredInv'
  BY <1>0, <1>7, Names DEF TypeOK, Ids, CredInv, Live, Target, Result, permitted, others, Marking,
     ListInv, BirthInv, BitInv, OwingInv, handler_syscall, __nptl_setxid_error, syscall, Set,
     creation, walk
<1> QED BY <1>1, <1>2, <1>3, <1>4, <1>5, <1>6, <1>7 DEF IInv

(* The answer is counted. *)
LEMMA Inv_handler_reply ==
  ASSUME IInv, NEW t \in Thread, handler_reply(t)
  PROVE  IInv'
<1>0. /\ TypeOK /\ ListInv /\ BirthInv /\ BitInv /\ OwingInv /\ AnswersCounted
      /\ ~ lossy => CredInv
  BY DEF IInv
<1>1. TypeOK'
  BY <1>0, Names DEF TypeOK, Ids, ListInv, BirthInv, handler_reply, Set, threads, creation
<1>2. ListInv'
  BY <1>0, Names DEF TypeOK, Ids, ListInv, others, Alive, Marking, BirthInv, handler_reply, Set,
     threads, creation
<1>3. BirthInv'
  BY <1>0, Names DEF TypeOK, Ids, BirthInv, NotCloned, Holding, others, Marking, ListInv, BitInv,
     handler_reply, Set, threads, creation
<1>4. BitInv'
  BY <1>0, Names DEF TypeOK, Ids, BitInv, others, Alive, ListInv, BirthInv, handler_reply, Set,
     threads, creation
<1>5. OwingInv'
  BY <1>0, Names DEF TypeOK, Ids, OwingInv, BitInv, ListInv, handler_reply, Set, threads, creation
<1>6. AnswersCounted'
  <2>1. Owing' = Owing \ {t} /\ t \in Owing
    BY <1>0 DEF TypeOK, OwingInv, Owing, handler_reply, Set
  <2>2. xpc # "no" /\ (xpc' = "no" <=> xpc = "no") /\ (xpc' = "count" <=> xpc = "count")
    BY <1>0 DEF OwingInv, handler_reply
  <2>3. Cardinality(Owing \ {t}) = Cardinality(Owing) - 1
    BY <2>1, OwingFinite, FS_RemoveElement
  <2>4. cmd'.cntr = cmd.cntr - 1 /\ cmd.cntr \in Int
    BY <1>0 DEF TypeOK, handler_reply
  <2> QED BY <1>0, <2>1, <2>2, <2>3, <2>4, OwingFinite DEF AnswersCounted
<1>7. ASSUME ~ lossy' PROVE CredInv'
  BY <1>0, <1>7, Names DEF TypeOK, Ids, CredInv, Live, Target, Result, permitted, others, Marking,
     ListInv, BirthInv, BitInv, OwingInv, handler_reply, Set, threads, creation
<1> QED BY <1>1, <1>2, <1>3, <1>4, <1>5, <1>6, <1>7 DEF IInv

-----------------------------------------------------------------------------
(* At the start the main thread is alone and no call runs. *)
LEMMA InitInv == Init => IInv
<1> SUFFICES ASSUME Init PROVE IInv
  OBVIOUS
<1>1. TypeOK
  <2>1. /\ futex \in [Thread -> -2 .. 1] /\ bits \in [Thread -> SUBSET {"EXITING", "SETXID"}]
        /\ cred \in [Thread -> Ids] /\ cmd \in [id : Ids, cntr : Int, error : {-1, 0, 1}]
    BY DEF Init, Ids, NoCommand
  <2> QED BY <2>1, Names DEF Init, TypeOK
<1>2. ListInv /\ BirthInv /\ BitInv
  BY Names DEF Init, ListInv, BirthInv, BitInv, Alive, NotCloned, Holding
<1>3. OwingInv /\ AnswersCounted
  BY DEF Init, OwingInv, AnswersCounted, Owing
<1>4. CredInv
  BY DEF Init, CredInv
<1> QED BY <1>1, <1>2, <1>3, <1>4 DEF IInv

(* Every step of Next preserves the invariant. *)
LEMMA NextInv == IInv /\ [Next]_vars => IInv'
<1> SUFFICES ASSUME IInv, [Next]_vars PROVE IInv'
  OBVIOUS
<1>1. ASSUME SetXid PROVE IInv'
  BY <1>1, Inv_setxid_mark_thread, Inv_setxid_skip_thread, Inv_setxid_signal_thread,
     Inv_setxid_unmark_thread, Inv_setxid_hold, Inv_setxid_flag, Inv_setxid_round,
     Inv_setxid_count, Inv_setxid_wait, Inv_setxid_release, Inv_setxid_self, Zenon DEF SetXid
<1>2. ASSUME NEW t \in Thread, Create(t) PROVE IInv'
  BY <1>2, Inv_reset_cancelhandling, Inv_block_signals, Inv_clone, Inv_clone_fails,
     Inv_restore_signals, Inv_stillborn, Inv_mprot_error, Inv_drop_stack, Zenon DEF Create
<1>3. ASSUME NEW t \in Thread, start_thread(t) \/ Exit(t) PROVE IInv'
  BY <1>3, Inv_start_thread, Inv_check_setxid, Inv_wait_setxid, Inv_test_setxid, Inv_reset_futex,
     Inv_free_tcb, Inv_exit_thread, Zenon DEF Exit
<1>4. ASSUME NEW t \in Thread, Handle(t) PROVE IInv'
  BY <1>4, Inv_deliver, Inv_handler_syscall, Inv_handler_reply, Zenon DEF Handle
<1>5. ASSUME NEW t \in Thread, Call(t) PROVE IInv'
  BY <1>5, Inv_allocate_stack, Inv_set_exiting, Inv_join, Inv_setxid_start, Zenon DEF Call
<1>6. CASE UNCHANGED vars
  <2>1. TypeOK' /\ ListInv' /\ BirthInv' /\ BitInv'
    BY <1>6 DEF vars, IInv, TypeOK, ListInv, BirthInv, BitInv, Alive, NotCloned, Holding, others
  <2>2. OwingInv' /\ AnswersCounted'
    BY <1>6 DEF vars, IInv, OwingInv, AnswersCounted, Owing
  <2>3. ~ lossy' => CredInv'
    BY <1>6 DEF vars, IInv, CredInv, Live, Target, Result, permitted, others
  <2> QED BY <2>1, <2>2, <2>3 DEF IInv
<1> QED BY <1>1, <1>2, <1>3, <1>4, <1>5, <1>6 DEF Next

(* The invariant holds in every reachable state, for any number of threads. *)
THEOREM Invariance == Spec => []IInv
  BY InitInv, NextInv, PTL DEF Spec

(* No handler outlives the call whose command it reads, and the call waits   *)
(* for exactly the answers that are to come, whatever the threads do while   *)
(* it walks their list.                                                      *)
THEOREM AllAnswer == Spec => []AnswersCounted
<1>1. IInv => AnswersCounted
  BY DEF IInv
<1> QED BY <1>1, Invariance, PTL

(* Between two calls of set*id all threads that are not on their way out     *)
(* have the same ids, and the process was not aborted, as long as no signal  *)
(* was lost: however many threads were created, started or exited while the  *)
(* calls ran.                                                                *)
THEOREM IdsAgree == Spec => []SameIds
<1>1. IInv => SameIds
  <2> SUFFICES ASSUME IInv, ~ lossy
               PROVE  /\ ~ aborted
                      /\ xpc = "no" =>
                           \A t, u \in Thread :
                             /\ Alive(t) /\ "EXITING" \notin bits[t]
                             /\ Alive(u) /\ "EXITING" \notin bits[u]
                             => cred[t] = cred[u]
    BY DEF SameIds
  <2>1. \A t \in Thread : Alive(t) /\ "EXITING" \notin bits[t] => Live(t)
    BY DEF IInv, BitInv, Alive, Live
  <2> QED BY <2>1 DEF IInv, CredInv
<1> QED BY <1>1, Invariance, PTL
=============================================================================
