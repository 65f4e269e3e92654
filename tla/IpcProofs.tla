------------------------------ MODULE IpcProofs ------------------------------
(***************************************************************************)
(* The two ways of src/Process/InterProcessComm to pass data between       *)
(* processes.                                                              *)
(*                                                                         *)
(* Ipc: its names, sockets and queues for any number of kills and          *)
(* failures, and its deadlines for any clock and timeout.  IInv is         *)
(* inductive, one lemma per action.                                        *)
(*                                                                         *)
(* FrameIpc, at the end of the module: the producer and the consumer of    *)
(* frame_ipc with sem_flg = 0, for any number of restarts.  FrameIInv is   *)
(* inductive, one lemma per action, and each frame is handed over once.    *)
(* With SEM_UNDO this is false.                                            *)
(***************************************************************************)
EXTENDS Ipc, FrameIpc, TLAPS

(* Division of a timeout into seconds and milliseconds. *)
LEMMA DivMod ==
  ASSUME NEW a \in Nat, NEW b \in Nat \ {0}
  PROVE  /\ a % b \in 0 .. b - 1 /\ a \div b \in Nat
         /\ a = b * (a \div b) + (a % b)
  OBVIOUS

LEMMA Distribute ==
  ASSUME NEW m \in Nat, NEW n \in Nat, NEW q \in Nat, NEW r \in Nat
  PROVE  (m * q + r) * n = q * (m * n) + r * n
  OBVIOUS

LEMMA Below ==
  ASSUME NEW m \in Nat \ {0}, NEW n \in Nat \ {0}, NEW r \in 0 .. m - 1
  PROVE  r * n <= m * n - n /\ r * n \in Nat /\ m * n \in Nat \ {0}
  OBVIOUS

LEMMA Product ==
  ASSUME NEW m \in Nat \ {0}, NEW n \in Nat \ {0}
  PROVE  m * n \in Nat \ {0}
  OBVIOUS

(* The facts about the constants that the steps need. *)
LEMMA Constants ==
  /\ NULL \notin Obj /\ MaxMsg \in Nat \ {0} /\ MaxTimeout \in Nat /\ MaxFaults \in Nat
  /\ MsPerSec \in Nat \ {0} /\ NsPerMs \in Nat \ {0} /\ NsPerSec \in Nat \ {0}
  /\ \A now \in Clock : now \in 0 .. NsPerSec - 1
<1>1. MsPerSec \in Nat \ {0} /\ NsPerMs \in Nat \ {0}
  BY IpcAssumption
<1>2. NsPerSec \in Nat \ {0}
  BY <1>1, Product DEF NsPerSec
<1>3. \A now \in Clock : now \in 0 .. NsPerSec - 1
  BY IpcAssumption DEF NsPerSec
<1> QED BY IpcAssumption, <1>2, <1>3

(* abs_timeout, for every clock and timeout: the deadline is the time of the  *)
(* call plus the timeout, and its nanoseconds are at most one second.         *)
LEMMA AbsTimeout ==
  ASSUME NEW now \in Clock, NEW ms \in Nat
  PROVE  /\ abs_timeout(now, ms) \in [sec : Nat, nsec : 0 .. NsPerSec]
         /\ abs_timeout(now, ms).sec * NsPerSec + abs_timeout(now, ms).nsec = now + ms * NsPerMs
<1> DEFINE q == ms \div MsPerSec
           r == ms % MsPerSec
           n == now + r * NsPerMs
<1>0. NsPerSec \in Nat \ {0} /\ NsPerMs \in Nat \ {0} /\ MsPerSec \in Nat \ {0}
      /\ now \in 0 .. NsPerSec - 1
  BY Constants
<1>7. abs_timeout(now, ms) = IF n > NsPerSec THEN [sec |-> q + 1, nsec |-> n - NsPerSec]
                                             ELSE [sec |-> q, nsec |-> n]
  BY DEF abs_timeout
<1>1. r \in 0 .. MsPerSec - 1 /\ q \in Nat /\ ms = MsPerSec * q + r
  BY <1>0, DivMod
<1> HIDE DEF q, r
<1>2. (MsPerSec * q + r) * NsPerMs = q * NsPerSec + r * NsPerMs
  BY <1>0, <1>1, Distribute DEF NsPerSec
<1>3. r * NsPerMs <= NsPerSec - NsPerMs /\ r * NsPerMs \in Nat
  BY <1>0, <1>1, Below DEF NsPerSec
<1>4. ms * NsPerMs = q * NsPerSec + r * NsPerMs
  BY <1>1, <1>2
<1>5. (q + 1) * NsPerSec = q * NsPerSec + NsPerSec /\ q * NsPerSec \in Nat
  BY <1>0, <1>1
<1> DEFINE a == r * NsPerMs
           b == q * NsPerSec
           c == ms * NsPerMs
<1>6. /\ n = now + a /\ a \in Nat /\ a < NsPerSec /\ b \in Nat /\ c = b + a
      /\ (q + 1) * NsPerSec = b + NsPerSec
  BY <1>0, <1>3, <1>4, <1>5
<1>8. n \in Nat /\ n < 2 * NsPerSec /\ b + n = now + c
  <2> HIDE DEF a, b, c, n
  <2> QED BY <1>0, <1>6
<1>9. CASE n > NsPerSec
  <2>1. abs_timeout(now, ms) = [sec |-> q + 1, nsec |-> n - NsPerSec]
    BY <1>7, <1>9
  <2>2. q + 1 \in Nat /\ n - NsPerSec \in 0 .. NsPerSec
    <3> HIDE DEF n
    <3> QED BY <1>0, <1>1, <1>8, <1>9
  <2>3. (q + 1) * NsPerSec + (n - NsPerSec) = now + c
    <3> HIDE DEF a, b, c, n
    <3> QED BY <1>0, <1>6, <1>8
  <2> HIDE DEF n
  <2> QED BY <2>1, <2>2, <2>3
<1>10. CASE ~ (n > NsPerSec)
  <2>1. abs_timeout(now, ms) = [sec |-> q, nsec |-> n]
    BY <1>7, <1>10
  <2>2. n \in 0 .. NsPerSec
    <3> HIDE DEF n
    <3> QED BY <1>0, <1>8, <1>10
  <2> HIDE DEF n
  <2> QED BY <1>1, <1>8, <2>1, <2>2
<1> QED BY <1>9, <1>10

-----------------------------------------------------------------------------
(* Each role is the peer of the other. *)
LEMMA PeerFact ==
  /\ Peer("SERVER") = "CLIENT" /\ Peer("CLIENT") = "SERVER"
  /\ \A p \in Role : Peer(p) \in Role /\ Peer(p) # p /\ Peer(Peer(p)) = p
<1>1. Peer("SERVER") = "CLIENT"
  BY DEF Peer, Role
<1>2. Peer("CLIENT") = "SERVER"
  BY DEF Peer, Role
<1> QED BY <1>1, <1>2 DEF Role

(* A process without a descriptor is not between Open and Close. *)
LEMMA NoFd ==
  ASSUME TypeOfEnds, FdInv, NEW p \in Role, pc[p] \in {"idle", "unlink", "bind", "mq_open", "mq_unlink"}
  PROVE  fd[p] = NULL /\ fds[p] = {}
  BY DEF FdInv, Ready

(* The kernel's new object is one nobody has and no name leads to: at most    *)
(* three names and the peer's descriptor are in use.                          *)
LEMMA NewFact ==
  ASSUME TypeOfEnds, FdInv, BoxInv, NEW p \in Role, fd[p] = NULL
  PROVE  /\ new \in Obj /\ ~ Open(new) /\ box[new] = <<>>
         /\ \A n \in Role \cup {"MQ_FILE"} : path[n] # new
         /\ \A q \in Role : fd[q] # new
<1>1. PICK o \in Obj : o \notin {path["SERVER"], path["CLIENT"], path["MQ_FILE"], fd[Peer(p)]}
  <2>1. /\ path["SERVER"] \in Obj \cup {NULL} /\ path["CLIENT"] \in Obj \cup {NULL}
        /\ path["MQ_FILE"] \in Obj \cup {NULL} /\ fd[Peer(p)] \in Obj \cup {NULL}
    BY PeerFact DEF TypeOfEnds, Role
  <2>2. Obj \ {path["SERVER"], path["CLIENT"], path["MQ_FILE"], fd[Peer(p)]} # {}
    BY <2>1, IpcAssumption
  <2> QED BY <2>2
<1>2. DOMAIN path = {"SERVER", "CLIENT", "MQ_FILE"}
  BY DEF TypeOfEnds, Role
<1>3. \A o2 : o2 \in Range(path) <=> \E n \in {"SERVER", "CLIENT", "MQ_FILE"} : path[n] = o2
  BY <1>2 DEF Range
<1>4. ~ Open(o) /\ o \notin Range(path)
  <2>1. o \notin Range(path)
    BY <1>1, <1>3
  <2>2. ASSUME NEW q \in Role, o \in fds[q] PROVE FALSE
    <3>1. q = p \/ q = Peer(p)
      BY PeerFact DEF Role
    <3>2. fds[q] = IF fd[q] = NULL THEN {} ELSE {fd[q]}
      BY DEF FdInv
    <3> QED BY <1>1, <2>2, <3>1, <3>2
  <2> QED BY <2>1, <2>2 DEF Open
<1>5. new \in Obj /\ ~ Open(new) /\ new \notin Range(path)
  BY <1>4 DEF new
<1> DEFINE x == new
<1>6. x \in Obj /\ ~ Open(x) /\ x \notin Range(path)
  BY <1>5
<1> HIDE DEF x
<1>7. \A q \in Role : fd[q] # x
  <2> SUFFICES ASSUME NEW q \in Role, fd[q] = x PROVE FALSE
    OBVIOUS
  <2>1. fd[q] # NULL
    BY <1>6, Constants
  <2>2. fds[q] = {fd[q]}
    BY <2>1 DEF FdInv
  <2> QED BY <1>6, <2>2 DEF Open
<1>8. \A n \in Role \cup {"MQ_FILE"} : path[n] # x
  BY <1>3, <1>6 DEF Role
<1>9. box[x] = <<>>
  BY <1>6, <1>8 DEF BoxInv
<1> QED BY <1>6, <1>7, <1>8, <1>9 DEF x

(* What Tail and Append leave of a sequence of senders. *)
LEMMA TailFact ==
  ASSUME NEW S, NEW s \in Seq(S), s # <<>>
  PROVE  /\ Tail(s) \in Seq(S) /\ Len(Tail(s)) = Len(s) - 1 /\ Len(s) \in Nat \ {0}
         /\ \A i \in 1 .. Len(s) - 1 : Tail(s)[i] = s[i + 1]
  OBVIOUS

LEMMA AppendFact ==
  ASSUME NEW S, NEW s \in Seq(S), NEW p \in S
  PROVE  /\ Append(s, p) \in Seq(S) /\ Len(Append(s, p)) = Len(s) + 1 /\ Len(s) \in Nat
         /\ \A i \in 1 .. Len(s) : Append(s, p)[i] = s[i]
         /\ Append(s, p)[Len(s) + 1] = p
  OBVIOUS

(* The kernel keeps or forgets the messages of an object, and keeps those of  *)
(* the objects in use.                                                        *)
LEMMA ForgetFact ==
  ASSUME TypeOfEnds, TypeOfBoxes, BoxInv, forget, \A q \in Role : path'[q] = path[q]
  PROVE  TypeOfBoxes' /\ BoxInv'
<1> DEFINE kept(o) == path'["MQ_FILE"] = o \/ \E q \in Role : o \in fds'[q]
<1>1. box \in [Obj -> Seq(Role)] /\ box' = [o \in Obj |-> IF kept(o) THEN box[o] ELSE <<>>]
  BY DEF forget, TypeOfBoxes
<1>2. \A o \in Obj : kept(o) <=> path'["MQ_FILE"] = o \/ Open(o)'
  BY DEF Open
<1> HIDE DEF kept
<1>3. \A o \in Obj : box'[o] = IF kept(o) THEN box[o] ELSE <<>>
  BY <1>1
<1>4. TypeOfBoxes'
  <2>1. box' \in [Obj -> Seq(Role)]
    BY <1>1
  <2>2. \A o \in Obj : Len(box'[o]) <= MaxMsg
    BY <1>3, Constants DEF TypeOfBoxes
  <2> QED BY <2>1, <2>2 DEF TypeOfBoxes
<1>5. ASSUME NEW q \in Role, path'[q] # NULL, NEW i \in 1 .. Len(box'[path'[q]])
      PROVE  box'[path'[q]][i] = Peer(q)
  <2>1. CASE path[q] \in Obj /\ kept(path[q])
    BY <1>3, <1>5, <2>1 DEF BoxInv
  <2>2. CASE path[q] \in Obj /\ ~ kept(path[q])
    BY <1>3, <1>5, <2>2
  <2>3. path[q] \in Obj
    BY <1>5 DEF TypeOfEnds, Role
  <2> QED BY <2>1, <2>2, <2>3
<1>6. \A o \in Obj : path'["MQ_FILE"] # o /\ ~ Open(o)' => box'[o] = <<>>
  BY <1>2, <1>3
<1> QED BY <1>4, <1>5, <1>6 DEF BoxInv

-----------------------------------------------------------------------------
(* A step outside Read and Write leaves the times alone, and the type of a    *)
(* process whose call they are.                                               *)
LEMMA TimesKept ==
  ASSUME TypeOfTimes, TimeInv, DeadlineExact, UNCHANGED timing,
         \A q \in Role : type'[q] = type[q] \/ pc[q] \notin {"read", "write"},
         \A q \in Role : pc'[q] \notin {"read", "write"} => pc[q] \notin {"read", "write"}
  PROVE  TypeOfTimes' /\ TimeInv' /\ DeadlineExact'
<1>0. wait' = wait /\ clock' = clock /\ deadline' = deadline
  BY DEF timing
<1>1. TypeOfTimes'
  BY <1>0 DEF TypeOfTimes
<1>2. TimeInv'
  BY <1>0 DEF TimeInv
<1>3. ASSUME NEW q \in Role, Timed(q)', type'[q] = "MQUEUE"
      PROVE  Timed(q) /\ type[q] = "MQUEUE"
  <2>1. wait[q] > 0
    BY <1>0, <1>3 DEF Timed
  <2>2. pc[q] \in {"read", "write"}
    BY <2>1 DEF TimeInv
  <2> QED BY <1>3, <2>1, <2>2 DEF Timed
<1> QED BY <1>0, <1>1, <1>2, <1>3 DEF DeadlineExact, valid

(* A call that ends, or a process that does, has no times any more. *)
LEMMA TimesReset ==
  ASSUME TypeOfTimes, TimeInv, DeadlineExact, NEW p \in Role,
         wait' = [wait EXCEPT ![p] = 0], clock' = [clock EXCEPT ![p] = 0],
         deadline' = [deadline EXCEPT ![p] = NoDeadline],
         \A q \in Role \ {p} : type'[q] = type[q] /\ pc'[q] = pc[q]
  PROVE  TypeOfTimes' /\ TimeInv' /\ DeadlineExact'
<1>0. NoDeadline \in [sec : Nat, nsec : 0 .. 2 * NsPerSec] /\ 0 \in 0 .. NsPerSec - 1 /\ 0 \in 0 .. MaxTimeout
  BY Constants DEF NoDeadline
<1>1. TypeOfTimes'
  BY <1>0 DEF TypeOfTimes
<1>2. wait'[p] = 0 /\ \A q \in Role \ {p} : wait'[q] = wait[q] /\ clock'[q] = clock[q] /\ deadline'[q] = deadline[q]
  BY DEF TypeOfTimes
<1>3. TimeInv'
  BY <1>2 DEF TimeInv
<1>4. DeadlineExact'
  BY <1>2 DEF DeadlineExact, Timed, valid
<1> QED BY <1>1, <1>3, <1>4

(* A call that begins has the deadline abs_timeout computes, if it is a timed *)
(* call on a queue.                                                           *)
LEMMA TimesSet ==
  ASSUME TypeOfTimes, TypeOfEnds, TimeInv, DeadlineExact, NEW p \in Role, NEW l \in {"read", "write"},
         NEW ms \in 0 .. MaxTimeout, NEW now \in Clock, call(p, l, ms, now)
  PROVE  TypeOfTimes' /\ TimeInv' /\ DeadlineExact'
<1> DEFINE d == abs_timeout(now, ms)
<1>0. ms \in Nat /\ now \in 0 .. NsPerSec - 1 /\ NsPerSec \in Nat \ {0} /\ NsPerMs \in Nat \ {0}
  BY Constants
<1>1. d \in [sec : Nat, nsec : 0 .. NsPerSec] /\ d.sec * NsPerSec + d.nsec = now + ms * NsPerMs
  BY <1>0, AbsTimeout
<1> HIDE DEF d
<1>2. d \in [sec : Nat, nsec : 0 .. 2 * NsPerSec]
  BY <1>0, <1>1
<1>3. /\ wait' = [wait EXCEPT ![p] = ms] /\ pc' = [pc EXCEPT ![p] = l] /\ type' = type
      /\ \/ /\ type[p] = "MQUEUE" /\ ms > 0
            /\ clock' = [clock EXCEPT ![p] = now] /\ deadline' = [deadline EXCEPT ![p] = d]
         \/ ~ (type[p] = "MQUEUE" /\ ms > 0) /\ clock' = clock /\ deadline' = deadline
  BY DEF call, to, info, d
<1>4. TypeOfTimes'
  BY <1>0, <1>2, <1>3 DEF TypeOfTimes
<1>5. TimeInv'
  BY <1>3 DEF TimeInv, TypeOfTimes, TypeOfEnds
<1>6. ASSUME NEW q \in Role, Timed(q)', type'[q] = "MQUEUE"
      PROVE  /\ deadline'[q].sec * NsPerSec + deadline'[q].nsec = clock'[q] + wait'[q] * NsPerMs
             /\ valid(deadline'[q]) \/ deadline'[q].nsec = NsPerSec
  <2>1. CASE q = p
    <3>1. wait'[p] = ms /\ ms > 0 /\ type[p] = "MQUEUE"
      BY <1>3, <1>6, <2>1 DEF Timed, TypeOfTimes
    <3>2. deadline'[p] = d /\ clock'[p] = now
      BY <1>3, <3>1 DEF TypeOfTimes
    <3>3. d.nsec < NsPerSec \/ d.nsec = NsPerSec
      BY <1>0, <1>1
    <3> QED BY <2>1, <3>1, <3>2, <3>3, <1>1 DEF valid
  <2>2. CASE q # p
    <3>1. wait'[q] = wait[q] /\ clock'[q] = clock[q] /\ deadline'[q] = deadline[q] /\ type'[q] = type[q]
      BY <1>3, <2>2 DEF TypeOfTimes
    <3> QED BY <1>6, <3>1 DEF DeadlineExact, Timed
  <2> QED BY <2>1, <2>2
<1>7. DeadlineExact'
  BY <1>6 DEF DeadlineExact
<1> QED BY <1>4, <1>5, <1>7

(* A step that leaves names, descriptors and messages alone keeps what they   *)
(* hold.                                                                      *)
LEMMA BoxesKept ==
  ASSUME TypeOfBoxes, BoxInv, UNCHANGED <<path, box, fds>>
  PROVE  TypeOfBoxes' /\ BoxInv'
  BY DEF TypeOfBoxes, BoxInv, Open

-----------------------------------------------------------------------------
(* At the start nobody has anything and no name exists. *)
LEMMA InitInv == Init => IInv
<1> SUFFICES ASSUME Init PROVE IInv
  OBVIOUS
<1> USE DEF Init, Role
<1>1. TypeOfEnds
  <2>1. faults \in 0 .. MaxFaults
    BY Constants
  <2> QED BY <2>1 DEF TypeOfEnds
<1>8. FdInv
  BY DEF FdInv, Ready
<1>2. TypeOfBoxes
  <2>1. <<>> \in Seq(Role) /\ Len(<<>>) = 0
    OBVIOUS
  <2> QED BY <2>1, Constants DEF TypeOfBoxes
<1>3. NoDeadline \in [sec : Nat, nsec : 0 .. 2 * NsPerSec] /\ 0 \in 0 .. NsPerSec - 1 /\ 0 \in 0 .. MaxTimeout
  BY Constants DEF NoDeadline
<1>4. TypeOfTimes
  BY <1>3 DEF TypeOfTimes
<1>5. NameInv /\ BoxInv
  BY DEF NameInv, BoxInv
<1>6. QueueInv /\ QueueNamed
  BY DEF QueueInv, QueueNamed, Ready
<1>7. TimeInv /\ DeadlineExact
  BY DEF TimeInv, DeadlineExact, Timed
<1> QED BY <1>1, <1>2, <1>4, <1>5, <1>6, <1>7, <1>8 DEF IInv, TypeOK

(* Open begins for a process that has no descriptor. *)
LEMMA Inv_Open_begin ==
  ASSUME IInv, NEW p \in Role, NEW t \in {"SOCKET", "MQUEUE"}, Open_begin(p, t)
  PROVE  IInv'
<1>0. TypeOfEnds /\ FdInv /\ NameInv /\ BoxInv /\ QueueInv /\ QueueNamed
  BY DEF IInv, TypeOK
<1> USE Constants, <1>0 DEF Open_begin, TypeOfEnds, Role, to, info, timing
<1>t. TypeOfTimes' /\ TimeInv' /\ DeadlineExact'
  <2>1. UNCHANGED timing /\ \A q \in Role : type'[q] = type[q] \/ pc[q] \notin {"read", "write"}
    OBVIOUS
  <2>2. \A q \in Role : pc'[q] \notin {"read", "write"} => pc[q] \notin {"read", "write"}
    OBVIOUS
  <2> QED BY <2>1, <2>2, TimesKept DEF IInv, TypeOK
<1>1. TypeOfEnds'
  OBVIOUS
<1>2. FdInv'
  BY DEF FdInv, Ready
<1>3. NameInv'
  BY PeerFact DEF NameInv, FdInv, Ready
<1>b. TypeOfBoxes' /\ BoxInv'
  BY BoxesKept DEF IInv, TypeOK
<1>5. QueueInv' /\ QueueNamed'
  BY DEF QueueInv, QueueNamed, FdInv, Ready
<1> QED BY <1>t, <1>1, <1>2, <1>3, <1>b, <1>5 DEF IInv, TypeOK

(* The name of the own role goes; whoever had it is gone. *)
LEMMA Inv_Open_unlink ==
  ASSUME IInv, NEW p \in Role, Open_unlink(p)
  PROVE  IInv'
<1>0. TypeOfEnds /\ FdInv /\ NameInv /\ BoxInv /\ QueueInv /\ QueueNamed
  BY DEF IInv, TypeOK
<1> USE Constants, <1>0 DEF Open_unlink, TypeOfEnds, Role, to, info, timing
<1>t. TypeOfTimes' /\ TimeInv' /\ DeadlineExact'
  <2>1. UNCHANGED timing /\ \A q \in Role : type'[q] = type[q] \/ pc[q] \notin {"read", "write"}
    OBVIOUS
  <2>2. \A q \in Role : pc'[q] \notin {"read", "write"} => pc[q] \notin {"read", "write"}
    OBVIOUS
  <2> QED BY <2>1, <2>2, TimesKept DEF IInv, TypeOK
<1>1. TypeOfEnds'
  OBVIOUS
<1>2. FdInv'
  BY DEF FdInv, Ready
<1>3. NameInv'
  BY PeerFact DEF NameInv, FdInv, Ready
<1>b. TypeOfBoxes' /\ BoxInv'
  <2>1. TypeOfBoxes' /\ box' = box /\ fds' = fds
    BY DEF IInv, TypeOK, TypeOfBoxes
  <2> QED BY <2>1 DEF BoxInv, Open
<1>5. QueueInv' /\ QueueNamed'
  BY DEF QueueInv, QueueNamed, FdInv, Ready
<1> QED BY <1>t, <1>1, <1>2, <1>3, <1>b, <1>5 DEF IInv, TypeOK

(* A new socket, which nobody has and which holds nothing, gets the name. *)
LEMMA Inv_Open_bind ==
  ASSUME IInv, NEW p \in Role, Open_bind(p)
  PROVE  IInv'
<1>0. TypeOfEnds /\ FdInv /\ NameInv /\ BoxInv /\ QueueInv /\ QueueNamed
  BY DEF IInv, TypeOK
<1> USE Constants, <1>0 DEF Open_bind, TypeOfEnds, Role, to, info, timing
<1>n. fd[p] = NULL /\ fds[p] = {}
  BY NoFd
<1>x. PICK x \in Obj :
        /\ x = new /\ ~ Open(x) /\ box[x] = <<>>
        /\ \A n \in Role \cup {"MQ_FILE"} : path[n] # x
        /\ \A q \in Role : fd[q] # x
  BY <1>n, NewFact
<1>t. TypeOfTimes' /\ TimeInv' /\ DeadlineExact'
  <2>1. UNCHANGED timing /\ \A q \in Role : type'[q] = type[q] \/ pc[q] \notin {"read", "write"}
    OBVIOUS
  <2>2. \A q \in Role : pc'[q] \notin {"read", "write"} => pc[q] \notin {"read", "write"}
    OBVIOUS
  <2> QED BY <2>1, <2>2, TimesKept DEF IInv, TypeOK
<1>1. TypeOfEnds'
  BY <1>n, <1>x
<1>2. FdInv'
  BY <1>n, <1>x DEF FdInv, Ready
<1>3. NameInv'
  BY <1>n, <1>x, PeerFact DEF NameInv, FdInv, Ready
<1>b. TypeOfBoxes' /\ BoxInv'
  <2>1. TypeOfBoxes' /\ box' = box
    BY DEF IInv, TypeOK, TypeOfBoxes
  <2>2. \A q \in Role : path'[q] = path[q] \/ path'[q] = x
    BY <1>x
  <2>3. \A q \in Role : path'[q] # NULL => \A i \in 1 .. Len(box[path'[q]]) : box[path'[q]][i] = Peer(q)
    BY <1>x, <2>2 DEF BoxInv
  <2>4. \A o \in Obj : Open(o) => Open(o)'
    BY DEF Open
  <2>5. path'["MQ_FILE"] = path["MQ_FILE"]
    OBVIOUS
  <2> QED BY <2>1, <2>3, <2>4, <2>5 DEF BoxInv
<1>5. QueueInv' /\ QueueNamed'
  BY <1>n, <1>x DEF QueueInv, QueueNamed, FdInv, Ready
<1> QED BY <1>t, <1>1, <1>2, <1>3, <1>b, <1>5 DEF IInv, TypeOK

(* Nothing is left of a failed bind. *)
LEMMA Inv_Open_bind_fails ==
  ASSUME IInv, NEW p \in Role, Open_bind_fails(p)
  PROVE  IInv'
<1>0. TypeOfEnds /\ FdInv /\ NameInv /\ BoxInv /\ QueueInv /\ QueueNamed
  BY DEF IInv, TypeOK
<1> USE Constants, <1>0 DEF Open_bind_fails, TypeOfEnds, Role, to, info, timing, fault
<1>t. TypeOfTimes' /\ TimeInv' /\ DeadlineExact'
  <2>1. UNCHANGED timing /\ \A q \in Role : type'[q] = type[q] \/ pc[q] \notin {"read", "write"}
    OBVIOUS
  <2>2. \A q \in Role : pc'[q] \notin {"read", "write"} => pc[q] \notin {"read", "write"}
    OBVIOUS
  <2> QED BY <2>1, <2>2, TimesKept DEF IInv, TypeOK
<1>1. TypeOfEnds'
  OBVIOUS
<1>2. FdInv'
  BY DEF FdInv, Ready
<1>3. NameInv'
  BY PeerFact DEF NameInv, FdInv, Ready
<1>b. TypeOfBoxes' /\ BoxInv'
  BY BoxesKept DEF IInv, TypeOK
<1>5. QueueInv' /\ QueueNamed'
  BY DEF QueueInv, QueueNamed, FdInv, Ready
<1> QED BY <1>t, <1>1, <1>2, <1>3, <1>b, <1>5 DEF IInv, TypeOK

(* The queue mq_open gives the server is new, the one it gives the client has *)
(* the name, and neither is a socket. *)
LEMMA Inv_Open_mq ==
  ASSUME IInv, NEW p \in Role, Open_mq(p)
  PROVE  IInv'
<1>0. TypeOfEnds /\ FdInv /\ NameInv /\ BoxInv /\ QueueInv /\ QueueNamed
  BY DEF IInv, TypeOK
<1> USE Constants, <1>0 DEF TypeOfEnds, Role, to, info, timing
<1>m. pc[p] = "mq_open"
  BY DEF Open_mq
<1>n. fd[p] = NULL /\ fds[p] = {} /\ type[p] = "MQUEUE"
  BY <1>m, NoFd DEF FdInv
<1>y. PICK y \in Obj :
        /\ y = new /\ ~ Open(y) /\ box[y] = <<>>
        /\ \A n \in Role \cup {"MQ_FILE"} : path[n] # y
        /\ \A q \in Role : fd[q] # y
  BY <1>n, NewFact
<1>o. PICK o \in Obj :
        /\ path' = [path EXCEPT !["MQ_FILE"] = o]
        /\ fds' = [fds EXCEPT ![p] = @ \cup {o}] /\ fd' = [fd EXCEPT ![p] = o]
        /\ \/ p = "SERVER" /\ path["MQ_FILE"] = NULL /\ box[o] = <<>> /\ o = y
           \/ p = "CLIENT" /\ path["MQ_FILE"] = o
  BY <1>y DEF Open_mq
<1>q. \A q \in Role : path[q] # o /\ (fd[q] # NULL /\ type[q] = "SOCKET" => fd[q] # o)
  BY <1>y, <1>o DEF NameInv
<1>p. /\ pc' = [pc EXCEPT ![p] = "ready"] /\ type' = type /\ box' = box /\ faults' = faults
      /\ sndtimeo' = sndtimeo /\ UNCHANGED timing /\ pc[p] = "mq_open"
      /\ exposed' = IF p = "SERVER" THEN pc["CLIENT"] = "mq_unlink" ELSE exposed
  BY DEF Open_mq
<1>t. TypeOfTimes' /\ TimeInv' /\ DeadlineExact'
  <2>1. UNCHANGED timing /\ \A q \in Role : type'[q] = type[q] \/ pc[q] \notin {"read", "write"}
    BY <1>p
  <2>2. \A q \in Role : pc'[q] \notin {"read", "write"} => pc[q] \notin {"read", "write"}
    BY <1>p
  <2> QED BY <2>1, <2>2, TimesKept DEF IInv, TypeOK
<1>1. TypeOfEnds'
  BY <1>n, <1>o, <1>p, <1>q
<1>2. FdInv'
  BY <1>n, <1>o, <1>p, <1>q DEF FdInv, Ready
<1>3. NameInv'
  BY <1>n, <1>o, <1>p, <1>q, PeerFact DEF NameInv, FdInv, Ready
<1>b. TypeOfBoxes' /\ BoxInv'
  <2>1. TypeOfBoxes'
    BY <1>p DEF IInv, TypeOK, TypeOfBoxes
  <2>2. \A q \in Role : path'[q] = path[q]
    BY <1>o
  <2>3. \A z \in Obj : Open(z) => Open(z)'
    BY <1>o DEF Open
  <2>4. \A z \in Obj : path'["MQ_FILE"] # z => path["MQ_FILE"] # z
    BY <1>o
  <2> QED BY <1>p, <2>1, <2>2, <2>3, <2>4 DEF BoxInv
<1>5. QueueInv' /\ QueueNamed'
  <2>1. CASE p = "SERVER"
    BY <2>1, <1>n, <1>o, <1>p DEF QueueInv, QueueNamed, FdInv, Ready
  <2>2. CASE p = "CLIENT"
    BY <2>2, <1>n, <1>o, <1>p DEF QueueInv, QueueNamed, FdInv, Ready
  <2> QED BY <2>1, <2>2
<1> QED BY <1>t, <1>1, <1>2, <1>3, <1>b, <1>5 DEF IInv, TypeOK

(* A client that fails although the server has its queue finds the name gone, *)
(* which is noted, or is noted itself. *)
LEMMA Inv_Open_mq_fails ==
  ASSUME IInv, NEW p \in Role, Open_mq_fails(p)
  PROVE  IInv'
<1>0. TypeOfEnds /\ FdInv /\ NameInv /\ BoxInv /\ QueueInv /\ QueueNamed
  BY DEF IInv, TypeOK
<1> USE Constants, <1>0 DEF Open_mq_fails, TypeOfEnds, Role, to, info, timing, fault
<1>t. TypeOfTimes' /\ TimeInv' /\ DeadlineExact'
  <2>1. UNCHANGED timing /\ \A q \in Role : type'[q] = type[q] \/ pc[q] \notin {"read", "write"}
    OBVIOUS
  <2>2. \A q \in Role : pc'[q] \notin {"read", "write"} => pc[q] \notin {"read", "write"}
    OBVIOUS
  <2> QED BY <2>1, <2>2, TimesKept DEF IInv, TypeOK
<1>1. TypeOfEnds'
  <2>1. faults' \in 0 .. MaxFaults
    OBVIOUS
  <2>2. exposed' \in BOOLEAN
    <3>1. exposed' = exposed \/ exposed' = TRUE
      OBVIOUS
    <3>2. exposed \in BOOLEAN
      OBVIOUS
    <3> HIDE <1>0 DEF Open_mq_fails, TypeOfEnds
    <3> QED BY <3>1, <3>2
  <2> QED BY <2>1, <2>2
<1>2. FdInv'
  BY DEF FdInv, Ready
<1>3. NameInv'
  BY PeerFact DEF NameInv, FdInv, Ready
<1>b. TypeOfBoxes' /\ BoxInv'
  BY BoxesKept DEF IInv, TypeOK
<1>5. QueueInv' /\ QueueNamed'
  BY DEF QueueInv, QueueNamed, FdInv, Ready
<1> QED BY <1>t, <1>1, <1>2, <1>3, <1>b, <1>5 DEF IInv, TypeOK

(* The name of the queue goes, not the queue. *)
LEMMA Inv_Open_mq_unlink ==
  ASSUME IInv, NEW p \in Role, Open_mq_unlink(p)
  PROVE  IInv'
<1>0. TypeOfEnds /\ FdInv /\ NameInv /\ BoxInv /\ QueueInv /\ QueueNamed
  BY DEF IInv, TypeOK
<1> USE Constants, <1>0 DEF Open_mq_unlink, TypeOfEnds, Role, to, info, timing
<1>t. TypeOfTimes' /\ TimeInv' /\ DeadlineExact'
  <2>1. UNCHANGED timing /\ \A q \in Role : type'[q] = type[q] \/ pc[q] \notin {"read", "write"}
    OBVIOUS
  <2>2. \A q \in Role : pc'[q] \notin {"read", "write"} => pc[q] \notin {"read", "write"}
    OBVIOUS
  <2> QED BY <2>1, <2>2, TimesKept DEF IInv, TypeOK
<1>1. TypeOfEnds'
  OBVIOUS
<1>2. FdInv'
  BY DEF FdInv, Ready
<1>3. NameInv'
  BY PeerFact DEF NameInv, FdInv, Ready
<1>b. TypeOfBoxes' /\ BoxInv'
  <2>1. \A q \in Role : path'[q] = path[q]
    OBVIOUS
  <2> QED BY <2>1, ForgetFact DEF IInv, TypeOK
<1>5. QueueInv' /\ QueueNamed'
  BY DEF QueueInv, QueueNamed, FdInv, Ready
<1> QED BY <1>t, <1>1, <1>2, <1>3, <1>b, <1>5 DEF IInv, TypeOK

(* A timed call on a queue has the deadline abs_timeout computes. *)
LEMMA Inv_Read ==
  ASSUME IInv, NEW p \in Role, NEW ms \in 0 .. MaxTimeout, NEW now \in Clock, Read(p, ms, now)
  PROVE  IInv'
<1>0. TypeOfEnds /\ FdInv /\ NameInv /\ BoxInv /\ QueueInv /\ QueueNamed
  BY DEF IInv, TypeOK
<1> USE Constants, <1>0 DEF Read, TypeOfEnds, Role, to, info, timing, call
<1>t. TypeOfTimes' /\ TimeInv' /\ DeadlineExact'
  BY TimesSet DEF IInv, TypeOK
<1>1. TypeOfEnds'
  OBVIOUS
<1>2. FdInv'
  BY DEF FdInv, Ready
<1>3. NameInv'
  BY PeerFact DEF NameInv, FdInv, Ready
<1>b. TypeOfBoxes' /\ BoxInv'
  BY BoxesKept DEF IInv, TypeOK
<1>5. QueueInv' /\ QueueNamed'
  BY DEF QueueInv, QueueNamed, FdInv, Ready
<1> QED BY <1>t, <1>1, <1>2, <1>3, <1>b, <1>5 DEF IInv, TypeOK

(* So has a write. *)
LEMMA Inv_Write ==
  ASSUME IInv, NEW p \in Role, NEW ms \in 0 .. MaxTimeout, NEW now \in Clock, Write(p, ms, now)
  PROVE  IInv'
<1>0. TypeOfEnds /\ FdInv /\ NameInv /\ BoxInv /\ QueueInv /\ QueueNamed
  BY DEF IInv, TypeOK
<1> USE Constants, <1>0 DEF Write, TypeOfEnds, Role, to, info, timing, call
<1>t. TypeOfTimes' /\ TimeInv' /\ DeadlineExact'
  BY TimesSet DEF IInv, TypeOK
<1>1. TypeOfEnds'
  OBVIOUS
<1>2. FdInv'
  BY DEF FdInv, Ready
<1>3. NameInv'
  BY PeerFact DEF NameInv, FdInv, Ready
<1>b. TypeOfBoxes' /\ BoxInv'
  BY BoxesKept DEF IInv, TypeOK
<1>5. QueueInv' /\ QueueNamed'
  BY DEF QueueInv, QueueNamed, FdInv, Ready
<1> QED BY <1>t, <1>1, <1>2, <1>3, <1>b, <1>5 DEF IInv, TypeOK

(* A call ends with its deadline. *)
LEMMA Inv_rejected ==
  ASSUME IInv, NEW p \in Role, rejected(p)
  PROVE  IInv'
<1>0. TypeOfEnds /\ FdInv /\ NameInv /\ BoxInv /\ QueueInv /\ QueueNamed
  BY DEF IInv, TypeOK
<1> USE Constants, <1>0 DEF rejected, TypeOfEnds, Role, to, info, timing, returns
<1>t. TypeOfTimes' /\ TimeInv' /\ DeadlineExact'
  <2>1. /\ wait' = [wait EXCEPT ![p] = 0] /\ clock' = [clock EXCEPT ![p] = 0]
        /\ deadline' = [deadline EXCEPT ![p] = NoDeadline]
        /\ \A q \in Role \ {p} : type'[q] = type[q] /\ pc'[q] = pc[q]
    OBVIOUS
  <2> QED BY <2>1, TimesReset DEF IInv, TypeOK
<1>1. TypeOfEnds'
  OBVIOUS
<1>2. FdInv'
  BY DEF FdInv, Ready
<1>3. NameInv'
  BY PeerFact DEF NameInv, FdInv, Ready
<1>b. TypeOfBoxes' /\ BoxInv'
  BY BoxesKept DEF IInv, TypeOK
<1>5. QueueInv' /\ QueueNamed'
  BY DEF QueueInv, QueueNamed, FdInv, Ready
<1> QED BY <1>t, <1>1, <1>2, <1>3, <1>b, <1>5 DEF IInv, TypeOK

(* The first message is taken. *)
LEMMA Inv_receive ==
  ASSUME IInv, NEW p \in Role, receive(p)
  PROVE  IInv'
<1>0. TypeOfEnds /\ FdInv /\ NameInv /\ BoxInv /\ QueueInv /\ QueueNamed
  BY DEF IInv, TypeOK
<1> USE Constants, <1>0 DEF receive, TypeOfEnds, Role, to, info, timing, returns
<1>t. TypeOfTimes' /\ TimeInv' /\ DeadlineExact'
  <2>1. /\ wait' = [wait EXCEPT ![p] = 0] /\ clock' = [clock EXCEPT ![p] = 0]
        /\ deadline' = [deadline EXCEPT ![p] = NoDeadline]
        /\ \A q \in Role \ {p} : type'[q] = type[q] /\ pc'[q] = pc[q]
    OBVIOUS
  <2> QED BY <2>1, TimesReset DEF IInv, TypeOK
<1>1. TypeOfEnds'
  OBVIOUS
<1>2. FdInv'
  BY DEF FdInv, Ready
<1>3. NameInv'
  BY PeerFact DEF NameInv, FdInv, Ready
<1>b. TypeOfBoxes' /\ BoxInv'
  <2> DEFINE o == fd[p]
  <2>1. o \in Obj /\ box[o] \in Seq(Role) /\ box[o] # <<>> /\ o \in fds[p]
    BY DEF FdInv, Ready, IInv, TypeOK, TypeOfBoxes
  <2>2. /\ Tail(box[o]) \in Seq(Role) /\ Len(Tail(box[o])) = Len(box[o]) - 1 /\ Len(box[o]) \in Nat \ {0}
        /\ \A i \in 1 .. Len(box[o]) - 1 : Tail(box[o])[i] = box[o][i + 1]
    BY <2>1, TailFact
  <2>3. box' = [box EXCEPT ![o] = Tail(box[o])] /\ path' = path /\ fds' = fds
    OBVIOUS
  <2>4. box \in [Obj -> Seq(Role)] /\ \A z \in Obj : Len(box[z]) <= MaxMsg
    BY DEF IInv, TypeOK, TypeOfBoxes
  <2> HIDE DEF o, receive
  <2>5. box'[o] = Tail(box[o]) /\ \A z \in Obj : z # o => box'[z] = box[z]
    BY <2>1, <2>3, <2>4
  <2>6. TypeOfBoxes'
    <3>1. box' \in [Obj -> Seq(Role)]
      BY <2>1, <2>2, <2>3, <2>4
    <3>2. ASSUME NEW z \in Obj PROVE Len(box'[z]) <= MaxMsg
      <4>1. CASE z = o
        <5>1. Len(box'[z]) = Len(box[o]) - 1 /\ Len(box[o]) <= MaxMsg
          BY <2>1, <2>2, <2>4, <2>5, <4>1
        <5> QED BY <5>1, <2>2
      <4>2. CASE z # o
        BY <2>4, <2>5, <4>2
      <4> QED BY <4>1, <4>2
    <3> QED BY <3>1, <3>2 DEF TypeOfBoxes
  <2>7. ASSUME NEW q \in Role, path[q] # NULL, NEW i \in 1 .. Len(box'[path[q]])
        PROVE  box'[path[q]][i] = Peer(q)
    <3>1. CASE path[q] = o
      <4>1. i \in 1 .. Len(box[o]) - 1 /\ box'[o][i] = box[o][i + 1]
        BY <2>2, <2>5, <2>7, <3>1
      <4>2. i + 1 \in 1 .. Len(box[o])
        BY <2>2, <4>1
      <4>3. \A j \in 1 .. Len(box[o]) : box[o][j] = Peer(q)
        BY <2>7, <3>1 DEF BoxInv
      <4> QED BY <3>1, <4>1, <4>2, <4>3
    <3>2. CASE path[q] # o
      <4>1. path[q] \in Obj
        BY <2>7
      <4> QED BY <2>5, <2>7, <3>2, <4>1 DEF BoxInv
    <3> QED BY <3>1, <3>2
  <2>8. ASSUME NEW z \in Obj, path["MQ_FILE"] # z, ~ Open(z) PROVE box'[z] = <<>>
    BY <2>1, <2>5, <2>8 DEF BoxInv, Open
  <2>9. \A z \in Obj : Open(z)' <=> Open(z)
    BY <2>3 DEF Open
  <2> QED BY <2>3, <2>6, <2>7, <2>8, <2>9 DEF BoxInv
<1>5. QueueInv' /\ QueueNamed'
  BY DEF QueueInv, QueueNamed, FdInv, Ready
<1> QED BY <1>t, <1>1, <1>2, <1>3, <1>b, <1>5 DEF IInv, TypeOK

(* The message goes to the queue of both, or to the socket of the peer. *)
LEMMA Inv_send ==
  ASSUME IInv, NEW p \in Role, send(p)
  PROVE  IInv'
<1>0. TypeOfEnds /\ FdInv /\ NameInv /\ BoxInv /\ QueueInv /\ QueueNamed
  BY DEF IInv, TypeOK
<1> USE Constants, <1>0 DEF send, TypeOfEnds, Role, to, info, timing, returns
<1>t. TypeOfTimes' /\ TimeInv' /\ DeadlineExact'
  <2>1. /\ wait' = [wait EXCEPT ![p] = 0] /\ clock' = [clock EXCEPT ![p] = 0]
        /\ deadline' = [deadline EXCEPT ![p] = NoDeadline]
        /\ \A q \in Role \ {p} : type'[q] = type[q] /\ pc'[q] = pc[q]
    OBVIOUS
  <2> QED BY <2>1, TimesReset DEF IInv, TypeOK
<1>1. TypeOfEnds'
  OBVIOUS
<1>2. FdInv'
  BY DEF FdInv, Ready
<1>3. NameInv'
  BY PeerFact DEF NameInv, FdInv, Ready
<1>b. TypeOfBoxes' /\ BoxInv'
  <2> DEFINE o == target(p)
  <2>1. o \in Obj /\ (type[p] = "MQUEUE" => o = fd[p]) /\ (type[p] = "SOCKET" => o = path[Peer(p)])
    BY PeerFact DEF target
  <2>3. /\ box' = [box EXCEPT ![o] = Append(box[o], p)] /\ path' = path /\ fds' = fds
        /\ Len(box[o]) < MaxMsg /\ Open(o)
    OBVIOUS
  <2>4. box \in [Obj -> Seq(Role)] /\ \A z \in Obj : Len(box[z]) <= MaxMsg
    BY DEF IInv, TypeOK, TypeOfBoxes
  <2>a. pc[p] = "write"
    OBVIOUS
  <2> HIDE DEF o, send
  <2>2. /\ Append(box[o], p) \in Seq(Role) /\ Len(Append(box[o], p)) = Len(box[o]) + 1 /\ Len(box[o]) \in Nat
        /\ \A i \in 1 .. Len(box[o]) : Append(box[o], p)[i] = box[o][i]
        /\ Append(box[o], p)[Len(box[o]) + 1] = p
    <3>1. box[o] \in Seq(Role)
      BY <2>1, <2>4
    <3> QED BY <3>1, AppendFact
  <2>5. box'[o] = Append(box[o], p) /\ \A z \in Obj : z # o => box'[z] = box[z]
    BY <2>1, <2>3, <2>4
  <2>6. TypeOfBoxes'
    <3>1. box' \in [Obj -> Seq(Role)]
      BY <2>1, <2>2, <2>3, <2>4
    <3>2. \A z \in Obj : Len(box'[z]) <= MaxMsg
      BY <2>1, <2>2, <2>3, <2>4, <2>5
    <3> QED BY <3>1, <3>2 DEF TypeOfBoxes
  <2>b. \A q \in Role : path[q] = o => q = Peer(p) /\ p = Peer(q)
    BY <2>1, <2>a, PeerFact DEF NameInv, FdInv, Ready
  <2>7. ASSUME NEW q \in Role, path[q] # NULL, NEW i \in 1 .. Len(box'[path[q]])
        PROVE  box'[path[q]][i] = Peer(q)
    <3>1. CASE path[q] = o
      <4>1. p = Peer(q)
        BY <2>b, <3>1
      <4>2. i \in 1 .. Len(box[o]) + 1
        BY <2>2, <2>5, <2>7, <3>1
      <4>3. i \in 1 .. Len(box[o]) \/ i = Len(box[o]) + 1
        BY <2>2, <4>2
      <4>4. \A j \in 1 .. Len(box[o]) : box[o][j] = Peer(q)
        BY <2>7, <3>1 DEF BoxInv
      <4> QED BY <2>2, <2>5, <3>1, <4>1, <4>3, <4>4
    <3>2. CASE path[q] # o
      <4>1. path[q] \in Obj
        BY <2>7
      <4> QED BY <2>5, <2>7, <3>2, <4>1 DEF BoxInv
    <3> QED BY <3>1, <3>2
  <2>8. ASSUME NEW z \in Obj, path["MQ_FILE"] # z, ~ Open(z) PROVE box'[z] = <<>>
    BY <2>3, <2>5, <2>8 DEF BoxInv
  <2>9. \A z \in Obj : Open(z)' <=> Open(z)
    BY <2>3 DEF Open
  <2> QED BY <2>3, <2>6, <2>7, <2>8, <2>9 DEF BoxInv
<1>5. QueueInv' /\ QueueNamed'
  BY DEF QueueInv, QueueNamed, FdInv, Ready
<1> QED BY <1>t, <1>1, <1>2, <1>3, <1>b, <1>5 DEF IInv, TypeOK

(* Nothing was sent. *)
LEMMA Inv_send_fails ==
  ASSUME IInv, NEW p \in Role, send_fails(p)
  PROVE  IInv'
<1>0. TypeOfEnds /\ FdInv /\ NameInv /\ BoxInv /\ QueueInv /\ QueueNamed
  BY DEF IInv, TypeOK
<1> USE Constants, <1>0 DEF send_fails, TypeOfEnds, Role, to, info, timing, returns
<1>t. TypeOfTimes' /\ TimeInv' /\ DeadlineExact'
  <2>1. /\ wait' = [wait EXCEPT ![p] = 0] /\ clock' = [clock EXCEPT ![p] = 0]
        /\ deadline' = [deadline EXCEPT ![p] = NoDeadline]
        /\ \A q \in Role \ {p} : type'[q] = type[q] /\ pc'[q] = pc[q]
    OBVIOUS
  <2> QED BY <2>1, TimesReset DEF IInv, TypeOK
<1>1. TypeOfEnds'
  OBVIOUS
<1>2. FdInv'
  BY DEF FdInv, Ready
<1>3. NameInv'
  BY PeerFact DEF NameInv, FdInv, Ready
<1>b. TypeOfBoxes' /\ BoxInv'
  BY BoxesKept DEF IInv, TypeOK
<1>5. QueueInv' /\ QueueNamed'
  BY DEF QueueInv, QueueNamed, FdInv, Ready
<1> QED BY <1>t, <1>1, <1>2, <1>3, <1>b, <1>5 DEF IInv, TypeOK

(* Nothing was read or sent. *)
LEMMA Inv_time_out ==
  ASSUME IInv, NEW p \in Role, time_out(p)
  PROVE  IInv'
<1>0. TypeOfEnds /\ FdInv /\ NameInv /\ BoxInv /\ QueueInv /\ QueueNamed
  BY DEF IInv, TypeOK
<1> USE Constants, <1>0 DEF time_out, TypeOfEnds, Role, to, info, timing, returns
<1>t. TypeOfTimes' /\ TimeInv' /\ DeadlineExact'
  <2>1. /\ wait' = [wait EXCEPT ![p] = 0] /\ clock' = [clock EXCEPT ![p] = 0]
        /\ deadline' = [deadline EXCEPT ![p] = NoDeadline]
        /\ \A q \in Role \ {p} : type'[q] = type[q] /\ pc'[q] = pc[q]
    OBVIOUS
  <2> QED BY <2>1, TimesReset DEF IInv, TypeOK
<1>1. TypeOfEnds'
  OBVIOUS
<1>2. FdInv'
  BY DEF FdInv, Ready
<1>3. NameInv'
  BY PeerFact DEF NameInv, FdInv, Ready
<1>b. TypeOfBoxes' /\ BoxInv'
  BY BoxesKept DEF IInv, TypeOK
<1>5. QueueInv' /\ QueueNamed'
  BY DEF QueueInv, QueueNamed, FdInv, Ready
<1> QED BY <1>t, <1>1, <1>2, <1>3, <1>b, <1>5 DEF IInv, TypeOK

(* To remove the name of the queue is noted. *)
LEMMA Inv_Close_unlink ==
  ASSUME IInv, NEW p \in Role, Close_unlink(p)
  PROVE  IInv'
<1>0. TypeOfEnds /\ FdInv /\ NameInv /\ BoxInv /\ QueueInv /\ QueueNamed
  BY DEF IInv, TypeOK
<1> USE Constants, <1>0 DEF Close_unlink, TypeOfEnds, Role, to, info, timing
<1>t. TypeOfTimes' /\ TimeInv' /\ DeadlineExact'
  <2>1. UNCHANGED timing /\ \A q \in Role : type'[q] = type[q] \/ pc[q] \notin {"read", "write"}
    OBVIOUS
  <2>2. \A q \in Role : pc'[q] \notin {"read", "write"} => pc[q] \notin {"read", "write"}
    OBVIOUS
  <2> QED BY <2>1, <2>2, TimesKept DEF IInv, TypeOK
<1>1. TypeOfEnds'
  OBVIOUS
<1>2. FdInv'
  BY DEF FdInv, Ready
<1>3. NameInv'
  BY PeerFact DEF NameInv, FdInv, Ready
<1>b. TypeOfBoxes' /\ BoxInv'
  <2>1. \A q \in Role : path'[q] = path[q]
    OBVIOUS
  <2> QED BY <2>1, ForgetFact DEF IInv, TypeOK
<1>5. QueueInv' /\ QueueNamed'
  BY DEF QueueInv, QueueNamed, FdInv, Ready
<1> QED BY <1>t, <1>1, <1>2, <1>3, <1>b, <1>5 DEF IInv, TypeOK

(* The descriptor goes, and with it what nobody can read. *)
LEMMA Inv_Close ==
  ASSUME IInv, NEW p \in Role, Close(p)
  PROVE  IInv'
<1>0. TypeOfEnds /\ FdInv /\ NameInv /\ BoxInv /\ QueueInv /\ QueueNamed
  BY DEF IInv, TypeOK
<1> USE Constants, <1>0 DEF Close, TypeOfEnds, Role, to, info, timing
<1>t. TypeOfTimes' /\ TimeInv' /\ DeadlineExact'
  <2>1. UNCHANGED timing /\ \A q \in Role : type'[q] = type[q] \/ pc[q] \notin {"read", "write"}
    OBVIOUS
  <2>2. \A q \in Role : pc'[q] \notin {"read", "write"} => pc[q] \notin {"read", "write"}
    OBVIOUS
  <2> QED BY <2>1, <2>2, TimesKept DEF IInv, TypeOK
<1>1. TypeOfEnds'
  OBVIOUS
<1>2. FdInv'
  BY DEF FdInv, Ready
<1>3. NameInv'
  BY PeerFact DEF NameInv, FdInv, Ready
<1>b. TypeOfBoxes' /\ BoxInv'
  <2>1. \A q \in Role : path'[q] = path[q]
    OBVIOUS
  <2> QED BY <2>1, ForgetFact DEF IInv, TypeOK
<1>5. QueueInv' /\ QueueNamed'
  BY DEF QueueInv, QueueNamed, FdInv, Ready
<1> QED BY <1>t, <1>1, <1>2, <1>3, <1>b, <1>5 DEF IInv, TypeOK

(* A process that is killed leaves its names, and nothing else. *)
LEMMA Inv_kill ==
  ASSUME IInv, NEW p \in Role, kill(p)
  PROVE  IInv'
<1>0. TypeOfEnds /\ FdInv /\ NameInv /\ BoxInv /\ QueueInv /\ QueueNamed
  BY DEF IInv, TypeOK
<1> USE Constants, <1>0 DEF kill, TypeOfEnds, Role, to, info, timing, fault
<1>t. TypeOfTimes' /\ TimeInv' /\ DeadlineExact'
  <2>1. /\ wait' = [wait EXCEPT ![p] = 0] /\ clock' = [clock EXCEPT ![p] = 0]
        /\ deadline' = [deadline EXCEPT ![p] = NoDeadline]
        /\ \A q \in Role \ {p} : type'[q] = type[q] /\ pc'[q] = pc[q]
    OBVIOUS
  <2> QED BY <2>1, TimesReset DEF IInv, TypeOK
<1>1. TypeOfEnds'
  OBVIOUS
<1>2. FdInv'
  BY DEF FdInv, Ready
<1>3. NameInv'
  BY PeerFact DEF NameInv, FdInv, Ready
<1>b. TypeOfBoxes' /\ BoxInv'
  <2>1. \A q \in Role : path'[q] = path[q]
    OBVIOUS
  <2> QED BY <2>1, ForgetFact DEF IInv, TypeOK
<1>5. QueueInv' /\ QueueNamed'
  BY DEF QueueInv, QueueNamed, FdInv, Ready
<1> QED BY <1>t, <1>1, <1>2, <1>3, <1>b, <1>5 DEF IInv, TypeOK

-----------------------------------------------------------------------------
(* Every step of either process keeps the invariant. *)
LEMMA NextInv == IInv /\ [Next]_vars => IInv'
<1> SUFFICES ASSUME IInv, [Next]_vars PROVE IInv'
  OBVIOUS
<1>1. ASSUME NEW p \in Role, NEW t \in {"SOCKET", "MQUEUE"}, Open_begin(p, t) PROVE IInv'
  BY <1>1, Inv_Open_begin
<1>2. ASSUME NEW p \in Role, Opening(p) PROVE IInv'
  BY <1>2, Inv_Open_unlink, Inv_Open_bind, Inv_Open_bind_fails, Inv_Open_mq, Inv_Open_mq_fails,
     Inv_Open_mq_unlink DEF Opening
<1>3. ASSUME NEW p \in Role, NEW ms \in 0 .. MaxTimeout, NEW now \in Clock,
             Read(p, ms, now) \/ Write(p, ms, now)
      PROVE  IInv'
  BY <1>3, Inv_Read, Inv_Write
<1>4. ASSUME NEW p \in Role,
             rejected(p) \/ receive(p) \/ send(p) \/ send_fails(p) \/ time_out(p)
      PROVE  IInv'
  BY <1>4, Inv_rejected, Inv_receive, Inv_send, Inv_send_fails, Inv_time_out
<1>5. ASSUME NEW p \in Role, Close_unlink(p) \/ Close(p) \/ kill(p) PROVE IInv'
  BY <1>5, Inv_Close_unlink, Inv_Close, Inv_kill
<1>6. CASE UNCHANGED vars
  BY <1>6 DEF vars, IInv, TypeOK, TypeOfEnds, TypeOfBoxes, TypeOfTimes, FdInv, NameInv, BoxInv, QueueInv, QueueNamed, TimeInv,
              DeadlineExact, Ready, Open, Timed
<1> QED BY <1>1, <1>2, <1>3, <1>4, <1>5, <1>6 DEF Next, Exchange

(* The invariant holds in every state, for any number of kills and failures. *)
THEOREM Invariance == Spec => []IInv
  BY InitInv, NextInv, PTL DEF Spec

(* The name of an open socket leads to the socket its process has now, and    *)
(* holds only what the peer sent, whatever lives and kills came before.       *)
THEOREM Connected == Spec => []SocketsConnected
<1>1. IInv => SocketsConnected
  <2> SUFFICES ASSUME IInv, NEW p \in Role
               PROVE  /\ Ready(p) => fds[p] = {fd[p]}
                      /\ pc[p] \in {"idle", "failed"} => fds[p] = {}
                      /\ Ready(p) /\ type[p] = "SOCKET" =>
                           path[p] = fd[p] /\ Range(box[fd[p]]) \subseteq {Peer(p)}
    BY DEF SocketsConnected
  <2>1. (Ready(p) => fds[p] = {fd[p]}) /\ (pc[p] \in {"idle", "failed"} => fds[p] = {})
    BY DEF IInv, FdInv, Ready
  <2>2. ASSUME Ready(p), type[p] = "SOCKET"
        PROVE  path[p] = fd[p] /\ Range(box[fd[p]]) \subseteq {Peer(p)}
    <3>1. path[p] = fd[p] /\ fd[p] \in Obj
      BY <2>2, Constants DEF IInv, FdInv, NameInv, TypeOK, TypeOfEnds
    <3>2. \A i \in 1 .. Len(box[fd[p]]) : box[fd[p]][i] = Peer(p)
      BY <3>1, Constants DEF IInv, BoxInv
    <3>3. box[fd[p]] \in Seq(Role)
      BY <3>1 DEF IInv, TypeOK, TypeOfBoxes
    <3>4. DOMAIN box[fd[p]] = 1 .. Len(box[fd[p]])
      BY <3>3
    <3> QED BY <3>1, <3>2, <3>4 DEF Range
  <2> QED BY <2>1, <2>2
<1> QED BY <1>1, Invariance, PTL

(* The server's queue keeps its name, unless an end was closed since, or a    *)
(* client that had failed to open the queue removes the name.                 *)
THEOREM NameKept == Spec => []QueueNamed
<1>1. IInv => QueueNamed
  BY DEF IInv
<1> QED BY <1>1, Invariance, PTL

(* For every clock, timeout and unit of time, the deadline of a timed call is *)
(* the time of the call plus the timeout, and one the kernel accepts unless   *)
(* it falls on a second exactly.                                              *)
THEOREM Deadlines == Spec => []DeadlineExact
<1>1. IInv => DeadlineExact
  BY DEF IInv
<1> QED BY <1>1, Invariance, PTL

-----------------------------------------------------------------------------
(* FrameIpc. *)
USE FrameAssumption DEF FrameIInv, Gen, Process

(* The bounds of the kernel leave room for 0. *)
LEMMA Zero == 0 \in 0 .. SEMVMX /\ 0 \in (-SEMAEM - 1) .. SEMAEM
  OBVIOUS

(* No segment and no semaphore exists before the producer starts. *)
LEMMA FrameInitInv == FrameInit => FrameIInv
<1> SUFFICES ASSUME FrameInit PROVE FrameIInv
  OBVIOUS
<1>1. FrameTypeOK
  BY DEF FrameInit, FrameTypeOK
<1>2. IdInv /\ PostInv
  BY DEF FrameInit, IdInv, PostInv, Attached
<1>3. ConsumerInv /\ ProducerInv
  BY DEF FrameInit, ConsumerInv, ProducerInv, Exists
<1> QED BY <1>1, <1>2, <1>3
-----------------------------------------------------------------------------
(* A new generation is one nobody knows. *)
LEMMA Inv_create_shm ==
  ASSUME SemUndo = FALSE, FrameIInv, create_shm
  PROVE  FrameIInv'
<1> USE DEF create_shm, shmvars, semvars, ids, goto, Mapped
<1>a. PICK g \in Gen \ {0} :
        /\ shm[g] = "none"
        /\ shm' = [h \in Gen |->
             IF h = g THEN "live"
             ELSE IF h = shm_key /\ shm[h] = "live"
             THEN IF Mapped(h) THEN "marked" ELSE "gone"
             ELSE shm[h]]
        /\ shm_key' = g
        /\ shm_id' = [shm_id EXCEPT !["producer"] = g]
  OBVIOUS
<1>1. FrameTypeOK'
  BY <1>a DEF FrameTypeOK, PostInv, IdInv, ProducerInv, ConsumerInv
<1> HIDE DEF create_shm
<1>b. goto("producer", "off", "create_sem") /\ UNCHANGED <<flag, fresh, semvars, sem_id, spoiled>>
  BY DEF create_shm
<1>2. IdInv'
  <2>1. \A h \in Gen \ {0} : shm'[h] = "none" =>
          /\ sem'[h] = "none" /\ val'[h] = 0 /\ flag'[h] = 0 /\ ~ fresh'[h]
          /\ h # shm_key' /\ \A p \in Process : shm_id'[p] # h
    BY <1>a, <1>b DEF FrameTypeOK, IdInv
  <2>2. shm'[0] = "none" /\ sem'[0] = "none" /\ val'[0] = 0
    BY <1>a, <1>b DEF FrameTypeOK, IdInv
  <2>3. /\ sem_key' # 0 => sem'[sem_key'] = "live"
        /\ at'["consumer"] # "off" => shm_id'["consumer"] # 0
    BY <1>a, <1>b DEF FrameTypeOK, IdInv
  <2>7. at'["consumer"] # "off" /\ Exists(shm_id["consumer"])' => Exists(shm_id["consumer"])
    BY <1>a, <1>b DEF FrameTypeOK, IdInv, Exists
  <2>8. /\ at'["consumer"] = "get_sem" /\ Exists(shm_id["consumer"])' =>
             sem_key' = shm_id'["consumer"]
        /\ at'["consumer"] \notin {"off", "get_sem"} /\ Exists(shm_id["consumer"])' =>
             /\ sem_id'["consumer"] = shm_id'["consumer"]
             /\ sem'[shm_id'["consumer"]] # "none"
    BY <1>a, <1>b, <2>7 DEF FrameTypeOK, IdInv
  <2>4. \A h \in Gen : shm'[h] = "live" => shm_key' = h
    BY <1>a, <1>b DEF FrameTypeOK, IdInv
  <2>5. \A h \in Gen : shm'[h] = "marked" => Attached("consumer")' /\ shm_id'["consumer"] = h
    BY <1>a, <1>b DEF FrameTypeOK, IdInv, Attached
  <2>6. \A h \in Gen : sem'[h] = "gone" => shm'[h] \in {"marked", "gone"}
    BY <1>a, <1>b DEF FrameTypeOK, IdInv
  <2> QED BY <2>1, <2>2, <2>3, <2>4, <2>5, <2>6, <2>8 DEF IdInv
<1> USE DEF create_shm
<1>3. PostInv'
  BY <1>a DEF FrameTypeOK, IdInv, PostInv, ProducerInv, ConsumerInv, Exists
<1>4. ConsumerInv'
  BY <1>a DEF FrameTypeOK, IdInv, PostInv, ConsumerInv, ProducerInv, Exists, Attached
<1>5. ProducerInv'
  BY <1>a DEF FrameTypeOK, IdInv, PostInv, ConsumerInv, ProducerInv, Exists
<1> QED BY <1>1, <1>2, <1>3, <1>4, <1>5

(* The old semaphore goes after its segment. *)
LEMMA Inv_create_sem ==
  ASSUME SemUndo = FALSE, FrameIInv, create_sem
  PROVE  FrameIInv'
<1> USE DEF create_sem, shmvars, semvars, ids, goto
<1>1. FrameTypeOK'
  BY DEF FrameTypeOK, PostInv, IdInv, ProducerInv, ConsumerInv
<1>2. IdInv'
  <2> DEFINE g == shm_id["producer"]
  <2>1. g \in Gen \ {0} /\ shm_key = g /\ shm[g] = "live" /\ sem[g] = "none" /\ sem \in [Gen -> {"none", "live", "gone"}]
    BY DEF FrameTypeOK, ProducerInv
  <2>2. /\ UNCHANGED <<shm, val, flag, fresh, shm_key, shm_id>> /\ sem_key' = g /\ sem'[g] = "live"
        /\ \A h \in Gen \ {g} : sem'[h] = sem[h] \/ (h = sem_key /\ sem[h] = "live" /\ sem'[h] = "gone")
    BY <2>1
  <2>3. /\ at'["consumer"] = at["consumer"] /\ sem_id'["consumer"] = sem_id["consumer"]
        /\ at["consumer"] # "off" => shm_id["consumer"] # g
    BY DEF FrameTypeOK, ProducerInv
  <2>4. Attached("consumer")' <=> Attached("consumer")
    BY <2>3 DEF Attached
  <2>5. \A h \in Gen : shm[h] = "live" => h = g
    BY <2>1 DEF IdInv
  <2>6. sem_key # 0 /\ sem_key # g => shm[sem_key] # "none"
    BY DEF FrameTypeOK, IdInv
  <2>7. shm_id["consumer"] \in Gen /\ sem_key \in Gen /\ 0 \in Gen
    BY DEF FrameTypeOK
  <2> HIDE DEF Gen, create_sem, g
  <2>8. \A h \in Gen : sem'[h] = "gone" => shm'[h] \in {"marked", "gone"}
    BY <2>1, <2>2, <2>5, <2>6 DEF IdInv, FrameTypeOK
  <2>9. at["consumer"] = "get_sem" => ~ Exists(shm_id["consumer"])
    BY <2>3, <2>5, <2>7 DEF IdInv, Exists, Attached
  <2>10. at["consumer"] \notin {"off", "get_sem"} /\ Exists(shm_id["consumer"]) =>
           sem_id["consumer"] = shm_id["consumer"] /\ sem'[shm_id["consumer"]] # "none"
    BY <2>2, <2>3, <2>7 DEF IdInv
  <2>11. \A h \in Gen \ {0} : shm[h] = "none" => sem'[h] = "none"
    BY <2>1, <2>2, <2>6 DEF IdInv
  <2>12. sem'[0] = "none"
    BY <2>1, <2>2, <2>7 DEF IdInv
  <2> QED BY <2>1, <2>2, <2>3, <2>4, <2>8, <2>9, <2>10, <2>11, <2>12 DEF IdInv, Exists
<1>3. PostInv'
  BY DEF FrameTypeOK, IdInv, PostInv, ProducerInv, ConsumerInv, Exists
<1>4. ConsumerInv'
  BY DEF FrameTypeOK, IdInv, PostInv, ConsumerInv, ProducerInv, Exists, Attached
<1>5. ProducerInv'
  BY DEF FrameTypeOK, IdInv, PostInv, ConsumerInv, ProducerInv, Exists
<1> QED BY <1>1, <1>2, <1>3, <1>4, <1>5

(* A new pair has no frame and no post. *)
LEMMA Inv_init_frame ==
  ASSUME SemUndo = FALSE, FrameIInv, init_frame
  PROVE  FrameIInv'
<1> USE DEF init_frame, shmvars, semvars, ids, goto
<1>1. FrameTypeOK'
  BY DEF FrameTypeOK, PostInv, IdInv, ProducerInv, ConsumerInv
<1>2. IdInv'
  BY DEF FrameTypeOK, IdInv, ProducerInv, ConsumerInv, Attached, Exists
<1>3. PostInv'
  BY DEF FrameTypeOK, IdInv, PostInv, ProducerInv, ConsumerInv, Exists
<1>4. ConsumerInv'
  BY DEF FrameTypeOK, IdInv, PostInv, ConsumerInv, ProducerInv, Exists, Attached
<1>5. ProducerInv'
  BY DEF FrameTypeOK, IdInv, PostInv, ConsumerInv, ProducerInv, Exists
<1> QED BY <1>1, <1>2, <1>3, <1>4, <1>5

(* A clear flag means that nobody has the frame. *)
LEMMA Inv_check_flag ==
  ASSUME SemUndo = FALSE, FrameIInv, check_flag
  PROVE  FrameIInv'
<1> USE DEF check_flag, shmvars, semvars, ids, goto
<1>1. FrameTypeOK'
  BY DEF FrameTypeOK, PostInv, IdInv, ProducerInv, ConsumerInv
<1>2. IdInv'
  BY DEF FrameTypeOK, IdInv, ProducerInv, ConsumerInv, Attached, Exists
<1>3. PostInv'
  BY DEF FrameTypeOK, IdInv, PostInv, ProducerInv, ConsumerInv, Exists
<1>4. ConsumerInv'
  BY DEF FrameTypeOK, IdInv, PostInv, ConsumerInv, ProducerInv, Exists, Attached
<1>5. ProducerInv'
  BY DEF FrameTypeOK, IdInv, PostInv, ConsumerInv, ProducerInv, Exists
<1> QED BY <1>1, <1>2, <1>3, <1>4, <1>5

(* The producer has the segment to itself. *)
LEMMA Inv_write_header ==
  ASSUME SemUndo = FALSE, FrameIInv, write_header
  PROVE  FrameIInv'
<1> USE DEF write_header, shmvars, semvars, ids, goto
<1>1. FrameTypeOK'
  BY DEF FrameTypeOK, PostInv, IdInv, ProducerInv, ConsumerInv
<1>2. IdInv'
  BY DEF FrameTypeOK, IdInv, ProducerInv, ConsumerInv, Attached, Exists
<1>3. PostInv'
  BY DEF FrameTypeOK, IdInv, PostInv, ProducerInv, ConsumerInv, Exists
<1>4. ConsumerInv'
  BY DEF FrameTypeOK, IdInv, PostInv, ConsumerInv, ProducerInv, Exists, Attached
<1>5. ProducerInv'
  BY DEF FrameTypeOK, IdInv, PostInv, ConsumerInv, ProducerInv, Exists
<1> QED BY <1>1, <1>2, <1>3, <1>4, <1>5

(* The frame is complete before it is posted. *)
LEMMA Inv_copy_data ==
  ASSUME SemUndo = FALSE, FrameIInv, copy_data
  PROVE  FrameIInv'
<1> USE DEF copy_data, shmvars, semvars, ids, goto
<1>1. FrameTypeOK'
  BY DEF FrameTypeOK, PostInv, IdInv, ProducerInv, ConsumerInv
<1>2. IdInv'
  BY DEF FrameTypeOK, IdInv, ProducerInv, ConsumerInv, Attached, Exists
<1>3. PostInv'
  BY DEF FrameTypeOK, IdInv, PostInv, ProducerInv, ConsumerInv, Exists
<1>4. ConsumerInv'
  BY DEF FrameTypeOK, IdInv, PostInv, ConsumerInv, ProducerInv, Exists, Attached
<1>5. ProducerInv'
  BY DEF FrameTypeOK, IdInv, PostInv, ConsumerInv, ProducerInv, Exists
<1> QED BY <1>1, <1>2, <1>3, <1>4, <1>5

(* The post hands the frame from the producer to the semaphore. *)
LEMMA Inv_post ==
  ASSUME SemUndo = FALSE, FrameIInv, post
  PROVE  FrameIInv'
<1> DEFINE g == shm_id["producer"]
<1> USE DEF post, shmvars, semvars, ids, goto
<1>0. g \in Gen /\ sem_id["producer"] = g /\ sem[g] = "live" /\ val[g] \in 0 .. SEMVMX
  BY DEF FrameTypeOK, ProducerInv
<1>a. /\ UNCHANGED <<sem, adj, sem_key>>
      /\ val' = val \/ val' = [val EXCEPT ![g] = @ + 1]
      /\ val[g] + 1 <= SEMVMX => val' = [val EXCEPT ![g] = @ + 1]
      /\ val[g] + 1 > SEMVMX => val' = val
  BY <1>0 DEF sem_op_, sem_op_fails
<1>b. g \notin spoiled => val[g] = 0 /\ val' = [val EXCEPT ![g] = 1]
  BY <1>0, <1>a DEF FrameTypeOK, ProducerInv
<1>1. FrameTypeOK'
  <2>1. val' \in [Gen -> 0 .. SEMVMX]
    <3>1. val \in [Gen -> 0 .. SEMVMX]
      BY DEF FrameTypeOK
    <3>2. CASE val[g] + 1 <= SEMVMX
      <4>1. val[g] + 1 \in 0 .. SEMVMX
        BY <1>0, <3>2
      <4> QED BY <1>a, <3>1, <3>2, <4>1
    <3> QED BY <1>0, <1>a, <3>1, <3>2
  <2> QED BY <2>1, <1>a DEF FrameTypeOK
<1> HIDE DEF Gen
<1>c. \A h \in Gen \ {g} : val'[h] = val[h]
  BY <1>0, <1>a DEF FrameTypeOK
<1>2. IdInv'
  <2>1. \A h \in Gen : shm[h] = "none" => h # g
    BY DEF ProducerInv
  <2>2. UNCHANGED <<sem, sem_key, shm, flag, fresh, shm_key, shm_id, sem_id>>
    BY <1>a
  <2>3. \A h \in Gen : shm'[h] = "none" => val'[h] = val[h]
    BY <1>c, <2>1, <2>2
  <2>4. /\ at'["consumer"] = at["consumer"] /\ (Attached("consumer")' <=> Attached("consumer"))
        /\ 0 \in Gen
    BY DEF FrameTypeOK, Attached, Gen
  <2> HIDE DEF post, g
  <2> QED BY <2>2, <2>3, <2>4 DEF IdInv, Exists
<1>3. PostInv'
  BY <1>0, <1>a, <1>b, <1>c DEF FrameTypeOK, PostInv, ProducerInv
<1>4. ConsumerInv'
  BY <1>0, <1>a, <1>c DEF FrameTypeOK, ConsumerInv, ProducerInv, Exists
<1>5. ProducerInv'
  BY <1>0, <1>a DEF FrameTypeOK, ProducerInv
<1> QED BY <1>1, <1>2, <1>3, <1>4, <1>5

(* A consumer starts with the segment of the running producer. *)
LEMMA Inv_get_shm ==
  ASSUME SemUndo = FALSE, FrameIInv, get_shm
  PROVE  FrameIInv'
<1> USE DEF get_shm, shmvars, semvars, ids, goto
<1>1. FrameTypeOK'
  BY DEF FrameTypeOK, PostInv, IdInv, ProducerInv, ConsumerInv
<1>2. IdInv'
  <2>1. /\ UNCHANGED <<shm, sem, val, flag, fresh, shm_key, sem_key, sem_id>>
        /\ shm_key \in Gen /\ shm_id' = [shm_id EXCEPT !["consumer"] = shm_key]
        /\ at'["consumer"] = "get_sem" /\ at["consumer"] = "off"
        /\ shm_id \in [Process -> Gen]
    BY DEF FrameTypeOK
  <2>2. shm_key # 0 /\ shm[shm_key] = "live" /\ sem_key = shm_key
    BY DEF ProducerInv
  <2>3. shm_id'["consumer"] = shm_key /\ shm_id'["producer"] = shm_id["producer"]
    BY <2>1
  <2>4. \A g \in Gen : shm[g] # "marked"
    BY <2>1 DEF IdInv, Attached
  <2> HIDE DEF Gen, get_shm
  <2>5. \A g \in Gen \ {0} : shm'[g] = "none" =>
          /\ sem'[g] = "none" /\ val'[g] = 0 /\ flag'[g] = 0 /\ ~ fresh'[g]
          /\ g # shm_key' /\ \A p \in Process : shm_id'[p] # g
    BY <2>1, <2>2, <2>3 DEF IdInv
  <2> QED BY <2>1, <2>2, <2>3, <2>4, <2>5 DEF IdInv
<1>3. PostInv'
  BY DEF FrameTypeOK, IdInv, PostInv, ProducerInv, ConsumerInv, Exists
<1>4. ConsumerInv'
  BY DEF FrameTypeOK, IdInv, PostInv, ConsumerInv, ProducerInv, Exists, Attached
<1>5. ProducerInv'
  BY DEF FrameTypeOK, IdInv, PostInv, ConsumerInv, ProducerInv, Exists
<1> QED BY <1>1, <1>2, <1>3, <1>4, <1>5

(* The semaphore it finds is of the same generation, or its segment is gone. *)
LEMMA Inv_get_sem ==
  ASSUME SemUndo = FALSE, FrameIInv, get_sem
  PROVE  FrameIInv'
<1> USE DEF get_sem, shmvars, semvars, ids, goto
<1>1. FrameTypeOK'
  BY DEF FrameTypeOK, PostInv, IdInv, ProducerInv, ConsumerInv
<1>2. IdInv'
  BY DEF FrameTypeOK, IdInv, ProducerInv, ConsumerInv, Attached, Exists
<1>3. PostInv'
  BY DEF FrameTypeOK, IdInv, PostInv, ProducerInv, ConsumerInv, Exists
<1>4. ConsumerInv'
  BY DEF FrameTypeOK, IdInv, PostInv, ConsumerInv, ProducerInv, Exists, Attached
<1>5. ProducerInv'
  BY DEF FrameTypeOK, IdInv, PostInv, ConsumerInv, ProducerInv, Exists
<1> QED BY <1>1, <1>2, <1>3, <1>4, <1>5

(* An interrupted wait exempts the segment from what follows. *)
LEMMA Inv_take_interrupted ==
  ASSUME SemUndo = FALSE, FrameIInv, take_interrupted
  PROVE  FrameIInv'
<1> USE DEF take_interrupted, shmvars, semvars, ids, goto
<1>1. FrameTypeOK'
  <2>1. shm_id["consumer"] \in Gen /\ spoiled \subseteq Gen
    BY DEF FrameTypeOK
  <2>2. spoiled' \subseteq Gen
    BY <2>1
  <2> HIDE DEF Gen
  <2> QED BY <2>2 DEF FrameTypeOK
<1>2. IdInv'
  BY DEF FrameTypeOK, IdInv, ProducerInv, ConsumerInv, Attached, Exists
<1>3. PostInv'
  <2>1. /\ Gen \ spoiled' \subseteq Gen \ spoiled
        /\ UNCHANGED <<adj, val, flag, fresh, data>>
    OBVIOUS
  <2> HIDE DEF Gen, take_interrupted
  <2> QED BY <2>1 DEF PostInv
<1>4. ConsumerInv'
  BY DEF FrameTypeOK, IdInv, PostInv, ConsumerInv, ProducerInv, Exists, Attached
<1>5. ProducerInv'
  BY DEF FrameTypeOK, IdInv, PostInv, ConsumerInv, ProducerInv, Exists
<1> QED BY <1>1, <1>2, <1>3, <1>4, <1>5

(* The consumer takes the frame from the semaphore; if the semaphore is *)
(* gone or of another generation, the segment is gone.                  *)
LEMMA Inv_take ==
  ASSUME SemUndo = FALSE, FrameIInv, take
  PROVE  FrameIInv'
<1> DEFINE g == shm_id["consumer"]
           h == sem_id["consumer"]
<1> USE DEF take, shmvars, semvars, ids, goto
<1>0. \/ /\ sem[h] = "live" /\ val[h] >= 1
         /\ val' = [val EXCEPT ![h] = @ - 1]
         /\ UNCHANGED <<sem, adj, sem_key>>
      \/ /\ sem[h] # "live"
         /\ UNCHANGED semvars
  <2>1. h \in Gen /\ val[h] \in 0 .. SEMVMX
    BY DEF FrameTypeOK
  <2>2. sem_op_fails("consumer", -1) <=> sem[h] # "live"
    BY <2>1 DEF sem_op_fails
  <2>3. CASE sem_op_fails("consumer", -1)
    BY <2>2, <2>3 DEF sem_op_
  <2>4. CASE ~ sem_op_fails("consumer", -1)
    BY <2>1, <2>2, <2>4 DEF sem_op_
  <2> QED BY <2>3, <2>4
<1>b. Exists(g) => h = g
  BY DEF IdInv
<1>1. CASE /\ sem[h] = "live" /\ val[h] >= 1
           /\ val' = [val EXCEPT ![h] = @ - 1]
           /\ UNCHANGED <<sem, adj, sem_key>>
  <2>a. h \notin spoiled => val[h] = 1 /\ flag[h] = 1 /\ fresh[h]
    BY <1>1 DEF FrameTypeOK, PostInv
  <2>b. /\ h \in Gen /\ val[h] \in 0 .. SEMVMX
        /\ val' = [val EXCEPT ![h] = val[h] - 1]
    BY <1>1 DEF FrameTypeOK
  <2>c. /\ val' \in [Gen -> 0 .. SEMVMX] /\ val'[h] = val[h] - 1
        /\ \A z \in Gen \ {h} : val'[z] = val[z]
    <3>1. val \in [Gen -> 0 .. SEMVMX] /\ val[h] >= 1
      BY <1>1 DEF FrameTypeOK
    <3>2. val[h] - 1 \in 0 .. SEMVMX
      BY <2>b, <3>1
    <3> HIDE DEF Gen, h
    <3> QED BY <2>b, <3>1, <3>2
  <2>d. /\ UNCHANGED <<sem, adj, sem_key, shm, flag, data, fresh, shm_key, shm_id, sem_id, spoiled>>
        /\ at["consumer"] = "wait" /\ at' = [at EXCEPT !["consumer"] = "attach"]
    BY <1>1
  <2> HIDE DEF take
  <2>1. FrameTypeOK'
    BY <2>c, <2>d DEF FrameTypeOK
  <2>2. IdInv'
    <3>1. \A z \in Gen : shm[z] = "none" => val'[z] = val[z]
      BY <1>1, <2>c DEF IdInv
    <3>2. 0 \in Gen /\ at'["consumer"] = "attach" /\ ~ Attached("consumer")
      BY <2>d DEF FrameTypeOK, Attached
    <3> HIDE DEF Gen, h
    <3> QED BY <2>d, <3>1, <3>2 DEF IdInv, Exists
  <2>3. PostInv'
    BY <2>a, <2>b, <2>c, <2>d DEF PostInv
  <2>4. ConsumerInv'
    BY <1>b, <2>a, <2>c, <2>d DEF FrameTypeOK, ConsumerInv, Exists
  <2>5. ProducerInv'
    <3>1. at'["consumer"] = "attach" /\ at'["producer"] = at["producer"]
      BY <2>d DEF FrameTypeOK
    <3>2. at["producer"] # "off" => shm_id["producer"] # 0 /\ Exists(shm_id["producer"])
      BY DEF ProducerInv, Exists
    <3>3. at["producer"] # "off" /\ g = shm_id["producer"] => h = g
      BY <1>b, <3>2
    <3>4. shm_id["producer"] # h => val'[shm_id["producer"]] = val[shm_id["producer"]]
      BY <2>c DEF FrameTypeOK
    <3>5. shm_id["producer"] = h => /\ at["producer"] \notin {"create_sem", "init"}
                                    /\ h \notin spoiled => at["producer"] \in {"off", "check"}
      <4>1. val[h] # 0 /\ at["producer"] \in {"off", "create_sem", "init", "check", "write", "copy", "post"}
        BY <1>1, <2>b DEF FrameTypeOK
      <4> HIDE DEF h
      <4> QED BY <4>1 DEF ProducerInv
    <3> HIDE DEF Gen, h, g
    <3> QED BY <2>d, <3>1, <3>3, <3>4, <3>5 DEF ProducerInv, g
  <2> QED BY <2>1, <2>2, <2>3, <2>4, <2>5
<1>2. CASE sem[h] # "live" /\ UNCHANGED semvars
  <2>a. ~ Exists(g)
    BY <1>2, <1>b DEF FrameTypeOK, IdInv, Attached, Exists
  <2>1. FrameTypeOK'
    BY <1>2 DEF FrameTypeOK
  <2>2. IdInv'
    BY <1>2 DEF FrameTypeOK, IdInv, Attached, Exists
  <2>3. PostInv'
    BY <1>2 DEF FrameTypeOK, PostInv
  <2>4. ConsumerInv'
    BY <1>2, <2>a DEF FrameTypeOK, ConsumerInv, Exists
  <2>5. ProducerInv'
    BY <1>2, <2>a DEF FrameTypeOK, IdInv, ProducerInv, Exists
  <2> QED BY <2>1, <2>2, <2>3, <2>4, <2>5
<1> QED BY <1>0, <1>1, <1>2

(* Mapping the segment changes nothing for the producer. *)
LEMMA Inv_attach ==
  ASSUME SemUndo = FALSE, FrameIInv, attach
  PROVE  FrameIInv'
<1> USE DEF attach, shmvars, semvars, ids, goto
<1>1. FrameTypeOK'
  BY DEF FrameTypeOK, PostInv, IdInv, ProducerInv, ConsumerInv
<1>2. IdInv'
  BY DEF FrameTypeOK, IdInv, ProducerInv, ConsumerInv, Attached, Exists
<1>3. PostInv'
  BY DEF FrameTypeOK, IdInv, PostInv, ProducerInv, ConsumerInv, Exists
<1>4. ConsumerInv'
  BY DEF FrameTypeOK, IdInv, PostInv, ConsumerInv, ProducerInv, Exists, Attached
<1>5. ProducerInv'
  BY DEF FrameTypeOK, IdInv, PostInv, ConsumerInv, ProducerInv, Exists
<1> QED BY <1>1, <1>2, <1>3, <1>4, <1>5

(* The frame is read while the flag keeps the producer away. *)
LEMMA Inv_read_frame ==
  ASSUME SemUndo = FALSE, FrameIInv, read_frame
  PROVE  FrameIInv'
<1> USE DEF read_frame, shmvars, semvars, ids, goto
<1>1. FrameTypeOK'
  BY DEF FrameTypeOK, PostInv, IdInv, ProducerInv, ConsumerInv
<1>2. IdInv'
  BY DEF FrameTypeOK, IdInv, ProducerInv, ConsumerInv, Attached, Exists
<1>3. PostInv'
  BY DEF FrameTypeOK, IdInv, PostInv, ProducerInv, ConsumerInv, Exists
<1>4. ConsumerInv'
  BY DEF FrameTypeOK, IdInv, PostInv, ConsumerInv, ProducerInv, Exists, Attached
<1>5. ProducerInv'
  BY DEF FrameTypeOK, IdInv, PostInv, ConsumerInv, ProducerInv, Exists
<1> QED BY <1>1, <1>2, <1>3, <1>4, <1>5

(* The cleared flag hands the segment back. *)
LEMMA Inv_DeattachSharedFrame ==
  ASSUME SemUndo = FALSE, FrameIInv, DeattachSharedFrame
  PROVE  FrameIInv'
<1> USE DEF DeattachSharedFrame, shmvars, semvars, ids, goto, Unmap
<1>1. FrameTypeOK'
  BY DEF FrameTypeOK, PostInv, IdInv, ProducerInv, ConsumerInv
<1>2. IdInv'
  BY DEF FrameTypeOK, IdInv, ProducerInv, ConsumerInv, Attached, Exists
<1>3. PostInv'
  BY DEF FrameTypeOK, IdInv, PostInv, ProducerInv, ConsumerInv, Exists
<1>4. ConsumerInv'
  BY DEF FrameTypeOK, IdInv, PostInv, ConsumerInv, ProducerInv, Exists, Attached
<1>5. ProducerInv'
  BY DEF FrameTypeOK, IdInv, PostInv, ConsumerInv, ProducerInv, Exists
<1> QED BY <1>1, <1>2, <1>3, <1>4, <1>5

(* A consumer that ends lets go of a segment that was kept for it only. *)
LEMMA ConsumerEnds ==
  ASSUME FrameIInv, at["consumer"] # "off", exit("consumer"), UNCHANGED <<val, adj>>
  PROVE  IdInv'
<1>1. /\ UNCHANGED <<sem, val, flag, fresh, shm_key, sem_key, shm_id, sem_id>>
      /\ at'["consumer"] = "off"
  BY DEF exit, FrameTypeOK, ids
<1>2. \A g \in Gen : /\ shm'[g] \in {shm[g], "gone"}
                     /\ shm'[g] = "none" => shm[g] = "none"
                     /\ shm[g] # "marked" => shm'[g] = shm[g]
                     /\ sem[g] = "gone" => shm'[g] \in {"marked", "gone"}
  BY DEF exit, Unmap, IdInv
<1>3. \A g \in Gen : shm'[g] # "marked"
  BY DEF exit, Unmap, IdInv, Attached, ProducerInv, FrameTypeOK
<1>4. shm_key \in Gen /\ 0 \in Gen
  BY DEF FrameTypeOK
<1> HIDE DEF Gen
<1> QED BY <1>1, <1>2, <1>3, <1>4 DEF IdInv

(* A process that ends leaves the frame where it was: nothing is undone. *)
LEMMA Inv_killed ==
  ASSUME SemUndo = FALSE, FrameIInv, NEW p \in Process, killed(p)
  PROVE  FrameIInv'
<1> USE DEF killed, shmvars, semvars, ids, goto, exit, Unmap
<1>a. UNCHANGED <<val, adj>>
  BY DEF exit, FrameTypeOK, PostInv
<1>1. FrameTypeOK'
  BY <1>a DEF FrameTypeOK, PostInv, IdInv, ProducerInv, ConsumerInv
<1>2. IdInv'
  <2>1. CASE p = "producer"
    BY <1>a, <2>1 DEF FrameTypeOK, IdInv, ProducerInv, ConsumerInv, Attached, Exists
  <2>2. CASE p = "consumer"
    BY <1>a, <2>2, ConsumerEnds DEF killed
  <2> QED BY <2>1, <2>2 DEF Process
<1>3. PostInv'
  <2>1. UNCHANGED <<val, adj, flag, fresh, data, spoiled>>
    BY <1>a
  <2> HIDE DEF killed, exit, Gen
  <2> QED BY <2>1 DEF PostInv
<1>4. ConsumerInv'
  BY <1>a DEF FrameTypeOK, IdInv, PostInv, ConsumerInv, ProducerInv, Exists, Attached
<1>5. ProducerInv'
  BY <1>a DEF FrameTypeOK, IdInv, PostInv, ConsumerInv, ProducerInv, Exists
<1> QED BY <1>1, <1>2, <1>3, <1>4, <1>5

(* So does a consumer that faults. *)
LEMMA Inv_attach_faults ==
  ASSUME SemUndo = FALSE, FrameIInv, attach_faults
  PROVE  FrameIInv'
<1> USE DEF attach_faults, shmvars, semvars, ids, goto, exit, Unmap
<1>a. UNCHANGED <<val, adj>>
  BY DEF exit, FrameTypeOK, PostInv
<1>1. FrameTypeOK'
  <2>1. shm' \in [Gen -> {"none", "live", "marked", "gone"}]
    BY DEF FrameTypeOK
  <2>2. /\ at' = [at EXCEPT !["consumer"] = "off"]
        /\ UNCHANGED <<flag, data, fresh, shm_key, sem, sem_key, shm_id, sem_id, spoiled>>
    OBVIOUS
  <2> HIDE DEF Gen, attach_faults, exit
  <2> QED BY <1>a, <2>1, <2>2 DEF FrameTypeOK
<1>2. IdInv'
  BY <1>a, ConsumerEnds
<1>3. PostInv'
  <2>1. UNCHANGED <<val, adj, flag, fresh, data, spoiled>>
    BY <1>a
  <2> HIDE DEF attach_faults, exit, Gen
  <2> QED BY <2>1 DEF PostInv
<1>4. ConsumerInv'
  BY <1>a DEF FrameTypeOK, IdInv, PostInv, ConsumerInv, ProducerInv, Exists, Attached
<1>5. ProducerInv'
  BY <1>a DEF FrameTypeOK, IdInv, PostInv, ConsumerInv, ProducerInv, Exists
<1> QED BY <1>1, <1>2, <1>3, <1>4, <1>5

(* A segment that is removed while mapped stays for the consumer. *)
LEMMA Inv_DestroySharedFrame ==
  ASSUME SemUndo = FALSE, FrameIInv, DestroySharedFrame
  PROVE  FrameIInv'
<1> USE DEF DestroySharedFrame, shmvars, semvars, ids, goto
<1>1. FrameTypeOK'
  BY Zero DEF FrameTypeOK, PostInv, IdInv, ProducerInv, ConsumerInv
<1>2. IdInv'
  BY Zero DEF FrameTypeOK, IdInv, ProducerInv, ConsumerInv, Attached, Exists
<1>3. PostInv'
  BY Zero DEF FrameTypeOK, IdInv, PostInv, ProducerInv, ConsumerInv, Exists
<1>4. ConsumerInv'
  BY Zero DEF FrameTypeOK, IdInv, PostInv, ConsumerInv, ProducerInv, Exists, Attached
<1>5. ProducerInv'
  BY Zero DEF FrameTypeOK, IdInv, PostInv, ConsumerInv, ProducerInv, Exists
<1> QED BY <1>1, <1>2, <1>3, <1>4, <1>5

-----------------------------------------------------------------------------
(* Every step keeps the invariant. *)
LEMMA FrameNextInv == SemUndo = FALSE /\ FrameIInv /\ [FrameNext]_frameVars => FrameIInv'
<1> SUFFICES ASSUME SemUndo = FALSE, FrameIInv, [FrameNext]_frameVars PROVE FrameIInv'
  OBVIOUS
<1>1. CASE create_shm \/ create_sem \/ init_frame
  BY <1>1, Inv_create_shm, Inv_create_sem, Inv_init_frame
<1>2. CASE Send
  BY <1>2, Inv_check_flag, Inv_write_header, Inv_copy_data, Inv_post DEF Send
<1>3. CASE Get
  BY <1>3, Inv_get_sem, Inv_take, Inv_attach, Inv_read_frame, Inv_DeattachSharedFrame, Inv_attach_faults
     DEF Get
<1>4. CASE get_shm \/ take_interrupted \/ DestroySharedFrame
  BY <1>4, Inv_get_shm, Inv_take_interrupted, Inv_DestroySharedFrame
<1>5. ASSUME NEW p \in Process, killed(p) PROVE FrameIInv'
  BY <1>5, Inv_killed
<1>6. CASE UNCHANGED frameVars
  <2> USE <1>6 DEF frameVars
  <2>1. FrameTypeOK'
    BY DEF FrameTypeOK
  <2>2. IdInv' /\ PostInv'
    BY DEF IdInv, PostInv, Exists, Attached
  <2>3. ConsumerInv' /\ ProducerInv'
    BY DEF ConsumerInv, ProducerInv, Exists
  <2> QED BY <2>1, <2>2, <2>3
<1> QED BY <1>1, <1>2, <1>3, <1>4, <1>5, <1>6 DEF FrameNext

(* Without SEM_UNDO the invariant holds in every state, whoever is killed and *)
(* started again.                                                             *)
THEOREM FrameInvariance == SemUndo = FALSE => (FrameSpec => []FrameIInv)
<1> SUFFICES ASSUME SemUndo = FALSE PROVE FrameSpec => []FrameIInv
  OBVIOUS
<1>1. FrameIInv /\ [FrameNext]_frameVars => FrameIInv'
  BY FrameNextInv
<1> QED BY <1>1, FrameInitInv, PTL DEF FrameSpec

(* Producer and consumer are never on one frame at a time, in any segment of  *)
(* which no frame was taken by an interrupted wait.                           *)
THEOREM Exclusion == SemUndo = FALSE => (FrameSpec => []FrameExclusive)
<1> SUFFICES ASSUME SemUndo = FALSE PROVE FrameSpec => []FrameExclusive
  OBVIOUS
<1>1. FrameIInv => FrameExclusive
  BY DEF FrameExclusive, ProducerInv
<1> QED BY <1>1, FrameInvariance, PTL

(* A frame that is read is complete and unread; none is overwritten unread:   *)
(* in every segment of which no frame was taken by an interrupted wait.       *)
THEOREM HandedOverOnce == SemUndo = FALSE => (FrameSpec => Handover)
<1> DEFINE Step ==
      \A g \in Gen \ spoiled :
        /\ (at["consumer"] = "read" /\ at'["consumer"] = "free" /\ shm_id["consumer"] = g)
             => data[g] = "frame" /\ fresh[g]
        /\ data[g] # "torn" /\ data'[g] = "torn" => ~ fresh[g]
<1> SUFFICES ASSUME SemUndo = FALSE PROVE FrameSpec => Handover
  OBVIOUS
<1>1. FrameIInv /\ [FrameNext]_frameVars => [Step]_frameVars
  <2> SUFFICES ASSUME FrameIInv, FrameNext PROVE Step
    BY DEF frameVars
  <2> TAKE g \in Gen \ spoiled
  <2>1. ASSUME at["consumer"] = "read", shm_id["consumer"] = g PROVE data[g] = "frame" /\ fresh[g]
    BY <2>1 DEF ConsumerInv, PostInv, FrameTypeOK
  <2>2. ASSUME data[g] # "torn", data'[g] = "torn" PROVE ~ fresh[g]
    <3>1. CASE write_header
      BY <2>2, <3>1 DEF write_header, goto, ProducerInv, FrameTypeOK
    <3>2. CASE copy_data
      BY <2>2, <3>2 DEF copy_data, FrameTypeOK
    <3>3. CASE UNCHANGED data
      BY <2>2, <3>3
    <3>4. write_header \/ copy_data \/ UNCHANGED data
      BY DEF FrameNext, Send, Get, create_shm, create_sem, init_frame, check_flag, post, take, attach,
             read_frame, DeattachSharedFrame, attach_faults, get_shm, get_sem, take_interrupted, killed, exit,
             DestroySharedFrame, shmvars
    <3> QED BY <3>1, <3>2, <3>3, <3>4
  <2> QED BY <2>1, <2>2
<1> QED BY <1>1, FrameInvariance, PTL DEF FrameSpec, Handover
==============================================================================
