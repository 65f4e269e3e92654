--------------------------------- MODULE Ipc ---------------------------------
(* callon::Ipc (ipc.hpp, ipc.cpp): a server and a client process, each with  *)
(* its one Ipc object, that exchange messages over a pair of datagram        *)
(* sockets or over a POSIX message queue.  A program opens its end, may     *)
(* call Open again when it fails, reads and writes with or without a         *)
(* timeout, closes what it opened, and may be killed and started again at    *)
(* any point.  The programs are external: the repository has the library     *)
(* and no caller of it.                                                      *)
(*                                                                           *)
(* External: the kernel's names, sockets and queues.  A message is its       *)
(* sender.                                                                   *)
EXTENDS Integers, Sequences, Functions

CONSTANTS Obj,        \* kernel objects: sockets and queues
          NULL,
          MaxMsg,     \* MAX_MSG_NUM, and the length of a socket's queue
          MsPerSec,   \* 1000, and
          NsPerMs,    \* 1000000: the units of a timeout and of a timespec
          MaxTimeout, \* bound on a timeout, in ms
          Clock,      \* bound on the nanoseconds the clock may show
          MaxFaults   \* bound on kills and on failures of system calls

ASSUME IpcAssumption ==
  /\ NULL \notin Obj
  \* The kernel always has an object besides the ones in use.
  /\ \A a, b, c, d \in Obj \cup {NULL} : Obj \ {a, b, c, d} # {}
  /\ MaxMsg \in Nat \ {0} /\ MsPerSec \in Nat \ {0} /\ NsPerMs \in Nat \ {0}
  /\ MaxTimeout \in Nat /\ MaxFaults \in Nat /\ Clock \subseteq 0 .. MsPerSec * NsPerMs - 1

Role == {"SERVER", "CLIENT"}
Peer(p) == CHOOSE q \in Role : q # p
NsPerSec == MsPerSec * NsPerMs

VARIABLES path,      \* the names: the socket of each role, and the queue
          box,       \* the messages in each object
          fds,       \* the descriptors each process has open
          type, fd,  \* ipc_info_ of each process
          pc,        \* where each process is
          sndtimeo,  \* SO_SNDTIMEO of its socket is set
          wait,      \* the timeout of the call it is in, 0 for none
          clock,     \* the nanoseconds CLOCK_REALTIME had for that call
          deadline,  \* abs_timeout of that call
          faults,
          exposed    \* history: the queue of the server may have lost its name

vars == <<path, box, fds, type, fd, pc, sndtimeo, wait, clock, deadline, faults, exposed>>
info == <<type, fd>>
timing == <<wait, clock, deadline>>

NoDeadline == [sec |-> 0, nsec |-> 0]

Init ==
  /\ path = [n \in Role \cup {"MQ_FILE"} |-> NULL]
  /\ box = [o \in Obj |-> <<>>]
  /\ fds = [p \in Role |-> {}]
  /\ type = [p \in Role |-> "SOCKET"] /\ fd = [p \in Role |-> NULL]
  /\ pc = [p \in Role |-> "idle"]
  /\ sndtimeo = [p \in Role |-> FALSE]
  /\ wait = [p \in Role |-> 0]
  /\ clock = [p \in Role |-> 0] /\ deadline = [p \in Role |-> NoDeadline]
  /\ faults = 0 /\ exposed = FALSE

to(p, l) == pc' = [pc EXCEPT ![p] = l]
Open(o) == \E p \in Role : o \in fds[p]
\* The kernel makes a new object of one that nothing refers to any more,
new == CHOOSE o \in Obj : ~ Open(o) /\ o \notin Range(path)
\* and forgets the messages of one that is closed, a named queue excepted.
forget ==
  box' = [o \in Obj |-> IF path'["MQ_FILE"] = o \/ \E p \in Role : o \in fds'[p]
                        THEN box[o] ELSE <<>>]
fault == faults < MaxFaults /\ faults' = faults + 1

-----------------------------------------------------------------------------
\* Ipc::Open begins; ipc_info_.type is set whatever comes of it.
Open_begin(p, t) ==
  /\ pc[p] \in {"idle", "failed"}
  /\ type' = [type EXCEPT ![p] = t]
  /\ to(p, IF t = "SOCKET" THEN "unlink" ELSE "mq_open")
  /\ UNCHANGED <<path, box, fds, fd, sndtimeo, timing, faults, exposed>>

\* Fault: the name of the server is removed whatever the role.
Open_unlink_server(p) ==
  /\ pc[p] = "unlink"
  /\ path' = [path EXCEPT !["SERVER"] = NULL]
  /\ to(p, "bind")
  /\ UNCHANGED <<box, fds, info, sndtimeo, timing, faults, exposed>>

Open_unlink(p) ==
  /\ pc[p] = "unlink"
  /\ path' = [path EXCEPT ![p] = NULL]
  /\ to(p, "bind")
  /\ UNCHANGED <<box, fds, info, sndtimeo, timing, faults, exposed>>

\* socket and bind succeed; the failure of setsockopt is only logged.
Open_bind(p) ==
  /\ pc[p] = "bind" /\ path[p] = NULL
  /\ path' = [path EXCEPT ![p] = new]
  /\ fds' = [fds EXCEPT ![p] = @ \cup {new}]
  /\ fd' = [fd EXCEPT ![p] = new]
  /\ to(p, "ready")
  /\ UNCHANGED <<box, type, sndtimeo, timing, faults, exposed>>

\* socket fails, or bind does and the socket is closed: Open returns FAIL.
Open_bind_fails(p) ==
  /\ pc[p] = "bind" /\ fault
  /\ to(p, "failed")
  /\ UNCHANGED <<path, box, fds, info, sndtimeo, timing, exposed>>

\* mq_open: O_CREAT | O_EXCL for the server, an existing queue for the client.
Open_mq(p) ==
  /\ pc[p] = "mq_open"
  /\ (p = "SERVER") = (path["MQ_FILE"] = NULL)
  /\ LET o == IF p = "SERVER" THEN new ELSE path["MQ_FILE"] IN
     /\ path' = [path EXCEPT !["MQ_FILE"] = o]
     /\ fds' = [fds EXCEPT ![p] = @ \cup {o}]
     /\ fd' = [fd EXCEPT ![p] = o]
  /\ exposed' = IF p = "SERVER" THEN pc["CLIENT"] = "mq_unlink" ELSE exposed
  /\ to(p, "ready")
  /\ UNCHANGED <<box, type, sndtimeo, timing, faults>>

\* EEXIST for the server, ENOENT for the client, or a lack of resources.
Open_mq_fails(p) ==
  /\ pc[p] = "mq_open"
  /\ \/ (p = "SERVER") = (path["MQ_FILE"] # NULL) /\ UNCHANGED <<faults, exposed>>
     \/ fault /\ exposed' = TRUE
  /\ to(p, "mq_unlink")
  /\ UNCHANGED <<path, box, fds, info, sndtimeo, timing>>

\* Fault: the name stays.
Open_mq_keep(p) ==
  /\ pc[p] = "mq_unlink"
  /\ to(p, "failed")
  /\ UNCHANGED <<path, box, fds, info, sndtimeo, timing, faults, exposed>>

\* The failed Open removes the name, whoever's queue it is by now, and returns FAIL.
Open_mq_unlink(p) ==
  /\ pc[p] = "mq_unlink"
  /\ path' = [path EXCEPT !["MQ_FILE"] = NULL]
  /\ UNCHANGED fds /\ forget
  /\ to(p, "failed")
  /\ UNCHANGED <<info, sndtimeo, timing, faults, exposed>>

-----------------------------------------------------------------------------
\* Fault: the carry adds a second and keeps the nanoseconds.
abs_timeout_kept(now, ms) ==
  LET nsec == now + (ms % MsPerSec) * NsPerMs
      sec == ms \div MsPerSec
  IN  IF nsec > NsPerSec THEN [sec |-> sec + 1, nsec |-> nsec] ELSE [sec |-> sec, nsec |-> nsec]

\* The deadline of a timed call, its seconds counted from the current one.
abs_timeout(now, ms) ==
  LET nsec == now + (ms % MsPerSec) * NsPerMs
      sec == ms \div MsPerSec
  IN  IF nsec > NsPerSec
      THEN [sec |-> sec + 1, nsec |-> nsec - NsPerSec]
      ELSE [sec |-> sec, nsec |-> nsec]

\* A timespec the kernel accepts.
valid(d) == d.nsec < NsPerSec
Timed(p) == wait[p] > 0
returns(p) ==
  /\ to(p, "ready")
  /\ wait' = [wait EXCEPT ![p] = 0] /\ clock' = [clock EXCEPT ![p] = 0]
  /\ deadline' = [deadline EXCEPT ![p] = NoDeadline]

\* Read and Write begin; on a queue a timed call reads the clock.
call(p, l, ms, now) ==
  /\ pc[p] = "ready"
  /\ to(p, l)
  /\ wait' = [wait EXCEPT ![p] = ms]
  /\ IF type[p] = "MQUEUE" /\ ms > 0
     THEN /\ clock' = [clock EXCEPT ![p] = now]
          /\ deadline' = [deadline EXCEPT ![p] = abs_timeout(now, ms)]
     ELSE UNCHANGED <<clock, deadline>>
  /\ UNCHANGED <<path, box, fds, info, faults, exposed>>

Read(p, ms, now) == call(p, "read", ms, now) /\ UNCHANGED sndtimeo

\* SO_SNDTIMEO is set for a timed write to a socket, and never taken back.
Write(p, ms, now) ==
  /\ call(p, "write", ms, now)
  /\ sndtimeo' = [sndtimeo EXCEPT ![p] = @ \/ (type[p] = "SOCKET" /\ ms > 0)]

\* mq_timedreceive and mq_timedsend reject the deadline: -1 and FAIL.
rejected(p) ==
  /\ pc[p] \in {"read", "write"} /\ ~ valid(deadline[p])
  /\ returns(p)
  /\ UNCHANGED <<path, box, fds, info, sndtimeo, faults, exposed>>

\* recvfrom or mq_receive returns a message.
receive(p) ==
  /\ pc[p] = "read" /\ valid(deadline[p]) /\ box[fd[p]] # <<>>
  /\ box' = [box EXCEPT ![fd[p]] = Tail(@)]
  /\ returns(p)
  /\ UNCHANGED <<path, fds, info, sndtimeo, faults, exposed>>

\* Where a write goes: to the queue, or to whatever has the peer's name.
target(p) == IF type[p] = "MQUEUE" THEN fd[p] ELSE path[Peer(p)]

\* The messages of one priority stay in order.
send(p) ==
  /\ pc[p] = "write" /\ valid(deadline[p])
  /\ target(p) # NULL /\ Open(target(p)) /\ Len(box[target(p)]) < MaxMsg
  /\ box' = [box EXCEPT ![target(p)] = Append(@, p)]
  /\ returns(p)
  /\ UNCHANGED <<path, fds, info, sndtimeo, faults, exposed>>

\* sendto finds no socket of that name, or nobody behind it.
send_fails(p) ==
  /\ pc[p] = "write" /\ type[p] = "SOCKET"
  /\ target(p) = NULL \/ ~ Open(target(p))
  /\ returns(p)
  /\ UNCHANGED <<path, box, fds, info, sndtimeo, faults, exposed>>

\* A timed read or write of a queue, a read after select, or a write with SO_SNDTIMEO.
time_out(p) ==
  /\ \/ pc[p] = "read" /\ Timed(p) /\ box[fd[p]] = <<>>
     \/ /\ pc[p] = "write" /\ target(p) # NULL /\ Len(box[target(p)]) = MaxMsg
        /\ Timed(p) \/ (type[p] = "SOCKET" /\ sndtimeo[p])
  /\ returns(p)
  /\ UNCHANGED <<path, box, fds, info, sndtimeo, faults, exposed>>

-----------------------------------------------------------------------------
\* Fault: a break is missing, and to close a socket removes the queue too.
Close_unlink_all(p) ==
  /\ pc[p] = "ready"
  /\ path' = [path EXCEPT !["MQ_FILE"] = NULL]
  /\ exposed' = (exposed \/ type[p] = "MQUEUE")
  /\ UNCHANGED fds /\ forget
  /\ to(p, "close")
  /\ UNCHANGED <<info, sndtimeo, timing, faults>>

\* Ipc::Close: the name of the queue is removed first, whoever's it is by now.
Close_unlink(p) ==
  /\ pc[p] = "ready"
  /\ path' = IF type[p] = "MQUEUE" THEN [path EXCEPT !["MQ_FILE"] = NULL] ELSE path
  /\ exposed' = (exposed \/ type[p] = "MQUEUE")
  /\ UNCHANGED fds /\ forget
  /\ to(p, "close")
  /\ UNCHANGED <<info, sndtimeo, timing, faults>>

\* The number that stays in ipc_info_ is not used before the next Open sets it.
Close(p) ==
  /\ pc[p] = "close"
  /\ fds' = [fds EXCEPT ![p] = @ \ {fd[p]}]
  /\ fd' = [fd EXCEPT ![p] = NULL]
  /\ sndtimeo' = [sndtimeo EXCEPT ![p] = FALSE]
  /\ UNCHANGED path /\ forget
  /\ to(p, "idle")
  /\ UNCHANGED <<type, timing, faults, exposed>>

\* External: the process is killed; its next life starts with a new object.
kill(p) ==
  /\ fault
  /\ fds' = [fds EXCEPT ![p] = {}]
  /\ type' = [type EXCEPT ![p] = "SOCKET"] /\ fd' = [fd EXCEPT ![p] = NULL]
  /\ sndtimeo' = [sndtimeo EXCEPT ![p] = FALSE]
  /\ wait' = [wait EXCEPT ![p] = 0] /\ clock' = [clock EXCEPT ![p] = 0]
  /\ deadline' = [deadline EXCEPT ![p] = NoDeadline]
  /\ UNCHANGED <<path, exposed>> /\ forget
  /\ to(p, "idle")

Opening(p) ==
  \/ Open_unlink(p) \/ Open_bind(p) \/ Open_bind_fails(p)
  \/ Open_mq(p) \/ Open_mq_fails(p) \/ Open_mq_unlink(p)

Exchange(p) ==
  \/ \E ms \in 0 .. MaxTimeout, now \in Clock : Read(p, ms, now) \/ Write(p, ms, now)
  \/ rejected(p) \/ receive(p) \/ send(p) \/ send_fails(p) \/ time_out(p)

Next ==
  \E p \in Role :
    \/ \E t \in {"SOCKET", "MQUEUE"} : Open_begin(p, t)
    \/ Opening(p) \/ Exchange(p)
    \/ Close_unlink(p) \/ Close(p)
    \/ kill(p)

Spec == Init /\ [][Next]_vars

\* External: the program calls Open again, with one variant or the other.
Retry(p) == pc[p] = "failed" /\ \E t \in {"SOCKET", "MQUEUE"} : Open_begin(p, t)

\* Open runs to its end, and the program is one that retries it.
FairSpec == Spec /\ \A p \in Role : WF_vars(Opening(p)) /\ WF_vars(Retry(p))

-----------------------------------------------------------------------------
TypeOfEnds ==
  /\ path \in [Role \cup {"MQ_FILE"} -> Obj \cup {NULL}]
  /\ fds \in [Role -> SUBSET Obj]
  /\ type \in [Role -> {"SOCKET", "MQUEUE"}] /\ fd \in [Role -> Obj \cup {NULL}]
  /\ pc \in [Role -> {"idle", "unlink", "bind", "mq_open", "mq_unlink", "failed", "ready",
                      "read", "write", "close"}]
  /\ sndtimeo \in [Role -> BOOLEAN]
  /\ faults \in 0 .. MaxFaults /\ exposed \in BOOLEAN

TypeOfBoxes == box \in [Obj -> Seq(Role)] /\ \A o \in Obj : Len(box[o]) <= MaxMsg

TypeOfTimes ==
  /\ wait \in [Role -> 0 .. MaxTimeout]
  /\ clock \in [Role -> 0 .. NsPerSec - 1]
  /\ deadline \in [Role -> [sec : Nat, nsec : 0 .. 2 * NsPerSec]]

TypeOK == TypeOfEnds /\ TypeOfBoxes /\ TypeOfTimes

Ready(p) == pc[p] \in {"ready", "read", "write"}

(* Both ends of the socket variant find each other for as long as they are   *)
(* open, whatever lives and kills came before: the name of a process leads   *)
(* to the socket it has now, and what it has to read comes from its peer.    *)
(* With either variant the one descriptor a process has is that of its Ipc.  *)
SocketsConnected ==
  \A p \in Role :
    /\ Ready(p) => fds[p] = {fd[p]}
    /\ pc[p] \in {"idle", "failed"} => fds[p] = {}
    /\ Ready(p) /\ type[p] = "SOCKET" =>
         path[p] = fd[p] /\ Range(box[fd[p]]) \subseteq {Peer(p)}

(* A client can reach a server that has opened the queue: its name goes to   *)
(* no other queue and is there, unless an end was closed since, or a client  *)
(* had failed to open the queue before and removes the name only now, or had *)
(* no resources to open it.                                                  *)
QueueNamed ==
  Ready("SERVER") /\ type["SERVER"] = "MQUEUE" =>
    path["MQ_FILE"] = fd["SERVER"] \/ (exposed /\ path["MQ_FILE"] = NULL)

(* The deadline of a timed call on a queue is the time of the call plus the  *)
(* timeout, and a timespec the kernel accepts unless it falls on a second    *)
(* exactly (the test is > where it should be >=): then the call fails at     *)
(* once, with a message waiting or not.                                      *)
DeadlineExact ==
  \A p \in Role :
    LET d == deadline[p] IN
    Timed(p) /\ type[p] = "MQUEUE" =>
      /\ d.sec * NsPerSec + d.nsec = clock[p] + wait[p] * NsPerMs
      /\ valid(d) \/ d.nsec = NsPerSec

-----------------------------------------------------------------------------
(* The inductive strengthening.  A process has a descriptor from the end of  *)
(* Open to the end of Close, the one its Ipc knows, ...                      *)
FdInv ==
  \A p \in Role :
    /\ fds[p] = IF fd[p] = NULL THEN {} ELSE {fd[p]}
    /\ fd[p] # NULL <=> Ready(p) \/ pc[p] = "close"
    /\ pc[p] \in {"unlink", "bind"} => type[p] = "SOCKET"
    /\ pc[p] \in {"mq_open", "mq_unlink"} => type[p] = "MQUEUE"

(* ... which is the socket its name leads to, or a queue; no object is both, *)
(* and no socket has two names or two owners.                                *)
NameInv ==
  /\ path["SERVER"] # NULL => path["SERVER"] # path["CLIENT"]
  /\ \A p \in Role :
       /\ path[p] # NULL =>
            /\ path[p] # path["MQ_FILE"]
            /\ path[p] # fd[Peer(p)]
            /\ type[p] = "MQUEUE" => path[p] # fd[p]
       /\ fd[p] # NULL /\ type[p] = "SOCKET" => path[p] = fd[p]

(* A socket holds what the peer sent, and an object out of use holds nothing. *)
BoxInv ==
  /\ \A p \in Role : path[p] # NULL => \A i \in 1 .. Len(box[path[p]]) : box[path[p]][i] = Peer(p)
  /\ \A o \in Obj : path["MQ_FILE"] # o /\ ~ Open(o) => box[o] = <<>>

(* A client about to remove the name of the server's queue has been noted. *)
QueueInv ==
  Ready("SERVER") /\ type["SERVER"] = "MQUEUE" /\ pc["CLIENT"] = "mq_unlink" => exposed

(* Only a call that is under way has a deadline. *)
TimeInv ==
  \A p \in Role : pc[p] \notin {"read", "write"} => wait[p] = 0

IInv ==
  /\ TypeOK /\ FdInv /\ NameInv /\ BoxInv
  /\ QueueInv /\ QueueNamed /\ TimeInv /\ DeadlineExact

-----------------------------------------------------------------------------
(* Recovery: a server that was killed leaves its names behind, and yet a     *)
(* program that calls Open until it succeeds does open the server's end: an  *)
(* attempt fails at most because of what the next one finds removed.         *)
ServerRecovers ==
  pc["SERVER"] \in {"unlink", "bind", "mq_open", "mq_unlink", "failed"}
    ~> pc["SERVER"] \in {"ready", "idle"}
=============================================================================
