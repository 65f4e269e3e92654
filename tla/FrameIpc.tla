------------------------------ MODULE FrameIpc ------------------------------
(* The frame_ipc library: one shared memory segment that holds one frame and *)
(* one System V semaphore.  The producer (a.c) sends a frame when the flag   *)
(* at the start of the segment is 0; the consumer (b.c) waits for the        *)
(* semaphore, reads the frame in place and clears the flag.  Either process  *)
(* may be killed and started again; a producer that starts removes and       *)
(* creates segment and semaphore anew, so both have a generation.            *)
(*                                                                           *)
(* The kernel's part is external: semop with its undo adjustments, removal,  *)
(* attachment, and what happens when a process ends.                         *)
EXTENDS Integers

CONSTANTS SemUndo,   \* sem_flg is SEM_UNDO, as compiled, or 0
          SEMAEM,    \* the largest adjustment the kernel keeps
          SEMVMX,    \* the largest semaphore value
          MaxGen,    \* bound: how often the producer starts
          Mortal     \* the processes that may be killed

Process == {"producer", "consumer"}

ASSUME FrameAssumption ==
  /\ SemUndo \in BOOLEAN
  /\ SEMAEM \in Nat \ {0}
  /\ SEMVMX \in Nat \ {0}
  /\ MaxGen \in Nat \ {0}
  /\ Mortal \subseteq Process

\* Generation 0 is an id that names nothing.
Gen == 0 .. MaxGen

VARIABLES shm,       \* generation -> "none", "live", "marked" (removed, attached) or "gone"
          flag,      \* generation -> the int at the start of the segment
          data,      \* generation -> "empty", "torn" (being copied) or "frame"
          fresh,     \* generation -> the frame is complete and nobody has read it
          sem,       \* generation -> "none", "live" or "gone"
          val,       \* generation -> the semaphore's value
          adj,       \* process -> its undo adjustment for the semaphore it uses
          shm_key,   \* the segment the key names
          sem_key,   \* the semaphore the key names
          at,        \* process -> what it does next
          shm_id,    \* process -> ids.shm_id
          sem_id,    \* process -> ids.sem_id
          spoiled    \* history: the segments of which a frame was taken without the semaphore

shmvars == <<shm, flag, data, fresh, shm_key>>
semvars == <<sem, val, adj, sem_key>>
ids == <<shm_id, sem_id, spoiled>>
frameVars == <<shm, flag, data, fresh, sem, val, adj, shm_key, sem_key, at, shm_id, sem_id,
              spoiled>>

FrameInit ==
  /\ shm = [g \in Gen |-> "none"]
  /\ flag = [g \in Gen |-> 0]
  /\ data = [g \in Gen |-> "empty"]
  /\ fresh = [g \in Gen |-> FALSE]
  /\ sem = [g \in Gen |-> "none"]
  /\ val = [g \in Gen |-> 0]
  /\ adj = [p \in Process |-> 0]
  /\ shm_key = 0
  /\ sem_key = 0
  /\ at = [p \in Process |-> "off"]
  /\ shm_id = [p \in Process |-> 0]
  /\ sem_id = [p \in Process |-> 0]
  /\ spoiled = {}

goto(p, from, to) == at[p] = from /\ at' = [at EXCEPT ![p] = to]

\* A segment is mapped by the producer from its first send on, by the
\* consumer from AttachSharedFrame to DeattachSharedFrame.
Attached(p) == at[p] \in {"check", "write", "copy", "post", "read", "free"}

Mapped(g) == \E p \in Process : Attached(p) /\ shm_id[p] = g

-----------------------------------------------------------------------------
(* sem_op_: -1 or +1.  It blocks below 0 and fails on a removed semaphore,  *)
(* above SEMVMX and, with SEM_UNDO, where the adjustment leaves its range;  *)
(* both callers ignore the failure.  A wait may also be interrupted, see    *)
(* take_interrupted; a post never waits.                                    *)
sem_op_fails(p, op) ==
  LET g == sem_id[p]
  IN  \/ sem[g] # "live"
      \/ val[g] + op > SEMVMX
      \/ SemUndo /\ val[g] + op >= 0 /\ adj[p] - op \notin (-SEMAEM - 1) .. SEMAEM

sem_op_(p, op) ==
  LET g == sem_id[p]
  IN  \/ /\ sem_op_fails(p, op)
         /\ UNCHANGED semvars
      \/ /\ ~ sem_op_fails(p, op)
         /\ val[g] + op >= 0
         /\ val' = [val EXCEPT ![g] = @ + op]
         /\ adj' = IF SemUndo THEN [adj EXCEPT ![p] = @ - op] ELSE adj
         /\ UNCHANGED <<sem, sem_key>>

(* CreateSharedFrame: segment, then semaphore, then both set to 0.  What the *)
(* key named before is removed; a segment somebody has mapped lives on       *)
(* without its key.                                                          *)
create_shm ==
  /\ goto("producer", "off", "create_sem")
  /\ \E g \in Gen \ {0} :
       /\ shm[g] = "none"
       /\ \A h \in Gen \ {0} : shm[h] = "none" => g <= h
       /\ shm' = [h \in Gen |->
            IF h = g THEN "live"
            ELSE IF h = shm_key /\ shm[h] = "live"
            THEN IF Mapped(h) THEN "marked" ELSE "gone"
            ELSE shm[h]]
       /\ shm_key' = g
       /\ shm_id' = [shm_id EXCEPT !["producer"] = g]
  /\ UNCHANGED <<flag, data, fresh, semvars, sem_id, spoiled>>

create_sem ==
  /\ goto("producer", "create_sem", "init")
  /\ sem' = [g \in Gen |-> IF g = shm_key THEN "live"
                           ELSE IF g = sem_key /\ sem[g] = "live" THEN "gone" ELSE sem[g]]
  /\ sem_key' = shm_key
  /\ sem_id' = [sem_id EXCEPT !["producer"] = shm_key]
  /\ UNCHANGED <<shmvars, val, adj, shm_id, spoiled>>

init_frame ==
  /\ goto("producer", "init", "check")
  /\ val' = [val EXCEPT ![sem_id["producer"]] = 0]
  /\ flag' = [flag EXCEPT ![shm_id["producer"]] = 0]
  /\ UNCHANGED <<shm, data, fresh, shm_key, sem, adj, sem_key, ids>>

\* Fault: the flag is not looked at.
check_flag_blind ==
  /\ goto("producer", "check", "write")
  /\ UNCHANGED <<shmvars, semvars, ids>>

(* SendSharedFrame: nothing happens while the flag is set; otherwise the     *)
(* header, which sets the flag, and the data are copied and the semaphore    *)
(* is posted.                                                                *)
check_flag ==
  /\ flag[shm_id["producer"]] = 0
  /\ goto("producer", "check", "write")
  /\ UNCHANGED <<shmvars, semvars, ids>>

write_header ==
  /\ goto("producer", "write", "copy")
  /\ flag' = [flag EXCEPT ![shm_id["producer"]] = 1]
  /\ data' = [data EXCEPT ![shm_id["producer"]] = "torn"]
  /\ fresh' = [fresh EXCEPT ![shm_id["producer"]] = FALSE]
  /\ UNCHANGED <<shm, shm_key, semvars, ids>>

copy_data ==
  /\ goto("producer", "copy", "post")
  /\ data' = [data EXCEPT ![shm_id["producer"]] = "frame"]
  /\ fresh' = [fresh EXCEPT ![shm_id["producer"]] = TRUE]
  /\ UNCHANGED <<shm, flag, shm_key, semvars, ids>>

\* Fault: the frame is never announced.
post_missing ==
  /\ goto("producer", "post", "check")
  /\ UNCHANGED <<shmvars, semvars, ids>>

post ==
  /\ goto("producer", "post", "check")
  /\ sem_op_("producer", 1)
  /\ UNCHANGED <<shmvars, ids>>

(* GetFrameStart, called once by a consumer that is started when the         *)
(* producer runs, as the Readme asks.  It looks up one key after the other:  *)
(* a producer that restarts in between leaves it with ids of two             *)
(* generations, or with none for the semaphore, which b.c does not check.    *)
get_shm ==
  /\ at["producer"] \in {"check", "write", "copy", "post"}
  /\ goto("consumer", "off", "get_sem")
  /\ shm_id' = [shm_id EXCEPT !["consumer"] = shm_key]
  /\ UNCHANGED <<shmvars, semvars, sem_id, spoiled>>

get_sem ==
  /\ goto("consumer", "get_sem", "wait")
  /\ sem_id' = [sem_id EXCEPT !["consumer"] = sem_key]
  /\ UNCHANGED <<shmvars, semvars, shm_id, spoiled>>

(* AttachSharedFrame: whether or not the semaphore was there to take, the    *)
(* segment is mapped and the frame copied from it.                           *)
take ==
  /\ goto("consumer", "wait", "attach")
  /\ sem_op_("consumer", -1)
  /\ UNCHANGED <<shmvars, ids>>

\* A wait fails with EINTR when its process is stopped and continued: the
\* consumer goes on without the semaphore.
take_interrupted ==
  /\ goto("consumer", "wait", "attach")
  /\ ~ sem_op_fails("consumer", -1)
  /\ val[sem_id["consumer"]] = 0
  /\ spoiled' = spoiled \cup {shm_id["consumer"]}
  /\ UNCHANGED <<shmvars, semvars, shm_id, sem_id>>

\* Fault: the flag is cleared before the frame is read.
free_early ==
  /\ goto("consumer", "attach", "read")
  /\ shm[shm_id["consumer"]] \in {"live", "marked"}
  /\ flag' = [flag EXCEPT ![shm_id["consumer"]] = 0]
  /\ UNCHANGED <<shm, data, fresh, shm_key, semvars, ids>>

attach ==
  /\ shm[shm_id["consumer"]] \in {"live", "marked"}
  /\ goto("consumer", "attach", "read")
  /\ UNCHANGED <<shmvars, semvars, ids>>

read_frame ==
  /\ goto("consumer", "read", "free")
  /\ fresh' = [fresh EXCEPT ![shm_id["consumer"]] = FALSE]
  /\ UNCHANGED <<shm, flag, data, shm_key, semvars, ids>>

\* The last one that unmaps a removed segment destroys it.
Unmap(p) ==
  shm' = [g \in Gen |->
    IF /\ g = shm_id[p] /\ Attached(p) /\ shm[g] = "marked"
       /\ \A q \in Process \ {p} : ~ (Attached(q) /\ shm_id[q] = g)
    THEN "gone" ELSE shm[g]]

DeattachSharedFrame ==
  /\ goto("consumer", "free", "wait")
  /\ flag' = [flag EXCEPT ![shm_id["consumer"]] = 0]
  /\ Unmap("consumer")
  /\ UNCHANGED <<data, fresh, shm_key, semvars, ids>>

-----------------------------------------------------------------------------
(* The end of a process: the kernel undoes its semaphore operations and      *)
(* unmaps its segments.                                                      *)
exit(p) ==
  LET g == sem_id[p]
      v == val[g] + adj[p]
  IN  /\ at' = [at EXCEPT ![p] = "off"]
      /\ val' = IF sem[g] = "live"
                THEN [val EXCEPT ![g] = IF v < 0 THEN 0 ELSE IF v > SEMVMX THEN SEMVMX ELSE v]
                ELSE val
      /\ adj' = [adj EXCEPT ![p] = 0]
      /\ Unmap(p)
      /\ UNCHANGED <<flag, data, fresh, shm_key, sem, sem_key, ids>>

killed(p) == p \in Mortal /\ at[p] # "off" /\ exit(p)

\* shmat of a segment that is gone fails and memcpy faults.
attach_faults ==
  /\ at["consumer"] = "attach"
  /\ shm[shm_id["consumer"]] \notin {"live", "marked"}
  /\ exit("consumer")

(* DestroySharedFrame by a producer that ends in order. *)
DestroySharedFrame ==
  LET g == shm_id["producer"]
      mapped == Attached("consumer") /\ shm_id["consumer"] = g
  IN  /\ "producer" \in Mortal
      /\ goto("producer", "check", "off")
      /\ shm' = [shm EXCEPT ![g] = IF mapped THEN "marked" ELSE "gone"]
      /\ sem' = [sem EXCEPT ![g] = "gone"]
      /\ adj' = [adj EXCEPT !["producer"] = 0]
      /\ shm_key' = 0
      /\ sem_key' = 0
      /\ UNCHANGED <<flag, data, fresh, val, ids>>

Send == check_flag \/ write_header \/ copy_data \/ post
Get == get_sem \/ take \/ attach \/ read_frame \/ DeattachSharedFrame \/ attach_faults

FrameNext ==
  \/ create_shm \/ create_sem \/ init_frame
  \/ Send \/ Get
  \/ get_shm \/ take_interrupted
  \/ \E p \in Process : killed(p)
  \/ DestroySharedFrame

FrameSpec == FrameInit /\ [][FrameNext]_frameVars

(* Both loops run for ever while their process lives; nobody has to start a  *)
(* process, and nobody has to kill one.                                      *)
FairFrameSpec == FrameSpec /\ WF_frameVars(Send) /\ WF_frameVars(Get)

-----------------------------------------------------------------------------
FrameTypeOK ==
  /\ shm \in [Gen -> {"none", "live", "marked", "gone"}]
  /\ flag \in [Gen -> {0, 1}]
  /\ data \in [Gen -> {"empty", "torn", "frame"}]
  /\ fresh \in [Gen -> BOOLEAN]
  /\ sem \in [Gen -> {"none", "live", "gone"}]
  /\ val \in [Gen -> 0 .. SEMVMX]
  /\ adj \in [Process -> (-SEMAEM - 1) .. SEMAEM]
  /\ shm_key \in Gen
  /\ sem_key \in Gen
  /\ at["producer"] \in {"off", "create_sem", "init", "check", "write", "copy", "post"}
  /\ at["consumer"] \in {"off", "get_sem", "wait", "attach", "read", "free"}
  /\ at \in [Process -> {"off", "create_sem", "init", "check", "write", "copy", "post",
                         "get_sem", "wait", "attach", "read", "free"}]
  /\ shm_id \in [Process -> Gen]
  /\ sem_id \in [Process -> Gen]
  /\ spoiled \subseteq Gen

(* While the consumer has a frame of the segment the producer writes to, the *)
(* producer is not writing: it finds the flag set.  Kills and restarts of    *)
(* either side do not change that; an interrupted wait, whose failure        *)
(* AttachSharedFrame ignores, ends it for the segment the consumer had, and  *)
(* for no later one.                                                         *)
FrameExclusive ==
  (/\ at["consumer"] \in {"attach", "read", "free"}
   /\ at["producer"] \in {"write", "copy", "post"}
   /\ shm_id["producer"] \notin spoiled)
  => shm_id["consumer"] # shm_id["producer"]

(* Every frame is handed over once: what is read is complete and not read    *)
(* before, and no frame is overwritten that a living consumer has yet to     *)
(* read.  Again for the segments of which no frame was taken without the     *)
(* semaphore.                                                                *)
Handover ==
  [][\A g \in Gen \ spoiled :
       /\ (at["consumer"] = "read" /\ at'["consumer"] = "free" /\ shm_id["consumer"] = g)
            => data[g] = "frame" /\ fresh[g]
       /\ data[g] # "torn" /\ data'[g] = "torn" => ~ fresh[g]]_frameVars

(* A frame that is sent to a living consumer is read and its place freed for *)
(* the next one, unless one of the two processes ends; interrupted waits do  *)
(* not prevent it.                                                           *)
FrameFreed ==
  \A g \in Gen :
    (at["producer"] = "post" /\ at["consumer"] # "off" /\ \A p \in Process : shm_id[p] = g)
      ~> (flag[g] = 0 \/ \E p \in Process : at[p] = "off")

-----------------------------------------------------------------------------
(* The inductive strengthening, for sem_flg = 0: at any moment one of the    *)
(* free flag, the producer, the posted semaphore and the consumer has the    *)
(* frame of a segment.                                                       *)
Exists(g) == shm[g] \in {"live", "marked"}

\* Ids: nobody knows a generation before it is created, a consumer's two ids
\* are of one generation or its segment is gone, and what is removed stays
\* only while it is mapped.
IdInv ==
  /\ \A g \in Gen \ {0} : shm[g] = "none" =>
       /\ sem[g] = "none" /\ val[g] = 0 /\ flag[g] = 0 /\ ~ fresh[g]
       /\ g # shm_key /\ \A p \in Process : shm_id[p] # g
  /\ shm[0] = "none" /\ sem[0] = "none" /\ val[0] = 0
  /\ sem_key # 0 => sem[sem_key] = "live"
  /\ at["consumer"] # "off" => shm_id["consumer"] # 0
  /\ at["consumer"] = "get_sem" /\ Exists(shm_id["consumer"]) => sem_key = shm_id["consumer"]
  /\ at["consumer"] \notin {"off", "get_sem"} /\ Exists(shm_id["consumer"]) =>
       sem_id["consumer"] = shm_id["consumer"] /\ sem[shm_id["consumer"]] # "none"
  /\ \A g \in Gen : shm[g] = "live" => shm_key = g
  /\ \A g \in Gen : shm[g] = "marked" => Attached("consumer") /\ shm_id["consumer"] = g
  /\ \A g \in Gen : sem[g] = "gone" => shm[g] \in {"marked", "gone"}

\* The posted semaphore stands for a complete, unread frame that nobody has,
\* and the kernel has nothing to undo.
PostInv ==
  /\ \A p \in Process : adj[p] = 0
  /\ \A g \in Gen : fresh[g] => data[g] = "frame"
  /\ \A g \in Gen \ spoiled :
       val[g] \in {0, 1} /\ (val[g] = 1 => flag[g] = 1 /\ fresh[g])

\* The consumer that got past the semaphore is the only one with the frame,
\* unless its segment is gone and it is about to fault.
ConsumerInv ==
  LET g == shm_id["consumer"]
  IN  /\ at["consumer"] \in {"read", "free"} => Exists(g)
      /\ g \notin spoiled /\ Exists(g) =>
           /\ at["consumer"] \in {"attach", "read"} => flag[g] = 1 /\ fresh[g] /\ val[g] = 0
           /\ at["consumer"] = "free" => flag[g] = 1 /\ ~ fresh[g] /\ val[g] = 0

\* A producer that writes has a segment of its own and finds it free.
ProducerInv ==
  LET g == shm_id["producer"]
      c == shm_id["consumer"] = g /\ at["consumer"] \in {"attach", "read", "free"}
  IN  /\ at["producer"] # "off" => g # 0 /\ shm[g] = "live" /\ shm_key = g
      /\ at["producer"] = "create_sem" => sem[g] = "none"
      /\ at["producer"] \in {"create_sem", "init"} =>
           /\ val[g] = 0 /\ flag[g] = 0 /\ ~ fresh[g]
           /\ at["consumer"] # "off" => shm_id["consumer"] # g
      /\ at["producer"] \notin {"off", "create_sem"} =>
           sem[g] = "live" /\ sem_key = g /\ sem_id["producer"] = g
      /\ g \notin spoiled =>
           /\ at["producer"] = "check" /\ flag[g] = 0 => ~ fresh[g]
           /\ at["producer"] = "write" => flag[g] = 0 /\ val[g] = 0 /\ ~ c /\ ~ fresh[g]
           /\ at["producer"] = "copy" => flag[g] = 1 /\ val[g] = 0 /\ ~ c /\ ~ fresh[g]
           /\ at["producer"] = "post" => flag[g] = 1 /\ val[g] = 0 /\ ~ c /\ fresh[g]

FrameIInv == FrameTypeOK /\ IdInv /\ PostInv /\ ConsumerInv /\ ProducerInv
=============================================================================
