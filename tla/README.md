# Verification of the EngineerLinux code

The repository is a collection of Linux engineering notes together with the code they
discuss: glibc's thread and stack code behind "Memory/HiddenOOM", three ways of starting
a process (glibc `system` and `popen`, GLib `g_spawn`), inter-process communication, and
many small demonstration programs. This project models the parts that keep state and are
used by several threads or processes at once, checks them with TLC on small instances and
proves the main invariants with TLAPS for all values of their constants.

Paths below are relative to `src/`. `TSL` is `Memory/HiddenOOM/ThreadStackLeaked/code/glibc-2.32`.

## 1. Inventory

| component | state | operations | interacts through | what is hard |
|---|---|---|---|---|
| thread life cycle, `TSL/pthread_create.c`, `createthread.c`, `pthread_join*.c`, `pthread_cancel.c` | the descriptor (`joinid`, `cancelhandling`, `lock`, `stopped_start`, `tid`), `__nptl_nthreads` | create, start, exit, join, timed join, detach, cancel | the shared descriptor, the kernel's clearing of `tid`, the stack cache | who frees a stack when exit, join, detach, timeout and a failed setup race |
| stack cache, `TSL/补充知识点1相关源码/allocatestack.c` | `stack_used`, `__stack_user`, `stack_cache`, `stack_cache_actsize`, size, guard and protection of each block | `allocate_stack`, `get_cached_stack`, `__deallocate_stack`, `queue_stack`, `__free_stacks`, `__make_stacks_executable`, `__reclaim_stacks` | `stack_cache_lock`; some steps are outside the lock; `fork` copies the lists without it | errors between two critical sections, a stack queued by the thread that runs on it, the limit, a fork in the middle of a list change |
| set*id of all threads, the end of the same file with `pthread_create.c` 419-423, 555-571 and 836-844 | `SETXID` bit and `setxid_futex` of each descriptor, the command, `cntr` | `__nptl_setxid`, its signal handler, the waits of a starting, stillborn or exiting thread | `stack_cache_lock`, SIGSETXID, futexes | threads that are cloned, fail to be cloned, or exit while the walk is under way |
| `system(3)`, `Process/StartProcess/code/glibc-2.27`, `glibc-2.32` | `intr`, `quit`, `sa_refcntr`, lock; signal masks and dispositions | `do_system`, its cancellation handler | process-wide dispositions, per-thread masks | overlapping calls, failing calls, cancellation |
| `popen(3)`, `pclose(3)`, same directories | `proc_file_chain`, the descriptor table | `_IO_new_proc_open`, `_IO_new_proc_close` | inherited descriptors | a shell started while another stream is opened or closed; standard descriptors closed |
| `g_spawn`, `Process/StartProcess/code/glib-2.60.7/gspawn.c` | descriptor tables of up to four processes, report pipes | `g_spawn_async_with_pipes`, `g_spawn_sync`, `fork_exec_with_fds`, `do_exec` | error and pid pipes, `waitpid` | reports in any order, failures after a fork, pipes kept open |
| `frame_ipc`, `Process/InterProcessComm/code/shm+sem` | one shared memory frame with a flag, one System V semaphore | create, send, attach, release, destroy | shared memory, `semop`, kernel undo | either side killed and restarted, `SEM_UNDO` |
| thread attributes, `TSL/补充知识点2相关源码` | a caller's `pthread_attr_t` | init, set, get, destroy | none (no sharing) | not modelled |
| `ipc::Ipc`, `Process/InterProcessComm/code/ipc` | a socket or a message queue, and its name | `Open`, `Read`, `Write`, `Close` | the names in the file system, the kernel's queues | names that outlive or change hands between processes, deadlines |
| `test1.cpp`, `test2.cpp`, `sem_test.c`, `test3.cpp` | queues with mutex and condition variable | push, wait | condition variable | not modelled |
| `CreateProcess`, `InheritProcess`, `Schedule` | dispositions, descriptors | fork and exec | inheritance | not modelled |
| debugging demonstrations (`strace`, `pstack`, `ltrace`, sanitizers, coredump, malloc corruption), libbacktrace | none, deliberate faults, or vendored | | | not modelled |

What makes each modelled component correct:

- threads: every stack in use has one owner who will free it; nobody touches a descriptor
  that was given back; a join ends after the thread and does end; `exit(0)` comes with the
  last thread;
- stack cache: accounting equals contents, best fit, trimming, no mapping lost, no stack of
  a live thread reused, requested size available, execute permission everywhere; in the
  child of a fork the lists are lists again and no stack but the one in flight is lost;
- set*id: afterwards all threads have the same ids, nobody answers a call that is over, the
  call returns and no exiting thread is left asleep;
- `system`: signals ignored exactly while a call is in progress and given back afterwards,
  each shell started with the program's dispositions, masks kept, no shell left behind;
- `popen`: each shell has its own pipe and no other stream, no descriptor or shell left,
  `pclose` returns;
- `frame_ipc`: a frame is not written while it is read, is read once and complete, and its
  place becomes free;
- `g_spawn`: success is reported exactly if the program started, nothing is left open or
  unreaped, all output is collected, the call returns;
- `ipc::Ipc`: a name leads to the object its process has now, deadlines are what was asked
  for, a killed server's successor can open its end.

`PROJECT.json` lists the hazards line by line with the properties that cover them; those
without a property have a note.

## 2. Modules

| module | models |
|---|---|
| `StackPool` | abstract: what a pool of thread stacks promises (a block is unmapped, used or cached; only a block whose thread is dead is reused or unmapped) |
| `ThreadLife` | the thread life cycle on `StackPool`'s variables |
| `StackCache` | `allocatestack.c`; implements `StackPool` by `INSTANCE ... WITH` |
| `DoSystem` | `do_system`, both sources, chosen by `version` |
| `Popen` | `iopopen.c`, both sources, chosen by `version` |
| `FrameIpc` | `frame_ipc.c` with the loops of `a.c` and `b.c` |
| `GSpawn` | one call of `gspawn.c` with all its processes |
| `SetXid` | `__nptl_setxid` with the creation, start and exit of threads it meets |
| `ForkReclaim` | the stack lists by their pointers, forks, and `__reclaim_stacks` |
| `Ipc` | `ipc.cpp`, a server and a client process |
| `MCThreadLife`, `MCStackCache`, `MCForkReclaim` | constants and symmetry for TLC; the other modules are run as they are |
| `ThreadLifeProofs`, `DoSystemProofs`, `PopenProofs`, `SetXidProofs`, `GSpawnProofs`, `StackCacheProofs`, `ForkReclaimProofs` | theorems about the module each is named after |
| `IpcProofs` | theorems about `Ipc` and `FrameIpc`, the two ways to pass data between processes; the definitions of `FrameIpc` that every specification has carry its name (`FrameSpec`, `FrameIInv`) |

Operators keep the names of the functions they stand for. Small operators marked *Fault*
are variants of a step with a plausible mistake; no specification uses them. They are there
so that each property can be seen to fail when the step is replaced.

### ThreadLife

One action per access to the shared descriptor that others can observe. `joinid`, `bits`
(`cancelhandling`), `lock`, `stopped` and `tid` are the descriptor's fields, `phase` is the
position in `start_thread`, `pc`/`arg` the call an actor is in, `where` the state of the
block. `handle` is the application's right to join or detach a thread, which is what POSIX
asks of a program: it claims a thread once. Without that discipline the code does not
protect itself: the compare-and-exchange of `joinid` (`pthread_join_common.c:120`) expects the
caller's own id and stores NULL, so a second joiner is not rejected although the comment says
"There can only be one waiter." Abstractions:

- `pthread_detach` is not in the repository; it is external, one atomic step.
- A failed allocation and a join that returns an error change no state and are left out.
- The handle is published when `clone` returns; the code may publish it earlier, but the
  program has no other way of knowing that it is valid.
- The end of the main thread (`main_exit`) stands for its `pthread_exit`, external.
- A user-supplied stack is handed to a second thread only when the first one is gone.
- `pthread_tryjoin_np` (`block` false, 130) is not among the callers: it either returns `EBUSY`
  and changes nothing, or does what a join of an ended thread does.
- Thread-specific data, robust mutexes and thread debugging events do not touch the state
  above and are left out; the set*id handshake is module `SetXid`.
- A joinable thread whose setup fails after the clone is nobody's (the code's comment names
  glibc bug 19511); `UniqueOwner` names this case as `Orphan`.

### StackCache

The lists are sets, except the cache, whose order (`list_add` at the head) decides what is
trimmed. Each critical section of `stack_cache_lock` is one action; the steps between two
of them (`mmap`, the second check of the permission, the guard) are actions of their own,
so that creators, exiting threads and `__make_stacks_executable` interleave there. Threads
are only an environment that sets and clears `tid`; `ThreadLife` has the detail. Sizes are in
pages. Left out: `MULTI_PAGE_ALIASING` (off in this build), `EINVAL` for too small sizes,
`__pthread_init_static_tls`, `__wait_lookup_done`; `__reclaim_stacks` and `__nptl_setxid` have
modules of their own.

A stack that is reused keeps former guard pages with the protection that was read before it
was taken (line 724), so such pages may miss the execute permission although
`__make_stacks_executable` has succeeded. `perm = "usable"` is that state, and
`ExecEverywhere` speaks of the rest of the stack. The cache may also stay above its limit as
long as the remaining stacks belong to threads that are not dead yet; `TrimPolicy` says so.
After a failed `change_stack_perm` (656-662) the block is unmapped but stays on `stack_used`,
unlike after `mprot_error`: `MappedListed` therefore asks that what is mapped is listed, and
of the cache only that what is listed is mapped. An `mmap` of a later creator could return the
address of such a block, and `list_add` would then link it a second time; `map_stack` takes its
block from those on no list, so what follows from that second link is outside the model. (The
same guard is in `ForkReclaim`; `SetXid` and `ForkReclaim` leave out 656-662 itself.)

### DoSystem

`disp` is the process's disposition of SIGINT and SIGQUIT, `saved` the static `intr`/`quit`,
`blocked` whether a thread's mask blocks SIGCHLD, `child` the shell of the call. The first
caller's `sigaction` calls are separate steps with the lock held; any other section under
the lock is one step that needs it free. `user` and `usermask` are history: what the program
asked for. The program changes dispositions only while no call is in progress; a program
that changes them meanwhile has no defined expectation of the result. 2.27's
`CLEANUP_HANDLER` is defined outside the repository, so cancellation is modelled for 2.32.
Every call whose result the code looks at may fail; one whose result it casts to `void`
succeeds. In 2.27 this includes the calls that set things back (159-171): when a `sigaction` of
the last caller fails, `sigprocmask` is skipped and the call returns -1 with SIGCHLD blocked
(`sub_ref_227_fails`). `unset_disp` and `unset_mask` record what could not be set back;
`SignalsRight` and `MaskRestored227` say exactly what is then left, and that nothing else is.
2.32 sets the mask back only where the last reference goes (186), so of two overlapping calls
the first to end returns with SIGCHLD still blocked; `MaskRestored227` is stated for 2.27.

### Popen

The state is the table of descriptors (`fds`), with the pipe end each refers to and its
close-on-exec mark, and what a shell inherits of it at its start. `inherits` computes the shell's
table from the parent's: the entry of `cfd` is copied to the standard descriptor, the streams of
the chain and what is close-on-exec go. Where the entry is there already, 2.27 clears the mark;
the file action of 2.32 (external) is taken to be a plain `dup2`, which would leave the end to be
closed at the exec, so `OwnPipe` rests on the move of the child end (180-187). 2.27 walks the
chain in the child without the lock and links afterwards; 2.32 does both under the lock.
Descriptors run out, and the program may have been started with 0 or 1 closed. `pclose` takes the
stream off the chain under the lock but closes it afterwards (2.32: 260 and 276), so a shell
started in between inherits it; `SealedWhenOpen` excepts exactly those streams (`leaving`). A
`close` that fails makes `pclose` return -1 without `waitpid`: the stream is then `lost`, and the
zombie it leaves is not followed further (`abandoned`).

### FrameIpc

Segment and semaphore have a generation, because a producer that starts removes the old ones
and creates new ones while a consumer may still be attached. Kernel semantics (external):
undo adjustments and their limit, removal, attachment, process end. The consumer starts only
while a producer runs, the order the Readme prescribes. It looks up the segment and the semaphore
one after the other (108, 110), so a producer that restarts in between leaves it with ids of two
generations; its segment is then gone and it faults when it attaches. A wait that fails with
EINTR, which a stop and continue of the process suffices for, is ignored like any other failure
(116): the consumer takes a frame without the semaphore. `spoiled` is the history of the segments
this happened to. `FrameExclusive` and `Handover` are stated for all others; `FrameFreed` holds
for these too. `shmget` after the removal of a
mapped segment is assumed to succeed. `SemUndo` selects `SEM_UNDO` (as compiled) or 0 (the
`#if 0` alternative, which `Process/InterProcessComm/Readme.md` arrives at).
A consumer that is killed with a frame leaves the flag set, and the producer waits for ever:
this is how the protocol works, and `FrameFreed` is stated for two living processes.

### GSpawn

The caller, the intermediate child, the child that execs, and a program another thread starts
each have a descriptor table; a pipe is at its end when no table holds its write end. `opt`
ranges over all combinations of sync/async, intermediate child, the `posix_spawn` fast path,
close-descriptors, close-on-exec pipes and wanted streams. Left out: parsing of the command
line, the PATH search and script fallback in `g_execute`, errors of `read` and `select` other
than end of file, and `g_spawn_async_with_fds`. A child that is killed before its report
is complete looks like a success; `Reported` is therefore stated for children that
are not killed. Descriptors have no numbers: 0, 1 and 2 are taken to be open in the caller, so
that no pipe end lies on them and each `dup2` (1303-1348) makes a new entry without the mark.
`over_exec` is what remains of the child's own table after the closing and marking that came
before. `child_close_fds` ends at its first -1, so with neither close-on-exec nor
close-descriptors the caller's end of stdout stays open in the program when stdin is no pipe;
`OwnEndsOnly` says that nothing else of the call's pipes stays.

### SetXid

`__nptl_setxid` holds `stack_cache_lock` from its first to its last step, so one program
counter (`xpc`) with the rest of the list (`todo`) is its whole control; what it reads of a
thread and the futex it then waits on are separate steps. A thread is created (`call`, `new`),
started and ended (`phase`) step by step, its SIGSETXID is pending until it runs the handler,
which makes the system call and answers in two steps. `cred` is what the kernel has for a
thread; a clone takes it from its creator. External: the handler, which is not in the
repository (it makes the call of `*__xidcmd`, clears the bit, releases an exiting thread and
counts down), `tgkill`, futexes, `clone`. `lossy` records a `tgkill` that failed for a living
thread: the code goes on without that thread, and `SameIds` excepts it.
Left out: the failure at 656-662, and the second run of 419-423 by a thread that a
cancellation or `pthread_exit` takes back to the `setjmp`; the walk waits for the first run only.
`Doomed` is a deadlock the code has: `mprot_error` (683) asks for `stack_cache_lock` to take
its stack off the list, while `__nptl_setxid` holds it and waits in `setxid_mark_thread`
(980) for the thread of that stack to be cloned, which will never happen. `SetxidReturns` and
`ExitNotHeld` hold in every other case; in particular the loop of `start_thread` of which the
comment says "We need to check and document why this is correct" (562-565) always ends.

### ForkReclaim

`next` and `prev` are the pointers of list.h (external). Stores between two barriers of
`stack_list_del` and `stack_list_add` happen in any order, one per step, and a `fork` may come
between any two; the model then follows the child, whose memory is the copy, through
`__reclaim_stacks`, step by step, and on to further threads and forks. Every stack has size 1;
`stack_cache_actsize` is a `size_t` and wraps at `SizeMod`. `lost` and `skewed` are history: a
block that was between two lists when the fork came is on neither in the child (the code does
not try to find it), and a fork between a list change and its accounting leaves the size off
by one stack; `StacksKept` and `CacheAccounted` except exactly these. The assertion of
`__reclaim_stacks` (891) is part of `ListsSound`.

### Ipc

A process is a role with its one `Ipc` object: it opens, reads, writes, closes, and may be killed
at any point. An `Open` that fails returns FAIL to a caller that is not in the repository
(`failed`); it may call `Open` again, and does not `Close` what it has not opened. Names, sockets
and queues are the kernel's (external); a message is its sender. `abs_timeout` is computed as in
the code, with shorter seconds. `exposed` is history: since the server's queue was made somebody
closed an end, or a client that had failed to open it removed the name. Such a client removes the
name of a queue it has nothing to do with (58-62), and so does every `Close` (215); `QueueNamed`
says that nothing else takes the name from a server, and that it never leads to another queue. A
deadline that falls on a full second is not carried over (`>` at 123): `DeadlineExact` names this
one exception. Left out: what `Read` and `Write` return (the socket branch of `Write` returns
FAIL also after a successful `sendto`), a second `Open` without `Close`, an `Ipc` used before
`Open`, and signals that interrupt a call.

## 3. Runs

Passing runs:

| run | shows |
|---|---|
| `thread_life` | In every interleaving of create, exit, join, timeout, cancel and detach: one owner per descriptor (`UniqueOwner`), no use after free, right `__nptl_nthreads`; `ThreadLife` implements `StackPool`; creates and joins return and detached threads are reclaimed |
| `stack_cache_policy` | cache accounting, best fit, trimming policy and usable size of reused stacks, with three sizes and guards |
| `stack_cache_race` | two creators, a user stack, exiting threads, failures and `__make_stacks_executable`: no mapping is lost, none misses the permission, `StackCache` implements `StackPool` |
| `system` | two threads in `system`, either source, with failing `sigaction`, `sigprocmask` (on the way in and, in 2.27, out) and spawn and with cancellation |
| `popen` | two streams, either source, five descriptors, standard ones open or closed, failing spawns and closes |
| `frame` | `sem_flg = 0`, three producer starts, both processes killed and restarted at any point, waits interrupted |
| `g_spawn` | one call, every combination of options and every failure |
| `setxid` | `main` creates threads, with failing clones and guards, one of which sets the ids while others start and end: same ids, answers counted, the call and the exits end |
| `fork_reclaim` | two forks at any store of any list change: sound lists, no stack but the one in flight lost, cache accounted |
| `ipc` | a server and a client with sockets or the queue, two kills or failures at any point: names, deadlines, recovery of the server |

Runs that exhibit a disagreement between the code and what the repository says about it:

| run | shows |
|---|---|
| `frame_undo` | `Readme.md:778`: "classic producer-consumer synchronisation". With `SEM_UNDO` the adjustments only grow, `semop` fails at the limit, the failure is ignored and the consumer reads what the producer is writing |
| `fork_recycle` | `allocatestack.c:859-862`: "All stacks except that of the one running thread are not used anymore.  We have to recycle them." Only the stacks on `stack_used` get their `tid` cleared (907-913); one that a detached thread had queued in `stack_cache` while it still ran keeps it and is never free in the child |

### Bounds

- `thread_life`: one mapped and one user-supplied block, and the main thread. Two created
  threads and `main` give three actors, enough for a creator, a joiner and a detacher of
  different threads and for reuse of a cached block; the theorems cover more.
- `stack_cache_policy`: three blocks of 1, 3 and 5 pages, limit 6: exact match, larger match,
  more than four times too large, and a limit that any two larger blocks exceed.
- `stack_cache_race`: two mapped blocks and a user block, two creators, limit 4. Blocks and
  creators are interchangeable, so their permutations are a symmetry; no liveness is checked
  there.
- `system`: two threads; every rule is about first, last and overlapping calls.
- `popen`: two streams, five descriptors: two pipes and one standard descriptor fit, two pipes
  and a moved end do not always.
- `frame`: `MaxGen = 3` producer starts: a consumer can be one or two generations behind.
  `SEMAEM = 2` and `SEMVMX = 2` stand for 32767; only `frame_undo` depends on the first, and only a
  segment with an interrupted wait can have more than one post outstanding.
- `g_spawn`: `PipeSize = 1`, `MaxOut = 2`: a program can fill each pipe and has more to write.
- `setxid`: three descriptors, `main` the only creator (`Creators`) and one thread that sets the
  ids (`Callers`): the call meets threads at each point of creation, start and exit, and
  descriptors are reused between calls. The liveness properties set this size.
- `fork_reclaim`: two library stacks, one user stack besides `main`'s, `MaxCache = 1`, so that a
  second cached stack makes `free_stacks` work, and `MaxForks = 2`, so that a child that has
  repaired its lists is forked again. `SizeMod = 8` is larger than any true size.
- `ipc`: six objects, enough that `new` always finds one; `MaxMsg = 1`, so that a queue is empty
  or full; with `MsPerSec = NsPerMs = 2` a second has four units, and `MaxTimeout = 2` and
  `Clock = {1, 2, 3}` put a deadline before, on and after the full second; `MaxFaults = 2`, so
  that a restarted process can be killed again.

Deadlock checking is off where the system may really stop: the process has ended (`ThreadLife`,
`GSpawn`), nobody calls any more or all threads were cancelled (`DoSystem`), the application
makes no further request (`StackCache`), the process has aborted or waits for ever as `Doomed`
says (`SetXid`), the bound on forks is reached (`ForkReclaim`), the processes are off and may not
start again within the bound (`FrameIpc`).

### Fairness

Only steps of running threads and processes and of the kernel are fair, always weakly:

- `ThreadLife`: calls in progress and threads past their start routine; a start routine may run
  for ever, no timeout and no cancellation has to come.
- `DoSystem`: each call's next step, and the death of a killed shell; shells need not end.
- `Popen`: calls go on, a stream that was opened is closed at some time, a shell that writes
  ends, a shell that reads ends once nobody has the other end of its pipe. The last two are the
  normal behaviour of shell commands, and without them no `pclose` need return.
- `FrameIpc`: both loops, while their process lives; nobody has to start or kill one.
- `GSpawn`: the caller and its children; the program only for `g_spawn_sync`, which waits for it;
  a program started by another thread need not end, and `SpawnReturns` names the case that such a
  program keeps the pipe open that the caller waits on.
- `SetXid`: `__nptl_setxid`, each creation in progress, each started or exiting thread and each
  handler of SIGSETXID goes on for as long as it can; calls are the program's choice.
- `Ipc`: a call of `Open` runs to its end. That its caller tries again after a failure (`Retry`)
  is an assumption of `ServerRecovers`: no caller is in the repository. Nobody has to read, write
  or close, and faults are bounded.

## 4. Proofs

All theorems follow the pattern `Init => IInv`, `IInv /\ [Next]_vars => IInv'`,
`IInv => property`, with one lemma per action. `TypeOK` and `IInv` of these modules
are proved for every value of the constants, so the runs do not check them again; they were
found with TLC (`INVARIANT IInv`, or `FrameIInv`, added to a module's `.cfg` repeats that check; for
`ForkReclaim`, whose `IInv` is in the module of its proofs, with a module that extends that one).

**ThreadLifeProofs** (`ActorAssumption`, `StackAssumption`: finitely many stacks, the main thread
and NULL are no stacks, user stacks are stacks). `IInv` is `TypeOK` with: an actor inside a call
works on a block in use (`RefInv`), on which no other actor works (`ExclusiveInv`); what it knows
about the block at each point of the call (`CallInv`); a thread with a handle is not detached and
not being freed (`HandleInv`); `tid` is set exactly while the thread runs, and a thread's block
is in use until somebody has won the right to free it (`PhaseInv`). None of the safety properties
is inductive alone: that `pthread_join` frees only once needs exclusion, which needs the handle
rules, which need the meaning of `EXITING` and `TERMINATED`. Proved: `Invariance`, `TypeCorrect`,
`MemorySafety` (`NoUseAfterFree`), `JoinSafety` (`JoinAfterExit`), `PoolRefinement` (`PoolSpec`,
every step is a step of `StackPool` or leaves it unchanged), and from it `LiveStacks`
(`LiveStackKept`). The two properties that count need more, `OwnInv`, which is inductive together
with `IInv`: a thread is inside a call only in its start routine or while it frees itself
(`CallerInv`); a detached thread past its last check has set `TERMINATED`, or the one who
detached it has (`LockInv`); every block in use that is no orphan has an owner (`OwnedInv`).
`SingleOwner` (`UniqueOwner`) then shows that the possible owners exclude each other.
`CountExact` (`ThreadCount`) follows the two finite sets that `__nptl_nthreads` stands for
through each step.

**DoSystemProofs** (`SystemAssumption`: finitely many threads). `IInv` adds to the safety
properties who holds the lock (`LockInv`), that the caller that sets the dispositions is alone
(`LoneSetter`), what `intr` and `quit` hold at each stage (`SavedInv`) and when a shell exists
(`ChildInv`). Proved: `Invariance`, `ReferenceCounting` (`RefCount`),
`SignalSafety` (`SignalsRight`), `NoShellLeft` (`ChildCollected`), and `MaskKept227`
(`MaskRestored227`: a 2.27 call returns with the mask it came with, or a call that sets things
back has failed) with what a thread's mask is at each point of a 2.27 call (`MaskInv227`).

**IpcProofs**, of `Ipc` (`IpcAssumption`: at least one object is unused besides four, which is
what the kernel gives a new socket or queue from; positive units of time). `IInv`: a process has
a descriptor from the end of `Open` to the end of `Close` (`FdInv`); no object is both socket and
queue and no socket has two names (`NameInv`); a socket holds only what the peer sent, and an
object nobody can reach holds nothing, so that a new one starts empty (`BoxInv`); a client that
is about to remove the name has been noted (`QueueInv`); who is in no call has no deadline
(`TimeInv`). Proved for any number of kills and failures, any limit of a queue and any units:
`Invariance`, `Connected` (`SocketsConnected`), `NameKept` (`QueueNamed`) and `Deadlines`
(`DeadlineExact`), which is the arithmetic of `abs_timeout` with its one exception.

**IpcProofs**, of `FrameIpc` (`FrameAssumption` and `SemUndo = FALSE`). `FrameIInv` says that at
any moment exactly one of the free flag, the producer, the posted semaphore and the consumer has
the frame of a segment that is not spoiled (`PostInv`, `ConsumerInv`, `ProducerInv`), and relates
ids to generations: the two ids of a consumer agree for as long as its segment exists (`IdInv`).
Proved for any number of restarts and any limits: `FrameInvariance`, `Exclusion`
(`FrameExclusive`), `HandedOverOnce` (`Handover`).

**PopenProofs** (`PopenAssumption`: descriptors are numbers and include 0 and 1). The three
safety properties and `SealInv` are inductive together: that a shell finds its pipe on its
standard descriptor (`OwnPipe`) depends on which descriptors the table holds for a stream at each
stage (`TableClean`), and that no shell inherits a foreign stream (`SealedWhenOpen`) on the
close-on-exec marks and on the chain being complete (`SealInv`). Proved for any number of streams
and descriptors, both sources: `Invariance`, `OwnPipes`, `NothingLeft`, `Sealed`.

**SetXidProofs** (`SetXidAssumption`: finitely many threads). `IInv`: under the lock the lists
stay as they are and hold every thread that has not freed its TCB (`ListInv`); a descriptor
without a thread has one creator and a negative futex, which keeps the walk from going past it
(`BirthInv`); only the call that runs marks threads, and a marked one does not leave
`start_thread` (`BitInv`); who owes an answer has been signalled in this round and is
marked until it has acted (`OwingInv`); a thread has the old ids before its handler and the new
ones after it, and a round that signals nobody has found nobody (`CredInv`, unless a signal was
lost). The caller changes its own ids last, so until then they tell the old ones. Proved:
`Invariance`, `AllAnswer` (`AnswersCounted`), `IdsAgree` (`SameIds`), for any number of threads,
all of which may create threads and call set*id.

**GSpawnProofs** (`SpawnAssumption`: pipes hold something). `IInv`: what is in the caller's table
at each point (`SelfInv`); which children there are and which of them `pid` names (`StageInv`); a
child that has not started the program keeps the write end of the report pipe, so that its end
cannot come too early, and the program has its ends of the streams (`HoldInv`); what has been
reported and what the caller concludes (`ReportInv`); what was written is held or collected, and
a pipe that the caller has closed is empty with no program to write to it (`StreamInv`). Proved
for any pipe size and any amount of output: `Invariance`, `ReportedTruly` (`Reported`),
`NothingKept` (`NothingLeftBehind`), `NoStrayEnds` (`OwnEndsOnly`), `NothingLost`
(`OutputComplete`).

**StackCacheProofs** (`CacheAssumption`: user stacks are stacks, NULL is none, sizes and guards
are numbers, a request is larger than its guard). `IInv` adds to `CacheConsistent`,
`MappedListed` and `ExecEverywhere`: a creator between two critical sections has a block of its
own that is in use, mapped, large enough and without a thread (`CallInv`), which is why neither a
trim nor another creator can take it away; a thread's block is on a list (`TidInv`), so what
`mmap` returns has no thread; a creator that read the flag as set makes its block executable from
the start (`FlagInv`), and the others look again, which closes the race with
`__make_stacks_executable`. Proved for any stacks, creators, requests and limit: `Invariance`,
`ActsizeExact` (`CacheConsistent`), `NoMappingLost` (`MappedListed`), `ExecReachesAll`
(`ExecEverywhere`), `FitsRequest` (`StackFits`), `TrimsToLimit` (`TrimPolicy`) and `CacheIsPool`
(`PoolSpec`). The search and the trimming are folds over the cache, and its size is a sum over a
set. The library's induction theorems take an operator as a parameter, so the module first proves
induction over the subsets of a finite set as a fact about sets (`SubsetInduction`) and that the
function a fold chooses obeys its recursion (`FoldExists`). `Searched` and `Trimmed` then say
what the loops compute: the best fit, and what is left of a list, its size, and in which order
the others went. `TotalRemove` and `TotalSplit` say that a sum of sizes does not depend on the
order.

**ForkReclaimProofs** (`ForkReclaimAssumption`: finitely many descriptors, none of them a list
head; NULL is neither a node nor a value of `in_flight_stack`; the size word holds the size of
all stacks). The properties speak of paths along pointers, while a step stores one pointer of one
node. `IInv` therefore describes a list by the set of its elements (`Linked`): `next` and `prev`
stay in the set and its head and undo each other, and no smaller set is closed under `next`. It
asks for three sets, of `stack_used`, `stack_cache` and `stack_user`, that are linked not by the
pointers as they are but as they will be: with a deletion in flight completed, or with the one
pointer an addition stores into the old list put back (`FixNext`, `FixPrev`). These are
the same whichever of the stores between two barriers have been done, so a fork finds the same
lists wherever it comes, and the repair in the child makes the pointers agree with them. The
other parts say which stores have been done (`DelInv`, `AddInv`), where the block of a change is at
each point (`PlaceInv`, `MappedInv`), that no thread loses its stack (`ThreadInv`) and what the
size is off by (`SizeInv`).
The lemmas about lists come first. `PathIs` to `PathCloses` and `WalkIs` say that following the
pointers of a linked list visits its set and ends, `LinkedDel`, `LinkedAdd` and `LinkedSplice`
what list.h's operations do to the set. Proved for any number of stacks and of forks, in any
order of the stores: `Invariance`, `TypeCorrect`, `Sound` (`ListsSound`, with the assertion at
891), `Kept` (`StacksKept`) and `Accounted` (`CacheAccounted`).

Only model-checked is all liveness (`DetachedReclaimed`, `JoinReturns`, `CreateReturns`,
`CallEnds`, `PcloseReturns`, `FrameFreed`, `SpawnReturns`, `SetxidReturns`, `ExitNotHeld`,
`ServerRecovers`), which needs fairness and `ENABLED`. The properties of the two runs that expect
a violation are false of the code: `AllRecycled`, and `FrameExclusive` with SEM_UNDO.

## 5. Not modelled

Not modelled, with the reason:

- demonstrations that fault on purpose (sanitizers, coredump, malloc corruption, ltrace,
  lock-order examples): one thread or two, and the fault is the point;
- libbacktrace: prints a stack; formatting and I/O;
- thread attributes: a caller's own `pthread_attr_t`, shared with nobody;
- `test1.cpp`, `test2.cpp`, `sem_test.c`: examples of a condition variable and a semaphore. One
  notification flag of `test2.cpp` stands for two queues, which is listed as a hazard;
- `CreateProcess`, `Schedule`, `InheritProcess`: the calls `fork`, `exec` and `fcntl` in a row; what
  can go wrong between them is what `DoSystem`, `Popen` and `GSpawn` model in full;
- of `gspawn.c`: command line and PATH handling, setup callbacks, the wrappers that only
  translate arguments and errors;
- of `allocatestack.c`: `__pthread_init_static_tls` and `__wait_lookup_done`, whose other halves
  (the dynamic linker) are not in the repository;
- of `pthread_create.c`: the debugger event queue, whose reader is a debugger.

Seven hazards have no property, because they are what the code does and a property of them needs
a change of the code first: a second joiner (`pthread_join_common.c:120`), the mask after
overlapping calls (2.32 `system.c:186`), a shell started while a `pclose` is under way (2.32
`iopopen.c:260`), a consumer killed with a frame (`frame_ipc.c:126`), a child of `g_spawn` killed
while it reports (`gspawn.c:1831`), the notification of `test2.cpp:76` and the listening socket of
`InheritProcess` (`server.c:54`).
