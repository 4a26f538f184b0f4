# TLA+ verification of the VNU kernel

VNU is a single-CPU hobby operating system: a kernel in C++ with processes,
POSIX-style signals, pipes, address spaces, a FAT16 volume, a TCP stack and a
window system, and a userspace above it. These modules model the parts of the
kernel where several actors share state, check them with TLC and prove the
central invariants with TLAPS. Paths below are relative to `src/vnu/kernel`
unless they start with `src/`.

## The system and what is hard about it

| Part | State | Operations | What is hard | Modules |
|---|---|---|---|---|
| Pipes, `fs/pipe.cpp` | 8 pipes with a ring and two counts; a descriptor table per process | create, read, write, close, dup, dup2, fork, end of process | counts must match descriptors through every history; end of file rests on them; a parked reader | `Pipe`, `PipeAbs` |
| Processes and scheduler, `proc/process.cpp` | table of 8 entries, round-robin position, init's slot | fork, spawn, exit, waitpid, sleep, wakeup, preempt | lost wakeups, orphans, who frees an entry, wait channels that alias | `Proc` |
| Signals, `proc/process.cpp` | actions, pending set, mask, one interrupted frame and saved mask | sigaction, sigprocmask, raise, kill, alarm, delivery, sigreturn | delivery at several boundaries, handlers inside handlers, interrupted sleeps | `Signals` |
| Frame pool, `mm/pmm.cpp`; address spaces, `arch/i386/paging.cpp`; canvases and back buffer | bitmap of frames; page tables and the frames a space owns | allocate, extend, map, borrow, unmap, destroy | a loop that stops half way must neither lose nor share a frame; two views of one buffer | `Paging`, `Frames` |
| FAT16, `fs/fat16.cpp`, and mounted files, `fs/vfs.cpp` | two copies of the allocation table, chains, entries; descriptors that remember a directory, a name and a size | create, write, truncate, unlink, mkdir, rmdir, move | the order of sector writes, an error or a loss of power between them; a full volume; stale descriptors | `Fat16`, `Mount`, `FileStore` |
| Seeding the data volume, `fs/vfs.cpp` | the volume, what is served from it | boot | a boot that fails half way | `Seed` |
| Files in memory, `fs/vfs.cpp`, and the display, `arch/i386/drivers/fb.cpp` | nodes with buffers from the pool, one descriptor table for all processes, quotas, who presents | open, close, dup, read, write, seek, create, remove, move, chmod, chown, quotas, exit | what outlives the process that held it; a pool that refuses in mid-call | `Vfs` |
| TCP, `net/tcp.cpp` | 8 sockets with buffers, accept queues | connect, listen, accept, send, recv, close, input, retransmission | lost, repeated and reordered segments, windows, backlog | `Tcp` |

The rest (drivers, compositor drawing, boot, installer, C library, shell,
compiler, user programs) is listed with the reason it is left out in
`PROJECT.json` under "components" and below under "Not modelled".

One fact shapes every module. There is one CPU and a system call runs with
interrupts off, so a call is one atomic step up to the point where it gives
the CPU away (`yield_current`, `sleep_on`). The timer preempts user mode only.
What interleaves is therefore the order of whole calls of different processes,
and what happens to a process while it is parked inside one.

## Modules

### Pipe, PipeAbs

`Pipe` has the pipe records (`pused`, `readers`, `writers`, `ring`), the
tables (`tab`, `fds`), the living processes and the parked reads. Each function
of `pipe.cpp` is an action that includes what its callers do around it; a
`read` on an empty pipe becomes a parked request that `ReadAgain` retries, as
the loop of the dispatcher does. When the tables run out, a child is born
without pipe descriptors, as in `fork_copy`.

`PipeAbs` is what a pipe promises: a bounded FIFO of bytes with a set of
holders for each end, end of file exactly when nobody holds the write end.
`Pipe!Refines` states that `Pipe` implements it; `PipeRefinement` proves it.
The steps of `PipeAbs` choose the bytes of a write, so the second conjunct of
`Refines` ties them to the call: a `Pipe!Write` of s is the `PipeAbs!Write` of
the same s.

### Proc

The table, the scheduler's place in its walk (`slice`), init's slot and the
next pid. `run_scheduler` is one turn of the outer loop (respawn init, wake
passed deadlines), `run_slice` gives the CPU to the next slot. A signal
appears as what it can do to its target: terminate it, be left pending, or
nothing. Assumptions: spawning init does not fail for lack of memory; once the
bound `MaxPid` is used up a pass goes on without a new init.

### Signals

The signal fields of one process and where that process is (`mode`): in its own
code, preempted, asleep, woken, in the console read, dead. The other processes
appear as their effects: a signal sent while this one does not have the CPU,
and somebody to switch to on a tick. An interrupted context is its nesting
depth. The history field `entered` keeps the masks that the running handlers
interrupted, so that properties can say where a handler ought to return.
Windowed tasks take their signals elsewhere and are not modelled.

### Paging, Frames

`Paging` holds the algorithms of `pmm.cpp` and `paging.cpp` as operators on a
working state `[bitmap, m, ok]`, folded over the pages of a range so that a
loop stops where the code returns. `Frames` is the state machine of those who
use them: spawn of processes and window tasks, fork, exec of an embedded
program and of a file, brk, canvas and resize, reaping, and the display's back
buffer with the mapping `/dev/fb0` lends out. `RegionsApart` assumes the
regions of an address space do not overlap, which the constants of the source
give for canvases up to 4 MiB (a larger one would reach the task's stack).
Contents of frames are left out. `Overhang` is the part of an image that exec
of a larger embedded program puts past the process's region, on the kernel's
memory; `ProgramBacked` is about every other page. The page of the display's
frame may outlive a mode change: `include/vnu/fb.h` documents it and asks programs to
poll, so `ProgramBacked` stops below `VNU_FB_VA`.

### Fat16, Mount, FileStore

`Fat16` has the functions of `fat16.cpp` as operators on a working state: the
volume, how many sector writes were made, and the write at which the call is
hit, by an error it sees or by a loss of power. A volume is two copies of the
allocation table, directories as slots (long-name slots included) and
clusters of one cell. `format` is the state it leaves.

`Mount` is the mounted half of the VFS calls. A descriptor keeps the directory's
cluster, the name, a position and the size it believes in, as in the code. Two
fields are history: the path, and whether somebody else changed the file. A
descriptor whose directory was removed writes to whatever the cluster is by
then; the model marks such a call "stray" and promises nothing from there.

`FileStore` is what a volume promises: a map from paths to contents. Its write
chooses file, offset and data, so the second conjunct of `Mount!Refines` ties a
write to its descriptor: the file it was opened on, from the position or, with
O_APPEND, the remembered size.

### Seed

`migrate_tree` and the end of `init_disks`, over `Fat16`: boots that finish,
meet an error, or lose power.

### Vfs

The node table, each node with the run of frames that is its buffer, the
global descriptor table with an owner in every entry, quotas, and the display
that a descriptor on `/dev/fb0` holds while the desktop comes and goes. Sizes
stand for contents. Calls are made by living processes; `set_path` is the
kernel's own and acts on `KernelPaths`. A call that is refused and leaves no
trace is no step; one that leaves a trace (a created node, a display already
taken, a size moved) is. A behaviour starts with a budget: how many calls of
each kind it may make and on which paths, so that each scenario is explored in
full and the scenarios together have every operation. `QuotaHeld` is about
steps: what a user stores may grow past the limit only by a call that never
asks for quota (chown, the kernel's own `set_path`, a move of a `/proc` page).

### Tcp

The socket table of two machines joined by a bag of segments (a function from
segments to numbers of copies) that loses, repeats and reorders. One process per machine makes the calls. Input is handled
only inside the wait loop of a blocking call, so delivery and the loop's test
are separate actions. Assumptions: initial sequence numbers come from a clock
that moves between handshakes; ARP is external and answers or fails; a client
connects a socket once; a server listens on the port it bound; loopback is left
out. `fin_sent` is never assigned in the source, so the FIN_WAIT states cannot
occur and are left out.

## Runs

| Run | Bounds | States | Shows |
|---|---|---|---|
| `pipe` | 2 processes, 1 pipe, 2 descriptors, 2-byte ring, 2 byte values | 11,466 | counts are exactly the descriptors; refinement of `PipeAbs`; a parked reader whose last writer is gone returns |
| `proc` | 3 slots, 3 pids, 2 pids per wait channel | 40,781 | no sleep over a dead child, CPU holder runnable, pids distinct, who frees; waiters return, runnable processes run |
| `signals` | SIGKILL and 3 catchable signals, 2 nested handlers | 62,952 | SIGKILL uncatchable, returns to the interrupted context, no sleep over a signal, the next signal is handled |
| `frames` | 9 frames, 2 programs of 1 to 3 pages, 5 pages per table, 2 tables per space | 140,276 | no frame lost or shared, pages backed and staying on their frames, one canvas for task and compositor |
| `mount` | 4 clusters, 4 root entries, files of 3 cells, 2 descriptors, 3 calls, 1 fault | 41,374 | volume in order after calls without fault and after a hit write; nothing lost without an error; remembered size; refinement of `FileStore`; a move survives a loss of power |
| `tcp` | 2 machines, 3 sockets, buffers of 2 bytes, sequence numbers modulo 34 | 270,641 | stream in order, end of file last, nothing acknowledged unheld, window respected, accept queue exact, one connection accepted once |
| `vfs` | 2 processes, 7 nodes, 5 descriptors, 3 frames of 2 bytes | 118,727 | owners alive, frames accounted for, display given back, quota held, a file or a `/proc` page outgrows its buffer only when the pool refuses |
| `proc_orphans`, `signals_nested`, `seed`, `tcp_window`, `tcp_retry` | as above | | violated, see findings |

Why the bounds are interesting. A two-byte ring wraps with reads and writes of
one and two bytes. Two pids per wait channel make channels alias, so that
wakeups reach the wrong sleeper. Two nested handlers are the smallest case of a
handler interrupting a handler. Nine frames are fewer than two programs with
heap, canvas and display want, so every allocation loop is cut short somewhere.
`mount` starts from four volumes: a directory that a long name fills, a volume
with one free cluster, one whose only file was removed, and one whose root
directory has no free slot, so that creating a file in it fails. Modulo 34,
sequence numbers wrap inside a connection. Three frames make the pool of `vfs`
refuse and fragment.

What the bounds leave out. In `pipe` there are as many tables as processes and
a single pipe: a fork without a free table, and dup2 from one pipe over
another, are covered by the theorems about `Pipe` only. In `tcp`, `mount` and
`vfs` the number of calls and faults is bounded, so these runs say nothing of
longer histories; the theorems about `Vfs` and the accept queue do. Both ends of
a connection in `tcp` are this stack: a peer that behaves otherwise, such as one
that sends its FIN while data is outstanding, is not modelled. `mount` has one
data value, so it sees a write to the wrong place but not two pieces of data
exchanged.

Symmetry is used in `frames` only, whose records are interchangeable and which
has no liveness property. Deadlock is checked in `proc` and `frames`. In `pipe`
and `signals` every process can die; the other models stop when their bounds
are used up.

### Fairness

* `pipe`: a parked read retries. The round-robin scheduler comes back to
  every runnable process, and a yielded reader is runnable.
* `proc`: the scheduler's loop goes on, a running `waitpid` runs on, and the
  100 Hz tick keeps arriving while a process is in its own code.
* `signals`: ticks arrive, the scheduler resumes a preempted process, a sleep
  has a deadline, a woken sleeper and a yielded console read continue. A
  process that stays in its own code gets the ticks that do not preempt it;
  one that is preempted gets its resumption, which delivers too.

## Findings

Each is a run whose property states what a comment or a document says;
`PROJECT.json` quotes the lines.

* `proc_orphans`: a process killed by another's signal does not hand its
  children to init.
* `signals_nested`: one frame and one saved mask per process; after an inner
  handler returns, the outer one has nothing to return to.
* `seed`: a seed that failed half way is served from the next boot on.
* `tcp_window`: the window update after a full buffer acknowledges nothing new
  and is dropped, so the sender does not resume.
* `tcp_retry`: a repeated SYN leads to a reset of the connection the first one
  made.

## Known limits of the code that no run states

The first three were runs of an earlier state of this project, with a property
that TLC found violated. Their runs are not kept; the models still have the
behaviour.

* A parentless process killed while parked is never collected, so init is not
  respawned (`proc/process.cpp:2345`).
* A pending signal can lose its handler; it then stays pending and holds up
  sleeps, console reads and higher signals (`proc/process.cpp:1600`).
* A canvas mapping that stops at the limit of frames per space is freed but
  stays listed in the space (`gui/wintask.cpp:917`). The `frames` run stays
  below that limit.
* exec of an embedded program larger than its caller does not grow the region
  (`proc/process.cpp:981`). This too was a run of its own; it is now part of
  `frames`, where `ProgramBacked` exempts exactly the pages concerned.
* `move_file` releases the source's buffer but keeps its node, so the source
  stays as an empty file (`fs/vfs.cpp:2512`; `include/vnu/vfs.h:73` says
  "copy+unlink").
* `move_file` of a `/proc` page leaves a file that is charged to its owner
  without a look at the limit (`fs/vfs.cpp:2499`; `fs/vfs.cpp:2003` says of the
  test in `write` that it "makes the quota a hard one").
* `parent_dir` accepts a regular file, so a file can be created below a file
  (`fs/vfs.cpp:458`).
* `dup2` over the last `/dev/fb0` descriptor (`fs/vfs.cpp:2253`), an open that
  finds no descriptor after it took the mode (`fs/vfs.cpp:1737`) and removing
  the node keep the display taken.
* When the pool refuses a run, a size can end up past the buffer, in two ways:
  a write that begins beyond the buffer still moves the end of the file
  (`fs/vfs.cpp:2024`), and `regen_synth`, called by open and stat of a `/proc`
  page, sets the size before it asks for room (`fs/vfs.cpp:968`).
  `OutgrowsOnlyStarved` says that there is no third.
* Removing an open file frees its slot, which an old descriptor then shares with
  the next file (`fs/vfs.cpp:2410`).
* unlink, rmdir and a shrinking truncate free the chain before the entry
  (`fs/fat16.cpp:1242`), and `update_entry` drops the result of its write.
* Data lost on the wire is sent again only inside connect and close
  (`net/tcp.cpp:912`).
* `alarm` divides ticks by 10 where the clock has 100 Hz
  (`proc/process.cpp:1619`), and a deadline that wraps to 0 reads as none
  (`proc/process.cpp:2386`). Time is abstracted in all modules.

## Proofs

All proofs hold for every value of the constants that meets the named
assumptions of the modules: any number of processes, pipes, tables, nodes,
frames, sockets and descriptors, any initial tree, any buffer size. The budgets
of calls and faults that keep a run finite are constants too (in `Vfs` and
`Tcp` a budget is part of the initial state, from the set `Budgets`), so the
theorems are about histories of any length. Every inductive invariant was also
checked with TLC on the instance of the component's run.

* `PipeProofs`: `TypeCorrect` and `CountsAlwaysExact`. The inductive invariant
  is `TypeOK /\ TablesOwned /\ CountsExact`. Ownership is needed because fork
  and exit find a table by pid: with two tables for one pid, exit would release
  only one of them. The argument counts descriptors as cardinalities of finite
  sets of (table, descriptor) pairs; lemmas say how the cardinality changes when
  one entry or one whole table is replaced, and each action is an instance.
* `PipeRefinement`: `PipesAreFifos`, that is `Spec => Refines`, both conjuncts.
  To the invariant above it adds `RingAgrees`: the write cursor is the read
  cursor plus the length, modulo the buffer. A ring is read as the sequence of
  its bytes from the read cursor on (`RingBytes`); taking bytes is `SubSeq` and
  storing them is concatenation, wrapped or not. The counts enter through
  `CountsSayHeld`: a count is zero exactly if no process has that end open.
  Each action is then one step of `PipeAbs`, or none.
* `ProcProofs`: `TypeCorrect`, `CpuHolderAlwaysRunnable`, `NoLostWakeup`,
  `PidsAlwaysDistinct`, `FreedOnlyByParent`. `NoLostWakeup` needs that the CPU
  holder is runnable, since only it can start to wait; the core is
  `NobodyMissed`: a death wakes both the channel of the dead pid and the
  channel for any child, so whoever could collect it is awake. Distinct pids
  need in addition that every pid in the table was issued (`PidsIssued`).
* `SignalsProofs`: `TypeCorrect`, `KillNeverCaught`, `ReturnsHome`,
  `NoSleepThroughSignal`. The invariant `IInv` is a predicate on the record of
  signal fields, with one lemma per operation on it.
* `VfsTables`, `VfsProofs`: `PagesAlwaysAccounted`, `OwnersAlwaysLive`, and the
  action properties `DisplayAlwaysGivenBack` and `FilesFitUnlessStarved`. The
  invariant `VfsInv` says that the node table and the bitmap agree (`Table`: a
  frame is taken exactly if one node's run has it, runs are apart and within
  the pool, a free node has none), and that descriptors and display are of
  their types. `VfsTables` shows that it survives the pieces the calls are made
  of (`node_reserve`, `node_set`, `regen_synth`, `add`, the removal of a node);
  `VfsProofs` puts them together. For `FilesFitUnlessStarved` each call either
  keeps every node within its buffer or is one of the two that a refused run
  leaves with a new size: `WriteOutgrows` and `PageOutgrows` show that the pool
  then had no run as long as was asked for. `close_all_of` is a loop over the
  descriptors; that it closes every one of the process and gives the display
  back at most once is an induction along the table. Assumed of the start: the
  runs of the initial tree lie in the pool and apart (`TreeApart`). `VfsProofs`
  ends with `QuotaAlwaysHeld`. `quota_used` adds up the table entry by entry,
  so a change of one node changes the sum by the difference of its charges; by
  induction along the table. Proving it showed the property of an earlier
  version to be false: `move_file` of a `/proc` page makes a file of it without
  asking for quota. `QuotaHeld` now names that call as an exception.
* `TcpHandlers`, `TcpProofs`: `QueueAlwaysExact`, what the comment at
  `net/tcp.cpp:407` says of the accept queue. The invariant `QueueInv` describes each socket table on
  its own (`Sound`): only listeners have a queue; a queue has each parked child
  once and nothing else; all children of a listener, half-open or parked, are
  within the backlog; a child is open or half-open and its listener listens.
  One more conjunct ties table and program: a process waiting in `close` waits
  on a connection that no listener owns. Without it the close of a child still
  in a queue would leave a freed slot there. Every handler is shown to change a
  table in one of a few ways (a socket moves on within its connection, a child
  is born, parked, accepted or freed, a listener closes with its children), and
  each way keeps `Sound` (`TcpHandlers`). The invariant says nothing of the
  segments under way, so what the network may deliver plays no part in the argument.
* the same two modules: `LimitsAlwaysHold`, that is `Spec => []TypeOK`. Both
  buffers stay within their sizes, a free slot is blank and nobody waits on
  one. The inductive invariant `TypeInv` is `QueueInv` and, for each socket
  (`Fits`): the counters are sequence numbers, the buffers are sequences within
  their sizes, and a socket without a peer is one that cannot send and has
  received nothing. The last is needed since every handler that answers a
  segment addresses its answer to the peer it has on record. The segments under
  way are part of the invariant (`Wire`): a window or a length that some socket
  never had would carry over to the one that receives it. A process waiting in
  `send` waits on a connection (`Waits`). The argument has one lemma per
  handler (`AcknowledgeFits`, `TakePayloadFits`, `SynAckFits`, `ChildFits`,
  ...), which says that a socket that fits still does and that what is sent is
  well formed (`TcpHandlers`), and one per action (`TcpProofs`). It does not
  assume that the sequence arithmetic stays clear of its wrap. Assumed
  (`NetworkLimits`): there are at least two machines, a segment can carry a
  byte, the sequence space is not empty, and the bounds of a behaviour are
  numbers.

Induction. The library's induction theorems take an operator as a parameter,
which the provers cannot instantiate. The inductions above go by a least
counterexample: `LeastNat` gives a least element of a nonempty set of numbers,
and the recursive function of the model is described by a predicate with its
length as a parameter (`Totals` in `VfsProofs`). This works for recursion along
an index; the folds with an operator argument in `Paging` and `Fat16` are out
of its reach.

Only model-checked:

* the liveness properties `EofReachesReader`, `WaiterReturns`, `RunnableRuns`
  and `SignalHandled`, since liveness under fairness is beyond TLAPS;
* `Paging` and `Frames`, `Fat16`, `Mount` and `Seed`, with the refinement of
  `FileStore`: their loops are folds with an operator argument. The invariants
  of `Frames` moreover hold below the limit of frames per space only (see
  "Known limits"), which no assumption on the constants expresses;
* of `Tcp`, everything about the byte stream (`StreamInOrder`,
  `EofAfterEverything`, `AckedIsHeld`, `WindowRespected`, `AcceptedOnce`): they
  rest on sequence numbers of old segments not coming round again, which the
  code does not guarantee for any number of bytes and the bounds of the run do.

## Not modelled

The map covers a small part of the repository's lines. Most of the rest is
code without shared state or interleaving (the compiler, the C library with its
font renderer, the shell, editors and other user programs, glyph and window
drawing), register protocols of devices the repository does not define, and the
x86_64 copy of the machine layer. Of the kernel, still open and within reach:
timers with their 32-bit deadlines, the console read loop, the event queue of
window tasks, the devices of the VFS other than `/dev/fb0`, the working
directory, and the composition of `Vfs` with `Pipe` and of `Proc` with
`Signals`. `libregex` could be checked against a reference definition.

## Plan

1. Timers and the console read loop.
2. The compositions named above.
3. Proofs: single-page step lemmas of `Paging`; the chain invariants of `Fat16`
   for one sector write.

## Running

    tlc -workers 2 -config MCPipe.cfg MCPipe
    tlapm PipeProofs.tla
