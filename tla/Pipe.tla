-------------------------------- MODULE Pipe --------------------------------
(***************************************************************************)
(* Pipes and the per-process pipe descriptor tables of                     *)
(* kernel/fs/pipe.cpp, driven by the system calls that reach them in       *)
(* kernel/arch/common/syscall_dispatch.cpp and by the three places of      *)
(* kernel/proc/process.cpp that hand descriptors over or take them back    *)
(* (fork, exit, death by signal).                                          *)
(*                                                                         *)
(* A system call runs with interrupts off, so each is one step; the one    *)
(* exception is read() on an empty pipe, which gives the CPU away between  *)
(* two tries (yield_current) and is here a parked request, reading[p].     *)
(***************************************************************************)
EXTENDS Integers, Sequences, FiniteSets

CONSTANTS Pids,        \* process ids that can ever exist
          FirstPid,    \* the process alive at the start
          MAX_PIPES,   \* pipe objects (8 in the source)
          MAX_FD,      \* descriptors of one table (64)
          FIRST_FD,    \* first number alloc_in() hands out (3, past stdio)
          MAX_TABLES,  \* descriptor tables (16)
          BUF,         \* ring buffer size (256)
          Byte,        \* byte values told apart
          MaxIO        \* longest single read or write of the model

ASSUME PipeAssumption ==
  /\ FirstPid \in Pids
  /\ IsFiniteSet(Pids)
  /\ MAX_PIPES \in Nat \ {0}
  /\ MAX_FD \in Nat \ {0}
  /\ FIRST_FD \in Nat
  /\ MAX_TABLES \in Nat \ {0}
  /\ BUF \in Nat \ {0}
  /\ Byte # {}
  /\ MaxIO \in Nat \ {0}

VARIABLES pused,    \* Pipe::used
          readers,  \* Pipe::readers
          writers,  \* Pipe::writers
          ring,     \* Pipe::data, r, w and len
          tab,      \* Table::used and Table::pid
          fds,      \* Table::e
          proc,     \* which processes exist: "absent", "alive", "dead"
          reading   \* the read() a process is parked in, fd = -1 if none

pipeVars == <<pused, readers, writers, ring>>
tableVars == <<tab, fds>>
vars == <<pused, readers, writers, ring, tab, fds, proc, reading>>

PipeIds  == 0 .. MAX_PIPES - 1
FdNums   == 0 .. MAX_FD - 1
TableIds == 0 .. MAX_TABLES - 1
Cells    == 0 .. BUF - 1

ReadEnd  == FALSE      \* Fd::write_end of the two ends
WriteEnd == TRUE

Entry   == [used : BOOLEAN, pipe_id : PipeIds, write_end : BOOLEAN]
NoEntry == [used |-> FALSE, pipe_id |-> 0, write_end |-> ReadEnd]
NoTable == [f \in FdNums |-> NoEntry]
Idle    == [fd |-> -1, n |-> 0]
Requests == {Idle} \cup [fd : FdNums, n : 0 .. MaxIO]
Errors  == {"EBADF", "ENOSPC", "EPIPE"}

Ring    == [data : [Cells -> Byte], r : Cells, w : Cells, len : 0 .. BUF]

TypeOK ==
  /\ pused \in [PipeIds -> BOOLEAN]
  /\ readers \in [PipeIds -> Int]
  /\ writers \in [PipeIds -> Int]
  /\ ring \in [PipeIds -> Ring]
  /\ tab \in [TableIds -> [used : BOOLEAN, pid : Pids]]
  /\ fds \in [TableIds -> [FdNums -> Entry]]
  /\ proc \in [Pids -> {"absent", "alive", "dead"}]
  /\ reading \in [Pids -> Requests]

-----------------------------------------------------------------------------
(* Lookups.  A first-fit loop over an array is "the lowest member".        *)

Lowest(x, S) == x \in S /\ \A y \in S : x <= y

TablesOf(p)  == {t \in TableIds : tab[t].used /\ tab[t].pid = p}
FreeTables   == {t \in TableIds : ~tab[t].used}
FreePipes    == {i \in PipeIds : ~pused[i]}

\* mine(): the table find() answers for the calling process.
Mine(p, t) == Lowest(t, TablesOf(p))

\* table_for(): the process's table, or the first free one made into it.
TableFor(p, t) ==
  IF TablesOf(p) # {} THEN Mine(p, t) ELSE Lowest(t, FreeTables)

\* The descriptors of a table table_for() answered: a new one is cleared.
EntriesFor(t) == IF tab[t].used THEN fds[t] ELSE NoTable

\* alloc_in(): descriptor numbers that can be handed out.
FreeFds(e) == {f \in FdNums : f >= FIRST_FD /\ ~e[f].used}

\* is_pipe_fd()
IsPipeFd(p, f) == \E t \in TableIds : Mine(p, t) /\ fds[t][f].used

\* A process that can make a system call now.
Running(p) == proc[p] = "alive" /\ reading[p] = Idle

\* A call that is answered with an error and changes nothing.
Fail(code) == code \in Errors /\ UNCHANGED vars

-----------------------------------------------------------------------------
(* Reference counting.  Held(e, i, we): the descriptors in table contents  *)
(* e that name the given end of pipe i.                                    *)

Names(d, i, we) == d.used /\ d.pipe_id = i /\ d.write_end = we

Held(e, i, we) == {f \in FdNums : Names(e[f], i, we)}
Share(e, we) == [i \in PipeIds |-> Cardinality(Held(e, i, we))]

\* Count one more, or one less, holder of the end that entry d names.
Hold(d) ==
  /\ writers' = [writers EXCEPT ![d.pipe_id] = IF d.write_end THEN @ + 1 ELSE @]
  /\ readers' = [readers EXCEPT ![d.pipe_id] = IF d.write_end THEN @ ELSE @ + 1]

Drop(d) ==
  /\ writers' = [writers EXCEPT ![d.pipe_id] = IF d.write_end THEN @ - 1 ELSE @]
  /\ readers' = [readers EXCEPT ![d.pipe_id] = IF d.write_end THEN @ ELSE @ - 1]
  /\ pused' = [pused EXCEPT ![d.pipe_id] =
                 @ /\ ~(readers'[d.pipe_id] <= 0 /\ writers'[d.pipe_id] <= 0)]

-----------------------------------------------------------------------------
(* pipe(2): create().  The pipe is looked for before the table is made,    *)
(* the read end is entered before the write end is looked for, and a full  *)
(* table takes the read end back; a table made on the way stays.           *)

FreshRing == [data |-> [c \in Cells |-> CHOOSE b \in Byte : TRUE],
              r |-> 0, w |-> 0, len |-> 0]

\* Mutant: the ring of the pipe's previous life is not cleared.
CreateInStaleRing(p, i, t) ==
  LET free == FreeFds(EntriesFor(t)) IN
  /\ tab' = [tab EXCEPT ![t] = [used |-> TRUE, pid |-> p]]
  /\ \E rfd \in FdNums, wfd \in FdNums :
       /\ Lowest(rfd, free)
       /\ Lowest(wfd, free \ {rfd})
       /\ fds' = [fds EXCEPT ![t] =
            [EntriesFor(t) EXCEPT
               ![rfd] = [used |-> TRUE, pipe_id |-> i, write_end |-> ReadEnd],
               ![wfd] = [used |-> TRUE, pipe_id |-> i, write_end |-> WriteEnd]]]
       /\ pused' = [pused EXCEPT ![i] = TRUE]
       /\ readers' = [readers EXCEPT ![i] = 1]
       /\ writers' = [writers EXCEPT ![i] = 1]
       /\ UNCHANGED ring

CreateIn(p, i, t) ==
  LET free == FreeFds(EntriesFor(t)) IN
  /\ tab' = [tab EXCEPT ![t] = [used |-> TRUE, pid |-> p]]
  /\ \/ \E rfd \in FdNums, wfd \in FdNums :
          /\ Lowest(rfd, free)
          /\ Lowest(wfd, free \ {rfd})
          /\ fds' = [fds EXCEPT ![t] =
               [EntriesFor(t) EXCEPT
                  ![rfd] = [used |-> TRUE, pipe_id |-> i, write_end |-> ReadEnd],
                  ![wfd] = [used |-> TRUE, pipe_id |-> i, write_end |-> WriteEnd]]]
          /\ pused' = [pused EXCEPT ![i] = TRUE]
          /\ readers' = [readers EXCEPT ![i] = 1]
          /\ writers' = [writers EXCEPT ![i] = 1]
          /\ ring' = [ring EXCEPT ![i] = FreshRing]
     \/ /\ \A rfd \in free : free \ {rfd} = {}
        /\ fds' = [fds EXCEPT ![t] = EntriesFor(t)]
        /\ UNCHANGED pipeVars

Create(p) ==
  /\ Running(p)
  /\ \/ /\ \/ FreePipes = {}
           \/ TablesOf(p) = {} /\ FreeTables = {}
        /\ Fail("ENOSPC")
     \/ \E i \in PipeIds, t \in TableIds :
          /\ Lowest(i, FreePipes)
          /\ TableFor(p, t)
          /\ CreateIn(p, i, t)
          /\ UNCHANGED <<proc, reading>>

-----------------------------------------------------------------------------
(* read(2) and write(2).  The byte-by-byte loops move the shorter of what  *)
(* is asked for and what the ring has (or has room for).                   *)

Shorter(a, b) == IF a < b THEN a ELSE b

RingBytes(rg) == [k \in 1 .. rg.len |-> rg.data[(rg.r + k - 1) % BUF]]

\* Mutant: the read cursor is advanced without the wrap.
ReadTryNoWrap(p, f, n) ==
  \E t \in TableIds :
    /\ Mine(p, t)
    /\ fds[t][f].used /\ ~fds[t][f].write_end
    /\ LET i   == fds[t][f].pipe_id
           got == Shorter(n, ring[i].len)
       IN /\ got > 0
          /\ ring' = [ring EXCEPT ![i] =
               [@ EXCEPT !.r = @ + got, !.len = @ - got]]
          /\ reading' = [reading EXCEPT ![p] = Idle]

\* One try of read_fd() by p, which asked for n bytes of descriptor f.
ReadTry(p, f, n) ==
  \E t \in TableIds :
    /\ Mine(p, t)
    /\ fds[t][f].used /\ ~fds[t][f].write_end
    /\ LET i   == fds[t][f].pipe_id
           rg  == ring[i]
           got == Shorter(n, rg.len)
       IN \/ /\ got > 0
             /\ ring' = [ring EXCEPT ![i] =
                  [@ EXCEPT !.r = (rg.r + got) % BUF, !.len = rg.len - got]]
             /\ reading' = [reading EXCEPT ![p] = Idle]
          \/ /\ got = 0 /\ writers[i] = 0
             /\ reading' = [reading EXCEPT ![p] = Idle]
             /\ UNCHANGED ring
          \/ /\ got = 0 /\ writers[i] # 0      \* EAGAIN: park and try again
             /\ reading' = [reading EXCEPT ![p] = [fd |-> f, n |-> n]]
             /\ UNCHANGED ring

\* The call itself, on a descriptor of the pipe half.
Read(p, f, n) ==
  /\ Running(p)
  /\ IsPipeFd(p, f)
  /\ \/ ReadTry(p, f, n) /\ UNCHANGED <<pused, readers, writers, tableVars, proc>>
     \/ /\ \E t \in TableIds : Mine(p, t) /\ fds[t][f].write_end
        /\ Fail("EBADF")

\* Mutant: the waiting loop looks for bytes only.
ReadAgainForBytes(p) ==
  /\ proc[p] = "alive"
  /\ reading[p] # Idle
  /\ \E t \in TableIds : Mine(p, t) /\ ring[fds[t][reading[p].fd].pipe_id].len > 0
  /\ ReadTry(p, reading[p].fd, reading[p].n)
  /\ UNCHANGED <<pused, readers, writers, tableVars, proc>>

\* The parked reader gets its slice and tries once more.
ReadAgain(p) ==
  /\ proc[p] = "alive"
  /\ reading[p] # Idle
  /\ ReadTry(p, reading[p].fd, reading[p].n)
  /\ UNCHANGED <<pused, readers, writers, tableVars, proc>>

\* Mutant: when not all of s fits, its last bytes are stored, not its first.
StoredTail(rg, s, put) ==
  LET skip == Len(s) - put
  IN  [data |-> [c \in Cells |->
                   IF \E k \in 1 .. put : (rg.w + k - 1) % BUF = c
                   THEN s[skip + (CHOOSE k \in 1 .. put : (rg.w + k - 1) % BUF = c)]
                   ELSE rg.data[c]],
       r |-> rg.r, w |-> (rg.w + put) % BUF, len |-> rg.len + put]

\* The ring after the loop of write_fd() stored the first put bytes of s.
Stored(rg, s, put) ==
  [data |-> [c \in Cells |->
               IF \E k \in 1 .. put : (rg.w + k - 1) % BUF = c
               THEN s[CHOOSE k \in 1 .. put : (rg.w + k - 1) % BUF = c]
               ELSE rg.data[c]],
   r |-> rg.r, w |-> (rg.w + put) % BUF, len |-> rg.len + put]

Write(p, f, s) ==
  /\ Running(p)
  /\ IsPipeFd(p, f)
  /\ \E t \in TableIds :
       /\ Mine(p, t)
       /\ LET d   == fds[t][f]
              rg  == ring[d.pipe_id]
              put == Shorter(Len(s), BUF - rg.len)
          IN \/ ~d.write_end /\ Fail("EBADF")
             \/ d.write_end /\ readers[d.pipe_id] = 0 /\ Fail("EPIPE")
             \/ /\ d.write_end /\ readers[d.pipe_id] # 0
                /\ ring' = [ring EXCEPT ![d.pipe_id] = Stored(@, s, put)]
                /\ UNCHANGED <<pused, readers, writers, tableVars, proc, reading>>

-----------------------------------------------------------------------------
(* close(2), dup(2), dup2(2).                                              *)

\* close_fd(); also the whole of dup2(file, f) as far as pipes go: a pipe
\* on the target number is released before the VFS half takes it.
Close(p, f) ==
  /\ Running(p)
  /\ \E t \in TableIds :
       /\ Mine(p, t)
       /\ fds[t][f].used
       /\ Drop(fds[t][f])
       /\ fds' = [fds EXCEPT ![t][f] = NoEntry]
       /\ UNCHANGED <<ring, tab, proc, reading>>

Dup(p, f) ==
  /\ Running(p)
  /\ \E t \in TableIds :
       /\ Mine(p, t)
       /\ fds[t][f].used
       /\ \/ FreeFds(fds[t]) = {} /\ Fail("ENOSPC")
          \/ \E n \in FdNums :
               /\ Lowest(n, FreeFds(fds[t]))
               /\ fds' = [fds EXCEPT ![t][n] = fds[t][f]]
               /\ Hold(fds[t][f])
               /\ UNCHANGED <<pused, ring, tab, proc, reading>>

\* Mutant: dup2() overwrites the target without closing what was there.
MovedNoClose(c, d) == Hold(d)

\* dup2_fd(): what was open on the target is closed first, then the source
\* entry is copied and counted.
Moved(c, d) ==
  /\ writers' = [i \in PipeIds |-> writers[i]
                   - (IF c.used /\ c.write_end /\ c.pipe_id = i THEN 1 ELSE 0)
                   + (IF d.write_end /\ d.pipe_id = i THEN 1 ELSE 0)]
  /\ readers' = [i \in PipeIds |-> readers[i]
                   - (IF c.used /\ ~c.write_end /\ c.pipe_id = i THEN 1 ELSE 0)
                   + (IF ~d.write_end /\ d.pipe_id = i THEN 1 ELSE 0)]

\* What closing entry c leaves of the used flag, before the copy is counted.
UsedAfterClose(c) ==
  [i \in PipeIds |->
     /\ pused[i]
     /\ ~(/\ c.used /\ c.pipe_id = i
          /\ writers[i] - (IF c.write_end THEN 1 ELSE 0) <= 0
          /\ readers[i] - (IF c.write_end THEN 0 ELSE 1) <= 0)]

Dup2(p, f, g) ==
  /\ Running(p)
  /\ \E t \in TableIds :
       /\ Mine(p, t)
       /\ fds[t][f].used
       /\ \/ f = g /\ UNCHANGED <<pipeVars, tableVars>>
          \/ /\ f # g
             /\ Moved(fds[t][g], fds[t][f])
             /\ pused' = UsedAfterClose(fds[t][g])
             /\ fds' = [fds EXCEPT ![t][g] = fds[t][f]]
             /\ UNCHANGED <<ring, tab>>
       /\ UNCHANGED <<proc, reading>>

-----------------------------------------------------------------------------
(* Process life.                                                           *)

\* release(): every reference of the table goes back, then it is cleared.
CloseAllOf(p) ==
  \/ /\ TablesOf(p) = {}
     /\ UNCHANGED <<pipeVars, tableVars>>
  \/ \E t \in TableIds :
       /\ Mine(p, t)
       /\ readers' = [i \in PipeIds |->
                        readers[i] - Share(fds[t], ReadEnd)[i]]
       /\ writers' = [i \in PipeIds |->
                        writers[i] - Share(fds[t], WriteEnd)[i]]
       /\ pused' = [i \in PipeIds |->
            /\ pused[i]
            /\ ~(/\ Held(fds[t], i, ReadEnd) \cup Held(fds[t], i, WriteEnd) # {}
                 /\ readers'[i] <= 0 /\ writers'[i] <= 0)]
       /\ fds' = [fds EXCEPT ![t] = NoTable]
       /\ tab' = [tab EXCEPT ![t] = [used |-> FALSE, pid |-> FirstPid]]
       /\ UNCHANGED ring

\* A process stops running: sys_exit() by itself, or a terminating signal,
\* which reaches it wherever it is, parked reads included.
ProcessEnds(p) ==
  /\ proc[p] = "alive"
  /\ CloseAllOf(p)
  /\ proc' = [proc EXCEPT ![p] = "dead"]
  /\ reading' = [reading EXCEPT ![p] = Idle]

\* fork_copy(): what the child's table held goes back (nothing, for a pid
\* that is new), then it is a copy of the parent's with every entry counted
\* once more; without a free table the child is born with none.
ForkCopy(p, c) ==
  \/ /\ \/ TablesOf(p) = {}
        \/ TablesOf(c) = {} /\ FreeTables = {}
     /\ UNCHANGED <<pipeVars, tableVars>>
  \/ \E s \in TableIds, t \in TableIds :
       /\ Mine(p, s)
       /\ TableFor(c, t)
       /\ tab' = [tab EXCEPT ![t] = [used |-> TRUE, pid |-> c]]
       /\ fds' = [fds EXCEPT ![t] = fds[s]]
       /\ readers' = [i \in PipeIds |-> readers[i]
                        - Share(EntriesFor(t), ReadEnd)[i]
                        + Share(fds[s], ReadEnd)[i]]
       /\ writers' = [i \in PipeIds |-> writers[i]
                        - Share(EntriesFor(t), WriteEnd)[i]
                        + Share(fds[s], WriteEnd)[i]]
       /\ UNCHANGED <<pused, ring>>

\* fork() as far as pipes go.  Pids come from next_pid++ and are never
\* handed out twice.
Fork(p, c) ==
  /\ Running(p)
  /\ proc[c] = "absent"
  /\ ForkCopy(p, c)
  /\ proc' = [proc EXCEPT ![c] = "alive"]
  /\ UNCHANGED reading

-----------------------------------------------------------------------------
Init ==
  /\ pused = [i \in PipeIds |-> FALSE]
  /\ readers = [i \in PipeIds |-> 0]
  /\ writers = [i \in PipeIds |-> 0]
  /\ ring = [i \in PipeIds |-> FreshRing]
  /\ tab = [t \in TableIds |-> [used |-> FALSE, pid |-> FirstPid]]
  /\ fds = [t \in TableIds |-> NoTable]
  /\ proc = [p \in Pids |-> IF p = FirstPid THEN "alive" ELSE "absent"]
  /\ reading = [p \in Pids |-> Idle]

Payloads == UNION {[1 .. n -> Byte] : n \in 0 .. MaxIO}

Next ==
  \E p \in Pids :
    \/ Create(p)
    \/ \E f \in FdNums, n \in 0 .. MaxIO : Read(p, f, n)
    \/ ReadAgain(p)
    \/ \E f \in FdNums, s \in Payloads : Write(p, f, s)
    \/ \E f \in FdNums : Close(p, f)
    \/ \E f \in FdNums : Dup(p, f)
    \/ \E f \in FdNums, g \in FdNums : Dup2(p, f, g)
    \/ ProcessEnds(p)
    \/ \E c \in Pids : Fork(p, c)

Spec == Init /\ [][Next]_vars

\* run_scheduler() gives every runnable process a slice on each pass, so a
\* parked reader keeps trying.
FairSpec == Spec /\ \A p \in Pids : WF_vars(ReadAgain(p))

-----------------------------------------------------------------------------
(* Properties.                                                             *)

\* Every descriptor, in any table, that names the given end of pipe i.
RefsOf(F, i, we) == {x \in TableIds \X FdNums : Names(F[x[1]][x[2]], i, we)}
Refs(i, we) == RefsOf(fds, i, we)

\* The reader and writer counts of a pipe are exactly the descriptors that
\* name its ends, over all processes, and a pipe object is in use exactly
\* while some descriptor names it: through create, dup, dup2, close, fork
\* and the death of a process in any order (pipe.cpp, "The reader/writer
\* counts were wrong for the same reason").
CountsExact ==
  \A i \in PipeIds :
    /\ readers[i] = Cardinality(Refs(i, ReadEnd))
    /\ writers[i] = Cardinality(Refs(i, WriteEnd))
    /\ pused[i] <=> Refs(i, ReadEnd) \cup Refs(i, WriteEnd) # {}

\* A descriptor table belongs to one living process and a process has at
\* most one; a table nobody has holds no descriptor.  close_all_of() must
\* have run by the time a process is gone, or its ends stay counted.
TablesOwned ==
  /\ \A t \in TableIds :
       IF tab[t].used THEN proc[tab[t].pid] = "alive" ELSE fds[t] = NoTable
  /\ \A t, u \in TableIds :
       tab[t].used /\ tab[u].used /\ tab[t].pid = tab[u].pid => t = u

\* The pipe process p is parked on has no living holder of its write end.
WritersGone(p) ==
  \E t \in TableIds :
    /\ Mine(p, t)
    /\ \A u \in TableIds, f \in FdNums :
         ~(/\ fds[u][f].used /\ fds[u][f].write_end
           /\ fds[u][f].pipe_id = fds[t][reading[p].fd].pipe_id)

\* A reader parked on a pipe whose last write descriptor is gone, whoever
\* held it and however it went, is released: the read() answers (pipe.h:
\* otherwise "the other end waits for an EOF that will never come").
EofReachesReader ==
  \A p \in Pids :
    (reading[p] # Idle /\ WritersGone(p)) ~> reading[p] = Idle

\* The FIFOs, and each process's view of its descriptors, that the state of
\* the kernel stands for.
Fifos == [i \in PipeIds |-> IF pused[i] THEN RingBytes(ring[i]) ELSE <<>>]

Descriptors ==
  [p \in Pids |-> IF TablesOf(p) = {} THEN NoTable
                  ELSE fds[CHOOSE t \in TableIds : Mine(p, t)]]

Abs == INSTANCE PipeAbs WITH queue <- Fifos, open <- Descriptors, waiting <- reading

\* The pipes of the kernel implement the bounded FIFOs of PipeAbs: the bytes a
\* reader takes are the oldest there are, and when it is told of the end of
\* file and a writer gets EPIPE depends only on who still holds a descriptor.
\* A write is moreover the write of the same bytes to the FIFO: the ring's
\* cursors and length, also when they have wrapped, lose, repeat or change
\* none of those that fit.
Refines ==
  /\ Abs!Spec
  /\ [][\A p \in Pids, f \in FdNums : IsPipeFd(p, f) =>
          \A s \in Payloads : Write(p, f, s) => Abs!Write(p, f, s)]_ring

=============================================================================
