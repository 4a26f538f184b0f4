------------------------------ MODULE PipeAbs -------------------------------
(***************************************************************************)
(* What pipes promise a process, without reference counts, ring buffers or *)
(* table slots: a pipe is a bounded FIFO of bytes, a descriptor is a       *)
(* reference to one of its ends, and whether the far end is still open is  *)
(* decided by who holds a reference to it.                                 *)
(***************************************************************************)
EXTENDS Integers, Sequences

CONSTANTS Pids, FirstPid, PipeIds, FdNums, BUF, Byte, MaxIO

VARIABLES queue,    \* the bytes in each pipe, oldest first
          open,     \* open[p][f]: the end process p has on descriptor f
          proc,     \* "absent", "alive" or "dead"
          waiting   \* the read each process is blocked in, fd = -1 if none

vars == <<queue, open, proc, waiting>>

End    == [used : BOOLEAN, pipe_id : PipeIds, write_end : BOOLEAN]
NoEnd  == [used |-> FALSE, pipe_id |-> 0, write_end |-> FALSE]
NoRead == [fd |-> -1, n |-> 0]
Nothing == [f \in FdNums |-> NoEnd]

Payloads == UNION {[1 .. n -> Byte] : n \in 0 .. MaxIO}

Names(d, i, we) == d.used /\ d.pipe_id = i /\ d.write_end = we
HasHolder(o, i, we) == \E p \in Pids, f \in FdNums : Names(o[p][f], i, we)
Unreferenced(o, i) == ~HasHolder(o, i, TRUE) /\ ~HasHolder(o, i, FALSE)

\* A pipe nobody refers to any more loses what was left in it.
Forget(o) == queue' = [i \in PipeIds |-> IF Unreferenced(o, i) THEN <<>>
                                                              ELSE queue[i]]

Create(p) ==
  \E i \in PipeIds, f, g \in FdNums :
    /\ Unreferenced(open, i)
    /\ f # g /\ ~open[p][f].used /\ ~open[p][g].used
    /\ open' = [open EXCEPT
         ![p][f] = [used |-> TRUE, pipe_id |-> i, write_end |-> FALSE],
         ![p][g] = [used |-> TRUE, pipe_id |-> i, write_end |-> TRUE]]
    /\ UNCHANGED <<queue, proc, waiting>>

\* A read of n bytes takes the oldest n, or all there are; when that is
\* nothing, it is the end of file exactly when no process holds the write
\* end, and otherwise the reader waits.
Read(p, f, n) ==
  LET i   == open[p][f].pipe_id
      got == IF n < Len(queue[i]) THEN n ELSE Len(queue[i])
  IN
  /\ Names(open[p][f], i, FALSE)
  /\ \/ /\ got > 0
        /\ queue' = [queue EXCEPT ![i] = SubSeq(@, got + 1, Len(@))]
        /\ waiting' = [waiting EXCEPT ![p] = NoRead]
     \/ /\ got = 0 /\ ~HasHolder(open, i, TRUE)
        /\ waiting' = [waiting EXCEPT ![p] = NoRead]
        /\ UNCHANGED queue
     \/ /\ got = 0 /\ HasHolder(open, i, TRUE)
        /\ waiting' = [waiting EXCEPT ![p] = [fd |-> f, n |-> n]]
        /\ UNCHANGED queue
  /\ UNCHANGED <<open, proc>>

\* A write of s appends its first bytes, as many as there is room for, and is
\* refused exactly when no process holds the read end.
Write(p, f, s) ==
  LET i    == open[p][f].pipe_id
      room == BUF - Len(queue[i])
  IN
  /\ UNCHANGED <<open, proc, waiting>>
  /\ Names(open[p][f], i, TRUE)
  /\ \/ /\ queue' = [queue EXCEPT ![i] = @ \o SubSeq(s, 1, IF Len(s) < room THEN Len(s) ELSE room)]
        /\ HasHolder(open, i, FALSE)
     \/ /\ UNCHANGED queue
        /\ ~HasHolder(open, i, FALSE)

\* close, dup and dup2: one descriptor of the caller is set to nothing, or
\* to an end the caller already has.
Rebind(p, g) ==
  \E d \in {NoEnd} \cup {open[p][f] : f \in FdNums} :
    /\ open' = [open EXCEPT ![p][g] = d]
    /\ Forget(open')
    /\ UNCHANGED <<proc, waiting>>

Stop(p) ==
  /\ open' = [open EXCEPT ![p] = Nothing]
  /\ Forget(open')
  /\ proc' = [proc EXCEPT ![p] = "dead"]
  /\ waiting' = [waiting EXCEPT ![p] = NoRead]

\* The child has references of its own to everything the parent has, or,
\* when the machine is out of tables, to nothing at all.
Fork(p, c) ==
  /\ proc[c] = "absent"
  /\ proc' = [proc EXCEPT ![c] = "alive"]
  /\ open' \in {open, [open EXCEPT ![c] = open[p]]}
  /\ UNCHANGED <<queue, waiting>>

Init ==
  /\ queue = [i \in PipeIds |-> <<>>]
  /\ open = [p \in Pids |-> Nothing]
  /\ proc = [p \in Pids |-> IF p = FirstPid THEN "alive" ELSE "absent"]
  /\ waiting = [p \in Pids |-> NoRead]

\* A process waiting in a read does nothing else until it is answered.
Call(p) ==
  \/ Create(p)
  \/ \E f \in FdNums : open[p][f].write_end /\ \E s \in Payloads : Write(p, f, s)
  \/ \E f \in FdNums : Rebind(p, f)
  \/ \E f \in FdNums, n \in 0 .. MaxIO : Read(p, f, n)
  \/ \E c \in Pids : Fork(p, c)

Next ==
  \E p \in Pids :
    /\ proc[p] = "alive"
    /\ \/ waiting[p] = NoRead /\ Call(p)
       \/ waiting[p] # NoRead /\ Read(p, waiting[p].fd, waiting[p].n)
       \/ Stop(p)

Spec == Init /\ [][Next]_vars

=============================================================================
