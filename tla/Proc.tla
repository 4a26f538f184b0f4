-------------------------------- MODULE Proc --------------------------------
(***************************************************************************)
(* The process table and the scheduler: vnu/kernel/proc/process.cpp.       *)
(*                                                                         *)
(* One CPU.  The scheduler (slot 0) walks the slots in order and gives the *)
(* CPU to each runnable one (run_slice); a process runs until it blocks,   *)
(* exits, or the timer preempts it in user mode.  A system call runs with  *)
(* interrupts off, so it is one step up to the point where it parks.  What *)
(* interleaves is the order of the system calls of different processes,    *)
(* and what happens to a process parked inside waitpid() meanwhile.        *)
(*                                                                         *)
(* A signal is abstracted to what it does to its target here: it           *)
(* terminates it, or it is left pending (field ready: an unblocked signal  *)
(* is pending), or nothing.  Which of the three, the target's actions and  *)
(* mask decide: module Signals.  Time is abstracted to "a deadline may     *)
(* have passed".  Every process but slot 0 is scheduler-managed (the field *)
(* coro of the code is true).                                              *)
(***************************************************************************)
EXTENDS Integers, FiniteSets

CONSTANTS MAX_PROCS,  \* slots of the table; slot 0 is the scheduler's (8 in the code)
          PID_SPAN,   \* wait channels keep pid modulo this (65536 in the code)
          MaxPid      \* bound: process identifiers handed out

ASSUME TableHasUsers == MAX_PROCS \in Nat \ {0, 1}
ASSUME SpanPositive == PID_SPAN \in Nat \ {0}
ASSUME PidsBounded == MaxPid \in Nat

VARIABLES table,        \* the Process records, by slot
          current_idx,  \* the slot that has the CPU
          slice,        \* the slot run_scheduler's pass has come to
          g_init_slot,  \* where init lives, or NoSlot
          next_pid      \* the next identifier to hand out

vars == <<table, current_idx, slice, g_init_slot, next_pid>>

Slots == 0 .. MAX_PROCS - 1
Users == 1 .. MAX_PROCS - 1
Pids == 0 .. MaxPid
NoSlot == -1
States == {"Unused", "Runnable", "Running", "Blocked", "Zombie"}

\* What waitpid() was asked for: any child (-1), a pid, or no waitpid at all.
AnyChild == -1
NotWaiting == 0
Targets == {AnyChild} \cup (1 .. MaxPid)

\* Wait channels: WAIT_ZOMBIE_ANY is 0 here and the channel of a child is
\* WAIT_ZOMBIE_ANY | (pid & 0xFFFF), so two children may share a channel and
\* a child may share the broadcast one.
NoChan == -1
WAIT_ZOMBIE_ANY == 0
wait_chan_unmasked(p) == p   \* mutant: the & 0xFFFF is missing
wait_chan_of_child(p) == p % PID_SPAN
ChanOf(target) == IF target = AnyChild THEN WAIT_ZOMBIE_ANY
                                       ELSE wait_chan_of_child(target)
Chans == {NoChan} \cup (0 .. PID_SPAN - 1)

Process == [pid: Pids, ppid: Pids, state: States, wait_chan: Chans,
            waiting: {NotWaiting} \cup Targets, ready: BOOLEAN]

Empty == [pid |-> 0, ppid |-> 0, state |-> "Unused", wait_chan |-> NoChan,
          waiting |-> NotWaiting, ready |-> FALSE]

TypeOK == /\ table \in [Slots -> Process]
          /\ current_idx \in Slots
          /\ slice \in 1 .. MAX_PROCS
          /\ g_init_slot \in {NoSlot} \cup Users
          /\ next_pid \in 1 .. MaxPid + 1

-----------------------------------------------------------------------------
(* The table's helpers.  Each takes a table and returns the one it leaves,  *)
(* so that a handler is their composition in the order of its calls.        *)

Lowest(x, S) == x \in S /\ \A y \in S : x <= y

alloc_slot(i) == Lowest(i, {j \in Slots : table[j].state = "Unused"})

Live(p) == p.state \in {"Runnable", "Running", "Blocked"}

\* A freshly created process, by fork or by spawn.
Born(parent) == [Empty EXCEPT !.pid = next_pid, !.ppid = parent, !.state = "Runnable"]

Woken(p) == [p EXCEPT !.state = "Runnable", !.wait_chan = NoChan]

wakeup(t, chan) ==
  [i \in Slots |-> IF i # 0 /\ t[i].state = "Blocked" /\ t[i].wait_chan = chan
                   THEN Woken(t[i]) ELSE t[i]]

wake_waiter_of(t, p) == wakeup(wakeup(t, WAIT_ZOMBIE_ANY), wait_chan_of_child(p))

Corpse(p) == [p EXCEPT !.state = "Zombie"]

Adopter(dead) ==
  IF /\ g_init_slot > 0
     /\ table[g_init_slot].pid \notin {0, dead}
     /\ Live(table[g_init_slot])
  THEN table[g_init_slot].pid
  ELSE 0

\* Mutant: leaves the corpses of the children where they are.
reparent_keeps_corpses(i, dead) ==
  [j \in Slots |-> IF /\ j \notin {0, i}
                      /\ table[j].state # "Unused"
                      /\ table[j].ppid = dead
                   THEN [table[j] EXCEPT !.ppid = Adopter(dead)]
                   ELSE table[j]]

reparent_orphans(i, dead) ==
  [j \in Slots |-> IF /\ j \notin {0, i}
                      /\ table[j].state # "Unused"
                      /\ table[j].ppid = dead
                   THEN IF table[j].state = "Zombie" THEN Empty
                        ELSE [table[j] EXCEPT !.ppid = Adopter(dead)]
                   ELSE table[j]]

-----------------------------------------------------------------------------
(* The scheduler. *)

\* Back in run_slice after slot i gave the CPU up, leaving table t.
BackToScheduler(i, t) ==
  /\ table' = IF t[i].state = "Zombie" /\ t[i].ppid = 0
              THEN [t EXCEPT ![i] = Empty] ELSE t
  /\ current_idx' = 0
  /\ slice' = i + 1
  /\ UNCHANGED g_init_slot

\* Mutant: restarts the pass at the first slot after every slice.
run_slice_from_first(i) ==
  /\ current_idx = 0
  /\ Lowest(i, {j \in Users : table[j].state = "Runnable"})
  /\ current_idx' = i
  /\ slice' = i
  /\ UNCHANGED <<table, g_init_slot, next_pid>>

run_slice(i) ==
  /\ current_idx = 0
  /\ Lowest(i, {j \in Users : j >= slice /\ table[j].state = "Runnable"})
  /\ current_idx' = i
  /\ slice' = i
  /\ UNCHANGED <<table, g_init_slot, next_pid>>

\* Timed sleepers: parked, and not on a wait channel.
Sleepers == {i \in Users : table[i].state = "Blocked" /\ table[i].waiting = NotWaiting}

NeedsInit == g_init_slot = NoSlot \/ table[g_init_slot].state = "Unused"

\* One turn of run_scheduler's loop up to its slices: some sleepers' deadlines
\* (those of the set due) have passed, and init is spawned if its slot is empty.
run_scheduler(due) ==
  LET t == [i \in Slots |-> IF i \in due THEN Woken(table[i]) ELSE table[i]]
  IN /\ current_idx = 0
     /\ \A j \in Users : j >= slice => table[j].state # "Runnable"
     /\ due \subseteq Sleepers
     /\ slice' = 1
     /\ UNCHANGED current_idx
     /\ IF NeedsInit /\ next_pid <= MaxPid
        THEN \E i \in Users : /\ alloc_slot(i)
                              /\ table' = [t EXCEPT ![i] = Born(0)]
                              /\ g_init_slot' = i
                              /\ next_pid' = next_pid + 1
        ELSE table' = t /\ UNCHANGED <<g_init_slot, next_pid>>

-----------------------------------------------------------------------------
(* What the process in slot i does while it has the CPU. *)

\* In its own code, as opposed to in the middle of a waitpid().
InUser(i) == i # 0 /\ current_idx = i /\ table[i].waiting = NotWaiting

\* Time slice over: the tick preempts only if some other process could run.
Preempt(i) ==
  /\ InUser(i)
  /\ \E j \in Users \ {i} : table[j].state = "Runnable"
  /\ BackToScheduler(i, table)
  /\ UNCHANGED next_pid

\* yield_current() as a call of its own: the process stays runnable.
Yield(i) == InUser(i) /\ BackToScheduler(i, table) /\ UNCHANGED next_pid

sys_sleep(i) ==
  /\ InUser(i)
  /\ ~table[i].ready
  /\ BackToScheduler(i, [table EXCEPT ![i].state = "Blocked"])
  /\ UNCHANGED next_pid

\* sigaction, sigprocmask, sigreturn, an alarm with a handler, and delivery
\* itself change whether an unblocked signal is pending in the caller.
SignalState(i) ==
  /\ InUser(i)
  /\ \E r \in BOOLEAN : table' = [table EXCEPT ![i].ready = r]
  /\ UNCHANGED <<current_idx, slice, g_init_slot, next_pid>>

\* Mutant: it hands the same pid out again.
sys_fork_same_pid(i) ==
  /\ InUser(i)
  /\ next_pid <= MaxPid
  /\ \E j \in Users : /\ alloc_slot(j)
                      /\ table' = [table EXCEPT ![j] = Born(table[i].pid)]
  /\ UNCHANGED <<current_idx, slice, g_init_slot, next_pid>>

\* The child is a copy of the caller; spawn() makes the same entry.
sys_fork(i) ==
  /\ InUser(i)
  /\ next_pid <= MaxPid
  /\ \E j \in Users : /\ alloc_slot(j)
                      /\ table' = [table EXCEPT ![j] = Born(table[i].pid)]
  /\ next_pid' = next_pid + 1
  /\ UNCHANGED <<current_idx, slice, g_init_slot>>

\* The children are handed over before the caller becomes a zombie.
Dying(i) == [reparent_orphans(i, table[i].pid) EXCEPT ![i] = Corpse(@)]

\* exit(), a signal on itself whose action is to terminate, and an alarm
\* whose action is to terminate.
sys_exit(i) ==
  /\ InUser(i)
  /\ BackToScheduler(i, wake_waiter_of(Dying(i), table[i].pid))
  /\ UNCHANGED next_pid

\* Mutant: it does not ask whose child it is.
CollectableOfAnyone(i, target) ==
  {j \in Users : table[j].state = "Zombie" /\ target \in {AnyChild, table[j].pid}}

\* The zombie children waitpid(target) may collect.
Collectable(i, target) ==
  {j \in Slots : /\ table[j].state = "Zombie"
                 /\ table[j].ppid = table[i].pid
                 /\ target \in {AnyChild, table[j].pid}}

Children(i) == {j \in Slots : /\ table[j].pid # 0
                              /\ table[j].state # "Unused"
                              /\ table[j].ppid = table[i].pid}

\* waitpid() returns, having collected the slots of gone.
WaitReturns(i, gone) ==
  /\ table' = [j \in Slots |-> IF j \in gone THEN Empty
                               ELSE IF j = i THEN [table[i] EXCEPT !.waiting = NotWaiting]
                               ELSE table[j]]
  /\ UNCHANGED <<current_idx, slice, g_init_slot, next_pid>>

\* sleep_on(chan, 0)
Parked(p, target) ==
  [p EXCEPT !.state = "Blocked", !.wait_chan = ChanOf(target), !.waiting = target]

sleep_on(i, target) ==
  /\ BackToScheduler(i, [table EXCEPT ![i] = Parked(@, target)])
  /\ UNCHANGED next_pid

\* One pass of the loop of waitpid().
WaitLoop(i, target, nohang) ==
  \/ /\ table[i].ready                                        \* EINTR
     /\ WaitReturns(i, {})
  \/ /\ ~table[i].ready
     /\ \E j \in Slots : /\ Lowest(j, Collectable(i, target))
                         /\ WaitReturns(i, {j})
  \/ /\ ~table[i].ready
     /\ Collectable(i, target) = {}
     /\ Children(i) = {} \/ nohang                            \* ECHILD, or 0
     /\ WaitReturns(i, {})
  \/ /\ ~table[i].ready
     /\ Collectable(i, target) = {}
     /\ Children(i) # {} /\ ~nohang
     /\ sleep_on(i, target)

sys_waitpid(i) ==
  /\ InUser(i)
  /\ \E target \in Targets, nohang \in BOOLEAN : WaitLoop(i, target, nohang)

\* Resumed inside waitpid(), which re-scans the table.
WaitAgain(i) ==
  /\ current_idx = i
  /\ table[i].waiting # NotWaiting
  /\ WaitLoop(i, table[i].waiting, FALSE)

-----------------------------------------------------------------------------
(* Signals sent to another process. *)

\* The slot signal_kill() finds for a pid.
Addressed(j, p) == Lowest(j, {k \in Slots : table[k].state # "Unused" /\ table[k].pid = p})

\* Mutant: it terminates without telling the parent.
TerminatedQuietly(j) == [table EXCEPT ![j] = Corpse(@)]

\* SIGKILL, or a signal whose action in the target is to terminate.
Terminated(j) == wake_waiter_of([table EXCEPT ![j] = Corpse(@)], table[j].pid)

\* A signal with a handler: recorded, and the target comes out of its wait.
Notified(j) ==
  [table EXCEPT ![j] = [IF @.state = "Blocked" THEN Woken(@) ELSE @ EXCEPT !.ready = TRUE]]

\* Mutant: it does not set the caller apart (the test i != current_idx).
signal_kill_any(i, p) ==
  /\ InUser(i)
  /\ \E j \in Slots : /\ Addressed(j, p)
                      /\ table' \in {Terminated(j), Notified(j)}
  /\ UNCHANGED <<current_idx, slice, g_init_slot, next_pid>>

\* Slot 0 never installs a handler, and a signal the caller sends itself
\* terminates it through sys_exit or is recorded: SignalState.
signal_kill(i, p) ==
  /\ InUser(i)
  /\ \E j \in Slots \ {i} :
       /\ Addressed(j, p)
       /\ \/ table' = Terminated(j)
          \/ j # 0 /\ table' = Notified(j)
  /\ UNCHANGED <<current_idx, slice, g_init_slot, next_pid>>

-----------------------------------------------------------------------------
Init == /\ table = [i \in Slots |-> IF i = 0 THEN [Empty EXCEPT !.state = "Running"] ELSE Empty]
        /\ current_idx = 0
        /\ slice = MAX_PROCS
        /\ g_init_slot = NoSlot
        /\ next_pid = 1

Scheduler == \/ \E due \in SUBSET Users : run_scheduler(due)
             \/ \E i \in Users : run_slice(i)

Next == \/ Scheduler
        \/ \E i \in Users : \/ Preempt(i) \/ Yield(i) \/ sys_sleep(i) \/ SignalState(i)
                            \/ sys_fork(i) \/ sys_exit(i)
                            \/ sys_waitpid(i) \/ WaitAgain(i)
                            \/ \E p \in Pids : signal_kill(i, p)

Spec == Init /\ [][Next]_vars

\* The scheduler's loop never stops (run_scheduler returns only if init cannot
\* be spawned), a call that is running runs on, and the 100 Hz tick keeps
\* arriving while a process is in its own code.
FairSpec == /\ Spec
            /\ WF_vars(Scheduler)
            /\ \A i \in Users : WF_vars(Preempt(i)) /\ WF_vars(WaitAgain(i))

-----------------------------------------------------------------------------
(* Properties. *)

InWait(i) == table[i].waiting # NotWaiting /\ Live(table[i])

\* A process asleep in waitpid() sleeps on the channel of what it waits for and
\* has no corpse to collect: checking the table and going to sleep is one step,
\* and every death (exit, or a signal from another process) wakes the two
\* channels a parent may be asleep on, so no wakeup is lost (the comment on
\* sleep_on in process.h: "there are no lost wakeups on this single CPU").
NoCorpseUnderSleeper ==
  \A i \in Users :
    InWait(i) /\ table[i].state = "Blocked"
      => /\ table[i].wait_chan = ChanOf(table[i].waiting)
         /\ Collectable(i, table[i].waiting) = {}

\* The process that has the CPU is a runnable one: nobody else's signal, exit
\* or reaping can take the entry away under the process that is running.
CpuHolderRunnable == current_idx # 0 => table[current_idx].state = "Runnable"

\* Two entries in use never answer to the same pid, so kill() and waitpid()
\* cannot reach the wrong process.
PidsDistinct ==
  \A i, j \in Slots :
    /\ table[i].state # "Unused"
    /\ table[j].state # "Unused"
    /\ table[i].pid = table[j].pid
    => i = j

\* An entry is freed only by its parent (waitpid, or the parent's own exit),
\* or when it names no parent: nobody else's wait or exit swallows a status.
FreedByParent ==
  [][\A j \in Users : table[j].state # "Unused" /\ table'[j].state = "Unused"
       => table[j].ppid \in {0, table[current_idx].pid}]_vars

\* A process in waitpid() with a dead child to collect does not stay there:
\* it is woken, scheduled round-robin whatever the others do, and returns.
WaiterReturns ==
  \A i \in Users : []<>~(InWait(i) /\ Collectable(i, table[i].waiting) # {})

\* Round robin starves nobody: a runnable process gets the CPU.
RunnableRuns == \A i \in Users : table[i].state = "Runnable" ~> 
                                 current_idx = i \/ table[i].state # "Runnable"

\* What the comment above reparent_orphans() and the README say: "orphans are
\* adopted by init".  While init is there, no live process names a parent that
\* is not.
OrphansAdopted ==
  g_init_slot # NoSlot /\ Live(table[g_init_slot])
    => \A j \in Users : Live(table[j]) /\ table[j].ppid # 0
         => \E i \in Users : table[i].pid = table[j].ppid /\ Live(table[i])

=============================================================================
