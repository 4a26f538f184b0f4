------------------------------ MODULE Signals ------------------------------
(***************************************************************************)
(* The signals of one process: vnu/kernel/proc/process.cpp.                *)
(*                                                                         *)
(* Raising a signal only records it (or ends the process, or drops it);    *)
(* delivering it enters the handler, at the boundaries where the process   *)
(* is on its way back to its own code: the return of a system call, the    *)
(* timer tick that does not preempt it, and its resumption after one that  *)
(* did.  The other processes appear as what they can do to this one: send  *)
(* it a signal while it does not have the CPU, and be there to be switched *)
(* to when the timer ticks.                                                *)
(*                                                                         *)
(* Delivery leaves the interrupted context where it is and records its     *)
(* address in sig_frame; a context is abstracted here to its depth, 0 for  *)
(* the program itself and n for its n-th handler still running.  The       *)
(* restorer of an action is non-null exactly when its handler is an        *)
(* address (sys_rt_sigaction refuses anything else, and SA_RESETHAND       *)
(* clears both), so it is not a field of its own.                          *)
(***************************************************************************)
EXTENDS Integers, Sequences

CONSTANTS NSIG,                                   \* signals are 1 .. NSIG - 1
          SIGINT, SIGKILL, SIGALRM, SIGWINCH,
          Offered,                                \* the actions a program asks for, by signal
          Masks,                                  \* the sets it blocks and unblocks
          MaxDepth                                \* bound: handlers running inside one another

ASSUME NSigPositive == NSIG \in Nat
ASSUME NamedSignals == /\ {SIGINT, SIGKILL, SIGALRM, SIGWINCH} \subseteq 1 .. NSIG - 1
                       /\ SIGKILL \notin {SIGINT, SIGALRM, SIGWINCH}
ASSUME DepthBounded == MaxDepth \in Nat

Sigs == 1 .. NSIG - 1
Handlers == {"DFL", "IGN", "fn"}
SigAction == [handler: Handlers, mask: SUBSET Sigs, nodefer: BOOLEAN, resethand: BOOLEAN]

ASSUME OfferedActions == Offered \in [Sigs -> SUBSET SigAction]
ASSUME OfferedMasks == Masks \subseteq SUBSET Sigs

VARIABLES sig,      \* the signal fields of the Process, see SigState
          alarm_at, \* whether an alarm is set
          mode      \* where the process is

vars == <<sig, alarm_at, mode>>

\* "user": running its own code; "parked": preempted out of it; "asleep" and
\* "woken": Blocked, and runnable again, in sys_sleep; "reading": yielded from
\* the console read's loop; "dead": zombie or gone.
Modes == {"user", "parked", "asleep", "woken", "reading", "dead"}

NoFrame == -1

\* entered is not in the code: the masks in force when each of the handlers
\* still running was entered, innermost last.
SigState == [action: [Sigs -> SigAction], pending: SUBSET Sigs, mask: SUBSET Sigs,
             saved_mask: SUBSET Sigs, frame: {NoFrame} \cup (0 .. MaxDepth - 1),
             entered: Seq(SUBSET Sigs)]

DflAction == [handler |-> "DFL", mask |-> {}, nodefer |-> FALSE, resethand |-> FALSE]

TypeOK == /\ sig \in SigState
          /\ Len(sig.entered) <= MaxDepth
          /\ alarm_at \in BOOLEAN
          /\ mode \in Modes

Init == /\ sig = [action |-> [s \in Sigs |-> DflAction], pending |-> {}, mask |-> {},
                  saved_mask |-> {}, frame |-> NoFrame, entered |-> <<>>]
        /\ alarm_at = FALSE
        /\ mode = "user"

-----------------------------------------------------------------------------
(* Raising and delivering. *)

Ready(st) == st.pending \ st.mask

\* The signal pending_delivery() picks, when there is one: the lowest.
pending_delivery(st, s) == s \in Ready(st) /\ \A r \in Ready(st) : s <= r

interrupt_pending(st) == Ready(st) # {}

\* Mutant: records the context of the handler itself.
EnteredPastFrame(st, s) ==
  [action     |-> st.action,
   pending    |-> st.pending \ {s},
   mask       |-> st.mask \cup st.action[s].mask \cup {s},
   saved_mask |-> st.mask,
   frame      |-> Len(st.entered) + 1,
   entered    |-> Append(st.entered, st.mask)]

\* Mutant: saves the mask after the handler's signals were added to it.
EnteredSavesLate(st, s) ==
  [action     |-> st.action,
   pending    |-> st.pending \ {s},
   mask       |-> st.mask \cup st.action[s].mask \cup {s},
   saved_mask |-> st.mask \cup st.action[s].mask \cup {s},
   frame      |-> Len(st.entered),
   entered    |-> Append(st.entered, st.mask)]

\* The state deliver_common() leaves when it enters the handler of s.
Entered(st, s) ==
  [action     |-> IF st.action[s].resethand
                  THEN [st.action EXCEPT ![s] = [@ EXCEPT !.handler = "DFL"]]
                  ELSE st.action,
   pending    |-> st.pending \ {s},
   mask       |-> st.mask \cup st.action[s].mask
                          \cup (IF st.action[s].nodefer THEN {} ELSE {s}),
   saved_mask |-> st.mask,
   frame      |-> Len(st.entered),
   entered    |-> Append(st.entered, st.mask)]

\* Delivery at a boundary: one signal at most, and none if the one picked has
\* no handler to run.
deliver_common(st, new) ==
  \/ \E s \in Sigs : /\ pending_delivery(st, s)
                     /\ st.action[s].handler = "fn"
                     /\ Len(st.entered) < MaxDepth
                     /\ new = Entered(st, s)
  \/ /\ \A s \in Sigs : pending_delivery(st, s) => st.action[s].handler # "fn"
     /\ new = st

Raised(st, s) == [st EXCEPT !.pending = @ \cup {s}]

\* What raising s does to a process with these actions (signal_kill).
Fatal(st, s) == \/ s = SIGKILL
                \/ st.action[s].handler = "DFL" /\ s # SIGWINCH
Caught(st, s) == s # SIGKILL /\ st.action[s].handler = "fn"

-----------------------------------------------------------------------------
(* The process's own system calls.  Each ends at a boundary. *)

Return(st) == /\ deliver_common(st, sig')
              /\ mode' = "user"

sys_exit == /\ mode' = "dead"
            /\ UNCHANGED <<sig, alarm_at>>

exit == mode = "user" /\ sys_exit

\* Mutant: the action's mask is taken as it comes.
sys_rt_sigaction_any_mask(s, a) ==
  /\ mode = "user"
  /\ s # SIGKILL
  /\ Return([sig EXCEPT !.action = [@ EXCEPT ![s] = a]])
  /\ UNCHANGED alarm_at

sys_rt_sigaction(s, a) ==
  /\ mode = "user"
  /\ s # SIGKILL
  /\ Return([sig EXCEPT !.action = [@ EXCEPT ![s] = [a EXCEPT !.mask = @ \ {SIGKILL}]]])
  /\ UNCHANGED alarm_at

\* SIG_BLOCK, SIG_UNBLOCK and SIG_SETMASK.
sys_rt_sigprocmask(set) ==
  /\ mode = "user"
  /\ LET add == set \ {SIGKILL}
     IN  \E new \in {sig.mask \cup add, sig.mask \ add, add} :
            Return([sig EXCEPT !.mask = new])
  /\ UNCHANGED alarm_at

\* Back to the context on record; the return path then switches stacks, so
\* nothing is delivered on it.  Without one the call changes nothing.
HandlerReturns ==
  /\ sig.frame # NoFrame
  /\ sig' = [sig EXCEPT !.mask = sig.saved_mask, !.saved_mask = {}, !.frame = NoFrame,
                        !.entered = SubSeq(@, 1, sig.frame)]
  /\ UNCHANGED mode

sys_rt_sigreturn ==
  /\ mode = "user"
  /\ \/ HandlerReturns
     \/ sig.frame = NoFrame /\ Return(sig)
  /\ UNCHANGED alarm_at

sys_sigraise(s) ==
  /\ mode = "user"
  /\ IF s = SIGKILL \/ sig.action[s].handler = "DFL"
     THEN sys_exit
     ELSE Return(Raised(sig, s)) /\ UNCHANGED alarm_at

\* signal_kill() with the caller's own pid.
KillSelf(s) ==
  /\ mode = "user"
  /\ IF Fatal(sig, s)
     THEN sys_exit
     ELSE /\ Return(IF Caught(sig, s) THEN Raised(sig, s) ELSE sig)
          /\ UNCHANGED alarm_at

sys_alarm(on) == /\ mode = "user"
                 /\ Return(sig)
                 /\ alarm_at' = on

\* A successful execve() ends in a jump to the new image, not in a return.
sys_execve ==
  /\ mode = "user"
  /\ sig' = [sig EXCEPT
                !.action = [s \in Sigs |-> IF sig.action[s].handler = "IGN"
                                           THEN sig.action[s] ELSE DflAction],
                !.saved_mask = {}, !.frame = NoFrame, !.entered = <<>>]
  /\ alarm_at' = FALSE
  /\ UNCHANGED mode

-----------------------------------------------------------------------------
(* The calls that wait. *)

\* Mutant: goes to sleep without asking for pending signals.
sys_sleep_unasked == /\ mode = "user"
                     /\ mode' = "asleep"
                     /\ UNCHANGED <<sig, alarm_at>>

sys_sleep == /\ mode = "user"
             /\ IF interrupt_pending(sig)
                THEN Return(sig)
                ELSE mode' = "asleep" /\ UNCHANGED sig
             /\ UNCHANGED alarm_at

\* The scheduler finds the deadline passed.
Deadline == /\ mode = "asleep"
            /\ mode' = "woken"
            /\ UNCHANGED <<sig, alarm_at>>

SleepOver == /\ mode = "woken"
             /\ Return(sig)
             /\ UNCHANGED alarm_at

\* One turn of the console read's loop: a key ends it; ^C is SIGINT for the
\* reader; without a key it ends if a signal is to be delivered.
WaitForKey(st) == IF interrupt_pending(st) THEN Return(st)
                                           ELSE mode' = "reading" /\ sig' = st

read_console ==
  /\ mode \in {"user", "reading"}
  /\ \/ Return(sig) /\ UNCHANGED alarm_at
     \/ WaitForKey(sig) /\ UNCHANGED alarm_at
     \/ Fatal(sig, SIGINT) /\ sys_exit
     \/ /\ ~Fatal(sig, SIGINT)
        /\ WaitForKey(IF Caught(sig, SIGINT) THEN Raised(sig, SIGINT) ELSE sig)
        /\ UNCHANGED alarm_at

-----------------------------------------------------------------------------
(* What happens to the process: the clock, the scheduler, other processes. *)

\* Mutant: a tick that preempts nobody returns without delivering.
vnu_timer_tick_no_delivery(due, other) ==
  /\ mode = "user"
  /\ due => alarm_at
  /\ IF due /\ sig.action[SIGALRM].handler = "DFL"
     THEN mode' = "dead" /\ UNCHANGED sig
     ELSE /\ mode' = IF other THEN "parked" ELSE mode
          /\ sig' = IF due /\ sig.action[SIGALRM].handler = "fn"
                    THEN Raised(sig, SIGALRM) ELSE sig
  /\ alarm_at' = (alarm_at /\ ~due)

\* The alarm's part of the tick, and the delivery or the preemption after it.
vnu_timer_tick(due, other) ==
  /\ mode = "user"
  /\ due => alarm_at
  /\ IF due /\ sig.action[SIGALRM].handler = "DFL"
     THEN mode' = "dead" /\ UNCHANGED sig
     ELSE LET st == IF due /\ sig.action[SIGALRM].handler = "fn"
                    THEN Raised(sig, SIGALRM) ELSE sig
          IN  IF other THEN mode' = "parked" /\ sig' = st ELSE Return(st)
  /\ alarm_at' = (alarm_at /\ ~due)

run_slice == /\ mode = "parked"
             /\ Return(sig)
             /\ UNCHANGED alarm_at

\* Another process's signal_kill().
signal_kill(s) ==
  /\ mode \in {"parked", "asleep", "woken", "reading"}
  /\ IF Fatal(sig, s)
     THEN mode' = "dead" /\ UNCHANGED sig
     ELSE /\ Caught(sig, s)
          /\ sig' = Raised(sig, s)
          /\ mode' = IF mode = "asleep" THEN "woken" ELSE mode
  /\ UNCHANGED alarm_at

Tick == \E due, other \in BOOLEAN : vnu_timer_tick(due, other)

Next == \/ exit
        \/ \E s \in Sigs : \E a \in Offered[s] : sys_rt_sigaction(s, a)
        \/ \E set \in Masks : sys_rt_sigprocmask(set)
        \/ sys_rt_sigreturn
        \/ \E s \in Sigs : sys_sigraise(s)
        \/ \E s \in Sigs : KillSelf(s)
        \/ \E on \in BOOLEAN : sys_alarm(on)
        \/ sys_execve
        \/ sys_sleep
        \/ Deadline
        \/ SleepOver
        \/ read_console
        \/ Tick
        \/ run_slice
        \/ \E s \in Sigs : signal_kill(s)

Spec == Init /\ [][Next]_vars

\* The timer ticks: a process that is never preempted gets the ticks that do
\* not preempt.  The scheduler's round-robin gets to every runnable process; a
\* sleep has a deadline.
Fairness == /\ WF_vars(\E due \in BOOLEAN : vnu_timer_tick(due, FALSE))
            /\ WF_vars(run_slice)
            /\ WF_vars(Deadline)
            /\ WF_vars(SleepOver)
            /\ WF_vars(mode = "reading" /\ read_console)

FairSpec == Spec /\ Fairness

-----------------------------------------------------------------------------
(* Properties. *)

\* SIGKILL can be neither caught nor blocked nor kept waiting, whatever the
\* program asks sigaction and sigprocmask for and whatever masks handlers save
\* and give back (process.cpp:1499, 1515, 1540).
KillUncatchable ==
  /\ SIGKILL \notin sig.pending \cup sig.mask \cup sig.saved_mask
  /\ sig.action[SIGKILL] = DflAction
  /\ \A s \in Sigs : SIGKILL \notin sig.action[s].mask

\* When the end of a handler gives a context back, it is the context that the
\* innermost running handler interrupted, with the mask it had then, also
\* after handlers interrupted handlers (process.h:85, process.cpp:1561).
ReturnsToInterrupted ==
  sig.frame # NoFrame => /\ sig.frame = Len(sig.entered) - 1
                         /\ sig.saved_mask = sig.entered[Len(sig.entered)]

\* No process sleeps with a signal it could take: one raised before the sleep
\* makes it fail, one raised during it ends it (process.cpp:1684, 2194).
NoSleepOverSignal == mode = "asleep" => ~interrupt_pending(sig)

\* A signal that is next in line and has a handler is handled, whether the
\* process computes, sleeps, is preempted or waits for a key: unless the
\* process ends, blocks the signal or drops the handler first, or a lower
\* signal comes before it (process.cpp:1320-1331).
SignalHandled ==
  \A s \in Sigs :
     (pending_delivery(sig, s) /\ sig.action[s].handler = "fn")
       ~> (\/ ~pending_delivery(sig, s)
           \/ sig.action[s].handler # "fn"
           \/ mode = "dead"
           \/ Len(sig.entered) = MaxDepth)

\* "It restores the saved signal mask and drops back into the code the signal
\* interrupted" (ABI.md:459): while a handler runs, the context it interrupted
\* is on record.
HandlerCanReturn == sig.entered # <<>> => sig.frame = Len(sig.entered) - 1

=============================================================================
