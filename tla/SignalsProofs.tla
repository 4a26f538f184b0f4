--------------------------- MODULE SignalsProofs ---------------------------
(***************************************************************************)
(* Proofs about Signals, for every number of signals, every set of actions *)
(* and masks a program may ask for, and every depth of nesting.            *)
(*                                                                         *)
(* The invariant is a predicate of the signal fields, SigOK, kept by every *)
(* change a handler of the kernel makes to them and by the delivery that   *)
(* follows it; a step's proof puts the two together.  What is not a matter *)
(* of the fields alone, that nobody sleeps over a signal, is proved from   *)
(* it.                                                                     *)
(***************************************************************************)
EXTENDS Signals, SequenceTheorems, TLAPS

KillFree(st) ==
  /\ SIGKILL \notin st.pending
  /\ SIGKILL \notin st.mask
  /\ SIGKILL \notin st.saved_mask
  /\ st.action[SIGKILL] = DflAction
  /\ \A s \in Sigs : SIGKILL \notin st.action[s].mask

\* The mask a handler found is free of SIGKILL too: it is what sigreturn will
\* put back.
Home(st) ==
  st.frame # NoFrame => /\ st.frame = Len(st.entered) - 1
                        /\ st.saved_mask = st.entered[Len(st.entered)]

SigOK(st) == /\ st \in SigState
             /\ Len(st.entered) <= MaxDepth
             /\ KillFree(st)
             /\ Home(st)

\* The named signals are signals, and the default action is an action.
LEMMA SigFacts == /\ SIGKILL \in Sigs
                  /\ SIGINT \in Sigs \ {SIGKILL}
                  /\ SIGALRM \in Sigs \ {SIGKILL}
                  /\ SIGWINCH \in Sigs \ {SIGKILL}
                  /\ DflAction \in SigAction
                  /\ DflAction.mask = {}
                  /\ DflAction.handler = "DFL"
  BY NSigPositive, NamedSignals DEF Sigs, DflAction, SigAction, Handlers

\* Entering a handler keeps SigOK: the mask it saves is the one it found.
LEMMA EnteredOK ==
  ASSUME NEW st, SigOK(st), NEW s \in Sigs, pending_delivery(st, s),
         st.action[s].handler = "fn", Len(st.entered) < MaxDepth
  PROVE  SigOK(Entered(st, s))
<1> DEFINE new == Entered(st, s)
           act == IF st.action[s].resethand
                  THEN [st.action EXCEPT ![s] = [@ EXCEPT !.handler = "DFL"]]
                  ELSE st.action
           msk == st.mask \cup st.action[s].mask
                          \cup (IF st.action[s].nodefer THEN {} ELSE {s})
<1>t. /\ st.action \in [Sigs -> SigAction]
      /\ st.pending \in SUBSET Sigs
      /\ st.mask \in SUBSET Sigs
      /\ st.entered \in Seq(SUBSET Sigs)
      /\ Len(st.entered) \in Nat
  BY DEF SigOK, SigState
<1>a. st.action[s] \in SigAction
  BY <1>t
<1>k. s # SIGKILL
  BY DEF pending_delivery, Ready, SigOK, KillFree
<1>1. act \in [Sigs -> SigAction]
  <2>1. [st.action[s] EXCEPT !.handler = "DFL"] \in SigAction
    BY <1>a DEF SigAction, Handlers
  <2> QED BY <1>t, <2>1
<1>2. msk \in SUBSET Sigs
  BY <1>t, <1>a DEF SigAction
<1>3. Append(st.entered, st.mask) \in Seq(SUBSET Sigs)
  BY <1>t
<1>4. Len(st.entered) \in 0 .. MaxDepth - 1
  BY <1>t, DepthBounded
<1>5. Entered(st, s) = [action |-> act, pending |-> st.pending \ {s}, mask |-> msk,
                        saved_mask |-> st.mask, frame |-> Len(st.entered),
                        entered |-> Append(st.entered, st.mask)]
  BY DEF Entered
<1>6. \A r \in Sigs : act[r].mask = st.action[r].mask
  <2> TAKE r \in Sigs
  <2>1. CASE st.action[s].resethand /\ r = s
    <3>1. act[r] = [st.action[s] EXCEPT !.handler = "DFL"]
      BY <1>t, <2>1
    <3> QED BY <1>a, <2>1, <3>1 DEF SigAction
  <2>2. CASE ~(st.action[s].resethand /\ r = s)
    BY <1>t, <2>2
  <2> QED BY <2>1, <2>2
<1>7. act[SIGKILL] = st.action[SIGKILL]
  BY <1>t, <1>k, SigFacts
<1> HIDE DEF act, msk
<1>8. Entered(st, s) \in SigState
  BY <1>t, <1>1, <1>2, <1>3, <1>4, <1>5 DEF SigState
<1>9. SIGKILL \notin msk
  BY <1>k DEF msk, SigOK, KillFree
<1>10. KillFree(Entered(st, s))
  BY <1>5, <1>6, <1>7, <1>9 DEF SigOK, KillFree
<1>11. /\ Len(Append(st.entered, st.mask)) = Len(st.entered) + 1
       /\ Append(st.entered, st.mask)[Len(st.entered) + 1] = st.mask
  BY <1>t
<1>12. Home(Entered(st, s))
  BY <1>t, <1>5, <1>11 DEF Home
<1>13. Len(Entered(st, s).entered) <= MaxDepth
  BY <1>t, <1>5, <1>11, DepthBounded
<1> QED BY <1>8, <1>10, <1>12, <1>13 DEF SigOK

\* Delivery at a boundary keeps SigOK.
LEMMA DeliverOK ==
  ASSUME NEW st, NEW new, SigOK(st), deliver_common(st, new)
  PROVE  SigOK(new)
  BY EnteredOK DEF deliver_common

\* Recording a signal other than SIGKILL keeps SigOK.
LEMMA RaisedOK ==
  ASSUME NEW st, SigOK(st), NEW s \in Sigs, s # SIGKILL
  PROVE  SigOK(Raised(st, s))
<1>1. Raised(st, s) \in SigState
  BY DEF SigOK, SigState, Raised
<1>2. /\ Raised(st, s).pending = st.pending \cup {s}
      /\ Raised(st, s).mask = st.mask
      /\ Raised(st, s).saved_mask = st.saved_mask
      /\ Raised(st, s).action = st.action
      /\ Raised(st, s).frame = st.frame
      /\ Raised(st, s).entered = st.entered
  BY DEF SigOK, SigState, Raised
<1> QED BY <1>1, <1>2 DEF SigOK, KillFree, Home

\* A change of the mask alone.
LEMMA MaskedOK ==
  ASSUME NEW st, SigOK(st), NEW m \in SUBSET (Sigs \ {SIGKILL})
  PROVE  SigOK([st EXCEPT !.mask = m])
<1> DEFINE new == [st EXCEPT !.mask = m]
<1>1. new \in SigState
  BY DEF SigOK, SigState
<1>2. /\ new.mask = m
      /\ new.pending = st.pending
      /\ new.saved_mask = st.saved_mask
      /\ new.action = st.action
      /\ new.frame = st.frame
      /\ new.entered = st.entered
  BY DEF SigOK, SigState
<1> QED BY <1>1, <1>2 DEF SigOK, KillFree, Home

\* A change of the actions that leaves SIGKILL alone, in them and in their masks.
LEMMA ActionsOK ==
  ASSUME NEW st, SigOK(st), NEW f \in [Sigs -> SigAction],
         f[SIGKILL] = DflAction, \A s \in Sigs : SIGKILL \notin f[s].mask
  PROVE  SigOK([st EXCEPT !.action = f])
<1> DEFINE new == [st EXCEPT !.action = f]
<1>1. new \in SigState
  BY SMTT(30) DEF SigOK, SigState
<1>2. /\ new.action = f
      /\ new.pending = st.pending
      /\ new.mask = st.mask
      /\ new.saved_mask = st.saved_mask
      /\ new.frame = st.frame
      /\ new.entered = st.entered
  BY DEF SigOK, SigState
<1> QED BY <1>1, <1>2 DEF SigOK, KillFree, Home

\* sigaction() keeps SigOK: it refuses SIGKILL and strips it from the mask.
LEMMA SigactionOK ==
  ASSUME SigOK(sig), NEW s \in Sigs, NEW a \in Offered[s], sys_rt_sigaction(s, a)
  PROVE  SigOK(sig') /\ mode' = "user"
<1> DEFINE b == [a EXCEPT !.mask = @ \ {SIGKILL}]
           f == [sig.action EXCEPT ![s] = b]
<1>1. a \in SigAction
  BY OfferedActions
<1>2. b \in SigAction /\ SIGKILL \notin b.mask
  BY <1>1 DEF SigAction
<1> HIDE DEF b
<1>3. sig.action \in [Sigs -> SigAction]
  BY DEF SigOK, SigState
<1>4. f \in [Sigs -> SigAction]
  BY <1>2, <1>3
<1>5. s # SIGKILL
  BY DEF sys_rt_sigaction
<1>6. f[SIGKILL] = DflAction
  BY <1>3, <1>5, SigFacts DEF SigOK, KillFree
<1>7. \A r \in Sigs : SIGKILL \notin f[r].mask
  BY <1>2, <1>3 DEF SigOK, KillFree
<1>8. [sig EXCEPT !.action = [@ EXCEPT ![s] = b]] = [sig EXCEPT !.action = f]
  OBVIOUS
<1>9. Return([sig EXCEPT !.action = f])
  BY <1>8 DEF sys_rt_sigaction, b
<1> HIDE DEF f
<1>10. SigOK([sig EXCEPT !.action = f])
  BY <1>4, <1>6, <1>7, ActionsOK
<1> QED BY <1>9, <1>10, DeliverOK DEF Return

\* sigprocmask() keeps SigOK: it strips SIGKILL from the set it is given.
LEMMA SigprocmaskOK ==
  ASSUME SigOK(sig), NEW set \in Masks, sys_rt_sigprocmask(set)
  PROVE  SigOK(sig') /\ mode' = "user"
<1>1. set \in SUBSET Sigs
  BY OfferedMasks
<1>2. sig.mask \in SUBSET (Sigs \ {SIGKILL})
  BY DEF SigOK, SigState, KillFree
<1>3. PICK new \in {sig.mask \cup (set \ {SIGKILL}), sig.mask \ (set \ {SIGKILL}), set \ {SIGKILL}} :
        Return([sig EXCEPT !.mask = new])
  BY SMTT(30) DEF sys_rt_sigprocmask
<1>4. new \in SUBSET (Sigs \ {SIGKILL})
  BY <1>1, <1>2
<1>5. SigOK([sig EXCEPT !.mask = new])
  BY <1>4, MaskedOK
<1> QED BY <1>3, <1>5, DeliverOK DEF Return

\* The end of a handler keeps SigOK, with or without a context on record.
LEMMA SigreturnOK ==
  ASSUME SigOK(sig), sys_rt_sigreturn
  PROVE  SigOK(sig') /\ mode' = "user"
<1>1. CASE sig.frame = NoFrame /\ Return(sig)
  BY <1>1, DeliverOK DEF Return
<1>2. CASE HandlerReturns
  <2> DEFINE outer == SubSeq(sig.entered, 1, sig.frame)
  <2>t. /\ sig.entered \in Seq(SUBSET Sigs)
        /\ sig.frame \in 0 .. MaxDepth - 1
        /\ sig.frame = Len(sig.entered) - 1
        /\ Len(sig.entered) \in Nat
        /\ sig.saved_mask \in SUBSET Sigs
    BY <1>2, DepthBounded DEF HandlerReturns, SigOK, SigState, Home, NoFrame
  <2>1. outer \in Seq(SUBSET Sigs) /\ Len(outer) = sig.frame
    BY <2>t, SubSeqProperties
  <2> HIDE DEF outer
  <2>2. sig' = [sig EXCEPT !.mask = sig.saved_mask, !.saved_mask = {}, !.frame = NoFrame,
                           !.entered = outer]
    BY <1>2 DEF HandlerReturns, outer
  <2>3. sig' \in SigState
    BY <2>t, <2>1, <2>2, Zenon DEF SigOK, SigState
  <2>4. /\ sig'.mask = sig.saved_mask
        /\ sig'.saved_mask = {}
        /\ sig'.frame = NoFrame
        /\ sig'.entered = outer
        /\ sig'.pending = sig.pending
        /\ sig'.action = sig.action
    BY <2>2 DEF SigOK, SigState
  <2>5. Len(outer) <= MaxDepth
    BY <2>t, <2>1, DepthBounded
  <2>6. KillFree(sig')
    BY <2>4 DEF SigOK, KillFree
  <2>7. Home(sig')
    BY <2>4 DEF Home
  <2>8. mode' = "user"
    BY <1>2 DEF HandlerReturns, sys_rt_sigreturn
  <2> QED BY <2>3, <2>4, <2>5, <2>6, <2>7, <2>8 DEF SigOK
<1> QED BY <1>1, <1>2 DEF sys_rt_sigreturn

\* execve() keeps SigOK.
LEMMA ExecveOK ==
  ASSUME SigOK(sig), sys_execve
  PROVE  SigOK(sig') /\ mode' = "user"
<1> DEFINE f == [s \in Sigs |-> IF sig.action[s].handler = "IGN"
                                THEN sig.action[s] ELSE DflAction]
<1>1. f \in [Sigs -> SigAction]
  BY SigFacts DEF SigOK, SigState
<1>2. f[SIGKILL] = DflAction
  BY SigFacts DEF SigOK, KillFree
<1>3. \A s \in Sigs : SIGKILL \notin f[s].mask
  BY SigFacts DEF SigOK, KillFree
<1>4. sig' = [sig EXCEPT !.action = f, !.saved_mask = {}, !.frame = NoFrame, !.entered = <<>>]
  BY DEF sys_execve
<1> HIDE DEF f
<1>e. <<>> \in Seq(SUBSET Sigs)
  OBVIOUS
<1>5. sig' \in SigState
  BY <1>1, <1>4, <1>e, Zenon DEF SigOK, SigState
<1>6. /\ sig'.action = f
      /\ sig'.saved_mask = {}
      /\ sig'.frame = NoFrame
      /\ sig'.entered = <<>>
      /\ sig'.pending = sig.pending
      /\ sig'.mask = sig.mask
  BY <1>4 DEF SigOK, SigState
<1>7. KillFree(sig')
  BY <1>2, <1>3, <1>6 DEF SigOK, KillFree
<1>8. Home(sig') /\ Len(sig'.entered) <= MaxDepth
  BY <1>6, DepthBounded DEF Home
<1> QED BY <1>5, <1>7, <1>8 DEF SigOK, sys_execve

-----------------------------------------------------------------------------
(* The steps. *)

\* sig and alarm_at keep their meaning, and a process that ends up asleep has
\* just asked for pending signals or was asleep already, over the same fields.
IInv == /\ SigOK(sig)
        /\ alarm_at \in BOOLEAN
        /\ mode \in Modes
        /\ NoSleepOverSignal

\* A new process satisfies the invariant.
LEMMA InitHolds == Init => IInv
<1> SUFFICES ASSUME Init PROVE IInv
  OBVIOUS
<1>1. [s \in Sigs |-> DflAction] \in [Sigs -> SigAction]
  BY SigFacts
<1>2. <<>> \in Seq(SUBSET Sigs) /\ Len(<<>>) = 0
  OBVIOUS
<1>3. sig \in SigState
  BY <1>1, <1>2 DEF Init, SigState
<1>4. KillFree(sig)
  BY SigFacts DEF Init, KillFree
<1>5. Home(sig) /\ Len(sig.entered) <= MaxDepth
  BY <1>2, DepthBounded DEF Init, Home
<1> QED BY <1>3, <1>4, <1>5, Zenon DEF Init, IInv, SigOK, Modes, NoSleepOverSignal

\* A system call that leaves fields satisfying SigOK returns with them so.
LEMMA ReturnOK ==
  ASSUME NEW st, SigOK(st), Return(st)
  PROVE  SigOK(sig') /\ mode' = "user"
  BY DeliverOK DEF Return

\* What the signals raised in a step leave: a caught one is not SIGKILL.
LEMMA CaughtOK ==
  ASSUME SigOK(sig), NEW s \in Sigs
  PROVE  SigOK(IF Caught(sig, s) THEN Raised(sig, s) ELSE sig)
  BY RaisedOK DEF Caught

\* Every step keeps the invariant.
LEMMA StepHolds == IInv /\ [Next]_vars => IInv'
<1> SUFFICES ASSUME IInv, [Next]_vars PROVE IInv'
  OBVIOUS
<1>k. SigOK(sig) /\ alarm_at \in BOOLEAN /\ mode \in Modes /\ NoSleepOverSignal
  BY DEF IInv
<1> USE <1>k
\* Enough for a step that does not end in sleep.
<1>u. ASSUME SigOK(sig'), alarm_at' \in BOOLEAN, mode' \in Modes, mode' # "asleep"
      PROVE  IInv'
  BY <1>u DEF IInv, NoSleepOverSignal
\* And for one that leaves the fields alone.
<1>d. ASSUME sig' = sig, alarm_at' \in BOOLEAN, mode' \in Modes, mode' # "asleep"
      PROVE  IInv'
  BY <1>u, <1>d
<1>1. CASE exit
  BY <1>1, <1>d DEF exit, sys_exit, Modes
<1>2. ASSUME NEW s \in Sigs, NEW a \in Offered[s], sys_rt_sigaction(s, a) PROVE IInv'
  BY <1>2, <1>u, SigactionOK DEF sys_rt_sigaction, Modes
<1>3. ASSUME NEW set \in Masks, sys_rt_sigprocmask(set) PROVE IInv'
  BY <1>3, <1>u, SigprocmaskOK, Zenon DEF sys_rt_sigprocmask, Modes
<1>4. CASE sys_rt_sigreturn
  BY <1>4, <1>u, SigreturnOK DEF sys_rt_sigreturn, Modes
<1>5. ASSUME NEW s \in Sigs, sys_sigraise(s) PROVE IInv'
  <2>1. CASE s = SIGKILL \/ sig.action[s].handler = "DFL"
    BY <1>5, <2>1, <1>d DEF sys_sigraise, sys_exit, Modes
  <2>2. CASE ~(s = SIGKILL \/ sig.action[s].handler = "DFL")
    <3>1. SigOK(Raised(sig, s))
      BY <2>2, RaisedOK
    <3>2. Return(Raised(sig, s)) /\ alarm_at' = alarm_at
      BY <1>5, <2>2 DEF sys_sigraise
    <3> QED BY <3>1, <3>2, ReturnOK, <1>u DEF Modes
  <2> QED BY <2>1, <2>2
<1>6. ASSUME NEW s \in Sigs, KillSelf(s) PROVE IInv'
  <2>1. CASE Fatal(sig, s)
    BY <1>6, <2>1, <1>d DEF KillSelf, sys_exit, Modes
  <2>2. CASE ~Fatal(sig, s)
    <3>2. Return(IF Caught(sig, s) THEN Raised(sig, s) ELSE sig) /\ alarm_at' = alarm_at
      BY <1>6, <2>2 DEF KillSelf
    <3> QED BY <3>2, CaughtOK, ReturnOK, <1>u DEF Modes
  <2> QED BY <2>1, <2>2
<1>7. ASSUME NEW on \in BOOLEAN, sys_alarm(on) PROVE IInv'
  BY <1>7, <1>u, ReturnOK DEF sys_alarm, Modes
<1>8. CASE sys_execve
  BY <1>8, <1>u, ExecveOK, Zenon DEF sys_execve, Modes
<1>9. CASE sys_sleep
  <2>1. CASE interrupt_pending(sig)
    BY <1>9, <2>1, <1>u, ReturnOK DEF sys_sleep, Modes
  <2>2. CASE ~interrupt_pending(sig)
    BY <1>9, <2>2 DEF sys_sleep, Modes, IInv, NoSleepOverSignal
  <2> QED BY <2>1, <2>2
<1>10. CASE Deadline
  BY <1>10, <1>d DEF Deadline, Modes
<1>11. CASE SleepOver
  BY <1>11, <1>u, ReturnOK DEF SleepOver, Modes
<1>12. CASE read_console
  <2>w. ASSUME NEW st, SigOK(st), WaitForKey(st), alarm_at' = alarm_at PROVE IInv'
    BY <2>w, <1>u, ReturnOK DEF WaitForKey, Modes
  <2>1. CASE Return(sig) /\ UNCHANGED alarm_at
    BY <2>1, <1>u, ReturnOK DEF Modes
  <2>2. CASE WaitForKey(sig) /\ UNCHANGED alarm_at
    BY <2>2, <2>w
  <2>3. CASE Fatal(sig, SIGINT) /\ sys_exit
    BY <2>3, <1>d DEF sys_exit, Modes
  <2>4. CASE /\ ~Fatal(sig, SIGINT)
             /\ WaitForKey(IF Caught(sig, SIGINT) THEN Raised(sig, SIGINT) ELSE sig)
             /\ UNCHANGED alarm_at
    <3>1. SigOK(IF Caught(sig, SIGINT) THEN Raised(sig, SIGINT) ELSE sig)
      BY CaughtOK, SigFacts
    <3> QED BY <2>4, <3>1, <2>w
  <2> QED BY <1>12, <2>1, <2>2, <2>3, <2>4 DEF read_console
<1>13. CASE Tick
  <2>1. PICK due \in BOOLEAN, other \in BOOLEAN : vnu_timer_tick(due, other)
    BY <1>13 DEF Tick
  <2>a. alarm_at' \in BOOLEAN
    BY <2>1, Zenon DEF vnu_timer_tick
  <2>2. CASE due /\ sig.action[SIGALRM].handler = "DFL"
    BY <2>1, <2>a, <2>2, <1>d DEF vnu_timer_tick, Modes
  <2>3. CASE ~(due /\ sig.action[SIGALRM].handler = "DFL")
    <3> DEFINE st == IF due /\ sig.action[SIGALRM].handler = "fn"
                     THEN Raised(sig, SIGALRM) ELSE sig
    <3>1. SigOK(st)
      BY RaisedOK, SigFacts
    <3>2. IF other THEN mode' = "parked" /\ sig' = st ELSE Return(st)
      BY <2>1, <2>3 DEF vnu_timer_tick
    <3> HIDE DEF st
    <3> QED BY <3>1, <3>2, <2>a, <1>u, ReturnOK DEF Modes
  <2> QED BY <2>2, <2>3
<1>14. CASE run_slice
  BY <1>14, <1>u, ReturnOK DEF run_slice, Modes
<1>15. ASSUME NEW s \in Sigs, signal_kill(s) PROVE IInv'
  <2>1. CASE Fatal(sig, s)
    BY <1>15, <2>1, <1>d DEF signal_kill, Modes
  <2>2. CASE ~Fatal(sig, s)
    <3>1. SigOK(sig')
      BY <1>15, <2>2, RaisedOK DEF signal_kill, Caught
    <3>2. mode' \in Modes /\ mode' # "asleep" /\ alarm_at' = alarm_at
      BY <1>15, <2>2 DEF signal_kill, Modes
    <3> QED BY <3>1, <3>2, <1>u
  <2> QED BY <2>1, <2>2
<1>16. CASE UNCHANGED vars
  BY <1>16 DEF vars, IInv, NoSleepOverSignal
<1> QED BY <1>1, <1>2, <1>3, <1>4, <1>5, <1>6, <1>7, <1>8, <1>9, <1>10, <1>11, <1>12,
           <1>13, <1>14, <1>15, <1>16 DEF Next

\* The invariant holds throughout.
LEMMA Invariance == Spec => []IInv
  BY InitHolds, StepHolds, PTL DEF Spec

\* The signal fields, the alarm and the process's place keep their types.
THEOREM TypeCorrect == Spec => []TypeOK
<1>1. IInv => TypeOK
  BY DEF IInv, SigOK, TypeOK
<1> QED BY <1>1, Invariance, PTL

\* No sequence of sigaction, sigprocmask, deliveries and handler returns gets
\* SIGKILL caught, blocked or pending.
THEOREM KillNeverCaught == Spec => []KillUncatchable
<1>1. IInv => KillUncatchable
  BY DEF IInv, SigOK, KillFree, KillUncatchable
<1> QED BY <1>1, Invariance, PTL

\* Whatever interrupted what, the context and the mask that sigreturn would
\* restore are those of the innermost running handler's interruption.
THEOREM ReturnsHome == Spec => []ReturnsToInterrupted
<1>1. IInv => ReturnsToInterrupted
  BY DEF IInv, SigOK, Home, ReturnsToInterrupted
<1> QED BY <1>1, Invariance, PTL

\* A process asleep in sleep() never has a signal it could take.
THEOREM NoSleepThroughSignal == Spec => []NoSleepOverSignal
<1>1. IInv => NoSleepOverSignal
  BY DEF IInv
<1> QED BY <1>1, Invariance, PTL

=============================================================================
