----------------------------- MODULE ProcProofs -----------------------------
(***************************************************************************)
(* Proofs about the process table, for every size of the table, every      *)
(* number of pids and every span of the wait channels.                     *)
(***************************************************************************)
EXTENDS Proc, TLAPS

-----------------------------------------------------------------------------
(* What the helpers that rewrite the table return. *)

\* The empty entry, a new entry, and a woken entry are entries.
LEMMA EntryTypes ==
  /\ Empty \in Process
  /\ \A p \in Process : Woken(p) \in Process
  /\ \A p \in Process : Corpse(p) \in Process
  /\ next_pid \in 1 .. MaxPid => \A q \in Pids : Born(q) \in Process
<1> USE PidsBounded, SpanPositive
<1>1. Empty \in Process
  BY DEF Empty, Process, Pids, States, Chans, NoChan
<1>2. \A p \in Process : Woken(p) \in Process
  BY Zenon DEF Woken, Process, States, Chans
<1>3. \A p \in Process : Corpse(p) \in Process
  BY DEF Corpse, Process, States
<1>4. next_pid \in 1 .. MaxPid => \A q \in Pids : Born(q) \in Process
  <2> SUFFICES ASSUME next_pid \in 1 .. MaxPid, NEW q \in Pids PROVE Born(q) \in Process
    OBVIOUS
  <2>1. next_pid \in Pids
    BY DEF Pids
  <2> QED
    BY <1>1, <2>1, Zenon DEF Born, Process, States
<1> QED
  BY <1>1, <1>2, <1>3, <1>4

\* The channels waitpid() sleeps on are channels.
LEMMA ChanType == \A target \in Targets : ChanOf(target) \in Chans
BY PidsBounded, SpanPositive
   DEF Targets, ChanOf, Chans, AnyChild, WAIT_ZOMBIE_ANY, wait_chan_of_child

\* wake_waiter_of() touches only sleepers of the two channels, and wakes them.
LEMMA WakeEffect ==
  ASSUME NEW t \in [Slots -> Process], NEW p \in Pids, NEW w, w = wake_waiter_of(t, p)
  PROVE  /\ w \in [Slots -> Process]
         /\ \A i \in Slots : w[i] \in {t[i], Woken(t[i])}
         /\ w[0] = t[0]
         /\ \A i \in Users : t[i].state = "Blocked"
               /\ t[i].wait_chan \in {WAIT_ZOMBIE_ANY, wait_chan_of_child(p)}
               => w[i] = Woken(t[i])
         /\ \A i \in Slots : t[i].state # "Blocked" => w[i] = t[i]
<1> DEFINE u == wakeup(t, WAIT_ZOMBIE_ANY)
<1>1. Users \subseteq Slots /\ 0 \in Slots /\ 0 \notin Users
  BY TableHasUsers DEF Users, Slots
<1>2. \A i \in Slots : u[i] = IF i # 0 /\ t[i].state = "Blocked" /\ t[i].wait_chan = WAIT_ZOMBIE_ANY
                              THEN Woken(t[i]) ELSE t[i]
  BY DEF wakeup
<1>3. \A i \in Slots : w[i] = IF i # 0 /\ u[i].state = "Blocked" /\ u[i].wait_chan = wait_chan_of_child(p)
                              THEN Woken(u[i]) ELSE u[i]
  BY DEF wakeup, wake_waiter_of
<1>4. w = [i \in Slots |-> IF i # 0 /\ u[i].state = "Blocked" /\ u[i].wait_chan = wait_chan_of_child(p)
                              THEN Woken(u[i]) ELSE u[i]]
  BY DEF wakeup, wake_waiter_of
<1>5. \A i \in Slots : Woken(t[i]).state = "Runnable"
  BY DEF Woken, Process
<1> HIDE DEF u
<1>6. \A i \in Slots : w[i] \in {t[i], Woken(t[i])}
  BY <1>2, <1>3, <1>5
<1>7. w \in [Slots -> Process]
  BY <1>4, <1>6, EntryTypes, <1>3
<1> QED
  BY <1>1, <1>2, <1>3, <1>5, <1>6, <1>7

\* The slots: slot 0 is the scheduler's, the others are the processes'.
LEMMA SlotFacts == /\ Users \subseteq Slots
                   /\ 0 \in Slots /\ 0 \notin Users
                   /\ \A i \in Slots : i # 0 => i \in Users
                   /\ \A i \in Users : i \in Int /\ i + 1 \in 1 .. MAX_PROCS
BY TableHasUsers DEF Users, Slots

\* Who adopts is named by a pid.
LEMMA AdopterType == ASSUME TypeOK, NEW dead PROVE Adopter(dead) \in Pids
<1>1. g_init_slot > 0 => g_init_slot \in Slots
  BY SlotFacts, TableHasUsers DEF TypeOK, NoSlot
<1>2. \A j \in Slots : table[j].pid \in Pids
  BY DEF TypeOK, Process
<1>3. 0 \in Pids
  BY PidsBounded DEF Pids
<1> QED
  BY <1>1, <1>2, <1>3 DEF Adopter

\* The exit path: after the orphans are handed over and the caller has become a
\* corpse, an entry is as it was, empty, or a live one with a new parent.
LEMMA DyingTable ==
  ASSUME TypeOK, NEW i \in Users, NEW t, t = Dying(i)
  PROVE  /\ t \in [Slots -> Process]
         /\ t[i] = Corpse(table[i])
         /\ \A j \in Slots \ {i} :
              \/ t[j] = table[j]
              \/ t[j] = Empty /\ table[j].state = "Zombie" /\ table[j].ppid = table[i].pid /\ j # 0
              \/ /\ t[j] = [table[j] EXCEPT !.ppid = Adopter(table[i].pid)]
                 /\ table[j].state \notin {"Zombie", "Unused"}
<1> DEFINE r == reparent_orphans(i, table[i].pid)
<1>t. table \in [Slots -> Process]
  BY DEF TypeOK
<1>1. \A j \in Slots : r[j] = IF /\ j \notin {0, i}
                                 /\ table[j].state # "Unused"
                                 /\ table[j].ppid = table[i].pid
                              THEN IF table[j].state = "Zombie" THEN Empty
                                   ELSE [table[j] EXCEPT !.ppid = Adopter(table[i].pid)]
                              ELSE table[j]
  BY DEF reparent_orphans
<1>2. \A j \in Slots : [table[j] EXCEPT !.ppid = Adopter(table[i].pid)] \in Process
  BY <1>t, AdopterType DEF Process
<1>3. r \in [Slots -> Process]
  <2>1. \A j \in Slots : r[j] \in Process
    BY <1>t, <1>1, <1>2, EntryTypes, Zenon
  <2>2. r = [j \in Slots |-> r[j]]
    BY DEF reparent_orphans
  <2> QED
    BY <2>1, <2>2
<1>4. i \in Slots
  BY SlotFacts
<1> HIDE DEF r
<1>5. /\ t[i] = Corpse(r[i])
      /\ \A j \in Slots \ {i} : t[j] = r[j]
      /\ t \in [Slots -> Process]
  BY <1>3, <1>4, EntryTypes DEF r, Dying
<1>6. r[i] = table[i]
  BY <1>1, <1>4, Zenon
<1> QED
  BY <1>1, <1>5, <1>6, Zenon

\* Giving the CPU up: the entries are those of t, but for a caller that died
\* without a parent, whose entry is freed.
LEMMA BackEffect ==
  ASSUME NEW i \in Users, NEW t \in [Slots -> Process], BackToScheduler(i, t)
  PROVE  /\ table' \in [Slots -> Process]
         /\ current_idx' = 0 /\ slice' \in 1 .. MAX_PROCS /\ g_init_slot' = g_init_slot
         /\ \A j \in Slots \ {i} : table'[j] = t[j]
         /\ \/ table'[i] = t[i]
            \/ table'[i] = Empty /\ t[i].state = "Zombie" /\ t[i].ppid = 0
<1>1. i \in Slots /\ i + 1 \in 1 .. MAX_PROCS
  BY SlotFacts
<1>2. table' = t \/ (table' = [t EXCEPT ![i] = Empty] /\ t[i].state = "Zombie" /\ t[i].ppid = 0)
  BY DEF BackToScheduler
<1>3. current_idx' = 0 /\ slice' = i + 1 /\ g_init_slot' = g_init_slot
  BY DEF BackToScheduler
<1> QED
  BY <1>1, <1>2, <1>3, EntryTypes

\* exit(): the caller is a corpse or gone, the orphans are handed over, nobody
\* stays asleep on a channel of the caller, and every other entry is as it was
\* or woken.
LEMMA ExitEffect ==
  ASSUME TypeOK, NEW i \in Users, sys_exit(i)
  PROVE  /\ table' \in [Slots -> Process]
         /\ current_idx' = 0 /\ slice' \in 1 .. MAX_PROCS /\ g_init_slot' = g_init_slot
         /\ next_pid' = next_pid
         /\ \/ table'[i].state = "Zombie" /\ table'[i].pid = table[i].pid
            \/ table'[i] = Empty /\ table[i].ppid = 0
         /\ \A j \in Users \ {i} :
              \/ /\ table'[j].state = table[j].state
                 /\ table'[j] \in {table[j], [table[j] EXCEPT !.ppid = Adopter(table[i].pid)]}
                 /\ table[j].state = "Zombie" => table'[j] = table[j]
                 /\ table'[j].state = "Blocked" => 
                       table'[j].wait_chan \notin {WAIT_ZOMBIE_ANY, wait_chan_of_child(table[i].pid)}
              \/ table'[j] = Empty /\ table[j].state = "Zombie" /\ table[j].ppid = table[i].pid
              \/ table'[j].state = "Runnable" /\ table'[j].pid = table[j].pid /\ table[j].state = "Blocked"
         /\ table'[0] = table[0]
<1>t. table \in [Slots -> Process] /\ i \in Slots /\ Users \subseteq Slots /\ table[i].pid \in Pids
  BY SlotFacts DEF TypeOK, Process
<1>1. BackToScheduler(i, wake_waiter_of(Dying(i), table[i].pid))
  BY DEF sys_exit
<1> DEFINE t == Dying(i)
           w == wake_waiter_of(t, table[i].pid)
<1>2. /\ t \in [Slots -> Process]
      /\ t[i] = Corpse(table[i])
      /\ \A j \in Slots \ {i} :
              \/ t[j] = table[j]
              \/ t[j] = Empty /\ table[j].state = "Zombie" /\ table[j].ppid = table[i].pid /\ j # 0
              \/ /\ t[j] = [table[j] EXCEPT !.ppid = Adopter(table[i].pid)]
                 /\ table[j].state \notin {"Zombie", "Unused"}
  BY DyingTable
<1> HIDE DEF t
<1>3. /\ w \in [Slots -> Process]
      /\ \A j \in Slots : w[j] \in {t[j], Woken(t[j])}
      /\ w[0] = t[0]
      /\ \A j \in Users : t[j].state = "Blocked"
               /\ t[j].wait_chan \in {WAIT_ZOMBIE_ANY, wait_chan_of_child(table[i].pid)}
               => w[j] = Woken(t[j])
      /\ \A j \in Slots : t[j].state # "Blocked" => w[j] = t[j]
  BY <1>t, <1>2, WakeEffect
<1> HIDE DEF w
<1>4. BackToScheduler(i, w)
  BY <1>1 DEF t, w
<1>5. /\ table' \in [Slots -> Process]
      /\ current_idx' = 0 /\ slice' \in 1 .. MAX_PROCS /\ g_init_slot' = g_init_slot
      /\ \A j \in Slots \ {i} : table'[j] = w[j]
      /\ \/ table'[i] = w[i]
         \/ table'[i] = Empty /\ w[i].state = "Zombie" /\ w[i].ppid = 0
  BY <1>3, <1>4, BackEffect
<1>6. next_pid' = next_pid
  BY DEF sys_exit
<1>7. t[i].state = "Zombie" /\ t[i].pid = table[i].pid /\ t[i].ppid = table[i].ppid
  BY <1>t, <1>2 DEF Corpse, Process
<1>8. w[i] = t[i]
  BY <1>3, <1>7, <1>t
<1>9. table'[0] = table[0]
  <2>1. 0 \in Slots /\ 0 # i
    BY SlotFacts
  <2>2. t[0] = table[0] \/ t[0] = [table[0] EXCEPT !.ppid = Adopter(table[i].pid)]
    BY <2>1, <1>2
  <2>3. t[0] = table[0]
    BY <2>1, <1>t DEF t, Dying, reparent_orphans
  <2> QED
    BY <2>1, <2>3, <1>3, <1>5
<1>10. ASSUME NEW j \in Users \ {i}
       PROVE  \/ /\ table'[j].state = table[j].state
                 /\ table'[j] \in {table[j], [table[j] EXCEPT !.ppid = Adopter(table[i].pid)]}
                 /\ table[j].state = "Zombie" => table'[j] = table[j]
                 /\ table'[j].state = "Blocked" => 
                       table'[j].wait_chan \notin {WAIT_ZOMBIE_ANY, wait_chan_of_child(table[i].pid)}
              \/ table'[j] = Empty /\ table[j].state = "Zombie" /\ table[j].ppid = table[i].pid
              \/ table'[j].state = "Runnable" /\ table'[j].pid = table[j].pid /\ table[j].state = "Blocked"
  <2>1. j \in Slots /\ table'[j] = w[j] /\ table[j] \in Process
    BY <1>t, <1>5
  <2>2. [table[j] EXCEPT !.ppid = Adopter(table[i].pid)].state = table[j].state
        /\ [table[j] EXCEPT !.ppid = Adopter(table[i].pid)].pid = table[j].pid
    BY <2>1 DEF Process
  <2>3. Empty.state # "Blocked"
    BY DEF Empty
  <2>4. Woken(t[j]).state = "Runnable" /\ Woken(t[j]).pid = t[j].pid
    BY <1>2, <2>1 DEF Woken, Process
  <2>5. CASE t[j].state = "Blocked" /\ w[j] = Woken(t[j])
    BY <1>2, <2>1, <2>2, <2>3, <2>4, <2>5, ZenonT(40)
  <2>6. CASE w[j] = t[j] /\ t[j] = Empty /\ table[j].state = "Zombie" /\ table[j].ppid = table[i].pid
    BY <2>1, <2>6
  <2>7. CASE w[j] = t[j] /\ t[j] = table[j]
    BY <1>3, <2>1, <2>4, <2>7
  <2>8. CASE /\ w[j] = t[j]
             /\ t[j] = [table[j] EXCEPT !.ppid = Adopter(table[i].pid)]
             /\ table[j].state \notin {"Zombie", "Unused"}
    BY <1>3, <2>1, <2>2, <2>4, <2>8, ZenonT(40)
  <2> QED
    BY <1>2, <1>3, <2>1, <2>5, <2>6, <2>7, <2>8
<1>11. \/ table'[i].state = "Zombie" /\ table'[i].pid = table[i].pid
       \/ table'[i] = Empty /\ table[i].ppid = 0
  BY <1>5, <1>7, <1>8
<1> QED
  BY <1>5, <1>6, <1>9, <1>10, <1>11

\* A signal that terminates another process: a corpse, nobody asleep on its
\* channels, and every other entry as it was or woken.
LEMMA TerminateEffect ==
  ASSUME TypeOK, NEW j \in Slots, table' = Terminated(j)
  PROVE  /\ table' \in [Slots -> Process]
         /\ table'[j].state = "Zombie" /\ table'[j].pid = table[j].pid
         /\ \A k \in Slots \ {j} :
              \/ /\ table'[k] = table[k]
                 /\ table[k].state = "Blocked" /\ k # 0 =>
                       table[k].wait_chan \notin {WAIT_ZOMBIE_ANY, wait_chan_of_child(table[j].pid)}
              \/ table'[k].state = "Runnable" /\ table'[k].pid = table[k].pid /\ table[k].state = "Blocked" /\ k # 0
<1> DEFINE t == [table EXCEPT ![j] = Corpse(@)]
<1>1. table \in [Slots -> Process] /\ table[j].pid \in Pids
  BY DEF TypeOK, Process
<1>2. /\ t \in [Slots -> Process]
      /\ t[j] = Corpse(table[j])
      /\ \A k \in Slots \ {j} : t[k] = table[k]
  BY <1>1, EntryTypes
<1>3. t[j].state = "Zombie" /\ t[j].pid = table[j].pid
  BY <1>1, <1>2 DEF Corpse, Process
<1>4. table' = wake_waiter_of(t, table[j].pid)
  BY DEF Terminated
<1> HIDE DEF t
<1>5. /\ table' \in [Slots -> Process]
      /\ \A k \in Slots : table'[k] \in {t[k], Woken(t[k])}
      /\ table'[0] = t[0]
      /\ \A k \in Users : t[k].state = "Blocked"
               /\ t[k].wait_chan \in {WAIT_ZOMBIE_ANY, wait_chan_of_child(table[j].pid)}
               => table'[k] = Woken(t[k])
      /\ \A k \in Slots : t[k].state # "Blocked" => table'[k] = t[k]
  BY <1>1, <1>2, <1>4, WakeEffect
<1>6. \A k \in Slots : Woken(t[k]).state = "Runnable" /\ Woken(t[k]).pid = t[k].pid
  BY <1>2 DEF Woken, Process
<1>7. ASSUME NEW k \in Slots \ {j}
      PROVE  \/ /\ table'[k] = table[k]
                /\ table[k].state = "Blocked" /\ k # 0 =>
                      table[k].wait_chan \notin {WAIT_ZOMBIE_ANY, wait_chan_of_child(table[j].pid)}
             \/ table'[k].state = "Runnable" /\ table'[k].pid = table[k].pid /\ table[k].state = "Blocked" /\ k # 0
  <2>1. CASE k = 0
    BY <1>2, <1>5, <2>1
  <2>2. CASE k # 0
    BY <1>2, <1>5, <1>6, <2>2, SlotFacts
  <2> QED
    BY <2>1, <2>2
<1> QED
  BY <1>3, <1>5, <1>7

\* A signal with a handler: the target is as it was but for the pending
\* signal, and not asleep any more.
LEMMA NotifyEffect ==
  ASSUME TypeOK, NEW j \in Slots, table' = Notified(j)
  PROVE  /\ table' \in [Slots -> Process]
         /\ \A k \in Slots \ {j} : table'[k] = table[k]
         /\ table'[j].pid = table[j].pid /\ table'[j].ppid = table[j].ppid
         /\ \/ table'[j].state = table[j].state /\ table[j].state # "Blocked"
            \/ table'[j].state = "Runnable" /\ table[j].state = "Blocked"
<1> DEFINE e == [IF table[j].state = "Blocked" THEN Woken(table[j]) ELSE table[j] EXCEPT !.ready = TRUE]
<1>1. table \in [Slots -> Process]
  BY DEF TypeOK
<1>2. table' = [table EXCEPT ![j] = e]
  BY DEF Notified
<1>3. CASE table[j].state = "Blocked"
  <2>1. e = [Woken(table[j]) EXCEPT !.ready = TRUE] /\ Woken(table[j]) \in Process
    BY <1>1, <1>3, EntryTypes
  <2>2. e \in Process /\ e.state = "Runnable" /\ e.pid = table[j].pid /\ e.ppid = table[j].ppid
    BY <1>1, <2>1, Zenon DEF Woken, Process
  <2> HIDE DEF e
  <2> QED
    BY <1>1, <1>2, <1>3, <2>2
<1>4. CASE table[j].state # "Blocked"
  <2>1. e = [table[j] EXCEPT !.ready = TRUE] /\ table[j] \in Process
    BY <1>1, <1>4
  <2>2. e \in Process /\ e.state = table[j].state /\ e.pid = table[j].pid /\ e.ppid = table[j].ppid
    BY <1>1, <2>1, ZenonT(40) DEF Process
  <2> HIDE DEF e
  <2> QED
    BY <1>1, <1>2, <1>4, <2>2
<1> QED
  BY <1>3, <1>4

\* Returning from waitpid(): the slots of gone are freed, the others keep all
\* but the caller's note of what it waits for.
LEMMA ReturnEffect ==
  ASSUME TypeOK, NEW i \in Slots, NEW gone \in SUBSET Slots, i \notin gone, WaitReturns(i, gone)
  PROVE  /\ table' \in [Slots -> Process]
         /\ \A j \in gone : table'[j] = Empty
         /\ \A j \in Slots \ (gone \cup {i}) : table'[j] = table[j]
         /\ table'[i] = [table[i] EXCEPT !.waiting = NotWaiting]
         /\ UNCHANGED <<current_idx, slice, g_init_slot, next_pid>>
<1>1. table \in [Slots -> Process]
  BY DEF TypeOK
<1>2. [table[i] EXCEPT !.waiting = NotWaiting] \in Process
  BY <1>1 DEF Process
<1>3. table' = [j \in Slots |-> IF j \in gone THEN Empty
                                ELSE IF j = i THEN [table[i] EXCEPT !.waiting = NotWaiting]
                                ELSE table[j]]
  BY DEF WaitReturns
<1> QED
  BY <1>1, <1>2, <1>3, EntryTypes DEF WaitReturns

\* Going to sleep in waitpid(): the caller is asleep on the channel of its target.
LEMMA SleepEffect ==
  ASSUME TypeOK, NEW i \in Users, NEW target \in Targets, sleep_on(i, target)
  PROVE  /\ table' \in [Slots -> Process]
         /\ \A j \in Slots \ {i} : table'[j] = table[j]
         /\ table'[i] = Parked(table[i], target)
         /\ current_idx' = 0 /\ slice' \in 1 .. MAX_PROCS /\ g_init_slot' = g_init_slot
         /\ next_pid' = next_pid
<1> DEFINE e == Parked(table[i], target)
           t == [table EXCEPT ![i] = e]
<1>1. table \in [Slots -> Process] /\ i \in Slots
  BY SlotFacts DEF TypeOK
<1>2. e \in Process /\ e.state = "Blocked"
  BY <1>1, ChanType, ZenonT(40) DEF Process, States, Parked
<1>4. BackToScheduler(i, t) /\ next_pid' = next_pid
  BY DEF sleep_on
<1> HIDE DEF e
<1>5. t \in [Slots -> Process] /\ t[i] = e /\ \A j \in Slots \ {i} : t[j] = table[j]
  BY <1>1, <1>2
<1> HIDE DEF t
<1> QED
  BY <1>2, <1>4, <1>5, BackEffect DEF e

\* A turn of the scheduler's loop: sleepers woken, perhaps a new init.
LEMMA PassEffect ==
  ASSUME TypeOK, NEW due \in SUBSET Users, run_scheduler(due)
  PROVE  /\ table' \in [Slots -> Process]
         /\ current_idx' = 0 /\ slice' \in 1 .. MAX_PROCS
         /\ g_init_slot' \in {NoSlot} \cup Users
         /\ \/ /\ next_pid' = next_pid
               /\ \A j \in Slots : \/ table'[j] = table[j]
                                   \/ table'[j] = Woken(table[j]) /\ table[j].state = "Blocked" /\ j # 0
            \/ /\ next_pid <= MaxPid /\ next_pid' = next_pid + 1
               /\ \E i \in Users :
                    /\ table[i].state = "Unused" /\ table'[i] = Born(0)
                    /\ \A j \in Slots \ {i} : \/ table'[j] = table[j]
                                              \/ table'[j] = Woken(table[j]) /\ table[j].state = "Blocked" /\ j # 0
<1> DEFINE t == [j \in Slots |-> IF j \in due THEN Woken(table[j]) ELSE table[j]]
<1>1. table \in [Slots -> Process] /\ g_init_slot \in {NoSlot} \cup Users
      /\ next_pid \in 1 .. MaxPid + 1 /\ current_idx \in Slots
  BY DEF TypeOK
<1>2. \A j \in due : j \in Users /\ table[j].state = "Blocked" /\ j # 0
  BY SlotFacts DEF run_scheduler, Sleepers
<1>3. \A j \in Slots : \/ t[j] = table[j]
                       \/ t[j] = Woken(table[j]) /\ table[j].state = "Blocked" /\ j # 0
  BY <1>2
<1>4. t \in [Slots -> Process]
  BY <1>1, EntryTypes
<1>5. current_idx' = 0 /\ slice' = 1 /\ 1 \in 1 .. MAX_PROCS
  BY TableHasUsers DEF run_scheduler
<1>6. \/ table' = t /\ UNCHANGED <<g_init_slot, next_pid>>
      \/ /\ next_pid <= MaxPid /\ next_pid' = next_pid + 1
         /\ \E i \in Users : alloc_slot(i) /\ table' = [t EXCEPT ![i] = Born(0)] /\ g_init_slot' = i
  BY DEF run_scheduler
<1> HIDE DEF t
<1>7. CASE table' = t /\ UNCHANGED <<g_init_slot, next_pid>>
  BY <1>1, <1>3, <1>4, <1>5, <1>7
<1>8. CASE /\ next_pid <= MaxPid /\ next_pid' = next_pid + 1
           /\ \E i \in Users : alloc_slot(i) /\ table' = [t EXCEPT ![i] = Born(0)] /\ g_init_slot' = i
  <2>1. PICK i \in Users : alloc_slot(i) /\ table' = [t EXCEPT ![i] = Born(0)] /\ g_init_slot' = i
    BY <1>8, Zenon
  <2>2. table[i].state = "Unused" /\ i \in Slots
    BY <2>1, SlotFacts DEF alloc_slot, Lowest
  <2>3. next_pid \in 1 .. MaxPid /\ 0 \in Pids
    BY <1>1, <1>8, PidsBounded DEF Pids
  <2>4. Born(0) \in Process
    BY <2>3, EntryTypes
  <2>5. table' \in [Slots -> Process] /\ table'[i] = Born(0) /\ \A j \in Slots \ {i} : table'[j] = t[j]
    BY <1>4, <2>1, <2>2, <2>4
  <2> QED
    BY <1>3, <1>5, <1>8, <2>1, <2>2, <2>5
<1> QED
  BY <1>6, <1>7, <1>8

\* fork(): one free slot gets the new process, the others are as they were.
LEMMA ForkEffect ==
  ASSUME TypeOK, NEW i \in Users, sys_fork(i)
  PROVE  /\ table' \in [Slots -> Process]
         /\ next_pid <= MaxPid /\ next_pid' = next_pid + 1
         /\ UNCHANGED <<current_idx, slice, g_init_slot>>
         /\ \E j \in Users : /\ table[j].state = "Unused" /\ table'[j] = Born(table[i].pid)
                             /\ \A k \in Slots \ {j} : table'[k] = table[k]
<1>1. table \in [Slots -> Process] /\ next_pid \in 1 .. MaxPid + 1 /\ i \in Slots
  BY SlotFacts DEF TypeOK
<1>2. PICK j \in Users : alloc_slot(j) /\ table' = [table EXCEPT ![j] = Born(table[i].pid)]
  BY Zenon DEF sys_fork
<1>3. next_pid <= MaxPid /\ next_pid' = next_pid + 1 /\ UNCHANGED <<current_idx, slice, g_init_slot>>
  BY DEF sys_fork
<1>4. table[j].state = "Unused" /\ j \in Slots
  BY <1>2, SlotFacts DEF alloc_slot, Lowest
<1>5. next_pid \in 1 .. MaxPid /\ table[i].pid \in Pids
  BY <1>1, <1>3, PidsBounded DEF Process
<1>6. Born(table[i].pid) \in Process
  BY <1>5, EntryTypes
<1> QED
  BY <1>1, <1>2, <1>3, <1>4, <1>6

\* One pass of waitpid()'s loop: it returns, perhaps with a zombie child, or
\* it goes to sleep because there is none.
LEMMA WaitCases ==
  ASSUME NEW i \in Users, NEW target, NEW nohang, WaitLoop(i, target, nohang), TypeOK
  PROVE  \/ WaitReturns(i, {})
         \/ \E j \in Collectable(i, target) : WaitReturns(i, {j})
         \/ Collectable(i, target) = {} /\ sleep_on(i, target)
BY SMTT(30) DEF WaitLoop, Lowest

-----------------------------------------------------------------------------
(* Types, and the process that has the CPU. *)

\* The caller of a waitpid() is not among the zombies it may collect.
LEMMA WaiterIsNoCorpse ==
  ASSUME CpuHolderRunnable, NEW i \in Users, current_idx = i, NEW target
  PROVE  i \notin Collectable(i, target) /\ Collectable(i, target) \subseteq Slots
BY SlotFacts DEF CpuHolderRunnable, Collectable

\* Every step keeps the types, and leaves the CPU with a runnable process.
LEMMA BaseStep ==
  ASSUME TypeOK, CpuHolderRunnable, [Next]_vars
  PROVE  TypeOK' /\ CpuHolderRunnable'
<1>t. /\ table \in [Slots -> Process] /\ current_idx \in Slots /\ slice \in 1 .. MAX_PROCS
      /\ g_init_slot \in {NoSlot} \cup Users /\ next_pid \in 1 .. MaxPid + 1
  BY DEF TypeOK
<1>w. ASSUME NEW i \in Users, current_idx = i, NEW target \in Targets, NEW nohang,
             WaitLoop(i, target, nohang)
      PROVE  TypeOK' /\ CpuHolderRunnable'
  <2>0. table[i].state = "Runnable" /\ i \in Slots /\ table[i] \in Process
    BY <1>w, <1>t, SlotFacts DEF CpuHolderRunnable
  <2>1. CASE WaitReturns(i, {})
    <3>1. /\ table' \in [Slots -> Process]
          /\ table'[i] = [table[i] EXCEPT !.waiting = NotWaiting]
          /\ UNCHANGED <<current_idx, slice, g_init_slot, next_pid>>
      BY <2>0, <2>1, ReturnEffect
    <3>2. table'[i].state = "Runnable"
      BY <2>0, <3>1 DEF Process
    <3> QED
      BY <1>t, <1>w, <3>1, <3>2, Zenon DEF TypeOK, CpuHolderRunnable
  <2>2. CASE \E j \in Collectable(i, target) : WaitReturns(i, {j})
    <3>0. PICK j \in Collectable(i, target) : WaitReturns(i, {j})
      BY <2>2
    <3>1. /\ table' \in [Slots -> Process]
          /\ table'[i] = [table[i] EXCEPT !.waiting = NotWaiting]
          /\ UNCHANGED <<current_idx, slice, g_init_slot, next_pid>>
      <4>1. i \notin {j} /\ {j} \in SUBSET Slots
        BY <1>w, <3>0, WaiterIsNoCorpse
      <4> QED
        BY <2>0, <3>0, <4>1, ReturnEffect
    <3>2. table'[i].state = "Runnable"
      BY <2>0, <3>1 DEF Process
    <3> QED
      BY <1>t, <1>w, <3>1, <3>2, Zenon DEF TypeOK, CpuHolderRunnable
  <2>3. CASE sleep_on(i, target)
    <3>1. /\ table' \in [Slots -> Process]
          /\ current_idx' = 0 /\ slice' \in 1 .. MAX_PROCS /\ g_init_slot' = g_init_slot
          /\ next_pid' = next_pid
      BY <1>w, <2>3, SleepEffect
    <3> QED
      BY <1>t, <3>1, SlotFacts DEF TypeOK, CpuHolderRunnable
  <2> QED
    BY <1>w, <2>1, <2>2, <2>3, WaitCases
<1>1. CASE UNCHANGED vars
  BY <1>1 DEF vars, TypeOK, CpuHolderRunnable
<1>2. ASSUME NEW due \in SUBSET Users, run_scheduler(due) PROVE TypeOK' /\ CpuHolderRunnable'
  <2>1. /\ table' \in [Slots -> Process] /\ current_idx' = 0 /\ slice' \in 1 .. MAX_PROCS
        /\ g_init_slot' \in {NoSlot} \cup Users
        /\ next_pid' = next_pid \/ (next_pid <= MaxPid /\ next_pid' = next_pid + 1)
    BY <1>2, PassEffect
  <2> QED
    BY <1>t, <2>1, PidsBounded, SlotFacts DEF TypeOK, CpuHolderRunnable
<1>3. ASSUME NEW i \in Users, run_slice(i) PROVE TypeOK' /\ CpuHolderRunnable'
  <2>1. /\ table[i].state = "Runnable" /\ current_idx' = i /\ slice' = i
        /\ UNCHANGED <<table, g_init_slot, next_pid>>
    BY <1>3 DEF run_slice, Lowest
  <2> QED
    BY <1>t, <2>1, SlotFacts, TableHasUsers DEF TypeOK, CpuHolderRunnable, Users
<1>4. ASSUME NEW i \in Users, Preempt(i) \/ Yield(i) PROVE TypeOK' /\ CpuHolderRunnable'
  <2>1. BackToScheduler(i, table) /\ UNCHANGED next_pid
    BY <1>4 DEF Preempt, Yield
  <2> QED
    BY <1>t, <2>1, BackEffect, SlotFacts DEF TypeOK, CpuHolderRunnable
<1>5. ASSUME NEW i \in Users, sys_sleep(i) PROVE TypeOK' /\ CpuHolderRunnable'
  <2>1. BackToScheduler(i, [table EXCEPT ![i].state = "Blocked"]) /\ UNCHANGED next_pid
    BY <1>5 DEF sys_sleep
  <2>2. [table EXCEPT ![i].state = "Blocked"] \in [Slots -> Process]
    BY <1>t, SlotFacts DEF Process, States
  <2> QED
    BY <1>t, <2>1, <2>2, BackEffect, SlotFacts, Zenon DEF TypeOK, CpuHolderRunnable
<1>6. ASSUME NEW i \in Users, SignalState(i) PROVE TypeOK' /\ CpuHolderRunnable'
  <2>1. PICK r \in BOOLEAN : table' = [table EXCEPT ![i].ready = r]
    BY <1>6, Zenon DEF SignalState
  <2>2. /\ current_idx = i /\ i \in Slots /\ table[i].state = "Runnable" /\ i # 0
        /\ UNCHANGED <<current_idx, slice, g_init_slot, next_pid>>
    BY <1>6, SlotFacts DEF SignalState, InUser, CpuHolderRunnable
  <2>3. table' \in [Slots -> Process] /\ table'[i].state = table[i].state
    BY <1>t, <2>1, <2>2 DEF Process
  <2> QED
    BY <1>t, <2>2, <2>3 DEF TypeOK, CpuHolderRunnable
<1>7. ASSUME NEW i \in Users, sys_fork(i) PROVE TypeOK' /\ CpuHolderRunnable'
  <2>1. /\ table' \in [Slots -> Process]
        /\ next_pid <= MaxPid /\ next_pid' = next_pid + 1
        /\ UNCHANGED <<current_idx, slice, g_init_slot>>
    BY <1>7, ForkEffect
  <2>2. \E j \in Users : /\ table[j].state = "Unused"
                         /\ \A k \in Slots \ {j} : table'[k] = table[k]
    BY <1>7, ForkEffect
  <2>3. current_idx = i /\ i \in Slots /\ table[i].state = "Runnable"
    BY <1>7, SlotFacts DEF sys_fork, InUser, CpuHolderRunnable
  <2>4. table'[i] = table[i]
    BY <2>2, <2>3
  <2> QED
    BY <1>t, <2>1, <2>3, <2>4, PidsBounded DEF TypeOK, CpuHolderRunnable
<1>8. ASSUME NEW i \in Users, sys_exit(i) PROVE TypeOK' /\ CpuHolderRunnable'
  <2>1. /\ table' \in [Slots -> Process]
        /\ current_idx' = 0 /\ slice' \in 1 .. MAX_PROCS /\ g_init_slot' = g_init_slot
        /\ next_pid' = next_pid
    BY <1>8, ExitEffect
  <2> QED
    BY <1>t, <2>1, SlotFacts DEF TypeOK, CpuHolderRunnable
<1>9. ASSUME NEW i \in Users, sys_waitpid(i) PROVE TypeOK' /\ CpuHolderRunnable'
  <2>1. PICK target \in Targets, nohang \in BOOLEAN : WaitLoop(i, target, nohang)
    BY <1>9 DEF sys_waitpid
  <2>2. current_idx = i
    BY <1>9 DEF sys_waitpid, InUser
  <2> QED
    BY <1>w, <2>1, <2>2
<1>10. ASSUME NEW i \in Users, WaitAgain(i) PROVE TypeOK' /\ CpuHolderRunnable'
  <2>1. current_idx = i /\ WaitLoop(i, table[i].waiting, FALSE) /\ table[i].waiting # NotWaiting
    BY <1>10, Zenon DEF WaitAgain
  <2>2. table[i].waiting \in Targets
    BY <1>t, <2>1, SlotFacts DEF Process
  <2> QED
    BY <1>w, <2>1, <2>2, Zenon
<1>11. ASSUME NEW i \in Users, NEW p \in Pids, signal_kill(i, p) PROVE TypeOK' /\ CpuHolderRunnable'
  <2>1. PICK j \in Slots \ {i} : table' = Terminated(j) \/ table' = Notified(j)
    BY <1>11 DEF signal_kill
  <2>2. /\ current_idx = i /\ i \in Slots /\ table[i].state = "Runnable"
        /\ UNCHANGED <<current_idx, slice, g_init_slot, next_pid>>
    BY <1>11, SlotFacts DEF signal_kill, InUser, CpuHolderRunnable
  <2>3. table' \in [Slots -> Process] /\ table'[i].state = "Runnable"
    BY <2>1, <2>2, TerminateEffect, NotifyEffect
  <2> QED
    BY <1>t, <2>2, <2>3 DEF TypeOK, CpuHolderRunnable
<1> QED
  BY <1>1, <1>2, <1>3, <1>4, <1>5, <1>6, <1>7, <1>8, <1>9, <1>10, <1>11 DEF Next, Scheduler

\* The table starts empty, with the scheduler in slot 0.
LEMMA InitHolds == Init => TypeOK /\ CpuHolderRunnable /\ NoCorpseUnderSleeper /\ PidsDistinct
<1> SUFFICES ASSUME Init PROVE TypeOK /\ CpuHolderRunnable /\ NoCorpseUnderSleeper /\ PidsDistinct
  OBVIOUS
<1>1. TypeOK
  <2>1. [Empty EXCEPT !.state = "Running"] \in Process
    BY EntryTypes DEF Process, States
  <2> QED
    BY <2>1, EntryTypes, SlotFacts, TableHasUsers, PidsBounded DEF Init, TypeOK
<1>2. \A i \in Users : table[i] = Empty
  BY SlotFacts DEF Init
<1>3. Empty.state = "Unused"
  BY DEF Empty
<1>4. \A i \in Slots : i # 0 => i \in Users
  BY SlotFacts
<1> QED
  BY <1>1, <1>2, <1>3, <1>4 DEF Init, CpuHolderRunnable, NoCorpseUnderSleeper, PidsDistinct, InWait, Live

\* Every variable of the process table keeps its type: slots, pids, channels and
\* the position of the scheduler's pass.
THEOREM TypeCorrect == Spec => []TypeOK
<1>1. Init => TypeOK /\ CpuHolderRunnable
  BY InitHolds
<1>2. TypeOK /\ CpuHolderRunnable /\ [Next]_vars => (TypeOK /\ CpuHolderRunnable)'
  BY BaseStep
<1> QED
  BY <1>1, <1>2, PTL DEF Spec

\* The process that has the CPU is runnable at every moment: a signal, an exit
\* or a reaping by whoever ran before never leaves the CPU with a dead entry.
THEOREM CpuHolderAlwaysRunnable == Spec => []CpuHolderRunnable
<1>1. Init => TypeOK /\ CpuHolderRunnable
  BY InitHolds
<1>2. TypeOK /\ CpuHolderRunnable /\ [Next]_vars => (TypeOK /\ CpuHolderRunnable)'
  BY BaseStep
<1> QED
  BY <1>1, <1>2, PTL DEF Spec

-----------------------------------------------------------------------------
(* No wakeup is lost. *)

\* Nobody falls asleep, and whoever still sleeps is not on a channel of an entry
\* that has just died: then no sleeper has a corpse to collect.
LEMMA NobodyMissed ==
  ASSUME NoCorpseUnderSleeper,
         \A i \in Users : table'[i].state = "Blocked" /\ table'[i].waiting # NotWaiting
           => /\ table[i].state = "Blocked"
              /\ table'[i].pid = table[i].pid
              /\ table'[i].waiting = table[i].waiting
              /\ table'[i].wait_chan = table[i].wait_chan,
         \A j \in Slots : table'[j].state = "Zombie"
           => \/ /\ table[j].state = "Zombie"
                 /\ table'[j].pid = table[j].pid
                 /\ table'[j].ppid = table[j].ppid
              \/ \A i \in Users : table'[i].state = "Blocked" => 
                   table'[i].wait_chan \notin {WAIT_ZOMBIE_ANY, wait_chan_of_child(table'[j].pid)}
  PROVE  NoCorpseUnderSleeper'
<1> SUFFICES ASSUME NEW i \in Users, InWait(i)', table'[i].state = "Blocked"
             PROVE  /\ table'[i].wait_chan = ChanOf(table'[i].waiting)
                    /\ Collectable(i, table[i].waiting)' = {}
  BY DEF NoCorpseUnderSleeper
<1>1. /\ table[i].state = "Blocked" /\ table'[i].waiting # NotWaiting
      /\ table'[i].pid = table[i].pid
      /\ table'[i].waiting = table[i].waiting
      /\ table'[i].wait_chan = table[i].wait_chan
  BY DEF InWait
<1>2. /\ table[i].wait_chan = ChanOf(table[i].waiting)
      /\ Collectable(i, table[i].waiting) = {}
  BY <1>1 DEF NoCorpseUnderSleeper, InWait, Live
<1>3. ASSUME NEW j \in Slots, table'[j].state = "Zombie", table'[j].ppid = table'[i].pid,
             table'[i].waiting \in {AnyChild, table'[j].pid}
      PROVE  FALSE
  <2>1. table'[i].wait_chan \in {WAIT_ZOMBIE_ANY, wait_chan_of_child(table'[j].pid)}
    BY <1>1, <1>2, <1>3 DEF ChanOf
  <2>2. table[j].state = "Zombie" /\ table'[j].pid = table[j].pid /\ table'[j].ppid = table[j].ppid
    BY <1>3, <2>1
  <2>3. j \in Collectable(i, table[i].waiting)
    BY <1>1, <1>3, <2>2 DEF Collectable
  <2> QED
    BY <1>2, <2>3
<1>4. Collectable(i, table[i].waiting)' = {}
  BY <1>3 DEF Collectable
<1> QED
  BY <1>1, <1>2, <1>4

\* Every step keeps that no sleeper has a corpse to collect.
LEMMA NoCorpseStep ==
  ASSUME TypeOK, CpuHolderRunnable, NoCorpseUnderSleeper, [Next]_vars
  PROVE  NoCorpseUnderSleeper'
<1>t. table \in [Slots -> Process] /\ Users \subseteq Slots
  BY SlotFacts DEF TypeOK
<1>e. Empty.state = "Unused" /\ \A q : Born(q).state = "Runnable"
  BY DEF Empty, Born
<1>k. \A j \in Slots : Woken(table[j]).state = "Runnable"
  BY <1>t DEF Woken, Process
<1>w. ASSUME NEW i \in Users, current_idx = i, NEW target \in Targets, NEW nohang,
             WaitLoop(i, target, nohang)
      PROVE  NoCorpseUnderSleeper'
  <2>0. table[i].state = "Runnable" /\ i \in Slots /\ table[i] \in Process
    BY <1>w, <1>t, SlotFacts DEF CpuHolderRunnable
  <2>1. ASSUME NEW gone \in SUBSET Slots, i \notin gone, WaitReturns(i, gone)
        PROVE  NoCorpseUnderSleeper'
    <3>1. /\ \A j \in gone : table'[j] = Empty
          /\ \A j \in Slots \ (gone \cup {i}) : table'[j] = table[j]
          /\ table'[i] = [table[i] EXCEPT !.waiting = NotWaiting]
      BY <2>0, <2>1, ReturnEffect
    <3>2. table'[i].state = "Runnable"
      BY <2>0, <3>1 DEF Process
    <3> QED
      BY <1>t, <1>e, <3>1, <3>2, NobodyMissed, ZenonT(40)
  <2>2. CASE sleep_on(i, target) /\ Collectable(i, target) = {}
    <3>1. /\ \A j \in Slots \ {i} : table'[j] = table[j]
          /\ table'[i] = Parked(table[i], target)
      BY <1>w, <2>2, SleepEffect
    <3>2. /\ table'[i].state = "Blocked" /\ table'[i].wait_chan = ChanOf(target)
          /\ table'[i].waiting = target /\ table'[i].pid = table[i].pid
      BY <2>0, <3>1 DEF Parked, Process
    <3> SUFFICES ASSUME NEW k \in Users, InWait(k)', table'[k].state = "Blocked"
                 PROVE  /\ table'[k].wait_chan = ChanOf(table'[k].waiting)
                        /\ Collectable(k, table[k].waiting)' = {}
      BY DEF NoCorpseUnderSleeper
    <3>3. ASSUME NEW j \in Slots, table'[j].state = "Zombie"
          PROVE  j # i /\ table'[j] = table[j]
      BY <3>1, <3>2, <3>3
    <3>4. CASE k = i
      BY <2>2, <3>2, <3>3, <3>4 DEF Collectable
    <3>5. CASE k # i
      <4>1. table'[k] = table[k] /\ InWait(k)
        BY <1>t, <3>1, <3>5 DEF InWait, Live
      <4>2. Collectable(k, table[k].waiting) = {} /\ table[k].wait_chan = ChanOf(table[k].waiting)
        BY <4>1 DEF NoCorpseUnderSleeper
      <4> QED
        BY <3>3, <4>1, <4>2 DEF Collectable
    <3> QED
      BY <3>4, <3>5
  <2>3. CASE \E j \in Collectable(i, target) : WaitReturns(i, {j})
    <3>0. PICK j \in Collectable(i, target) : WaitReturns(i, {j})
      BY <2>3
    <3>1. i \notin {j} /\ {j} \in SUBSET Slots
      BY <1>w, <3>0, WaiterIsNoCorpse
    <3> QED
      BY <2>1, <3>0, <3>1
  <2>4. {} \in SUBSET Slots /\ i \notin {}
    OBVIOUS
  <2> QED
    BY <1>w, <2>1, <2>2, <2>3, <2>4, WaitCases, Zenon
<1>1. CASE UNCHANGED vars
  BY <1>1 DEF vars, NoCorpseUnderSleeper, InWait, Live, Collectable
<1>2. ASSUME NEW due \in SUBSET Users, run_scheduler(due) PROVE NoCorpseUnderSleeper'
  <2>1. \A j \in Slots : \/ table'[j] = table[j]
                         \/ table'[j].state = "Runnable"
    BY <1>2, <1>e, <1>k, PassEffect
  <2> QED
    BY <1>t, <2>1, NobodyMissed
<1>3. ASSUME NEW i \in Users, run_slice(i) PROVE NoCorpseUnderSleeper'
  BY <1>3, <1>t, NobodyMissed DEF run_slice
<1>4. ASSUME NEW i \in Users, Preempt(i) \/ Yield(i) PROVE NoCorpseUnderSleeper'
  <2>1. BackToScheduler(i, table)
    BY <1>4 DEF Preempt, Yield
  <2>2. \A j \in Slots : table'[j] = table[j] \/ table'[j] = Empty
    BY <1>t, <2>1, BackEffect
  <2> QED
    BY <1>t, <1>e, <2>2, NobodyMissed
<1>5. ASSUME NEW i \in Users, sys_sleep(i) PROVE NoCorpseUnderSleeper'
  <2> DEFINE t == [table EXCEPT ![i].state = "Blocked"]
  <2>1. BackToScheduler(i, t) /\ table[i].waiting = NotWaiting
    BY <1>5 DEF sys_sleep, InUser
  <2>2. t \in [Slots -> Process] /\ t[i].state = "Blocked" /\ t[i].waiting = NotWaiting
    BY <1>t, <2>1, SlotFacts DEF Process, States
  <2>3. \A j \in Slots \ {i} : t[j] = table[j]
    BY <1>t
  <2> HIDE DEF t
  <2>4. table'[i] = t[i] /\ \A j \in Slots \ {i} : table'[j] = table[j]
    BY <2>1, <2>2, <2>3, BackEffect
  <2> QED
    BY <1>t, <2>2, <2>4, NobodyMissed
<1>6. ASSUME NEW i \in Users, SignalState(i) PROVE NoCorpseUnderSleeper'
  <2>1. PICK r \in BOOLEAN : table' = [table EXCEPT ![i].ready = r]
    BY <1>6, Zenon DEF SignalState
  <2>2. /\ table'[i].state = "Runnable"
        /\ \A j \in Slots \ {i} : table'[j] = table[j]
    BY <1>6, <1>t, <2>1 DEF SignalState, InUser, CpuHolderRunnable, Process
  <2> QED
    BY <1>t, <2>2, NobodyMissed
<1>7. ASSUME NEW i \in Users, sys_fork(i) PROVE NoCorpseUnderSleeper'
  <2>1. \E j \in Users : /\ table'[j] = Born(table[i].pid)
                         /\ \A k \in Slots \ {j} : table'[k] = table[k]
    BY <1>7, ForkEffect
  <2> QED
    BY <1>t, <1>e, <2>1, NobodyMissed
<1>8. ASSUME NEW i \in Users, sys_exit(i) PROVE NoCorpseUnderSleeper'
  <2> DEFINE Chosen == {WAIT_ZOMBIE_ANY, wait_chan_of_child(table[i].pid)}
  <2>1. /\ \/ table'[i].state = "Zombie" /\ table'[i].pid = table[i].pid
           \/ table'[i] = Empty
        /\ table'[0] = table[0]
    BY <1>8, ExitEffect
  <2>2. \A j \in Users \ {i} :
              \/ /\ table'[j].state = table[j].state
                 /\ table'[j] \in {table[j], [table[j] EXCEPT !.ppid = Adopter(table[i].pid)]}
                 /\ table[j].state = "Zombie" => table'[j] = table[j]
                 /\ table'[j].state = "Blocked" => table'[j].wait_chan \notin Chosen
              \/ table'[j] = Empty
              \/ table'[j].state = "Runnable"
    BY <1>8, ExitEffect
  <2>3. \A j \in Users \ {i} :
                 LET e == [table[j] EXCEPT !.ppid = Adopter(table[i].pid)]
                 IN e.pid = table[j].pid /\ e.waiting = table[j].waiting /\ e.wait_chan = table[j].wait_chan
    BY <1>t DEF Process
  <2>4. \A k \in Users : table'[k].state = "Blocked"
           => /\ table[k].state = "Blocked"
              /\ table'[k].pid = table[k].pid
              /\ table'[k].waiting = table[k].waiting
              /\ table'[k].wait_chan = table[k].wait_chan
              /\ table'[k].wait_chan \notin Chosen
    <3> SUFFICES ASSUME NEW k \in Users, table'[k].state = "Blocked"
                 PROVE  /\ table[k].state = "Blocked"
                        /\ table'[k].pid = table[k].pid
                        /\ table'[k].waiting = table[k].waiting
                        /\ table'[k].wait_chan = table[k].wait_chan
                        /\ table'[k].wait_chan \notin Chosen
      OBVIOUS
    <3>1. k # i
      BY <2>1, <1>e
    <3> HIDE DEF Chosen
    <3> QED
      BY <3>1, <2>2, <2>3, <1>e, ZenonT(40)
  <2>5. \A j \in Slots : table'[j].state = "Zombie"
           => \/ table[j].state = "Zombie" /\ table'[j] = table[j]
              \/ j = i /\ table'[j].pid = table[i].pid
    BY <2>1, <2>2, <1>e, SlotFacts
  <2> QED
    BY <1>t, <2>4, <2>5, NobodyMissed
<1>9. ASSUME NEW i \in Users, sys_waitpid(i) PROVE NoCorpseUnderSleeper'
  <2>1. PICK target \in Targets, nohang \in BOOLEAN : WaitLoop(i, target, nohang)
    BY <1>9 DEF sys_waitpid
  <2>2. current_idx = i
    BY <1>9 DEF sys_waitpid, InUser
  <2> QED
    BY <1>w, <2>1, <2>2
<1>10. ASSUME NEW i \in Users, WaitAgain(i) PROVE NoCorpseUnderSleeper'
  <2>1. current_idx = i /\ WaitLoop(i, table[i].waiting, FALSE) /\ table[i].waiting # NotWaiting
    BY <1>10, ZenonT(40) DEF WaitAgain
  <2>2. table[i].waiting \in Targets
    BY <1>t, <2>1, SlotFacts DEF Process
  <2> QED
    BY <1>w, <2>1, <2>2, Zenon
<1>11. ASSUME NEW i \in Users, NEW p \in Pids, signal_kill(i, p) PROVE NoCorpseUnderSleeper'
  <2>1. PICK j \in Slots \ {i} : table' = Terminated(j) \/ (j # 0 /\ table' = Notified(j))
    BY <1>11 DEF signal_kill
  <2>2. CASE table' = Terminated(j)
    <3>1. table'[j].state = "Zombie" /\ table'[j].pid = table[j].pid
      BY <2>2, TerminateEffect
    <3>2. \A k \in Slots \ {j} :
              \/ /\ table'[k] = table[k]
                 /\ table[k].state = "Blocked" /\ k # 0 =>
                       table[k].wait_chan \notin {WAIT_ZOMBIE_ANY, wait_chan_of_child(table[j].pid)}
              \/ table'[k].state = "Runnable"
      BY <2>2, TerminateEffect
    <3> QED
      BY <1>t, <3>1, <3>2, NobodyMissed, SlotFacts
  <2>3. CASE table' = Notified(j)
    <3>1. /\ \A k \in Slots \ {j} : table'[k] = table[k]
          /\ table'[j].pid = table[j].pid /\ table'[j].ppid = table[j].ppid
          /\ table'[j].state # "Blocked"
          /\ table'[j].state = "Zombie" => table[j].state = "Zombie"
      BY <2>3, NotifyEffect
    <3> QED
      BY <1>t, <3>1, NobodyMissed
  <2> QED
    BY <2>1, <2>2, <2>3
<1> QED
  BY <1>1, <1>2, <1>3, <1>4, <1>5, <1>6, <1>7, <1>8, <1>9, <1>10, <1>11 DEF Next, Scheduler

\* No wakeup is lost: whatever the order of exits, signals, adoptions and waits,
\* and even when pids share a channel, a process asleep in waitpid() has nothing
\* to collect.
THEOREM NoLostWakeup == Spec => []NoCorpseUnderSleeper
<1> DEFINE Inv == TypeOK /\ CpuHolderRunnable /\ NoCorpseUnderSleeper
<1>1. Init => Inv
  BY InitHolds
<1>2. Inv /\ [Next]_vars => Inv'
  BY BaseStep, NoCorpseStep
<1> QED
  BY <1>1, <1>2, PTL DEF Spec

-----------------------------------------------------------------------------
(* Pids, and who frees an entry. *)

\* Every entry in use has a pid that was handed out before; the scheduler's is 0.
PidsIssued == /\ table[0].pid = 0
              /\ \A i \in Users : table[i].state # "Unused" => table[i].pid \in 1 .. next_pid - 1

\* How a step may change the entries in use: none is new, or one is, with the
\* next pid.
PidsKept == /\ next_pid' = next_pid
            /\ \A j \in Slots : table'[j].state # "Unused" =>
                 table[j].state # "Unused" /\ table'[j].pid = table[j].pid

PidsExtended == /\ next_pid' = next_pid + 1
                /\ \E i \in Users :
                     /\ table'[i].pid = next_pid
                     /\ \A j \in Slots \ {i} : table'[j].state # "Unused" =>
                          table[j].state # "Unused" /\ table'[j].pid = table[j].pid

\* A step of either kind keeps the pids distinct, and freed entries are the
\* parent's to free.
LEMMA PidsStep ==
  ASSUME TypeOK, PidsIssued, PidsDistinct, PidsKept \/ PidsExtended, table'[0].pid = 0
  PROVE  PidsIssued' /\ PidsDistinct'
<1>t. next_pid \in Nat /\ next_pid >= 1 /\ Users \subseteq Slots /\ 0 \in Slots /\ 0 \notin Users
  BY SlotFacts, PidsBounded DEF TypeOK
<1>s. \A j \in Slots : j # 0 => j \in Users
  BY SlotFacts
<1>1. CASE PidsKept
  BY <1>t, <1>1 DEF PidsKept, PidsIssued, PidsDistinct
<1>2. CASE PidsExtended
  <2>1. PICK i \in Users :
          /\ table'[i].pid = next_pid
          /\ \A j \in Slots \ {i} : table'[j].state # "Unused" =>
               table[j].state # "Unused" /\ table'[j].pid = table[j].pid
    BY <1>2 DEF PidsExtended
  <2>2. next_pid' = next_pid + 1
    BY <1>2 DEF PidsExtended
  <2>3. \A j \in Slots \ {i} : table'[j].state # "Unused" => table'[j].pid \in 0 .. next_pid - 1
    BY <1>t, <1>s, <2>1 DEF PidsIssued
  <2>4. PidsIssued'
    BY <1>t, <2>1, <2>2 DEF PidsIssued
  <2>5. PidsDistinct'
    BY <1>t, <2>1, <2>3, SMTT(30) DEF PidsDistinct
  <2> QED
    BY <2>4, <2>5
<1> QED
  BY <1>1, <1>2

\* Every step changes the entries in use in one of the two ways, leaves the
\* scheduler's pid alone, and frees only what its author may free.
LEMMA EntriesStep ==
  ASSUME TypeOK, CpuHolderRunnable, PidsIssued, [Next]_vars
  PROVE  /\ PidsKept \/ PidsExtended
         /\ table'[0].pid = 0
         /\ \A j \in Users : table[j].state # "Unused" /\ table'[j].state = "Unused"
              => table[j].ppid \in {0, table[current_idx].pid}
<1> DEFINE Freed == \A j \in Users : table[j].state # "Unused" /\ table'[j].state = "Unused"
                      => table[j].ppid \in {0, table[current_idx].pid}
           Goal == (PidsKept \/ PidsExtended) /\ table'[0].pid = 0 /\ Freed
<1>t. table \in [Slots -> Process] /\ Users \subseteq Slots /\ 0 \in Slots /\ 0 \notin Users
  BY SlotFacts DEF TypeOK
<1>z. table[0].pid = 0
  BY DEF PidsIssued
<1>s. \A j \in Slots : j # 0 => j \in Users
  BY SlotFacts
<1>e. Empty.state = "Unused" /\ \A q : Born(q).state = "Runnable" /\ Born(q).pid = next_pid
  BY DEF Empty, Born
<1>k. \A j \in Slots : Woken(table[j]).state = "Runnable" /\ Woken(table[j]).pid = table[j].pid
  BY <1>t, SMTT(30) DEF Woken, Process
<1>w. ASSUME NEW i \in Users, current_idx = i, NEW target \in Targets, NEW nohang,
             WaitLoop(i, target, nohang)
      PROVE  Goal
  <2>0. table[i].state = "Runnable" /\ i \in Slots /\ table[i] \in Process
    BY <1>w, <1>t, SlotFacts DEF CpuHolderRunnable
  <2>1. ASSUME NEW gone \in SUBSET Slots, gone \subseteq Collectable(i, target), WaitReturns(i, gone)
        PROVE  Goal
    <3>0. i \notin gone
      BY <1>w, <2>1, WaiterIsNoCorpse
    <3>1. /\ \A j \in gone : table'[j] = Empty
          /\ \A j \in Slots \ (gone \cup {i}) : table'[j] = table[j]
          /\ table'[i] = [table[i] EXCEPT !.waiting = NotWaiting]
          /\ next_pid' = next_pid
      BY <2>0, <2>1, <3>0, ReturnEffect
    <3>2. table'[i].state = "Runnable" /\ table'[i].pid = table[i].pid
      BY <2>0, <3>1 DEF Process
    <3>3. \A j \in gone : table[j].ppid = table[current_idx].pid
      BY <1>w, <2>1 DEF Collectable
    <3>4. table'[0].pid = 0
      BY <1>t, <1>z, <3>1 DEF Empty
    <3>5. Freed
      BY <1>t, <3>1, <3>2, <3>3, Zenon
    <3>6. PidsKept
      BY <1>t, <1>e, <2>0, <3>1, <3>2, ZenonT(40) DEF PidsKept
    <3> QED
      BY <3>4, <3>5, <3>6
  <2>2. CASE sleep_on(i, target)
    <3>1. /\ \A j \in Slots \ {i} : table'[j] = table[j]
          /\ table'[i] = Parked(table[i], target)
          /\ next_pid' = next_pid
      BY <1>w, <2>2, SleepEffect
    <3>2. table'[i].state = "Blocked" /\ table'[i].pid = table[i].pid
      BY <2>0, <3>1 DEF Parked, Process
    <3> QED
      BY <1>t, <1>z, <2>0, <3>1, <3>2 DEF PidsKept
  <2>3. CASE \E j \in Collectable(i, target) : WaitReturns(i, {j})
    <3>0. PICK j \in Collectable(i, target) : WaitReturns(i, {j})
      BY <2>3
    <3>1. {j} \in SUBSET Slots /\ {j} \subseteq Collectable(i, target)
      BY <1>w, <3>0, WaiterIsNoCorpse
    <3> QED
      BY <2>1, <3>0, <3>1
  <2>4. {} \in SUBSET Slots /\ {} \subseteq Collectable(i, target)
    OBVIOUS
  <2> QED
    BY <1>w, <2>1, <2>2, <2>3, <2>4, WaitCases, Zenon
<1>1. CASE UNCHANGED vars
  BY <1>1, <1>z DEF vars, PidsKept
<1>2. ASSUME NEW due \in SUBSET Users, run_scheduler(due) PROVE Goal
  <2>1. CASE /\ next_pid' = next_pid
             /\ \A j \in Slots : \/ table'[j] = table[j]
                                 \/ table'[j] = Woken(table[j]) /\ table[j].state = "Blocked" /\ j # 0
    BY <1>t, <1>z, <1>k, <2>1 DEF PidsKept
  <2>2. CASE /\ next_pid <= MaxPid /\ next_pid' = next_pid + 1
             /\ \E i \in Users :
                    /\ table[i].state = "Unused" /\ table'[i] = Born(0)
                    /\ \A j \in Slots \ {i} : \/ table'[j] = table[j]
                                              \/ table'[j] = Woken(table[j]) /\ table[j].state = "Blocked" /\ j # 0
    BY <1>t, <1>z, <1>e, <1>k, <2>2 DEF PidsExtended
  <2> QED
    BY <1>2, <2>1, <2>2, PassEffect
<1>3. ASSUME NEW i \in Users, run_slice(i) PROVE Goal
  BY <1>3, <1>z DEF run_slice, PidsKept
<1>4. ASSUME NEW i \in Users, Preempt(i) \/ Yield(i) PROVE Goal
  <2>1. BackToScheduler(i, table) /\ next_pid' = next_pid /\ table[i].state = "Runnable" /\ i \in Slots
    BY <1>4, <1>t DEF Preempt, Yield, InUser, CpuHolderRunnable
  <2>2. \A j \in Slots : table'[j] = table[j]
    BY <1>t, <2>1, BackEffect
  <2> QED
    BY <1>t, <1>z, <2>1, <2>2 DEF PidsKept
<1>5. ASSUME NEW i \in Users, sys_sleep(i) PROVE Goal
  <2> DEFINE t == [table EXCEPT ![i].state = "Blocked"]
  <2>1. BackToScheduler(i, t) /\ next_pid' = next_pid /\ table[i].state = "Runnable" /\ i \in Slots
    BY <1>5, <1>t DEF sys_sleep, InUser, CpuHolderRunnable
  <2>2. t \in [Slots -> Process] /\ t[i].state = "Blocked" /\ t[i].pid = table[i].pid
    BY <1>t, SlotFacts DEF Process, States
  <2>3. \A j \in Slots \ {i} : t[j] = table[j]
    BY <1>t
  <2> HIDE DEF t
  <2>4. table'[i] = t[i] /\ \A j \in Slots \ {i} : table'[j] = table[j]
    BY <2>1, <2>2, <2>3, BackEffect
  <2> QED
    BY <1>t, <1>z, <2>1, <2>2, <2>4 DEF PidsKept
<1>6. ASSUME NEW i \in Users, SignalState(i) PROVE Goal
  <2>1. PICK r \in BOOLEAN : table' = [table EXCEPT ![i].ready = r]
    BY <1>6, Zenon DEF SignalState
  <2>2. /\ table'[i].state = table[i].state /\ table'[i].pid = table[i].pid
        /\ \A j \in Slots \ {i} : table'[j] = table[j]
        /\ next_pid' = next_pid
    BY <1>6, <1>t, <2>1 DEF SignalState, Process
  <2> QED
    BY <1>t, <1>z, <2>2 DEF PidsKept
<1>7. ASSUME NEW i \in Users, sys_fork(i) PROVE Goal
  <2>1. /\ next_pid' = next_pid + 1
        /\ \E j \in Users : /\ table[j].state = "Unused" /\ table'[j] = Born(table[i].pid)
                            /\ \A k \in Slots \ {j} : table'[k] = table[k]
    BY <1>7, ForkEffect
  <2> QED
    BY <1>t, <1>z, <1>e, <2>1 DEF PidsExtended
<1>8. ASSUME NEW i \in Users, sys_exit(i) PROVE Goal
  <2>1. /\ \/ table'[i].state = "Zombie" /\ table'[i].pid = table[i].pid
           \/ table'[i] = Empty /\ table[i].ppid = 0
        /\ table'[0] = table[0]
        /\ next_pid' = next_pid
    BY <1>8, ExitEffect
  <2>2. \A j \in Users \ {i} :
              \/ /\ table'[j].state = table[j].state
                 /\ table'[j] \in {table[j], [table[j] EXCEPT !.ppid = Adopter(table[i].pid)]}
              \/ table'[j] = Empty /\ table[j].ppid = table[i].pid
              \/ table'[j].state = "Runnable" /\ table'[j].pid = table[j].pid /\ table[j].state = "Blocked"
    BY <1>8, ExitEffect
  <2>3. \A j \in Users \ {i} : [table[j] EXCEPT !.ppid = Adopter(table[i].pid)].pid = table[j].pid
    BY <1>t DEF Process
  <2>4. current_idx = i /\ table[i].state = "Runnable"
    BY <1>8, <1>t DEF sys_exit, InUser, CpuHolderRunnable
  <2>5. \A j \in Users \ {i} : table'[j].state # "Unused" =>
              table[j].state # "Unused" /\ table'[j].pid = table[j].pid
    BY <1>e, <2>2, <2>3, Zenon
  <2>6. PidsKept
    BY <1>e, <1>s, <2>1, <2>4, <2>5 DEF PidsKept
  <2>7. Freed
    BY <1>e, <2>1, <2>2, <2>4
  <2> QED
    BY <1>z, <2>1, <2>6, <2>7
<1>9. ASSUME NEW i \in Users, sys_waitpid(i) PROVE Goal
  <2>1. PICK target \in Targets, nohang \in BOOLEAN : WaitLoop(i, target, nohang)
    BY <1>9 DEF sys_waitpid
  <2>2. current_idx = i
    BY <1>9 DEF sys_waitpid, InUser
  <2> QED
    BY <1>w, <2>1, <2>2
<1>10. ASSUME NEW i \in Users, WaitAgain(i) PROVE Goal
  <2>1. current_idx = i /\ WaitLoop(i, table[i].waiting, FALSE) /\ table[i].waiting # NotWaiting
    BY <1>10, ZenonT(40) DEF WaitAgain
  <2>2. table[i].waiting \in Targets
    BY <1>t, <2>1, SlotFacts DEF Process
  <2> QED
    BY <1>w, <2>1, <2>2, Zenon
<1>11. ASSUME NEW i \in Users, NEW p \in Pids, signal_kill(i, p) PROVE Goal
  <2>1. PICK j \in Slots \ {i} : /\ table[j].state # "Unused"
                                 /\ table' = Terminated(j) \/ (j # 0 /\ table' = Notified(j))
    BY <1>11 DEF signal_kill, Addressed, Lowest
  <2>2. next_pid' = next_pid
    BY <1>11 DEF signal_kill
  <2>3. CASE table' = Terminated(j)
    <3>1. /\ table'[j].state = "Zombie" /\ table'[j].pid = table[j].pid
          /\ \A k \in Slots \ {j} :
              \/ table'[k] = table[k]
              \/ table'[k].state = "Runnable" /\ table'[k].pid = table[k].pid /\ table[k].state = "Blocked"
      BY <2>3, TerminateEffect
    <3> QED
      BY <1>t, <1>z, <2>1, <2>2, <3>1 DEF PidsKept
  <2>4. CASE table' = Notified(j)
    <3>1. /\ \A k \in Slots \ {j} : table'[k] = table[k]
          /\ table'[j].pid = table[j].pid
          /\ table'[j].state # "Unused"
      BY <2>1, <2>4, NotifyEffect
    <3> QED
      BY <1>t, <1>z, <2>1, <2>2, <3>1 DEF PidsKept
  <2> QED
    BY <2>1, <2>3, <2>4
<1> QED
  BY <1>1, <1>2, <1>3, <1>4, <1>5, <1>6, <1>7, <1>8, <1>9, <1>10, <1>11 DEF Next, Scheduler

\* Two entries in use never share a pid, however many processes have come and
\* gone: fork and spawn hand out pids nobody in the table has.
THEOREM PidsAlwaysDistinct == Spec => []PidsDistinct
<1> DEFINE Inv == TypeOK /\ CpuHolderRunnable /\ PidsIssued /\ PidsDistinct
<1>1. Init => Inv
  <2>1. Init => PidsIssued
    BY SlotFacts DEF Init, PidsIssued, Empty
  <2> QED
    BY <2>1, InitHolds
<1>2. Inv /\ [Next]_vars => Inv'
  BY BaseStep, EntriesStep, PidsStep
<1> QED
  BY <1>1, <1>2, PTL DEF Spec

\* An entry is freed by its parent or, without one, by the scheduler: no other
\* process's waitpid() or exit() takes a status that is not its own.
THEOREM FreedOnlyByParent == Spec => FreedByParent
<1> DEFINE Inv == TypeOK /\ CpuHolderRunnable /\ PidsIssued /\ PidsDistinct
           Fair == \A j \in Users : table[j].state # "Unused" /\ table'[j].state = "Unused"
                     => table[j].ppid \in {0, table[current_idx].pid}
<1>1. Init => Inv
  <2>1. Init => PidsIssued
    BY SlotFacts DEF Init, PidsIssued, Empty
  <2> QED
    BY <2>1, InitHolds
<1>2. Inv /\ [Next]_vars => Inv' /\ [Fair]_vars
  BY BaseStep, EntriesStep, PidsStep
<1> QED
  BY <1>1, <1>2, PTL DEF Spec, FreedByParent

=============================================================================
