--------------------------- MODULE PipeRefinement ---------------------------
(***************************************************************************)
(* The pipes of the kernel implement the bounded FIFOs of PipeAbs, for     *)
(* every number of processes, pipes, tables and descriptors and every      *)
(* buffer size: the ring behind its cursors is the queue of the FIFO, and  *)
(* the counts say of an end what the descriptors of all processes say.     *)
(***************************************************************************)
EXTENDS PipeProofs

-----------------------------------------------------------------------------
(* What a process has open.                                                *)

\* The tables T and their contents F: of type, each used table of one process,
\* the others empty.
Owns(T, F) ==
  /\ T \in [TableIds -> [used : BOOLEAN, pid : Pids]] /\ F \in Tables
  /\ \A t \in TableIds : ~T[t].used => F[t] = NoTable
  /\ \A t, u \in TableIds : T[t].used /\ T[u].used /\ T[t].pid = T[u].pid => t = u

\* The descriptors of each process.
Views(T, F) ==
  [p \in Pids |-> IF {t \in TableIds : T[t].used /\ T[t].pid = p} = {} THEN NoTable
                  ELSE F[CHOOSE t \in TableIds : Lowest(t, {u \in TableIds : T[u].used /\ T[u].pid = p})]]

\* Views() is the mapping of the refinement.
LEMMA DescriptorsAre ==
  /\ Descriptors = Views(tab, fds)
  /\ Descriptors' = Views(tab', fds')
BY Zenon DEF Descriptors, Views, TablesOf, Mine

\* With the tables as they were, every process sees what it saw.
LEMMA TablesShown ==
  ASSUME tab' = tab, fds' = fds
  PROVE  Descriptors' = Descriptors
BY DescriptorsAre, Zenon

\* A process with no table sees nothing.
LEMMA ViewOfNone ==
  ASSUME NEW T, NEW F, NEW p \in Pids, \A t \in TableIds : ~(T[t].used /\ T[t].pid = p)
  PROVE  Views(T, F)[p] = NoTable
BY ZenonT(40) DEF Views

\* A process sees the table it owns, and with no table it sees nothing.
LEMMA ViewOf ==
  ASSUME NEW T, NEW F, Owns(T, F), NEW p \in Pids
  PROVE  /\ \A t \in TableIds : T[t].used /\ T[t].pid = p => Views(T, F)[p] = F[t]
         /\ (\A t \in TableIds : ~(T[t].used /\ T[t].pid = p)) => Views(T, F)[p] = NoTable
         /\ Views(T, F)[p] \in [FdNums -> Entry]
<1> DEFINE S == {u \in TableIds : T[u].used /\ T[u].pid = p}
<1>1. ASSUME NEW t \in TableIds, T[t].used, T[t].pid = p
      PROVE  Views(T, F)[p] = F[t]
  <2>1. t \in S /\ \A u \in S : u = t
    BY <1>1, ZenonT(40) DEF Owns
  <2>2. t <= t
    BY DEF TableIds
  <2>3. Lowest(t, S) /\ \A u : Lowest(u, S) => u = t
    BY <2>1, <2>2, ZenonT(40) DEF Lowest
  <2> HIDE DEF S
  <2>4. (CHOOSE u \in TableIds : Lowest(u, S)) = t
    BY <2>3, ZenonT(40)
  <2> QED BY <2>1, <2>4, ZenonT(40) DEF Views, S
<1>2. ASSUME \A t \in TableIds : ~(T[t].used /\ T[t].pid = p)
      PROVE  Views(T, F)[p] = NoTable
  BY <1>2, ViewOfNone, Zenon
<1>3. Views(T, F)[p] \in [FdNums -> Entry]
  BY <1>1, <1>2, FreshTypes, SMTT(30) DEF Owns, Tables
<1> QED BY <1>1, <1>2, <1>3, SMTT(30)

\* A view is a table for each process.
LEMMA ViewsType ==
  ASSUME NEW T, NEW F, Owns(T, F)
  PROVE  Views(T, F) \in [Pids -> [FdNums -> Entry]]
<1> DEFINE mine(p) == {u \in TableIds : T[u].used /\ T[u].pid = p}
           V(p) == IF mine(p) = {} THEN NoTable ELSE F[CHOOSE t \in TableIds : Lowest(t, mine(p))]
<1>1. Views(T, F) = [p \in Pids |-> V(p)]
  BY Zenon DEF Views
<1>2. \A p \in Pids : Views(T, F)[p] = V(p)
  <2> HIDE DEF V
  <2> QED BY <1>1, ZenonT(40)
<1> HIDE DEF V
<1>3. \A p \in Pids : V(p) \in [FdNums -> Entry]
  BY <1>2, ViewOf, SMTT(30)
<1> QED BY <1>1, <1>3, ZenonT(40)

\* An end has a holder among the processes exactly when a descriptor in some
\* table names it.
LEMMA HoldersAre ==
  ASSUME NEW T, NEW F, Owns(T, F), NEW i \in PipeIds, NEW end \in BOOLEAN
  PROVE  Abs!HasHolder(Views(T, F), i, end) <=> RefsOf(F, i, end) # {}
<1>1. ASSUME NEW p \in Pids, NEW f \in FdNums, Names(Views(T, F)[p][f], i, end)
      PROVE  RefsOf(F, i, end) # {}
  <2>1. PICK t \in TableIds : Views(T, F)[p] = F[t]
    <3>1. ~NoTable[f].used
      BY Zenon DEF NoTable, NoEntry
    <3>2. Views(T, F)[p] # NoTable
      BY <1>1, <3>1, SMTT(30) DEF Names
    <3> QED BY <3>2, ViewOf
  <2>2. <<t, f>> \in RefsOf(F, i, end)
    BY <1>1, <2>1, SMTT(30) DEF RefsOf
  <2> QED BY <2>2, SMTT(30)
<1>2. ASSUME NEW t \in TableIds, NEW f \in FdNums, Names(F[t][f], i, end)
      PROVE  \E p \in Pids : Names(Views(T, F)[p][f], i, end)
  <2>1. ~NoTable[f].used
    BY ZenonT(40) DEF NoTable, NoEntry
  <2>2. T[t].used /\ T[t].pid \in Pids
    BY <1>2, <2>1, SMTT(30) DEF Owns, Names
  <2>3. Views(T, F)[T[t].pid] = F[t]
    BY <2>2, ViewOf
  <2> QED BY <1>2, <2>2, <2>3, SMTT(30)
<1>3. \A d : Abs!Names(d, i, end) <=> Names(d, i, end)
  BY Zenon DEF Abs!Names, Names
<1>4. RefsOf(F, i, end) # {} => \E t \in TableIds, f \in FdNums : Names(F[t][f], i, end)
  BY Zenon DEF RefsOf
<1> QED BY <1>1, <1>2, <1>3, <1>4, SMTT(30) DEF Abs!HasHolder

\* One process's table is set to e, its own or one that was free.
LEMMA ViewSet ==
  ASSUME NEW T, NEW F, Owns(T, F), NEW p \in Pids, NEW t \in TableIds, NEW e \in [FdNums -> Entry],
         NEW T2, NEW F2, Owns(T2, F2),
         T2[t].used, T2[t].pid = p, \A u \in TableIds \ {t} : T2[u] = T[u] /\ F2[u] = F[u], F2[t] = e,
         T[t].used => T[t].pid = p
  PROVE  Views(T2, F2) = [Views(T, F) EXCEPT ![p] = e]
<1>1. Views(T2, F2)[p] = e
  BY ViewOf
<1>2. ASSUME NEW q \in Pids, q # p
      PROVE  Views(T2, F2)[q] = Views(T, F)[q]
  <2>1. CASE \E u \in TableIds : T[u].used /\ T[u].pid = q
    <3>1. PICK u \in TableIds : T[u].used /\ T[u].pid = q
      BY <2>1, ZenonT(40)
    <3>2. u # t /\ T2[u] = T[u] /\ F2[u] = F[u]
      BY <1>2, <3>1, SMTT(30)
    <3> QED BY <3>1, <3>2, ViewOf, SMTT(30)
  <2>2. CASE \A u \in TableIds : ~(T[u].used /\ T[u].pid = q)
    <3>1. \A u \in TableIds : ~(T2[u].used /\ T2[u].pid = q)
      BY <1>2, <2>2, SMTT(30)
    <3> QED BY <2>2, <3>1, ViewOf, SMTT(30)
  <2> QED BY <2>1, <2>2, SMTT(30)
<1>3. Views(T, F) \in [Pids -> [FdNums -> Entry]] /\ Views(T2, F2) \in [Pids -> [FdNums -> Entry]]
  BY ViewsType, SMTT(30)
<1> QED BY <1>1, <1>2, <1>3, SMTT(30)

\* One process loses its table.
LEMMA ViewDrop ==
  ASSUME NEW T, NEW F, Owns(T, F), NEW p \in Pids, NEW t \in TableIds, NEW T2, NEW F2, Owns(T2, F2),
         T[t].used, T[t].pid = p, ~T2[t].used, \A u \in TableIds \ {t} : T2[u] = T[u] /\ F2[u] = F[u]
  PROVE  Views(T2, F2) = [Views(T, F) EXCEPT ![p] = NoTable]
<1>1. Views(T2, F2)[p] = NoTable
  <2>1. \A u \in TableIds : ~(T2[u].used /\ T2[u].pid = p)
    BY DEF Owns
  <2> QED BY <2>1, ViewOf, SMTT(30)
<1>2. ASSUME NEW q \in Pids, q # p
      PROVE  Views(T2, F2)[q] = Views(T, F)[q]
  <2>1. CASE \E u \in TableIds : T[u].used /\ T[u].pid = q
    <3>1. PICK u \in TableIds : T[u].used /\ T[u].pid = q
      BY <2>1, ZenonT(40)
    <3>2. u # t /\ T2[u] = T[u] /\ F2[u] = F[u]
      BY <1>2, <3>1, SMTT(30)
    <3> QED BY <3>1, <3>2, ViewOf, SMTT(30)
  <2>2. CASE \A u \in TableIds : ~(T[u].used /\ T[u].pid = q)
    <3>1. \A u \in TableIds : ~(T2[u].used /\ T2[u].pid = q)
      BY <1>2, <2>2, SMTT(30)
    <3> QED BY <2>2, <3>1, ViewOf, SMTT(30)
  <2> QED BY <2>1, <2>2, SMTT(30)
<1>3. Views(T, F) \in [Pids -> [FdNums -> Entry]] /\ Views(T2, F2) \in [Pids -> [FdNums -> Entry]]
  BY ViewsType, ZenonT(40)
<1> QED BY <1>1, <1>2, <1>3, SMTT(30)

-----------------------------------------------------------------------------
(* The steps of the kernel and the steps of the FIFOs.                     *)

\* The inductive invariant of the refinement.
PipeInv == TypeOK /\ TablesOwned /\ CountsExact /\ RingAgrees

\* The ranges of the variables the FIFOs are seen through.
LEMMA RangesHold ==
  ASSUME PipeInv
  PROVE  /\ ring \in [PipeIds -> Ring] /\ pused \in [PipeIds -> BOOLEAN]
         /\ fds \in [TableIds -> [FdNums -> Entry]]
         /\ tab \in [TableIds -> [used : BOOLEAN, pid : Pids]]
BY ZenonT(40) DEF PipeInv, TypeOK

\* The tables are owned, before a step and after it.
LEMMA OwnsNow ==
  /\ TypeOK /\ TablesOwned => Owns(tab, fds)
  /\ TypeOK' /\ TablesOwned' => Owns(tab', fds')
<1>1. TypeOK /\ TablesOwned => Owns(tab, fds)
  BY SMTT(30) DEF TypeOK, TablesOwned, Owns, Tables
<1>2. TypeOK' /\ TablesOwned' => Owns(tab', fds')
  BY ZenonT(40) DEF TypeOK, TablesOwned, Owns, Tables
<1> QED BY <1>1, <1>2, SMTT(30)

\* mine() is the view of the calling process.
LEMMA MineIsView ==
  ASSUME PipeInv, NEW p \in Pids, NEW t \in TableIds, Mine(p, t)
  PROVE  tab[t].used /\ tab[t].pid = p /\ Descriptors[p] = fds[t] /\ fds[t] \in [FdNums -> Entry]
<1>1. tab[t].used /\ tab[t].pid = p
  BY ZenonT(40) DEF Mine, Lowest, TablesOf
<1>2. Views(tab, fds)[p] = fds[t]
  BY <1>1, OwnsNow, ViewOf, SMTT(30) DEF PipeInv
<1> QED BY <1>1, <1>2, RangesHold, DescriptorsAre, SMTT(30)

\* The counts of a pipe are zero when no process holds that end.
LEMMA CountsSayHeld ==
  ASSUME PipeInv, NEW i \in PipeIds
  PROVE  /\ readers[i] = 0 <=> ~Abs!HasHolder(Descriptors, i, ReadEnd)
         /\ writers[i] = 0 <=> ~Abs!HasHolder(Descriptors, i, WriteEnd)
<1>1. Owns(tab, fds) /\ fds \in Tables
  BY OwnsNow, ZenonT(40) DEF PipeInv, Owns
<1>2. \A end \in BOOLEAN : Abs!HasHolder(Descriptors, i, end) <=> RefsOf(fds, i, end) # {}
  BY <1>1, HoldersAre, DescriptorsAre, SMTT(30)
<1>3. \A end \in BOOLEAN : Cardinality(RefsOf(fds, i, end)) = 0 <=> RefsOf(fds, i, end) = {}
  BY <1>1, RefsFinite, SMTT(30)
<1>4. readers[i] = Cardinality(RefsOf(fds, i, ReadEnd)) /\ writers[i] = Cardinality(RefsOf(fds, i, WriteEnd))
  BY ZenonT(40) DEF PipeInv, CountsExact, Refs
<1> QED BY <1>2, <1>3, <1>4, Ends, SMTT(30)

\* A pipe is in use when a process refers to it, before a step and after it.
LEMMA UsedSaysReferenced ==
  /\ PipeInv => \A i \in PipeIds : pused[i] <=> ~Abs!Unreferenced(Descriptors, i)
  /\ PipeInv' => \A i \in PipeIds : pused'[i] <=> ~Abs!Unreferenced(Descriptors', i)
<1>1. ASSUME NEW T, NEW F, Owns(T, F), NEW i \in PipeIds
      PROVE  Abs!Unreferenced(Views(T, F), i) <=> RefsOf(F, i, ReadEnd) \cup RefsOf(F, i, WriteEnd) = {}
  <2>1. /\ Abs!HasHolder(Views(T, F), i, ReadEnd) <=> RefsOf(F, i, ReadEnd) # {}
        /\ Abs!HasHolder(Views(T, F), i, WriteEnd) <=> RefsOf(F, i, WriteEnd) # {}
    BY <1>1, HoldersAre, Ends, SMTT(30)
  <2>2. Abs!Unreferenced(Views(T, F), i) <=>
          ~Abs!HasHolder(Views(T, F), i, WriteEnd) /\ ~Abs!HasHolder(Views(T, F), i, ReadEnd)
    BY ZenonT(40) DEF Abs!Unreferenced, WriteEnd, ReadEnd
  <2> QED BY <2>1, <2>2, SMTT(30)
<1>2. ASSUME PipeInv, NEW i \in PipeIds PROVE pused[i] <=> ~Abs!Unreferenced(Descriptors, i)
  <2>1. pused[i] <=> RefsOf(fds, i, ReadEnd) \cup RefsOf(fds, i, WriteEnd) # {}
    BY <1>2, SMTT(30) DEF PipeInv, CountsExact, Refs
  <2> QED BY <1>1, <1>2, <2>1, OwnsNow, DescriptorsAre, SMTT(30) DEF PipeInv
<1>3. ASSUME PipeInv', NEW i \in PipeIds PROVE pused'[i] <=> ~Abs!Unreferenced(Descriptors', i)
  <2>1. pused'[i] <=> RefsOf(fds', i, ReadEnd) \cup RefsOf(fds', i, WriteEnd) # {}
    BY <1>3, ZenonT(40) DEF PipeInv, CountsExact, Refs
  <2> QED BY <1>1, <1>3, <2>1, OwnsNow, DescriptorsAre, SMTT(30) DEF PipeInv
<1> QED BY <1>2, <1>3, SMTT(30)

\* Dropping references forgets the bytes of the pipes nobody refers to any more.
LEMMA Forgets ==
  ASSUME PipeInv, PipeInv', ring' = ring, \A i \in PipeIds : pused'[i] => pused[i]
  PROVE  Abs!Forget(Descriptors')
<1>1. \A i \in PipeIds : pused'[i] <=> ~Abs!Unreferenced(Descriptors', i)
  BY UsedSaysReferenced, SMTT(30)
<1> DEFINE v(i) == IF Abs!Unreferenced(Descriptors', i) THEN <<>> ELSE Fifos[i]
           w(i) == IF pused'[i] THEN RingBytes(ring[i]) ELSE <<>>
<1>2. \A i \in PipeIds : v(i) = w(i)
  BY <1>1, SMTT(30) DEF Fifos
<1>3. Fifos' = [i \in PipeIds |-> w(i)]
  BY ZenonT(40) DEF Fifos
<1>4. Fifos' = [i \in PipeIds |-> v(i)]
  <2> HIDE DEF v, w
  <2> QED BY <1>2, <1>3, SMTT(30)
<1> QED BY <1>4, ZenonT(40) DEF Abs!Forget

\* Table t is p's after the step: it was, or it was free.
Takes(p, t) ==
  /\ tab[t].used => tab[t].pid = p
  /\ tab'[t].used /\ tab'[t].pid = p
  /\ \A u \in TableIds \ {t} : tab'[u] = tab[u]

\* A step that sets the table of one process changes what that process sees.
LEMMA ViewStep ==
  ASSUME PipeInv, PipeInv', NEW p \in Pids, NEW t \in TableIds, NEW e \in [FdNums -> Entry],
         Takes(p, t), fds' = [fds EXCEPT ![t] = e]
  PROVE  Descriptors' = [Descriptors EXCEPT ![p] = e]
<1>1. fds'[t] = e /\ \A u \in TableIds \ {t} : fds'[u] = fds[u]
  BY RangesHold, ZenonT(40)
<1>2. Owns(tab, fds) /\ Owns(tab', fds')
  BY OwnsNow, ZenonT(40) DEF PipeInv
<1>3. \A u \in TableIds \ {t} : tab'[u] = tab[u] /\ fds'[u] = fds[u]
  BY <1>1, SMTT(30) DEF Takes
<1> DEFINE T2 == tab'
           F2 == fds'
<1>4. /\ Owns(T2, F2) /\ T2[t].used /\ T2[t].pid = p /\ F2[t] = e
      /\ \A u \in TableIds \ {t} : T2[u] = tab[u] /\ F2[u] = fds[u]
  BY <1>1, <1>2, <1>3, SMTT(30) DEF Takes
<1> HIDE DEF T2, F2
<1>5. Views(T2, F2) = [Views(tab, fds) EXCEPT ![p] = e]
  BY <1>2, <1>4, ViewSet, SMTT(30) DEF Takes
<1> QED BY <1>5, DescriptorsAre, SMTT(30) DEF T2, F2

\* A step that sets one descriptor of the caller to nothing or to an end it has.
LEMMA RebindStep ==
  ASSUME PipeInv, PipeInv', NEW p \in Pids, NEW t \in TableIds, Mine(p, t), NEW n \in FdNums,
         NEW d \in {NoEntry} \cup {fds[t][f] : f \in FdNums},
         fds' = [fds EXCEPT ![t][n] = d], tab' = tab, ring' = ring, UNCHANGED <<proc, reading>>,
         \A i \in PipeIds : pused'[i] => pused[i]
  PROVE  Abs!Rebind(p, n)
<1>1. tab[t].used /\ tab[t].pid = p /\ Descriptors[p] = fds[t] /\ fds[t] \in [FdNums -> Entry]
  BY MineIsView, ZenonT(40)
<1>2. d \in Entry
  BY <1>1, FreshTypes, ZenonT(40)
<1> DEFINE e == [fds[t] EXCEPT ![n] = d]
<1>3. e \in [FdNums -> Entry] /\ fds' = [fds EXCEPT ![t] = e]
  BY <1>1, <1>2, SMTT(30)
<1> HIDE DEF e
<1>4. Descriptors' = [Descriptors EXCEPT ![p] = e]
  <2>1. Takes(p, t)
    BY <1>1, Zenon DEF Takes
  <2> QED BY <1>3, <2>1, ViewStep, Zenon
<1>5. Descriptors' = [Descriptors EXCEPT ![p][n] = d]
  BY <1>1, <1>4, SMTT(30) DEF e
<1>6. d \in {Abs!NoEnd} \cup {Descriptors[p][f] : f \in FdNums}
  BY <1>1, SMTT(30) DEF Abs!NoEnd, NoEntry, ReadEnd
<1>7. Abs!Forget(Descriptors')
  BY Forgets, SMTT(30)
<1> QED BY <1>5, <1>6, <1>7, ZenonT(40) DEF Abs!Rebind

\* close_fd()
LEMMA CloseRebinds ==
  ASSUME PipeInv, PipeInv', NEW p \in Pids, NEW f \in FdNums, Close(p, f)
  PROVE  Abs!Rebind(p, f)
<1>1. PICK t \in TableIds :
        /\ Mine(p, t) /\ fds' = [fds EXCEPT ![t][f] = NoEntry] /\ tab' = tab /\ ring' = ring
        /\ Drop(fds[t][f]) /\ UNCHANGED <<proc, reading>>
  BY ZenonT(40) DEF Close
<1>2. \A i \in PipeIds : pused'[i] => pused[i]
  BY <1>1, RangesHold, ZenonT(40) DEF Drop
<1> QED BY <1>1, <1>2, RebindStep, Zenon

\* dup_fd()
LEMMA DupRebinds ==
  ASSUME PipeInv, PipeInv', NEW p \in Pids, NEW f \in FdNums, Dup(p, f), ~UNCHANGED vars
  PROVE  \E n \in FdNums : Abs!Rebind(p, n)
<1>1. PICK t \in TableIds, n \in FdNums :
        /\ Mine(p, t) /\ fds' = [fds EXCEPT ![t][n] = fds[t][f]] /\ tab' = tab /\ ring' = ring
        /\ pused' = pused /\ UNCHANGED <<proc, reading>>
  BY Zenon DEF Dup, Fail
<1> DEFINE d == fds[t][f]
<1>2. d \in {NoEntry} \cup {fds[t][h] : h \in FdNums} /\ fds' = [fds EXCEPT ![t][n] = d]
  BY <1>1, Zenon
<1>3. \A i \in PipeIds : pused'[i] => pused[i]
  BY <1>1, Zenon
<1> HIDE DEF d
<1> QED BY <1>1, <1>2, <1>3, RebindStep, Zenon

\* dup2_fd()
LEMMA Dup2Rebinds ==
  ASSUME PipeInv, PipeInv', NEW p \in Pids, NEW f \in FdNums, NEW g \in FdNums,
         Dup2(p, f, g), ~UNCHANGED vars
  PROVE  Abs!Rebind(p, g)
<1>1. PICK t \in TableIds :
        /\ Mine(p, t) /\ fds' = [fds EXCEPT ![t][g] = fds[t][f]] /\ tab' = tab /\ ring' = ring
        /\ pused' = UsedAfterClose(fds[t][g]) /\ UNCHANGED <<proc, reading>>
  BY Zenon DEF Dup2, vars, pipeVars, tableVars
<1>2. \A i \in PipeIds : pused'[i] => pused[i]
  BY <1>1, Zenon DEF UsedAfterClose
<1> DEFINE d == fds[t][f]
<1>3. d \in {NoEntry} \cup {fds[t][h] : h \in FdNums} /\ fds' = [fds EXCEPT ![t][g] = d]
  BY <1>1, Zenon
<1> HIDE DEF d
<1> QED BY <1>1, <1>2, <1>3, RebindStep, Zenon

\* The end of a process
LEMMA EndStops ==
  ASSUME PipeInv, PipeInv', NEW p \in Pids, ProcessEnds(p)
  PROVE  Abs!Stop(p)
<1>1. NoTable = Abs!Nothing
  BY Zenon DEF NoTable, NoEntry, ReadEnd, Abs!Nothing, Abs!NoEnd
<1>2. CloseAllOf(p) /\ proc' = [proc EXCEPT ![p] = "dead"] /\ reading' = [reading EXCEPT ![p] = Abs!NoRead]
  BY ZenonT(40) DEF ProcessEnds, Idle, Abs!NoRead
<1>3. Owns(tab, fds) /\ Owns(tab', fds')
  BY OwnsNow, SMTT(30) DEF PipeInv
<1>4. ring' = ring /\ \A i \in PipeIds : pused'[i] => pused[i]
  BY <1>2, ZenonT(40) DEF CloseAllOf, pipeVars
<1>5. Abs!Forget(Descriptors')
  BY <1>4, Forgets, SMTT(30)
<1>6. Descriptors' = [Descriptors EXCEPT ![p] = NoTable]
  <2>1. CASE TablesOf(p) = {}
    <3>1. UNCHANGED <<tab, fds>>
      BY <1>2, <2>1, SMTT(30) DEF CloseAllOf, Mine, Lowest, tableVars
    <3>2. Descriptors' = Descriptors
      BY <3>1, TablesShown, Zenon
    <3>3. Descriptors \in [Pids -> [FdNums -> Entry]] /\ Descriptors[p] = NoTable
      <4>1. \A t \in TableIds : ~(tab[t].used /\ tab[t].pid = p)
        BY <2>1, SMTT(30) DEF TablesOf
      <4> QED BY <1>3, <4>1, ViewOf, ViewsType, DescriptorsAre, SMTT(30)
    <3> QED BY <3>2, <3>3, SMTT(30)
  <2>2. CASE TablesOf(p) # {}
    <3>1. PICK t \in TableIds : /\ Mine(p, t) /\ fds' = [fds EXCEPT ![t] = NoTable]
                                /\ tab' = [tab EXCEPT ![t] = [used |-> FALSE, pid |-> FirstPid]]
      BY <1>2, <2>2, SMTT(30) DEF CloseAllOf
    <3>2. tab[t].used /\ tab[t].pid = p
      BY <3>1, MineIsView, SMTT(30)
    <3>3. ~tab'[t].used /\ \A u \in TableIds \ {t} : tab'[u] = tab[u] /\ fds'[u] = fds[u]
      BY <3>1, RangesHold, SMTT(30)
    <3> DEFINE T2 == tab'
               F2 == fds'
    <3>4. Owns(T2, F2) /\ ~T2[t].used /\ \A u \in TableIds \ {t} : T2[u] = tab[u] /\ F2[u] = fds[u]
      BY <1>3, <3>3, SMTT(30)
    <3> HIDE DEF T2, F2
    <3>5. Views(T2, F2) = [Views(tab, fds) EXCEPT ![p] = NoTable]
      BY <1>3, <3>2, <3>4, ViewDrop, SMTT(30)
    <3> QED BY <3>5, DescriptorsAre, SMTT(30) DEF T2, F2
  <2> QED BY <2>1, <2>2, SMTT(30)
<1> QED BY <1>1, <1>2, <1>5, <1>6, SMTT(30) DEF Abs!Stop

\* fork_copy()
LEMMA ForkShares ==
  ASSUME PipeInv, PipeInv', NEW p \in Pids, NEW c \in Pids, Fork(p, c)
  PROVE  Abs!Fork(p, c)
<1>1. /\ proc[c] = "absent" /\ ForkCopy(p, c) /\ proc' = [proc EXCEPT ![c] = "alive"]
      /\ reading' = reading
  BY ZenonT(40) DEF Fork
<1>2. UNCHANGED <<pused, ring>>
  BY <1>1, SMTT(30) DEF ForkCopy, pipeVars
<1>3. Fifos' = Fifos
  BY <1>2, ZenonT(40) DEF Fifos
<1>4. CASE UNCHANGED <<tab, fds>>
  <2>1. Descriptors' = Descriptors
    BY <1>4, TablesShown, Zenon
  <2> QED BY <1>1, <1>3, <2>1, SMTT(30) DEF Abs!Fork
<1>5. CASE ~UNCHANGED <<tab, fds>>
  <2>1. PICK s \in TableIds, t \in TableIds :
          /\ Mine(p, s) /\ TableFor(c, t) /\ fds' = [fds EXCEPT ![t] = fds[s]]
          /\ tab' = [tab EXCEPT ![t] = [used |-> TRUE, pid |-> c]]
    BY <1>1, <1>5, SMTT(30) DEF ForkCopy, tableVars
  <2>2. Descriptors[p] = fds[s] /\ fds[s] \in [FdNums -> Entry]
    BY <2>1, MineIsView, SMTT(30)
  <2>3. tab[t].used => tab[t].pid = c
    BY <2>1, SMTT(30) DEF TableFor, Mine, Lowest, TablesOf, FreeTables
  <2>4. Takes(c, t)
    BY <2>1, <2>3, RangesHold, SMTT(30) DEF Takes
  <2>5. Descriptors' = [Descriptors EXCEPT ![c] = fds[s]]
    BY <2>1, <2>2, <2>4, ViewStep, Zenon
  <2> QED BY <1>1, <1>3, <2>2, <2>5, SMTT(30) DEF Abs!Fork
<1> QED BY <1>4, <1>5, SMTT(30)

\* create(): two ends of a pipe nobody refers to; a table made for nothing is
\* not seen.
LEMMA CreateOpens ==
  ASSUME PipeInv, PipeInv', NEW p \in Pids, Create(p)
  PROVE  Abs!Create(p) \/ UNCHANGED <<Fifos, Descriptors, proc, reading>>
<1>1. CASE UNCHANGED vars
  BY <1>1, TablesShown, ZenonT(40) DEF vars, tableVars, pipeVars, Fifos
<1>2. CASE ~UNCHANGED vars
  <2>1. PICK i \in PipeIds, t \in TableIds :
          Lowest(i, FreePipes) /\ TableFor(p, t) /\ CreateIn(p, i, t) /\ UNCHANGED <<proc, reading>>
    BY <1>2, SMTT(30) DEF Create, Fail
  <2>2. tab' = [tab EXCEPT ![t] = [used |-> TRUE, pid |-> p]] /\ ~pused[i]
    BY <2>1, SMTT(30) DEF CreateIn, Lowest, FreePipes
  <2>3. tab[t].used => tab[t].pid = p
    BY <2>1, SMTT(30) DEF TableFor, Mine, Lowest, TablesOf, FreeTables
  <2>4. Takes(p, t)
    BY <2>2, <2>3, RangesHold, SMTT(30) DEF Takes
  <2>5. Owns(tab, fds) /\ Owns(tab', fds')
    BY OwnsNow, SMTT(30) DEF PipeInv
  <2>6. EntriesFor(t) = fds[t] /\ fds \in Tables /\ fds[t] \in [FdNums -> Entry]
    BY <2>5, SMTT(30) DEF Owns, EntriesFor, Tables
  <2>7. Descriptors[p] = fds[t] /\ Descriptors \in [Pids -> [FdNums -> Entry]]
    <3>1. CASE tab[t].used
      BY <2>3, <2>5, <3>1, ViewOf, ViewsType, DescriptorsAre, ZenonT(40)
    <3>2. CASE ~tab[t].used
      <4>1. fds[t] = NoTable
        BY <2>5, <3>2, SMTT(30) DEF Owns
      <4>2. \A u \in TableIds : ~(tab[u].used /\ tab[u].pid = p)
        BY <2>1, <3>2, SMTT(30) DEF TableFor, Mine, Lowest, TablesOf
      <4>3. Views(tab, fds)[p] = NoTable
        BY <4>2, ViewOfNone, Zenon
      <4>4. Views(tab, fds) \in [Pids -> [FdNums -> Entry]]
        BY <2>5, ViewsType, Zenon
      <4> QED BY <4>1, <4>3, <4>4, DescriptorsAre, Zenon
    <3> QED BY <3>1, <3>2, SMTT(30)
  <2>8. CASE fds' = [fds EXCEPT ![t] = EntriesFor(t)] /\ UNCHANGED pipeVars
    <3>1. Descriptors' = [Descriptors EXCEPT ![p] = fds[t]]
      BY <2>4, <2>6, <2>8, ViewStep, Zenon
    <3>2. Descriptors' = Descriptors
      BY <2>7, <3>1, SMTT(30)
    <3> QED BY <2>1, <2>8, <3>2, SMTT(30) DEF pipeVars, Fifos
  <2>9. CASE ~(fds' = [fds EXCEPT ![t] = EntriesFor(t)] /\ UNCHANGED pipeVars)
    <3> DEFINE re == [used |-> TRUE, pipe_id |-> i, write_end |-> ReadEnd]
               we == [used |-> TRUE, pipe_id |-> i, write_end |-> WriteEnd]
    <3>1. PICK rfd \in FdNums, wfd \in FdNums :
            /\ ~fds[t][rfd].used /\ ~fds[t][wfd].used /\ rfd # wfd
            /\ fds' = [fds EXCEPT ![t] = [fds[t] EXCEPT ![rfd] = re, ![wfd] = we]]
            /\ pused' = [pused EXCEPT ![i] = TRUE] /\ ring' = [ring EXCEPT ![i] = FreshRing]
      BY <2>1, <2>6, <2>9, SMTT(30) DEF CreateIn, Lowest, FreeFds
    <3>2. re \in Entry /\ we \in Entry
      BY NewEnds, SMTT(30)
    <3> HIDE DEF re, we
    <3> DEFINE e == [fds[t] EXCEPT ![rfd] = re, ![wfd] = we]
    <3>3. e \in [FdNums -> Entry]
      BY <2>6, <3>2, SMTT(30)
    <3>4. Descriptors' = [Descriptors EXCEPT ![p] = e]
      <4> HIDE DEF e
      <4> QED BY <2>4, <3>1, <3>3, ViewStep, Zenon DEF e
    <3>5. Descriptors' = [Descriptors EXCEPT ![p][rfd] = re, ![p][wfd] = we]
      BY <2>7, <3>4, ZenonT(40)
    <3>6. Fifos' = Fifos
      <4>1. RingBytes(FreshRing) = <<>>
        BY DEF RingBytes, FreshRing
      <4> DEFINE v(j) == IF pused[j] THEN RingBytes(ring[j]) ELSE <<>>
                 w(j) == IF pused'[j] THEN RingBytes(ring'[j]) ELSE <<>>
      <4>2. \A j \in PipeIds : v(j) = w(j)
        <5> TAKE j \in PipeIds
        <5>1. CASE j = i
          BY <2>2, <3>1, <4>1, <5>1, RangesHold, SMTT(30)
        <5>2. CASE j # i
          BY <3>1, <5>2, RangesHold, SMTT(30)
        <5> QED BY <5>1, <5>2, SMTT(30)
      <4>3. Fifos = [j \in PipeIds |-> v(j)] /\ Fifos' = [j \in PipeIds |-> w(j)]
        BY SMTT(30) DEF Fifos
      <4> HIDE DEF v, w
      <4> QED BY <4>2, <4>3, Zenon
    <3>7. Abs!Unreferenced(Descriptors, i)
      BY <2>2, UsedSaysReferenced, SMTT(30)
    <3> QED BY <2>1, <2>7, <3>1, <3>5, <3>6, <3>7, SMTT(30) DEF Abs!Create, re, we, ReadEnd, WriteEnd
  <2> QED BY <2>8, <2>9, SMTT(30)
<1> QED BY <1>1, <1>2, SMTT(30)

\* A pipe that a descriptor names is in use, and its queue is what the ring holds.
LEMMA NamedInUse ==
  ASSUME PipeInv, NEW t \in TableIds, NEW f \in FdNums, fds[t][f].used
  PROVE  /\ fds[t][f].pipe_id \in PipeIds /\ pused[fds[t][f].pipe_id]
         /\ fds[t][f].write_end \in BOOLEAN /\ ring[fds[t][f].pipe_id] \in Ring
         /\ Fifos[fds[t][f].pipe_id] = RingBytes(ring[fds[t][f].pipe_id])
<1> DEFINE i == fds[t][f].pipe_id
<1>1. fds[t][f] \in Entry
  BY RangesHold, ZenonT(40)
<1>2. i \in PipeIds /\ fds[t][f].write_end \in BOOLEAN
  BY <1>1, SMTT(30) DEF Entry
<1>3. <<t, f>> \in RefsOf(fds, i, fds[t][f].write_end)
  BY SMTT(30) DEF RefsOf, Names
<1>4. fds[t][f].write_end = ReadEnd \/ fds[t][f].write_end = WriteEnd
  BY <1>2, SMTT(30) DEF ReadEnd, WriteEnd
<1>5. pused[i]
  <2> HIDE DEF i
  <2>1. pused[i] <=> RefsOf(fds, i, ReadEnd) \cup RefsOf(fds, i, WriteEnd) # {}
    BY <1>2, Zenon DEF PipeInv, CountsExact, Refs
  <2> QED BY <1>3, <1>4, <2>1, SMTT(30)
<1>6. ring[i] \in Ring
  BY <1>2, RangesHold, Zenon
<1> QED BY <1>2, <1>5, <1>6, ZenonT(40) DEF Fifos

\* One ring changes, and with it one queue.
LEMMA QueueStep ==
  ASSUME PipeInv, NEW i \in PipeIds, pused[i], pused' = pused, NEW r, ring' = [ring EXCEPT ![i] = r]
  PROVE  Fifos' = [Fifos EXCEPT ![i] = RingBytes(r)]
<1> DEFINE v(j) == IF pused[j] THEN RingBytes(ring[j]) ELSE <<>>
           w(j) == IF pused[j] THEN RingBytes(ring'[j]) ELSE <<>>
<1>1. \A j \in PipeIds : w(j) = IF j = i THEN RingBytes(r) ELSE v(j)
  BY RangesHold, Zenon
<1>2. Fifos = [j \in PipeIds |-> v(j)] /\ Fifos' = [j \in PipeIds |-> w(j)]
  BY SMTT(30) DEF Fifos
<1> HIDE DEF v, w
<1> QED BY <1>1, <1>2, SMTT(30)

\* One try of read_fd() is a read of the FIFO, or a wait.
LEMMA TryReads ==
  ASSUME PipeInv, PipeInv', NEW p \in Pids, NEW f \in FdNums, NEW n \in 0 .. MaxIO, ReadTry(p, f, n),
         UNCHANGED <<pused, readers, writers, tableVars, proc>>
  PROVE  Abs!Read(p, f, n)
<1>1. PICK t \in TableIds :
        /\ Mine(p, t) /\ fds[t][f].used /\ ~fds[t][f].write_end
        /\ LET i   == fds[t][f].pipe_id
               rg  == ring[i]
               got == Shorter(n, rg.len)
           IN \/ /\ got > 0
                 /\ ring' = [ring EXCEPT ![i] = [rg EXCEPT !.r = (rg.r + got) % BUF, !.len = rg.len - got]]
                 /\ reading' = [reading EXCEPT ![p] = Idle]
              \/ got = 0 /\ writers[i] = 0 /\ reading' = [reading EXCEPT ![p] = Idle] /\ UNCHANGED ring
              \/ /\ got = 0 /\ writers[i] # 0 /\ UNCHANGED ring
                 /\ reading' = [reading EXCEPT ![p] = [fd |-> f, n |-> n]]
  BY ZenonT(40) DEF ReadTry
<1> DEFINE i == fds[t][f].pipe_id
           rg == ring[i]
           got == Shorter(n, rg.len)
           after == [rg EXCEPT !.r = (rg.r + got) % BUF, !.len = rg.len - got]
<1>2. /\ i \in PipeIds /\ pused[i] /\ fds[t][f].write_end \in BOOLEAN /\ rg \in Ring
      /\ Fifos[i] = RingBytes(rg)
  BY <1>1, NamedInUse, ZenonT(40)
<1>3. Descriptors[p] = fds[t] /\ Descriptors' = Descriptors
  BY <1>1, MineIsView, TablesShown, Zenon DEF tableVars
<1>4. Len(Fifos[i]) = rg.len /\ rg.len \in Nat /\ n \in Nat
  <2>1. n \in Nat
    BY PipeAssumption
  <2> QED BY <1>2, <2>1, BytesType, ZenonT(40)
<1>5. Abs!Names(Descriptors[p][f], i, FALSE)
  <2>1. fds[t][f].write_end = FALSE
    BY ONLY <1>1, <1>2
  <2> QED BY <1>1, <1>3, <2>1, ZenonT(40) DEF Abs!Names
<1>6. writers[i] = 0 <=> ~Abs!HasHolder(Descriptors, i, TRUE)
  BY <1>2, CountsSayHeld, ZenonT(40) DEF WriteEnd
<1>7. got = IF n < Len(Fifos[i]) THEN n ELSE Len(Fifos[i])
  BY <1>4, ZenonT(40) DEF Shorter
<1>8. after \in Ring
  BY <1>2, TakenType, ZenonT(40)
<1>9. got \in Nat /\ got <= rg.len
  BY ONLY <1>4, SMTT(30) DEF Shorter
<1>10. Idle = Abs!NoRead
  BY SMTT(30) DEF Idle, Abs!NoRead
<1>11. CASE got > 0 /\ ring' = [ring EXCEPT ![i] = after] /\ reading' = [reading EXCEPT ![p] = Idle]
  <2> HIDE DEF got
  <2>1. RingBytes(after) = SubSeq(RingBytes(rg), got + 1, Len(RingBytes(rg)))
    <3> HIDE DEF rg
    <3> QED BY <1>2, <1>8, <1>9, TakesOldest, ZenonT(40)
  <2> HIDE DEF after
  <2>2. Fifos' = [Fifos EXCEPT ![i] = RingBytes(after)]
    <3> HIDE DEF i
    <3> QED BY <1>2, <1>11, QueueStep, ZenonT(40)
  <2>3. Fifos' = [Fifos EXCEPT ![i] = SubSeq(@, got + 1, Len(@))]
    BY <1>2, <2>1, <2>2, Zenon
  <2> QED BY <1>3, <1>5, <1>7, <1>10, <1>11, <2>3, ZenonT(40) DEF Abs!Read
<1>12. CASE UNCHANGED ring
  <2>1. Fifos' = Fifos
    BY <1>12, SMTT(30) DEF Fifos
  <2>2. \/ got = 0 /\ writers[i] = 0 /\ reading' = [reading EXCEPT ![p] = Idle]
        \/ got = 0 /\ writers[i] # 0 /\ reading' = [reading EXCEPT ![p] = [fd |-> f, n |-> n]]
    <3>1. got > 0 => after # rg
      <4>1. after.len = rg.len - got
        BY ONLY <1>2, SMTT(30) DEF Ring
      <4> HIDE DEF after, got
      <4> QED BY ONLY <1>4, <1>9, <4>1, SMTT(30)
    <3>2. ring[i] = rg /\ (ring' = [ring EXCEPT ![i] = after] => ring'[i] = after)
      BY <1>2, RangesHold, Zenon
    <3> QED BY <1>1, <1>12, <3>1, <3>2, ZenonT(40)
  <2> HIDE DEF got
  <2> QED BY <1>3, <1>5, <1>6, <1>7, <1>10, <2>1, <2>2, ZenonT(40) DEF Abs!Read
<1> QED BY <1>1, <1>11, <1>12, ZenonT(40)

\* write_fd() that stores something is a write of the same bytes to the FIFO.
LEMMA WriteAppends ==
  ASSUME PipeInv, PipeInv', NEW p \in Pids, NEW f \in FdNums, NEW s \in Payloads, Write(p, f, s),
         ~UNCHANGED vars
  PROVE  Abs!Write(p, f, s) /\ Descriptors[p][f].write_end
<1>1. PICK t \in TableIds :
        /\ Mine(p, t) /\ fds[t][f].used /\ fds[t][f].write_end /\ readers[fds[t][f].pipe_id] # 0
        /\ ring' = [ring EXCEPT ![fds[t][f].pipe_id] =
                       Stored(@, s, Shorter(Len(s), BUF - ring[fds[t][f].pipe_id].len))]
        /\ UNCHANGED <<pused, readers, writers, tableVars, proc, reading>>
  <2>1. PICK t \in TableIds :
          /\ Mine(p, t) /\ fds[t][f].write_end /\ readers[fds[t][f].pipe_id] # 0
          /\ ring' = [ring EXCEPT ![fds[t][f].pipe_id] =
                         Stored(@, s, Shorter(Len(s), BUF - ring[fds[t][f].pipe_id].len))]
          /\ UNCHANGED <<pused, readers, writers, tableVars, proc, reading>>
    BY ZenonT(40) DEF Write, Fail
  <2>2. PICK u \in TableIds : Mine(p, u) /\ fds[u][f].used
    <3>1. IsPipeFd(p, f)
      BY Zenon DEF Write
    <3> QED BY <3>1, Zenon DEF IsPipeFd
  <2>3. tab[t].used /\ tab[t].pid = p
    BY <2>1, MineIsView, Zenon
  <2>4. tab[u].used /\ tab[u].pid = p
    BY <2>2, MineIsView, Zenon
  <2>5. u = t
    BY <2>3, <2>4, Zenon DEF PipeInv, TablesOwned
  <2> QED BY <2>1, <2>2, <2>5, ZenonT(40)
<1> DEFINE i == fds[t][f].pipe_id
           rg == ring[i]
           put == Shorter(Len(s), BUF - rg.len)
           after == Stored(rg, s, put)
<1>2. /\ i \in PipeIds /\ pused[i] /\ fds[t][f].write_end \in BOOLEAN /\ rg \in Ring
      /\ Fifos[i] = RingBytes(rg)
  BY <1>1, NamedInUse, Zenon
<1>3. Descriptors[p] = fds[t] /\ Descriptors' = Descriptors
  BY <1>1, MineIsView, TablesShown, Zenon DEF tableVars
<1>4. Len(Fifos[i]) = rg.len /\ rg.len \in Nat /\ rg.len <= BUF /\ BUF \in Nat
  <2>1. BUF \in Nat
    BY PipeAssumption, ZenonT(40)
  <2> QED BY <1>2, <2>1, BytesType, ZenonT(40)
<1>5. Len(s) \in Nat /\ s \in Seq(Byte)
  <2>1. PICK n \in 0 .. MaxIO : s \in [1 .. n -> Byte]
    BY ZenonT(40) DEF Payloads
  <2>2. n \in Nat
    BY <2>1, PipeAssumption, SMTT(30)
  <2> QED BY ONLY <2>1, <2>2, SMTT(30)
<1>6. Abs!Names(Descriptors[p][f], i, TRUE)
  BY <1>1, <1>2, <1>3, ZenonT(40) DEF Abs!Names
<1>7. Abs!HasHolder(Descriptors, i, FALSE)
  BY <1>1, <1>2, CountsSayHeld, ZenonT(40) DEF ReadEnd
<1>8. after \in Ring
  BY <1>2, StoredType, Zenon
<1>9. rg.w = (rg.r + rg.len) % BUF
  BY <1>2, ZenonT(40) DEF PipeInv, RingAgrees
<1>10. /\ put \in Nat /\ put <= Len(s) /\ rg.len + put <= BUF
       /\ put = IF Len(s) < BUF - Len(Fifos[i]) THEN Len(s) ELSE BUF - Len(Fifos[i])
  <2>1. put \in Nat /\ put <= Len(s) /\ rg.len + put <= BUF
    BY <1>4, <1>5, Fits, Zenon
  <2>2. put = IF Len(s) < BUF - rg.len THEN Len(s) ELSE BUF - rg.len
    BY Zenon DEF Shorter
  <2> QED BY <1>4, <2>1, <2>2, Zenon
<1>11. ring' = [ring EXCEPT ![i] = after]
  BY <1>1, Zenon
<1> HIDE DEF put
<1>12. RingBytes(after) = RingBytes(rg) \o SubSeq(s, 1, put)
  <2> HIDE DEF rg
  <2> QED BY <1>2, <1>5, <1>8, <1>9, <1>10, AppendsNew, ZenonT(40)
<1> HIDE DEF after
<1>13. Fifos' = [Fifos EXCEPT ![i] = RingBytes(after)]
  <2> HIDE DEF i
  <2> QED BY <1>1, <1>2, <1>11, QueueStep, ZenonT(40)
<1>14. Fifos' = [Fifos EXCEPT ![i] = @ \o SubSeq(s, 1, put)]
  BY <1>2, <1>12, <1>13, ZenonT(40)
<1>15. UNCHANGED <<proc, reading>>
  BY <1>1, ZenonT(40)
<1> QED BY <1>1, <1>3, <1>6, <1>7, <1>10, <1>14, <1>15, ZenonT(40) DEF Abs!Write

\* A step of the kernel is a step of the FIFOs or changes nothing they show.
LEMMA Simulates ==
  ASSUME PipeInv, PipeInv', [Next]_vars
  PROVE  [Abs!Next]_<<Fifos, Descriptors, proc, reading>>
<1> DEFINE Stutter == UNCHANGED <<Fifos, Descriptors, proc, reading>>
<1>1. CASE UNCHANGED vars
  BY <1>1, TablesShown, ZenonT(40) DEF vars, tableVars, pipeVars, Fifos
<1>2. Idle = Abs!NoRead
  BY ZenonT(40) DEF Idle, Abs!NoRead
<1>3. ASSUME NEW p \in Pids, Running(p), Abs!Call(p) PROVE Abs!Next
  BY <1>2, <1>3, SMTT(30) DEF Running, Abs!Next
<1>4. ASSUME NEW p \in Pids, Create(p) PROVE Abs!Next \/ Stutter
  <2>1. Running(p)
    BY <1>4, SMTT(30) DEF Create
  <2>2. CASE Abs!Create(p)
    BY <1>3, <2>1, <2>2, SMTT(30) DEF Abs!Call
  <2> QED BY <1>4, <2>2, CreateOpens, SMTT(30)
<1>5. ASSUME NEW p \in Pids, NEW f \in FdNums, NEW n \in 0 .. MaxIO, Read(p, f, n), ~UNCHANGED vars
      PROVE  Abs!Next
  <2>1. Running(p) /\ ReadTry(p, f, n) /\ UNCHANGED <<pused, readers, writers, tableVars, proc>>
    BY <1>5, SMTT(30) DEF Read, Fail
  <2>2. Abs!Read(p, f, n)
    BY <2>1, TryReads, SMTT(30)
  <2> QED BY <1>3, <2>1, <2>2, SMTT(30) DEF Abs!Call
<1>6. ASSUME NEW p \in Pids, ReadAgain(p) PROVE Abs!Next
  <2>1. /\ proc[p] = "alive" /\ reading[p] # Idle /\ ReadTry(p, reading[p].fd, reading[p].n)
        /\ UNCHANGED <<pused, readers, writers, tableVars, proc>>
    BY <1>6, SMTT(30) DEF ReadAgain
  <2>2. reading[p] \in [fd : FdNums, n : 0 .. MaxIO]
    <3>1. reading[p] \in Requests
      BY Zenon DEF PipeInv, TypeOK
    <3> QED BY <2>1, <3>1, Zenon DEF Requests
  <2>3. Abs!Read(p, reading[p].fd, reading[p].n)
    BY <2>1, <2>2, TryReads, SMTT(30)
  <2> QED BY <1>2, <2>1, <2>3, SMTT(30) DEF Abs!Next
<1>7. ASSUME NEW p \in Pids, NEW f \in FdNums, NEW s \in Payloads, Write(p, f, s), ~UNCHANGED vars
      PROVE  Abs!Next
  <2>1. Running(p) /\ Abs!Write(p, f, s) /\ Descriptors[p][f].write_end
    BY <1>7, WriteAppends, ZenonT(40) DEF Write
  <2>2. s \in Abs!Payloads
    BY ZenonT(40) DEF Payloads, Abs!Payloads
  <2> QED BY <1>3, <2>1, <2>2, SMTT(30) DEF Abs!Call
<1>8. ASSUME NEW p \in Pids, NEW f \in FdNums, Abs!Rebind(p, f), Running(p) PROVE Abs!Next
  BY <1>3, <1>8, SMTT(30) DEF Abs!Call
<1>9. ASSUME NEW p \in Pids, NEW f \in FdNums, Close(p, f) PROVE Abs!Next
  BY <1>8, <1>9, CloseRebinds, ZenonT(40) DEF Close
<1>10. ASSUME NEW p \in Pids, NEW f \in FdNums, Dup(p, f), ~UNCHANGED vars PROVE Abs!Next
  BY <1>8, <1>10, DupRebinds DEF Dup
<1>11. ASSUME NEW p \in Pids, NEW f \in FdNums, NEW g \in FdNums, Dup2(p, f, g), ~UNCHANGED vars
       PROVE  Abs!Next
  BY <1>8, <1>11, Dup2Rebinds, SMTT(30) DEF Dup2
<1>12. ASSUME NEW p \in Pids, ProcessEnds(p) PROVE Abs!Next
  BY <1>12, EndStops, Zenon DEF ProcessEnds, Abs!Next
<1>13. ASSUME NEW p \in Pids, NEW c \in Pids, Fork(p, c) PROVE Abs!Next
  <2>1. Running(p) /\ Abs!Fork(p, c)
    BY <1>13, ForkShares, ZenonT(40) DEF Fork
  <2> QED BY <1>3, <2>1, ZenonT(40) DEF Abs!Call
<1> QED BY <1>1, <1>4, <1>5, <1>6, <1>7, <1>9, <1>10, <1>11, <1>12, <1>13, SMTT(30) DEF Next

\* The start of the kernel is the start of the FIFOs.
LEMMA StartsEmpty == Init => PipeInv /\ Abs!Init
<1> SUFFICES ASSUME Init PROVE PipeInv /\ Abs!Init
  OBVIOUS
<1>1. TypeOK /\ TablesOwned /\ CountsExact
  BY InitTypes, InitCounts, ZenonT(40)
<1>2. RingAgrees
  BY PipeAssumption, SMTT(30) DEF Init, RingAgrees, FreshRing
<1>3. Fifos = [i \in PipeIds |-> <<>>]
  BY Zenon DEF Init, Fifos
<1>4. \A p \in Pids : TablesOf(p) = {}
  BY Zenon DEF Init, TablesOf
<1>5. Descriptors = [p \in Pids |-> NoTable]
  BY <1>4, SMTT(30) DEF Descriptors
<1>6. NoTable = Abs!Nothing /\ Idle = Abs!NoRead
  BY ZenonT(40) DEF NoTable, NoEntry, ReadEnd, Abs!Nothing, Abs!NoEnd, Idle, Abs!NoRead
<1>7. Abs!Init
  BY <1>3, <1>5, <1>6, SMTT(30) DEF Init, Abs!Init
<1> QED BY <1>1, <1>2, <1>7, ZenonT(40) DEF PipeInv

\* The pipes of the kernel implement the bounded FIFOs of PipeAbs, and every
\* write is the write of the same bytes to the FIFO: through any history of
\* create, dup, dup2, close, fork and death, and however often the ring has
\* wrapped (create(), read_fd(), write_fd(), close_fd(), dup_fd(), dup2_fd(),
\* fork_copy() and close_all_of() of pipe.cpp).
THEOREM PipesAreFifos == Spec => Refines
<1> DEFINE W == \A p \in Pids, f \in FdNums : IsPipeFd(p, f) =>
                  \A s \in Payloads : Write(p, f, s) => Abs!Write(p, f, s)
<1>1. Init => PipeInv /\ Abs!Init
  BY StartsEmpty, SMTT(30)
<1>2. PipeInv /\ [Next]_vars => PipeInv'
  BY TypeStep, OwnedStep, CountsStep, RingStep, SMTT(30) DEF PipeInv
<1>3. PipeInv /\ PipeInv' /\ [Next]_vars => [Abs!Next]_Abs!vars
  BY Simulates, SMTT(30) DEF Abs!vars
<1>4. PipeInv /\ PipeInv' /\ [Next]_vars => [W]_ring
  <2> SUFFICES ASSUME PipeInv, PipeInv', ring' # ring PROVE W
    OBVIOUS
  <2>1. ~UNCHANGED vars
    BY Zenon DEF vars
  <2> QED BY <2>1, WriteAppends, SMTT(30)
<1> HIDE DEF W
<1>5. Spec => [][W]_ring /\ Abs!Spec
  BY <1>1, <1>2, <1>3, <1>4, PTL DEF Spec, Abs!Spec
<1> QED BY <1>5, ZenonT(40) DEF Refines, W
=============================================================================
