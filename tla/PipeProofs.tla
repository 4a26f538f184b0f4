----------------------------- MODULE PipeProofs -----------------------------
(***************************************************************************)
(* Proofs about Pipe: every variable stays in its range, descriptor tables *)
(* belong to living processes, the ring behind its cursors is a queue and  *)
(* the reference counts are exact, for every number of processes, pipes,   *)
(* tables and descriptors and every buffer size.                           *)
(***************************************************************************)
EXTENDS Pipe, FiniteSetTheorems, TLAPS

\* The two ends are told apart.
LEMMA Ends == ReadEnd \in BOOLEAN /\ WriteEnd \in BOOLEAN /\ ReadEnd # WriteEnd
BY ZenonT(40) DEF ReadEnd, WriteEnd

\* A pipe whose counts R and W lose r and w: it is in use afterwards exactly when it
\* was before and it is not the loss that took the last end.
LEMMA ShareLeft ==
  ASSUME NEW R \in Nat, NEW W \in Nat, NEW r \in Nat, NEW w \in Nat,
         r > 0 => R > 0, w > 0 => W > 0
  PROVE  (R > 0 \/ W > 0) /\ ~((r # 0 \/ w # 0) /\ R - r <= 0 /\ W - w <= 0)
           <=> R - r > 0 \/ W - w > 0
OBVIOUS

\* The descriptors of one table that name an end of a pipe are finitely many.
LEMMA HeldFinite ==
  ASSUME NEW e \in [FdNums -> Entry], NEW i \in PipeIds, NEW we \in BOOLEAN
  PROVE  /\ IsFiniteSet(Held(e, i, we))
         /\ Cardinality(Held(e, i, we)) \in Nat
         /\ Cardinality(Held(e, i, we)) = 0 <=> Held(e, i, we) = {}
<1>1. IsFiniteSet(FdNums)
  BY PipeAssumption, FS_Interval DEF FdNums
<1>2. Held(e, i, we) \in SUBSET FdNums
  BY Zenon DEF Held
<1>3. IsFiniteSet(Held(e, i, we))
  BY <1>1, <1>2, FS_Subset, Zenon
<1> QED BY <1>3, FS_CardinalityType, FS_EmptySet, ZenonT(40)

\* So the number of references a table has to each pipe is a number.
LEMMA ShareType ==
  ASSUME NEW e \in [FdNums -> Entry], NEW we \in BOOLEAN
  PROVE  Share(e, we) \in [PipeIds -> Nat]
BY HeldFinite, Zenon DEF Share

-----------------------------------------------------------------------------
(* Types.                                                                  *)

\* A cursor of the ring stays inside it.
LEMMA Wraps ==
  ASSUME NEW k \in Nat
  PROVE  k % BUF \in Cells
BY PipeAssumption DEF Cells

\* What a process can write: a sequence of bytes.
LEMMA PayloadType ==
  ASSUME NEW s \in Payloads
  PROVE  Len(s) \in Nat /\ \A k \in 1 .. Len(s) : s[k] \in Byte
<1>1. PICK n \in 0 .. MaxIO : s \in [1 .. n -> Byte]
  BY Zenon DEF Payloads
<1>2. n \in Nat /\ s \in Seq(Byte)
  BY <1>1, PipeAssumption
<1> QED BY <1>1, <1>2

\* The empty table and the empty ring are well formed.
LEMMA FreshTypes ==
  /\ NoEntry \in Entry
  /\ NoTable \in [FdNums -> Entry]
  /\ FreshRing \in Ring
<1>1. 0 \in PipeIds
  BY PipeAssumption DEF PipeIds
<1>2. NoEntry \in Entry
  BY <1>1, Ends, Zenon DEF NoEntry, Entry
<1>3. 0 \in Cells /\ 0 \in 0 .. BUF
  BY PipeAssumption DEF Cells
<1>4. (CHOOSE b \in Byte : TRUE) \in Byte
  BY PipeAssumption, Zenon
<1>5. FreshRing \in Ring
  BY <1>3, <1>4 DEF FreshRing, Ring
<1> QED BY <1>2, <1>5, Zenon DEF NoTable

\* The ring write_fd() leaves is well formed.
LEMMA StoredType ==
  ASSUME NEW rg \in Ring, NEW s \in Payloads
  PROVE  Stored(rg, s, Shorter(Len(s), BUF - rg.len)) \in Ring
<1> DEFINE put == Shorter(Len(s), BUF - rg.len)
           at(c) == CHOOSE k \in 1 .. put : (rg.w + k - 1) % BUF = c
<1>1. put \in Nat /\ put <= Len(s) /\ rg.len + put \in 0 .. BUF
  BY PayloadType, PipeAssumption DEF Ring, Shorter
<1>2. \A c \in Cells : (\E k \in 1 .. put : (rg.w + k - 1) % BUF = c)
                       => s[at(c)] \in Byte
  <2> SUFFICES ASSUME NEW c \in Cells, \E k \in 1 .. put : (rg.w + k - 1) % BUF = c
               PROVE  s[at(c)] \in Byte
    OBVIOUS
  <2>1. at(c) \in 1 .. put
    OBVIOUS
  <2> HIDE DEF at, put
  <2> QED BY <1>1, <2>1, PayloadType
<1>3. rg.w + put \in Nat
  BY <1>1 DEF Ring, Cells
<1>4. (rg.w + put) % BUF \in Cells
  BY <1>3, Wraps, Zenon
<1> HIDE DEF put
<1>5. [c \in Cells |-> IF \E k \in 1 .. put : (rg.w + k - 1) % BUF = c
                       THEN s[at(c)] ELSE rg.data[c]] \in [Cells -> Byte]
  <2> HIDE DEF at
  <2> QED BY <1>2, Zenon DEF Ring
<1> QED BY <1>1, <1>4, <1>5, SMTT(30) DEF Stored, Ring, put

\* The ring read_fd() leaves is well formed.
LEMMA TakenType ==
  ASSUME NEW rg \in Ring, NEW n \in 0 .. MaxIO
  PROVE  [rg EXCEPT !.r = (rg.r + Shorter(n, rg.len)) % BUF,
                    !.len = rg.len - Shorter(n, rg.len)] \in Ring
<1> DEFINE got == Shorter(n, rg.len)
<1>1. rg.len \in 0 .. BUF /\ rg.r \in Cells
  BY Zenon DEF Ring
<1>2. n \in Nat /\ BUF \in Nat
  BY PipeAssumption
<1>3. got \in Nat /\ got <= rg.len
  BY <1>1, <1>2 DEF Shorter
<1>4. rg.r \in Nat
  BY <1>1, <1>2 DEF Cells
<1> HIDE DEF got
<1>5. rg.len - got \in 0 .. BUF
  BY <1>1, <1>2, <1>3
<1>6. (rg.r + got) % BUF \in Cells
  BY <1>3, <1>4, Wraps
<1>7. [rg EXCEPT !.r = (rg.r + got) % BUF, !.len = rg.len - got] \in Ring
  BY <1>5, <1>6, Zenon DEF Ring
<1> QED BY <1>7, Zenon DEF got

\* One try of a read keeps the ring and the parked requests well formed.
LEMMA ReadTryType ==
  ASSUME TypeOK, NEW p \in Pids, NEW f \in FdNums, NEW n \in 0 .. MaxIO,
         ReadTry(p, f, n)
  PROVE  /\ ring' \in [PipeIds -> Ring]
         /\ reading' \in [Pids -> Requests]
<1> DEFINE After(rg) == [rg EXCEPT !.r = (rg.r + Shorter(n, rg.len)) % BUF,
                                   !.len = rg.len - Shorter(n, rg.len)]
<1>1. PICK t \in TableIds :
         /\ \/ ring' = [ring EXCEPT ![fds[t][f].pipe_id] = After(ring[fds[t][f].pipe_id])]
            \/ UNCHANGED ring
         /\ \/ reading' = [reading EXCEPT ![p] = Idle]
            \/ reading' = [reading EXCEPT ![p] = [fd |-> f, n |-> n]]
  BY Zenon DEF ReadTry
<1>2. PICK i \in PipeIds : i = fds[t][f].pipe_id
  BY SMTT(30) DEF TypeOK, Entry
<1>3. After(ring[i]) \in Ring
  BY TakenType, ZenonT(40) DEF TypeOK
<1> HIDE DEF After
<1>4. ring' \in [PipeIds -> Ring]
  BY <1>1, <1>2, <1>3 DEF TypeOK
<1>5. Idle \in Requests /\ [fd |-> f, n |-> n] \in Requests
  BY Zenon DEF Requests
<1>6. reading' \in [Pids -> Requests]
  BY <1>1, <1>5, SMTT(30) DEF TypeOK
<1> QED BY <1>4, <1>6, Zenon

\* Every step of the kernel's pipe code keeps every variable in its range.
LEMMA TypeStep == TypeOK /\ [Next]_vars => TypeOK'
<1> SUFFICES ASSUME TypeOK, [Next]_vars PROVE TypeOK'
  OBVIOUS
<1>t. /\ readers \in [PipeIds -> Int] /\ writers \in [PipeIds -> Int]
      /\ pused \in [PipeIds -> BOOLEAN]
      /\ fds \in [TableIds -> [FdNums -> Entry]]
  BY Zenon DEF TypeOK
<1>0. CASE UNCHANGED vars
  BY <1>0, Zenon DEF vars, TypeOK
<1>1. ASSUME NEW p \in Pids, Create(p) PROVE TypeOK'
  <2>1. CASE UNCHANGED vars
    BY <2>1, Zenon DEF vars, TypeOK
  <2>2. CASE ~UNCHANGED vars
    <3>1. PICK i \in PipeIds, t \in TableIds :
            CreateIn(p, i, t) /\ UNCHANGED <<proc, reading>>
      BY <1>1, <2>2, ZenonT(40) DEF Create, Fail
    <3>2. EntriesFor(t) \in [FdNums -> Entry]
      BY FreshTypes, ZenonT(40) DEF EntriesFor, TypeOK
    <3>3. tab' \in [TableIds -> [used : BOOLEAN, pid : Pids]]
      BY <3>1, ZenonT(40) DEF CreateIn, TypeOK
    <3>4. /\ [used |-> TRUE, pipe_id |-> i, write_end |-> ReadEnd] \in Entry
          /\ [used |-> TRUE, pipe_id |-> i, write_end |-> WriteEnd] \in Entry
      BY Ends, ZenonT(40) DEF Entry
    <3>5. PICK e \in [FdNums -> Entry] : fds' = [fds EXCEPT ![t] = e]
      BY <3>1, <3>2, <3>4, Zenon DEF CreateIn
    <3>6. fds' \in [TableIds -> [FdNums -> Entry]]
      BY <3>5, ZenonT(40) DEF TypeOK
    <3>7. /\ pused' \in [PipeIds -> BOOLEAN]
          /\ readers' \in [PipeIds -> Int] /\ writers' \in [PipeIds -> Int]
      <4>1. CASE UNCHANGED pipeVars
        BY <1>t, <4>1, ZenonT(40) DEF pipeVars
      <4>2. CASE /\ pused' = [pused EXCEPT ![i] = TRUE]
                 /\ readers' = [readers EXCEPT ![i] = 1]
                 /\ writers' = [writers EXCEPT ![i] = 1]
        BY <1>t, <4>2
      <4> QED BY <3>1, <4>1, <4>2, Zenon DEF CreateIn
    <3>8. ring' \in [PipeIds -> Ring]
      BY <3>1, FreshTypes, ZenonT(40) DEF CreateIn, TypeOK, pipeVars
    <3> QED BY <3>1, <3>3, <3>6, <3>7, <3>8, ZenonT(40) DEF TypeOK
  <2> QED BY <2>1, <2>2, ZenonT(40)
<1>2. ASSUME NEW p \in Pids, NEW f \in FdNums, NEW n \in 0 .. MaxIO, Read(p, f, n)
      PROVE  TypeOK'
  <2>1. CASE UNCHANGED vars
    BY <2>1, Zenon DEF vars, TypeOK
  <2>2. CASE ~UNCHANGED vars
    BY <1>2, <2>2, ReadTryType, ZenonT(40) DEF Read, Fail, TypeOK, tableVars
  <2> QED BY <2>1, <2>2, Zenon
<1>3. ASSUME NEW p \in Pids, ReadAgain(p) PROVE TypeOK'
  <2>1. reading[p].n \in 0 .. MaxIO /\ reading[p].fd \in FdNums
    BY <1>3, Zenon DEF ReadAgain, TypeOK, Requests
  <2> QED BY <1>3, <2>1, ReadTryType, Zenon DEF ReadAgain, TypeOK, tableVars
<1>4. ASSUME NEW p \in Pids, NEW f \in FdNums, NEW s \in Payloads, Write(p, f, s)
      PROVE  TypeOK'
  <2>1. CASE UNCHANGED vars
    BY <2>1, SMTT(30) DEF vars, TypeOK
  <2>2. CASE ~UNCHANGED vars
    <3>1. PICK t \in TableIds :
            /\ ring' = [ring EXCEPT ![fds[t][f].pipe_id] =
                 Stored(@, s, Shorter(Len(s), BUF - ring[fds[t][f].pipe_id].len))]
            /\ UNCHANGED <<pused, readers, writers, tableVars, proc, reading>>
      BY <1>4, <2>2, ZenonT(40) DEF Write, Fail
    <3>2. fds[t][f].pipe_id \in PipeIds
      BY DEF TypeOK, Entry
    <3>3. ring' \in [PipeIds -> Ring]
      BY <3>1, <3>2, StoredType, SMTT(30) DEF TypeOK
    <3>4. UNCHANGED <<pused, readers, writers, tab, fds, proc, reading>>
      BY <3>1, Zenon DEF tableVars
    <3> QED BY <3>3, <3>4, Zenon DEF TypeOK
  <2> QED BY <2>1, <2>2, ZenonT(40)
<1>5. ASSUME NEW p \in Pids, NEW f \in FdNums, Close(p, f) PROVE TypeOK'
  BY <1>5, FreshTypes DEF Close, Drop, TypeOK, Entry
<1>6. ASSUME NEW p \in Pids, NEW f \in FdNums, Dup(p, f) PROVE TypeOK'
  <2>1. CASE UNCHANGED vars
    BY <2>1, Zenon DEF vars, TypeOK
  <2>2. CASE ~UNCHANGED vars
    <3>1. PICK t \in TableIds, n \in FdNums :
            /\ fds' = [fds EXCEPT ![t][n] = fds[t][f]]
            /\ Hold(fds[t][f])
            /\ UNCHANGED <<pused, ring, tab, proc, reading>>
      BY <1>6, <2>2, Zenon DEF Dup, Fail
    <3>2. readers' \in [PipeIds -> Int] /\ writers' \in [PipeIds -> Int]
      <4>1. fds[t][f].pipe_id \in PipeIds
        BY <1>t, Zenon DEF Entry
      <4> QED BY <1>t, <3>1, <4>1 DEF Hold
    <3>3. fds' \in [TableIds -> [FdNums -> Entry]]
      BY <1>t, <3>1, Zenon
    <3> QED BY <3>1, <3>2, <3>3, Zenon DEF TypeOK
  <2> QED BY <2>1, <2>2, Zenon
<1>7. ASSUME NEW p \in Pids, NEW f \in FdNums, NEW g \in FdNums, Dup2(p, f, g)
      PROVE  TypeOK'
  <2>1. PICK t \in TableIds :
          /\ \/ UNCHANGED <<pipeVars, tableVars>>
             \/ /\ Moved(fds[t][g], fds[t][f])
                /\ pused' = UsedAfterClose(fds[t][g])
                /\ fds' = [fds EXCEPT ![t][g] = fds[t][f]]
                /\ UNCHANGED <<ring, tab>>
          /\ UNCHANGED <<proc, reading>>
    BY <1>7, ZenonT(40) DEF Dup2
  <2>2. CASE UNCHANGED <<pipeVars, tableVars>>
    BY <2>1, <2>2, ZenonT(40) DEF TypeOK, pipeVars, tableVars
  <2>3. CASE ~UNCHANGED <<pipeVars, tableVars>>
    <3>1. readers' \in [PipeIds -> Int] /\ writers' \in [PipeIds -> Int]
      <4>1. \A i \in PipeIds : readers[i] \in Int /\ writers[i] \in Int
        BY <1>t, Zenon
      <4> QED BY <2>1, <2>3, <4>1 DEF Moved
    <3>2. pused' \in [PipeIds -> BOOLEAN]
      BY <2>1, <2>3, ZenonT(40) DEF UsedAfterClose
    <3>3. fds' \in [TableIds -> [FdNums -> Entry]]
      <4>1. fds' = [fds EXCEPT ![t][g] = fds[t][f]]
        BY <2>1, <2>3, Zenon
      <4> QED BY <1>t, <4>1, Zenon
    <3> QED BY <2>1, <2>3, <3>1, <3>2, <3>3, SMTT(30) DEF TypeOK
  <2> QED BY <2>2, <2>3, Zenon
<1>8. ASSUME NEW p \in Pids, ProcessEnds(p) PROVE TypeOK'
  <2>1. proc' \in [Pids -> {"absent", "alive", "dead"}] /\ reading' \in [Pids -> Requests]
    BY <1>8, Zenon DEF ProcessEnds, TypeOK, Requests
  <2>2. CASE UNCHANGED <<pipeVars, tableVars>>
    BY <2>1, <2>2, SMTT(30) DEF TypeOK, pipeVars, tableVars
  <2>3. CASE ~UNCHANGED <<pipeVars, tableVars>>
    <3>1. PICK t \in TableIds :
            /\ readers' = [i \in PipeIds |->
                             readers[i] - Share(fds[t], ReadEnd)[i]]
            /\ writers' = [i \in PipeIds |->
                             writers[i] - Share(fds[t], WriteEnd)[i]]
            /\ pused' = [i \in PipeIds |->
                 /\ pused[i]
                 /\ ~(/\ Held(fds[t], i, ReadEnd) \cup Held(fds[t], i, WriteEnd) # {}
                      /\ readers'[i] <= 0 /\ writers'[i] <= 0)]
            /\ fds' = [fds EXCEPT ![t] = NoTable]
            /\ tab' = [tab EXCEPT ![t] = [used |-> FALSE, pid |-> FirstPid]]
            /\ UNCHANGED ring
      BY <1>8, <2>3, ZenonT(40) DEF ProcessEnds, CloseAllOf
    <3>2. fds[t] \in [FdNums -> Entry]
      BY <1>t, ZenonT(40)
    <3>a. Share(fds[t], ReadEnd) \in [PipeIds -> Nat] /\ Share(fds[t], WriteEnd) \in [PipeIds -> Nat]
      BY <3>2, ShareType, Ends, ZenonT(40)
    <3>3. readers' \in [PipeIds -> Int] /\ writers' \in [PipeIds -> Int]
      BY <1>t, <3>1, <3>a
    <3>4. pused' \in [PipeIds -> BOOLEAN]
      BY <3>1, Zenon
    <3>5. fds' \in [TableIds -> [FdNums -> Entry]]
      BY <3>1, FreshTypes, Zenon DEF TypeOK
    <3>6. tab' \in [TableIds -> [used : BOOLEAN, pid : Pids]]
      BY <3>1, PipeAssumption, Zenon DEF TypeOK
    <3> QED BY <2>1, <3>1, <3>3, <3>4, <3>5, <3>6, SMTT(30) DEF TypeOK
  <2> QED BY <2>2, <2>3, Zenon
<1>9. ASSUME NEW p \in Pids, NEW c \in Pids, Fork(p, c) PROVE TypeOK'
  <2>1. proc' \in [Pids -> {"absent", "alive", "dead"}] /\ reading' = reading
    BY <1>9, Zenon DEF Fork, TypeOK
  <2>2. CASE UNCHANGED <<pipeVars, tableVars>>
    BY <2>1, <2>2, Zenon DEF TypeOK, pipeVars, tableVars
  <2>3. CASE ~UNCHANGED <<pipeVars, tableVars>>
    <3>1. PICK s \in TableIds, t \in TableIds :
            /\ tab' = [tab EXCEPT ![t] = [used |-> TRUE, pid |-> c]]
            /\ fds' = [fds EXCEPT ![t] = fds[s]]
            /\ readers' = [i \in PipeIds |-> readers[i]
                             - Share(EntriesFor(t), ReadEnd)[i]
                             + Share(fds[s], ReadEnd)[i]]
            /\ writers' = [i \in PipeIds |-> writers[i]
                             - Share(EntriesFor(t), WriteEnd)[i]
                             + Share(fds[s], WriteEnd)[i]]
            /\ UNCHANGED <<pused, ring>>
      BY <1>9, <2>3, ZenonT(40) DEF Fork, ForkCopy
    <3>2. EntriesFor(t) \in [FdNums -> Entry] /\ fds[s] \in [FdNums -> Entry]
      BY FreshTypes, Zenon DEF EntriesFor, TypeOK
    <3>3. /\ Share(EntriesFor(t), ReadEnd) \in [PipeIds -> Nat]
          /\ Share(EntriesFor(t), WriteEnd) \in [PipeIds -> Nat]
          /\ Share(fds[s], ReadEnd) \in [PipeIds -> Nat]
          /\ Share(fds[s], WriteEnd) \in [PipeIds -> Nat]
      BY <3>2, ShareType, Ends, ZenonT(40)
    <3>4. readers' \in [PipeIds -> Int] /\ writers' \in [PipeIds -> Int]
      BY <1>t, <3>1, <3>3
    <3>5. /\ fds' \in [TableIds -> [FdNums -> Entry]]
          /\ tab' \in [TableIds -> [used : BOOLEAN, pid : Pids]]
      BY <3>1, Zenon DEF TypeOK
    <3> QED BY <2>1, <3>1, <3>4, <3>5, Zenon DEF TypeOK
  <2> QED BY <2>2, <2>3, Zenon
<1> QED BY <1>0, <1>1, <1>2, <1>3, <1>4, <1>5, <1>6, <1>7, <1>8, <1>9, Zenon DEF Next

-----------------------------------------------------------------------------
(* Tables belong to living processes, and no process has two.              *)

\* What every step that can touch the tables keeps: each used table has a
\* living owner of its own, each unused one is empty.
LEMMA OwnedStep == TypeOK /\ TablesOwned /\ [Next]_vars => TablesOwned'
<1> SUFFICES ASSUME TypeOK, TablesOwned, [Next]_vars PROVE TablesOwned'
  OBVIOUS
<1>t. /\ fds \in [TableIds -> [FdNums -> Entry]]
      /\ tab \in [TableIds -> [used : BOOLEAN, pid : Pids]]
      /\ proc \in [Pids -> {"absent", "alive", "dead"}]
  BY Zenon DEF TypeOK
<1>0. CASE UNCHANGED <<tab, fds, proc>>
  BY <1>0, Zenon DEF TablesOwned, NoTable
<1>1. ASSUME NEW p \in Pids, NEW t \in TableIds, proc[p] = "alive",
             tab' = [tab EXCEPT ![t] = [used |-> TRUE, pid |-> p]],
             NEW e, fds' = [fds EXCEPT ![t] = e],
             TablesOf(p) \in {{}, {t}}, UNCHANGED proc
      PROVE  TablesOwned'
  BY <1>1, <1>t DEF TablesOwned, TablesOf
<1>a. ASSUME NEW t \in TableIds, tab[t].used, UNCHANGED <<tab, proc>>,
             \A u \in TableIds \ {t} : fds'[u] = fds[u]
      PROVE  TablesOwned'
  BY <1>a, <1>t, Zenon DEF TablesOwned, NoTable
<1>2. ASSUME NEW p \in Pids, Create(p) PROVE TablesOwned'
  <2>1. CASE UNCHANGED vars
    BY <2>1, <1>0, Zenon DEF vars
  <2>2. CASE ~UNCHANGED vars
    <3>1. PICK i \in PipeIds, t \in TableIds :
            TableFor(p, t) /\ CreateIn(p, i, t) /\ UNCHANGED <<proc, reading>>
      BY <1>2, <2>2, ZenonT(40) DEF Create, Fail
    <3>2. proc[p] = "alive"
      BY <1>2, ZenonT(40) DEF Create, Running
    <3>3. TablesOf(p) \in {{}, {t}}
      BY <3>1, <1>t DEF TableFor, Mine, Lowest, TablesOf, TablesOwned
    <3>4. \E e : fds' = [fds EXCEPT ![t] = e]
      BY <3>1, Zenon DEF CreateIn
    <3>5. tab' = [tab EXCEPT ![t] = [used |-> TRUE, pid |-> p]]
      BY <3>1, Zenon DEF CreateIn
    <3> QED BY <1>1, <3>1, <3>2, <3>3, <3>4, <3>5, Zenon
  <2> QED BY <2>1, <2>2, Zenon
<1>3. ASSUME NEW p \in Pids, NEW f \in FdNums, Close(p, f) PROVE TablesOwned'
  <2>1. PICK t \in TableIds : /\ Mine(p, t) /\ UNCHANGED <<tab, proc>>
                              /\ fds' = [fds EXCEPT ![t][f] = NoEntry]
    BY <1>3, ZenonT(40) DEF Close
  <2> QED BY <2>1, <1>a, <1>t, Zenon DEF Mine, Lowest, TablesOf
<1>4. ASSUME NEW p \in Pids, NEW f \in FdNums, Dup(p, f) PROVE TablesOwned'
  <2>1. CASE UNCHANGED vars
    BY <2>1, <1>0, Zenon DEF vars
  <2>2. CASE ~UNCHANGED vars
    <3>1. PICK t \in TableIds, n \in FdNums :
            /\ Mine(p, t) /\ UNCHANGED <<tab, proc>>
            /\ fds' = [fds EXCEPT ![t][n] = fds[t][f]]
      BY <1>4, <2>2, ZenonT(40) DEF Dup, Fail
    <3> QED BY <3>1, <1>a, <1>t, ZenonT(40) DEF Mine, Lowest, TablesOf
  <2> QED BY <2>1, <2>2, ZenonT(40)
<1>5. ASSUME NEW p \in Pids, NEW f \in FdNums, NEW g \in FdNums, Dup2(p, f, g)
      PROVE  TablesOwned'
  <2>1. CASE UNCHANGED <<pipeVars, tableVars>>
    BY <1>5, <2>1, <1>0, ZenonT(40) DEF Dup2, tableVars
  <2>2. CASE ~UNCHANGED <<pipeVars, tableVars>>
    <3>1. PICK t \in TableIds : /\ Mine(p, t) /\ UNCHANGED <<tab, proc>>
                                /\ fds' = [fds EXCEPT ![t][g] = fds[t][f]]
      BY <1>5, <2>2, ZenonT(40) DEF Dup2
    <3> QED BY <3>1, <1>a, <1>t, ZenonT(40) DEF Mine, Lowest, TablesOf
  <2> QED BY <2>1, <2>2, ZenonT(40)
<1>6. ASSUME NEW p \in Pids, ProcessEnds(p) PROVE TablesOwned'
  <2>1. proc' = [proc EXCEPT ![p] = "dead"]
    BY <1>6, Zenon DEF ProcessEnds
  <2>2. CASE TablesOf(p) = {} /\ UNCHANGED <<pipeVars, tableVars>>
    BY <2>1, <2>2, <1>t, ZenonT(40) DEF TablesOf, TablesOwned, NoTable, tableVars
  <2>3. CASE ~(TablesOf(p) = {} /\ UNCHANGED <<pipeVars, tableVars>>)
    <3>1. PICK t \in TableIds :
            /\ Mine(p, t)
            /\ fds' = [fds EXCEPT ![t] = NoTable]
            /\ tab' = [tab EXCEPT ![t] = [used |-> FALSE, pid |-> FirstPid]]
      BY <1>6, <2>3, SMTT(30) DEF ProcessEnds, CloseAllOf
    <3>2. TablesOf(p) = {t}
      BY <3>1, <1>t DEF Mine, Lowest, TablesOf, TablesOwned
    <3> HIDE DEF NoTable
    <3>3. NoTable' = NoTable
      BY Zenon DEF NoTable, NoEntry
    <3> QED BY <2>1, <3>1, <3>2, <3>3, <1>t, SMTT(30) DEF TablesOf, TablesOwned
  <2> QED BY <2>2, <2>3, Zenon
<1>7. ASSUME NEW p \in Pids, NEW c \in Pids, Fork(p, c) PROVE TablesOwned'
  <2>1. proc' = [proc EXCEPT ![c] = "alive"] /\ proc[c] = "absent"
    BY <1>7, Zenon DEF Fork
  <2>2. CASE UNCHANGED <<pipeVars, tableVars>>
    BY <2>1, <2>2, <1>t, ZenonT(40) DEF TablesOwned, NoTable, tableVars
  <2>3. CASE ~UNCHANGED <<pipeVars, tableVars>>
    <3>1. PICK s \in TableIds, t \in TableIds :
            /\ TableFor(c, t)
            /\ tab' = [tab EXCEPT ![t] = [used |-> TRUE, pid |-> c]]
            /\ fds' = [fds EXCEPT ![t] = fds[s]]
      BY <1>7, <2>3, Zenon DEF Fork, ForkCopy
    <3>2. TablesOf(c) = {}
      BY <2>1, <1>t, Zenon DEF TablesOf, TablesOwned
    <3>3. NoTable' = NoTable
      BY Zenon DEF NoTable, NoEntry
    <3> QED BY <2>1, <3>1, <3>2, <3>3, <1>t DEF TablesOf, TablesOwned
  <2> QED BY <2>2, <2>3, Zenon
<1>8. ASSUME NEW p \in Pids, NEW f \in FdNums, NEW n \in 0 .. MaxIO, Read(p, f, n)
      PROVE  TablesOwned'
  BY <1>8, <1>0, Zenon DEF Read, Fail, vars, tableVars
<1>9. ASSUME NEW p \in Pids, ReadAgain(p) PROVE TablesOwned'
  BY <1>9, <1>0, ZenonT(40) DEF ReadAgain, tableVars
<1>10. ASSUME NEW p \in Pids, NEW f \in FdNums, NEW s \in Payloads, Write(p, f, s)
       PROVE  TablesOwned'
  BY <1>10, <1>0, ZenonT(40) DEF Write, Fail, vars, tableVars
<1>11. CASE UNCHANGED vars
  BY <1>0, <1>11, ZenonT(40) DEF vars
<1> QED BY <1>2, <1>3, <1>4, <1>5, <1>6, <1>7, <1>8, <1>9, <1>10, <1>11, SMTT(30) DEF Next

\* The machine starts with no pipe, no table and no reference.
LEMMA InitTypes == Init => TypeOK /\ TablesOwned
<1> SUFFICES ASSUME Init PROVE TypeOK /\ TablesOwned
  OBVIOUS
<1>1. TypeOK
  BY FreshTypes, PipeAssumption DEF Init, TypeOK, Requests
<1>2. TablesOwned
  BY Zenon DEF Init, TablesOwned
<1> QED BY <1>1, <1>2, ZenonT(40)

\* Every variable of the pipe code stays in its range: cursors inside the
\* ring, no more bytes than the ring holds, descriptors of existing pipes.
THEOREM TypeCorrect == Spec => []TypeOK
<1>1. Init => TypeOK
  BY InitTypes, Zenon
<1> QED BY <1>1, TypeStep, PTL DEF Spec


-----------------------------------------------------------------------------
(* The ring is a queue.                                                    *)

\* A cursor goes at most once round the ring in one operation.
LEMMA WrapOnce ==
  ASSUME NEW k \in Nat, k < 2 * BUF
  PROVE  k % BUF = IF k < BUF THEN k ELSE k - BUF
<1>1. BUF \in Nat /\ BUF > 0
  BY PipeAssumption
<1> QED BY <1>1

\* Two offsets from the same cursor are different cells.
LEMMA CellsApart ==
  ASSUME NEW r \in Cells, NEW a \in Cells, NEW b \in Cells, (r + a) % BUF = (r + b) % BUF
  PROVE  a = b
<1>1. BUF \in Nat /\ BUF > 0
  BY PipeAssumption
<1>2. /\ (r + a) % BUF = IF r + a < BUF THEN r + a ELSE r + a - BUF
      /\ (r + b) % BUF = IF r + b < BUF THEN r + b ELSE r + b - BUF
  BY <1>1, WrapOnce DEF Cells
<1> QED BY <1>1, <1>2 DEF Cells

\* What fits of a write of k bytes beside len bytes.
LEMMA Fits ==
  ASSUME NEW k \in Nat, NEW len \in Nat, len <= BUF
  PROVE  /\ Shorter(k, BUF - len) \in Nat /\ Shorter(k, BUF - len) <= k
         /\ len + Shorter(k, BUF - len) <= BUF
<1>1. BUF \in Nat
  BY PipeAssumption, Zenon
<1> QED BY <1>1 DEF Shorter

\* Going on from a cursor that has been advanced.
LEMMA WrapAgain ==
  ASSUME NEW r \in Cells, NEW a \in Nat, NEW b \in Nat, a + b < BUF
  PROVE  (((r + a) % BUF) + b) % BUF = (r + a + b) % BUF
<1>1. BUF \in Nat /\ BUF > 0
  BY PipeAssumption
<1>2. (r + a) % BUF = IF r + a < BUF THEN r + a ELSE r + a - BUF
  BY <1>1, WrapOnce DEF Cells
<1>3. (r + a + b) % BUF = IF r + a + b < BUF THEN r + a + b ELSE r + a + b - BUF
  BY <1>1, WrapOnce DEF Cells
<1> DEFINE m == (r + a) % BUF
<1>4. m \in Nat /\ m < BUF /\ m + b < 2 * BUF
  BY <1>1, <1>2 DEF Cells
<1> HIDE DEF m
<1>5. (m + b) % BUF = IF m + b < BUF THEN m + b ELSE m + b - BUF
  BY <1>1, <1>4, WrapOnce
<1> QED BY <1>1, <1>2, <1>3, <1>5, SMTT(30) DEF Cells, m

\* The same up to the whole ring.
LEMMA WrapFull ==
  ASSUME NEW r \in Cells, NEW a \in Nat, NEW b \in Nat, a <= b, b <= BUF
  PROVE  (((r + a) % BUF) + (b - a)) % BUF = (r + b) % BUF
<1>1. BUF \in Nat /\ BUF > 0 /\ r \in Nat /\ r < BUF
  BY PipeAssumption DEF Cells
<1> DEFINE m == (r + a) % BUF
           d == b - a
<1>2. m = IF r + a < BUF THEN r + a ELSE r + a - BUF
  BY <1>1, WrapOnce
<1>3. (r + b) % BUF = IF r + b < BUF THEN r + b ELSE r + b - BUF
  BY <1>1, WrapOnce
<1>4. m \in Nat /\ d \in Nat /\ m + d < 2 * BUF
  BY <1>1, <1>2
<1> HIDE DEF m, d
<1>5. (m + d) % BUF = IF m + d < BUF THEN m + d ELSE m + d - BUF
  BY <1>1, <1>4, WrapOnce
<1>6. (m + d) % BUF = (r + b) % BUF
  BY <1>1, <1>2, <1>3, <1>4, <1>5, SMTT(30) DEF d
<1> QED BY <1>6, Zenon DEF m, d

\* What the ring holds is a sequence of len bytes.
LEMMA BytesType ==
  ASSUME NEW rg \in Ring
  PROVE  /\ RingBytes(rg) \in Seq(Byte) /\ Len(RingBytes(rg)) = rg.len
         /\ rg.len \in Nat /\ rg.len <= BUF
         /\ \A k \in 1 .. rg.len : RingBytes(rg)[k] = rg.data[(rg.r + k - 1) % BUF]
<1>1. rg.len \in Nat /\ rg.len <= BUF /\ rg.r \in Nat /\ rg.data \in [Cells -> Byte]
  BY PipeAssumption DEF Ring, Cells
<1>2. \A k \in 1 .. rg.len : rg.data[(rg.r + k - 1) % BUF] \in Byte
  <2> TAKE k \in 1 .. rg.len
  <2>1. rg.r + k - 1 \in Nat
    BY <1>1
  <2> QED BY <1>1, <2>1, Wraps, SMTT(30)
<1>3. RingBytes(rg) \in [1 .. rg.len -> Byte]
  BY <1>2, Zenon DEF RingBytes
<1>4. RingBytes(rg) \in Seq(Byte) /\ Len(RingBytes(rg)) = rg.len
  BY <1>1, <1>3
<1>5. \A k \in 1 .. rg.len : RingBytes(rg)[k] = rg.data[(rg.r + k - 1) % BUF]
  BY Zenon DEF RingBytes
<1> QED BY <1>1, <1>4, <1>5, Zenon

\* Sequences with the same elements are the same.
LEMMA SameSequence ==
  ASSUME NEW S, NEW s \in Seq(S), NEW t \in Seq(S), Len(s) = Len(t), \A i \in 1 .. Len(s) : s[i] = t[i]
  PROVE  s = t
  OBVIOUS

\* One sequence after another.
LEMMA Joined ==
  ASSUME NEW S, NEW s \in Seq(S), NEW t \in Seq(S)
  PROVE  /\ s \o t \in Seq(S) /\ Len(s \o t) = Len(s) + Len(t)
         /\ \A k \in 1 .. Len(s) + Len(t) : (s \o t)[k] = IF k <= Len(s) THEN s[k] ELSE t[k - Len(s)]
  OBVIOUS

\* read_fd() takes the oldest bytes and leaves the others in their order.
LEMMA TakesOldest ==
  ASSUME NEW rg \in Ring, NEW got \in Nat, got <= rg.len, NEW after \in Ring,
         after = [rg EXCEPT !.r = (rg.r + got) % BUF, !.len = rg.len - got]
  PROVE  RingBytes(after) = SubSeq(RingBytes(rg), got + 1, Len(RingBytes(rg)))
<1> DEFINE s == RingBytes(rg)
           t == SubSeq(s, got + 1, rg.len)
           u == RingBytes(after)
<1>1. /\ after.len = rg.len - got /\ after.r = (rg.r + got) % BUF
      /\ after.data = rg.data /\ rg.r \in Cells
  BY Zenon DEF Ring
<1>2. /\ s \in Seq(Byte) /\ Len(s) = rg.len /\ rg.len \in Nat /\ rg.len <= BUF
      /\ \A k \in 1 .. rg.len : s[k] = rg.data[(rg.r + k - 1) % BUF]
  BY BytesType, ZenonT(40)
<1>3. /\ u \in Seq(Byte) /\ Len(u) = rg.len - got
      /\ \A k \in 1 .. rg.len - got : u[k] = rg.data[(((rg.r + got) % BUF) + k - 1) % BUF]
  BY <1>1, BytesType, ZenonT(40)
<1> HIDE DEF s, u
<1>4. /\ t \in Seq(Byte) /\ Len(t) = rg.len - got
      /\ \A k \in 1 .. rg.len - got : t[k] = s[got + k]
  <2>1. got + 1 \in Int /\ rg.len \in Int /\ \A k \in got + 1 .. rg.len : s[k] \in Byte
    BY <1>2
  <2> DEFINE g == got + 1
  <2>2. g \in Int /\ rg.len \in Int /\ \A k \in g .. rg.len : s[k] \in Byte
    BY <2>1, Zenon
  <2> HIDE DEF g
  <2>3. /\ SubSeq(s, g, rg.len) \in Seq(Byte)
        /\ Len(SubSeq(s, g, rg.len)) = IF g <= rg.len THEN rg.len - g + 1 ELSE 0
        /\ \A i \in 1 .. rg.len - g + 1 : SubSeq(s, g, rg.len)[i] = s[g + i - 1]
    BY <1>2, <2>2, SMTT(30)
  <2> QED BY <1>2, <2>3, SMTT(30) DEF g
<1> HIDE DEF t
<1>5. \A k \in 1 .. rg.len - got : u[k] = t[k]
  <2> TAKE k \in 1 .. rg.len - got
  <2>1. k - 1 \in Nat /\ got + (k - 1) < BUF /\ got + k \in 1 .. rg.len
    <3>1. rg.len \in Nat /\ rg.len <= BUF /\ BUF \in Nat
      BY <1>2, PipeAssumption, SMTT(30)
    <3> QED BY <3>1
  <2>2. (((rg.r + got) % BUF) + (k - 1)) % BUF = (rg.r + got + (k - 1)) % BUF
    BY <1>1, <2>1, WrapAgain, Zenon
  <2>3. /\ ((rg.r + got) % BUF) + k - 1 = ((rg.r + got) % BUF) + (k - 1)
        /\ rg.r + (got + k) - 1 = rg.r + got + (k - 1)
    <3>1. rg.r \in Int /\ (rg.r + got) % BUF \in Int
      BY <1>1, PipeAssumption, SMTT(30) DEF Cells
    <3> QED BY <3>1
  <2>4. u[k] = rg.data[(rg.r + got + (k - 1)) % BUF]
    BY <1>3, <2>2, <2>3, SMTT(30)
  <2>5. s[got + k] = rg.data[(rg.r + got + (k - 1)) % BUF]
    BY <1>2, <2>1, <2>3, SMTT(30)
  <2> QED BY <1>4, <2>4, <2>5, SMTT(30)
<1>6. u = t
  BY <1>3, <1>4, <1>5, SameSequence, SMTT(30)
<1> QED BY <1>2, <1>6, Zenon DEF s, t, u

\* The write cursor is where the bytes there are end.
RingAgrees == \A i \in PipeIds : ring[i].w = (ring[i].r + ring[i].len) % BUF

\* write_fd() appends the bytes that fit and touches none that are there.
LEMMA AppendsNew ==
  ASSUME NEW rg \in Ring, rg.w = (rg.r + rg.len) % BUF, NEW s \in Seq(Byte),
         NEW put \in Nat, put <= Len(s), rg.len + put <= BUF, Stored(rg, s, put) \in Ring
  PROVE  RingBytes(Stored(rg, s, put)) = RingBytes(rg) \o SubSeq(s, 1, put)
<1> DEFINE after == Stored(rg, s, put)
           u == RingBytes(after)
           t == SubSeq(s, 1, put)
           v == RingBytes(rg) \o t
           at(j) == (rg.w + j - 1) % BUF
           nth(k) == (rg.r + k - 1) % BUF
<1>1. /\ after.len = rg.len + put /\ after.r = rg.r
      /\ \A c \in Cells : after.data[c] = IF \E j \in 1 .. put : at(j) = c
                                          THEN s[CHOOSE j \in 1 .. put : at(j) = c]
                                          ELSE rg.data[c]
  BY ZenonT(40) DEF Stored
<1>2. /\ RingBytes(rg) \in Seq(Byte) /\ Len(RingBytes(rg)) = rg.len
      /\ rg.len \in Nat /\ rg.r \in Cells /\ BUF \in Nat
      /\ \A k \in 1 .. rg.len : RingBytes(rg)[k] = rg.data[nth(k)]
  BY BytesType, PipeAssumption, SMTT(30) DEF Ring
<1>3. /\ u \in Seq(Byte) /\ Len(u) = rg.len + put
      /\ \A k \in 1 .. rg.len + put : u[k] = after.data[nth(k)]
  BY <1>1, BytesType, SMTT(30)
<1> HIDE DEF after, u
<1>4. t \in Seq(Byte) /\ Len(t) = put /\ \A j \in 1 .. put : t[j] = s[j]
  <2>1. \A j \in 1 .. put : s[j] \in Byte
    OBVIOUS
  <2>2. /\ t \in Seq(Byte)
        /\ Len(t) = IF 1 <= put THEN put - 1 + 1 ELSE 0
        /\ \A i \in 1 .. put - 1 + 1 : t[i] = s[1 + i - 1]
    BY <2>1, SMTT(30)
  <2> QED BY <2>2
<1> HIDE DEF t
<1>5. /\ v \in Seq(Byte) /\ Len(v) = rg.len + put
      /\ \A k \in 1 .. rg.len + put :
           v[k] = IF k <= rg.len THEN RingBytes(rg)[k] ELSE t[k - rg.len]
  <2> DEFINE b == RingBytes(rg)
  <2>1. b \in Seq(Byte) /\ Len(b) = rg.len
    BY <1>2, Zenon
  <2> HIDE DEF b
  <2>2. /\ b \o t \in Seq(Byte) /\ Len(b \o t) = Len(b) + Len(t)
        /\ \A k \in 1 .. Len(b) + Len(t) : (b \o t)[k] = IF k <= Len(b) THEN b[k] ELSE t[k - Len(b)]
    BY <1>4, <2>1, Joined, Zenon
  <2> QED BY <1>4, <2>1, <2>2, ZenonT(40) DEF b
<1> HIDE DEF v
<1>6. \A j \in 1 .. put : at(j) = nth(rg.len + j)
  <2> TAKE j \in 1 .. put
  <2>1. j - 1 \in Nat /\ rg.len + (j - 1) < BUF
    BY <1>2
  <2>2. (((rg.r + rg.len) % BUF) + (j - 1)) % BUF = (rg.r + rg.len + (j - 1)) % BUF
    BY <1>2, <2>1, WrapAgain, SMTT(30)
  <2>3. rg.w \in Int /\ rg.r \in Int
    BY <1>2 DEF Ring, Cells
  <2>4. rg.w + j - 1 = rg.w + (j - 1) /\ rg.r + (rg.len + j) - 1 = rg.r + rg.len + (j - 1)
    BY <1>2, <2>3, SMTT(30)
  <2> QED BY <2>2, <2>4, Zenon
<1>7. \A k, l \in 1 .. rg.len + put : nth(k) \in Cells /\ (nth(k) = nth(l) => k = l)
  <2> TAKE k, l \in 1 .. rg.len + put
  <2>0. rg.len \in Nat /\ BUF \in Nat /\ rg.r \in Nat
    BY <1>2 DEF Cells
  <2>1. k - 1 \in Cells /\ l - 1 \in Cells /\ rg.r \in Nat
    BY <2>0 DEF Cells
  <2>2. rg.r + k - 1 = rg.r + (k - 1) /\ rg.r + l - 1 = rg.r + (l - 1) /\ rg.r + k - 1 \in Nat
    BY <2>1
  <2>3. (rg.r + (k - 1)) % BUF = (rg.r + (l - 1)) % BUF => k - 1 = l - 1
    BY <1>2, <2>1, CellsApart, SMTT(30)
  <2> QED BY <2>2, <2>3, Wraps, SMTT(30)
<1> HIDE DEF at, nth
<1>8. \A k \in 1 .. rg.len + put : u[k] = v[k]
  <2> TAKE k \in 1 .. rg.len + put
  <2>1. CASE k <= rg.len
    <3>1. ~ \E j \in 1 .. put : at(j) = nth(k)
      <4> SUFFICES ASSUME NEW j \in 1 .. put, at(j) = nth(k) PROVE FALSE
        OBVIOUS
      <4>1. rg.len + j \in 1 .. rg.len + put
        BY <1>2, SMTT(30)
      <4>2. rg.len + j = k
        BY <1>6, <1>7, <4>1, Zenon
      <4> QED BY <1>2, <2>1, <4>2, SMTT(30)
    <3>2. k \in 1 .. rg.len /\ nth(k) \in Cells
      BY <1>2, <1>7, <2>1, SMTT(30)
    <3>3. after.data[nth(k)] = rg.data[nth(k)]
      BY <1>1, <3>1, <3>2, SMTT(30)
    <3> QED BY <1>2, <1>3, <1>5, <2>1, <3>2, <3>3, SMTT(30)
  <2>2. CASE k > rg.len
    <3> DEFINE j == k - rg.len
    <3>1. j \in 1 .. put /\ rg.len + j = k
      BY <1>2, <2>2, SMTT(30)
    <3> HIDE DEF j
    <3>2. at(j) = nth(k)
      BY <1>6, <3>1, SMTT(30)
    <3>3. \A i \in 1 .. put : at(i) = nth(k) => i = j
      <4> TAKE i \in 1 .. put
      <4> HAVE at(i) = nth(k)
      <4>1. rg.len + i \in 1 .. rg.len + put
        BY <1>2
      <4>2. rg.len + i = k
        BY <1>6, <1>7, <4>1, SMTT(30)
      <4> QED BY <1>2, <3>1, <4>2, SMTT(30)
    <3>4. (CHOOSE i \in 1 .. put : at(i) = nth(k)) = j
      BY <3>1, <3>2, <3>3, SMTT(30)
    <3>5. after.data[nth(k)] = s[j]
      BY <1>1, <1>7, <3>1, <3>2, <3>4, SMTT(30)
    <3> QED BY <1>2, <1>3, <1>4, <1>5, <2>2, <3>1, <3>5, SMTT(30) DEF j
  <2> QED BY <1>2, <2>1, <2>2, SMTT(30)
<1>9. u = v
  BY <1>3, <1>5, <1>8, SameSequence, SMTT(30)
<1> QED BY <1>9, SMTT(30) DEF u, v, t, after

\* The ring a descriptor names, and the numbers in it.
LEMMA NamedRing ==
  ASSUME TypeOK, RingAgrees, NEW t \in TableIds, NEW f \in FdNums
  PROVE  /\ fds[t][f].pipe_id \in PipeIds /\ ring[fds[t][f].pipe_id] \in Ring
         /\ ring[fds[t][f].pipe_id].w = (ring[fds[t][f].pipe_id].r + ring[fds[t][f].pipe_id].len) % BUF
<1>1. fds[t][f] \in Entry /\ ring \in [PipeIds -> Ring]
  BY ZenonT(40) DEF TypeOK
<1>2. fds[t][f].pipe_id \in PipeIds
  BY <1>1, ZenonT(40) DEF Entry
<1> QED BY <1>1, <1>2, Zenon DEF RingAgrees

\* The numbers of a ring.
LEMMA RingNumbers ==
  ASSUME NEW rg \in Ring
  PROVE  rg.len \in Nat /\ rg.len <= BUF /\ BUF \in Nat /\ rg.r \in Cells
<1>1. rg.len \in 0 .. BUF /\ rg.r \in Cells
  BY ZenonT(40) DEF Ring
<1> QED BY <1>1, PipeAssumption

\* The write cursor stays where the bytes end, also past the end of the ring.
LEMMA RingStep ==
  ASSUME TypeOK, RingAgrees, [Next]_vars
  PROVE  RingAgrees'
<1>1. CASE UNCHANGED ring
  BY <1>1, SMTT(30) DEF RingAgrees
<1>2. ASSUME NEW i \in PipeIds, NEW r, r.w = (r.r + r.len) % BUF, ring' = [ring EXCEPT ![i] = r]
      PROVE  RingAgrees'
  BY <1>2, SMTT(30) DEF TypeOK, RingAgrees
<1>3. ASSUME NEW p \in Pids, Create(p) PROVE RingAgrees'
  <2>1. FreshRing.w = (FreshRing.r + FreshRing.len) % BUF
    BY PipeAssumption, SMTT(30) DEF FreshRing
  <2>2. UNCHANGED ring \/ \E i \in PipeIds : ring' = [ring EXCEPT ![i] = FreshRing]
    BY <1>3, ZenonT(40) DEF Create, CreateIn, Fail, vars, pipeVars
  <2> QED BY <1>1, <1>2, <2>1, <2>2, SMTT(30)
<1>4. ASSUME NEW p \in Pids, NEW f \in FdNums, NEW n \in 0 .. MaxIO, ReadTry(p, f, n) PROVE RingAgrees'
  <2>1. PICK t \in TableIds :
          LET i   == fds[t][f].pipe_id
              rg  == ring[i]
              got == Shorter(n, rg.len)
          IN  \/ ring' = [ring EXCEPT ![i] = [rg EXCEPT !.r = (rg.r + got) % BUF, !.len = rg.len - got]]
              \/ UNCHANGED ring
    BY <1>4, ZenonT(40) DEF ReadTry
  <2> DEFINE i == fds[t][f].pipe_id
             rg == ring[i]
             got == Shorter(n, rg.len)
             r == [rg EXCEPT !.r = (rg.r + got) % BUF, !.len = rg.len - got]
  <2>2. i \in PipeIds /\ rg \in Ring /\ rg.w = (rg.r + rg.len) % BUF
    BY NamedRing, Zenon
  <2>3. rg.len \in Nat /\ rg.len <= BUF /\ BUF \in Nat /\ rg.r \in Cells
    BY <2>2, RingNumbers, Zenon
  <2> HIDE DEF i, rg
  <2>4. got \in Nat /\ got <= rg.len
    <3>1. n \in Nat
      BY PipeAssumption
    <3> QED BY <2>3, <3>1, SMTT(30) DEF Shorter
  <2> HIDE DEF got
  <2>5. r.r = (rg.r + got) % BUF /\ r.len = rg.len - got /\ r.w = rg.w
    BY <2>2, SMTT(30) DEF Ring
  <2> HIDE DEF r
  <2>6. (((rg.r + got) % BUF) + (rg.len - got)) % BUF = (rg.r + rg.len) % BUF
    BY <2>3, <2>4, WrapFull, Zenon
  <2>7. r.w = (r.r + r.len) % BUF
    BY <2>2, <2>5, <2>6, Zenon
  <2>8. ring' = [ring EXCEPT ![i] = r] \/ UNCHANGED ring
    BY <2>1, Zenon DEF r, got, rg, i
  <2> QED BY <1>1, <1>2, <2>2, <2>7, <2>8, Zenon
<1>5. ASSUME NEW p \in Pids, NEW f \in FdNums, NEW s \in Payloads, Write(p, f, s) PROVE RingAgrees'
  <2>1. PICK t \in TableIds :
          LET i   == fds[t][f].pipe_id
              put == Shorter(Len(s), BUF - ring[i].len)
          IN  ring' = [ring EXCEPT ![i] = Stored(ring[i], s, put)] \/ UNCHANGED ring
    BY <1>5, ZenonT(40) DEF Write, Fail, vars
  <2> DEFINE i == fds[t][f].pipe_id
             rg == ring[i]
             put == Shorter(Len(s), BUF - rg.len)
             r == Stored(rg, s, put)
  <2>2. i \in PipeIds /\ rg \in Ring /\ rg.w = (rg.r + rg.len) % BUF
    BY NamedRing, Zenon
  <2>3. rg.len \in Nat /\ rg.len <= BUF /\ BUF \in Nat /\ rg.r \in Cells
    BY <2>2, RingNumbers, Zenon
  <2> HIDE DEF i, rg
  <2>4. put \in Nat /\ rg.len + put <= BUF
    <3>1. Len(s) \in Nat
      BY PayloadType, ZenonT(40)
    <3> QED BY <2>3, <3>1, Fits, Zenon
  <2> HIDE DEF put
  <2>5. r.r = rg.r /\ r.len = rg.len + put /\ r.w = (rg.w + put) % BUF
    BY Zenon DEF Stored
  <2> HIDE DEF r
  <2>6. (((rg.r + rg.len) % BUF) + put) % BUF = (rg.r + (rg.len + put)) % BUF
    <3> DEFINE b == rg.len + put
    <3>1. b \in Nat /\ b <= BUF /\ rg.len <= b /\ b - rg.len = put
      BY <2>3, <2>4
    <3> HIDE DEF b
    <3>2. (((rg.r + rg.len) % BUF) + (b - rg.len)) % BUF = (rg.r + b) % BUF
      BY <2>3, <3>1, WrapFull, Zenon
    <3> QED BY <3>1, <3>2, Zenon DEF b
  <2>7. r.w = (r.r + r.len) % BUF
    BY <2>2, <2>5, <2>6, Zenon
  <2>8. ring' = [ring EXCEPT ![i] = r] \/ UNCHANGED ring
    BY <2>1, Zenon DEF r, put, rg, i
  <2> QED BY <1>1, <1>2, <2>2, <2>7, <2>8, Zenon
<1>6. ASSUME NEW p \in Pids,
             \/ \E f \in FdNums : Close(p, f) \/ Dup(p, f)
             \/ \E f \in FdNums, g \in FdNums : Dup2(p, f, g)
             \/ ProcessEnds(p)
             \/ \E c \in Pids : Fork(p, c)
      PROVE  RingAgrees'
  <2>1. ASSUME NEW f \in FdNums, Close(p, f) PROVE UNCHANGED ring
    BY <2>1, Zenon DEF Close
  <2>2. ASSUME NEW f \in FdNums, Dup(p, f) PROVE UNCHANGED ring
    BY <2>2, Zenon DEF Dup, Fail, vars
  <2>3. ASSUME NEW f \in FdNums, NEW g \in FdNums, Dup2(p, f, g) PROVE UNCHANGED ring
    BY <2>3, Zenon DEF Dup2, pipeVars
  <2>4. ASSUME ProcessEnds(p) PROVE UNCHANGED ring
    BY <2>4, Zenon DEF ProcessEnds, CloseAllOf, pipeVars
  <2>5. ASSUME NEW c \in Pids, Fork(p, c) PROVE UNCHANGED ring
    BY <2>5, Zenon DEF Fork, ForkCopy, pipeVars
  <2> QED BY <1>1, <1>6, <2>1, <2>2, <2>3, <2>4, <2>5, Zenon
<1>7. ASSUME NEW p \in Pids, ReadAgain(p) PROVE RingAgrees'
  <2>1. reading[p] \in [fd : FdNums, n : 0 .. MaxIO]
    BY <1>7, SMTT(30) DEF ReadAgain, TypeOK, Requests
  <2> QED BY <1>4, <1>7, <2>1, SMTT(30) DEF ReadAgain
<1>8. ASSUME NEW p \in Pids, NEW f \in FdNums, NEW n \in 0 .. MaxIO, Read(p, f, n) PROVE RingAgrees'
  BY <1>1, <1>4, <1>8, SMTT(30) DEF Read, Fail, vars
<1>9. CASE UNCHANGED vars
  BY <1>1, <1>9, SMTT(30) DEF vars
<1> QED BY <1>3, <1>5, <1>6, <1>7, <1>8, <1>9, SMTT(30) DEF Next


Tables == [TableIds -> [FdNums -> Entry]]

\* The descriptors that name an end of a pipe are finitely many, whatever
\* the tables hold, so the counts have a number to agree with.
LEMMA RefsFinite ==
  ASSUME NEW F \in Tables, NEW i \in PipeIds, NEW we \in BOOLEAN
  PROVE  /\ IsFiniteSet(RefsOf(F, i, we))
         /\ Cardinality(RefsOf(F, i, we)) \in Nat
         /\ Cardinality(RefsOf(F, i, we)) = 0 <=> RefsOf(F, i, we) = {}
<1>1. IsFiniteSet(TableIds) /\ IsFiniteSet(FdNums)
  BY PipeAssumption, FS_Interval DEF TableIds, FdNums
<1>2. IsFiniteSet(TableIds \X FdNums)
  BY <1>1, FS_Product, ZenonT(40)
<1>3. RefsOf(F, i, we) \in SUBSET (TableIds \X FdNums)
  BY Zenon DEF RefsOf
<1>4. IsFiniteSet(RefsOf(F, i, we))
  BY <1>2, <1>3, FS_Subset, ZenonT(40)
<1> QED BY <1>4, FS_CardinalityType, FS_EmptySet, ZenonT(40)

\* The references of one table, as pairs, are as many as its descriptors.
LEMMA RowCount ==
  ASSUME NEW t \in TableIds, NEW H, IsFiniteSet(H)
  PROVE  /\ IsFiniteSet({t} \X H)
         /\ Cardinality({t} \X H) = Cardinality(H)
<1>1. IsFiniteSet({t}) /\ Cardinality({t}) = 1
  BY FS_Singleton, Zenon
<1>2. /\ IsFiniteSet({t} \X H)
      /\ Cardinality({t} \X H) = Cardinality({t}) * Cardinality(H)
  BY <1>1, FS_Product, ZenonT(40)
<1>3. Cardinality(H) \in Nat
  BY FS_CardinalityType, ZenonT(40)
<1> QED BY <1>1, <1>2, <1>3

\* Sizes of disjoint finite sets add up.
LEMMA DisjointUnion ==
  ASSUME NEW S, IsFiniteSet(S), NEW T, IsFiniteSet(T), S \cap T = {}
  PROVE  /\ Cardinality(S \cup T) = Cardinality(S) + Cardinality(T)
         /\ Cardinality(S) \in Nat /\ Cardinality(T) \in Nat
<1>1. Cardinality(S) \in Nat /\ Cardinality(T) \in Nat
  BY FS_CardinalityType, ZenonT(40)
<1>2. Cardinality(S \cup T) =
        Cardinality(S) + Cardinality(T) - Cardinality(S \cap T)
  BY FS_Union, Zenon
<1>3. Cardinality(S \cap T) = 0
  BY FS_EmptySet, ZenonT(40)
<1> QED BY <1>1, <1>2, <1>3

\* Replacing one table changes the number of references by the difference
\* between what the two tables hold: release(), fork_copy().
LEMMA SetTable ==
  ASSUME NEW F \in Tables, NEW t \in TableIds, NEW e \in [FdNums -> Entry],
         NEW i \in PipeIds, NEW we \in BOOLEAN
  PROVE  /\ [F EXCEPT ![t] = e] \in Tables
         /\ Cardinality(RefsOf([F EXCEPT ![t] = e], i, we)) =
              Cardinality(RefsOf(F, i, we)) - Cardinality(Held(F[t], i, we))
                                            + Cardinality(Held(e, i, we))
<1> DEFINE G == [F EXCEPT ![t] = e]
           rest == {x \in RefsOf(F, i, we) : x[1] # t}
           oldRow == {t} \X Held(F[t], i, we)
           newRow == {t} \X Held(e, i, we)
<1>1. G \in Tables
  BY ZenonT(40) DEF Tables
<1>2. F[t] \in [FdNums -> Entry]
  BY Zenon DEF Tables
<1>3. /\ IsFiniteSet(oldRow) /\ Cardinality(oldRow) = Cardinality(Held(F[t], i, we))
      /\ IsFiniteSet(newRow) /\ Cardinality(newRow) = Cardinality(Held(e, i, we))
  BY <1>2, HeldFinite, RowCount, ZenonT(40)
<1>4. IsFiniteSet(rest)
  BY RefsFinite, FS_Subset, Zenon
<1>5. RefsOf(F, i, we) = rest \cup oldRow /\ rest \cap oldRow = {}
  BY ZenonT(40) DEF RefsOf, Held
<1>6. RefsOf(G, i, we) = rest \cup newRow /\ rest \cap newRow = {}
  BY ZenonT(40) DEF RefsOf, Held, Tables
<1> HIDE DEF G, rest, oldRow, newRow
<1>7. /\ Cardinality(RefsOf(F, i, we)) = Cardinality(rest) + Cardinality(oldRow)
      /\ Cardinality(rest) \in Nat /\ Cardinality(oldRow) \in Nat
  BY <1>3, <1>4, <1>5, DisjointUnion, ZenonT(40)
<1>8. /\ Cardinality(RefsOf(G, i, we)) = Cardinality(rest) + Cardinality(newRow)
      /\ Cardinality(newRow) \in Nat
  BY <1>3, <1>4, <1>6, DisjointUnion
<1>9. Cardinality(RefsOf(G, i, we)) =
        Cardinality(RefsOf(F, i, we)) - Cardinality(Held(F[t], i, we))
                                      + Cardinality(Held(e, i, we))
  BY <1>3, <1>7, <1>8
<1> QED BY <1>1, <1>9, ZenonT(40) DEF G

One(d, i, we) == IF Names(d, i, we) THEN 1 ELSE 0

\* What an entry adds to each of the two counts.
LEMMA OneOfEnd ==
  ASSUME NEW d, d.used \in BOOLEAN, d.write_end \in BOOLEAN, NEW i \in PipeIds
  PROVE  /\ One(d, i, WriteEnd) = IF d.used /\ d.write_end /\ d.pipe_id = i THEN 1 ELSE 0
         /\ One(d, i, ReadEnd) = IF d.used /\ ~d.write_end /\ d.pipe_id = i THEN 1 ELSE 0
BY DEF One, Names, ReadEnd, WriteEnd

\* Setting one descriptor of a table changes what the table holds by at most
\* one, up or down.
LEMMA SetEntry ==
  ASSUME NEW e \in [FdNums -> Entry], NEW f \in FdNums, NEW d \in Entry,
         NEW i \in PipeIds, NEW we \in BOOLEAN
  PROVE  /\ [e EXCEPT ![f] = d] \in [FdNums -> Entry]
         /\ Cardinality(Held([e EXCEPT ![f] = d], i, we)) =
              Cardinality(Held(e, i, we)) - One(e[f], i, we) + One(d, i, we)
<1> DEFINE g == [e EXCEPT ![f] = d]
           base == Held(e, i, we) \ {f}
<1>1. g \in [FdNums -> Entry]
  OBVIOUS
<1>2. IsFiniteSet(Held(e, i, we)) /\ Cardinality(Held(e, i, we)) \in Nat
  BY HeldFinite, ZenonT(40)
<1>3. /\ IsFiniteSet(base)
      /\ Cardinality(base) = IF f \in Held(e, i, we)
                             THEN Cardinality(Held(e, i, we)) - 1
                             ELSE Cardinality(Held(e, i, we))
  BY <1>2, FS_RemoveElement, SMTT(30)
<1>4. Cardinality(base) = Cardinality(Held(e, i, we)) - One(e[f], i, we)
  BY <1>2, <1>3 DEF Held, One
<1>5. Held(g, i, we) = IF Names(d, i, we) THEN base \cup {f} ELSE base
  BY <1>1, Zenon DEF Held
<1>6. Cardinality(base \cup {f}) = Cardinality(base) + 1
  BY <1>3, FS_AddElement, SMTT(30)
<1>7. Cardinality(base) \in Nat
  BY <1>3, FS_CardinalityType, Zenon
<1> HIDE DEF base, g
<1>8. Cardinality(Held(g, i, we)) = Cardinality(base) + One(d, i, we)
  BY <1>5, <1>6, <1>7 DEF One
<1> QED BY <1>1, <1>4, <1>8, Zenon DEF g

\* Setting one descriptor of one table: close(), dup() and dup2().
LEMMA SetOne ==
  ASSUME NEW F \in Tables, NEW t \in TableIds, NEW f \in FdNums, NEW d \in Entry,
         NEW i \in PipeIds, NEW we \in BOOLEAN
  PROVE  /\ [F EXCEPT ![t][f] = d] \in Tables
         /\ Cardinality(RefsOf([F EXCEPT ![t][f] = d], i, we)) =
              Cardinality(RefsOf(F, i, we)) - One(F[t][f], i, we) + One(d, i, we)
<1> DEFINE e == F[t]
           g == [e EXCEPT ![f] = d]
<1>1. e \in [FdNums -> Entry]
  BY Zenon DEF Tables
<1>2. /\ g \in [FdNums -> Entry]
      /\ Cardinality(Held(g, i, we)) =
           Cardinality(Held(e, i, we)) - One(e[f], i, we) + One(d, i, we)
  BY <1>1, SetEntry
<1>3. /\ [F EXCEPT ![t] = g] \in Tables
      /\ Cardinality(RefsOf([F EXCEPT ![t] = g], i, we)) =
           Cardinality(RefsOf(F, i, we)) - Cardinality(Held(e, i, we))
                                         + Cardinality(Held(g, i, we))
  BY <1>2, SetTable
<1>4. [F EXCEPT ![t][f] = d] = [F EXCEPT ![t] = g]
  BY Zenon DEF Tables
<1>5. /\ Cardinality(Held(e, i, we)) \in Nat
      /\ Cardinality(RefsOf(F, i, we)) \in Nat
      /\ One(e[f], i, we) \in Nat /\ One(d, i, we) \in Nat
  BY <1>1, HeldFinite, RefsFinite, Zenon DEF One
<1> HIDE DEF e, g
<1>6. Cardinality(RefsOf([F EXCEPT ![t] = g], i, we)) =
        Cardinality(RefsOf(F, i, we)) - One(e[f], i, we) + One(d, i, we)
  BY <1>2, <1>3, <1>5
<1> QED BY <1>3, <1>4, <1>6, Zenon DEF e

\* A table's descriptors are among the references to the pipe.
LEMMA HeldIsReferenced ==
  ASSUME NEW F \in Tables, NEW t \in TableIds, NEW i \in PipeIds, NEW we \in BOOLEAN,
         Held(F[t], i, we) # {}
  PROVE  Cardinality(RefsOf(F, i, we)) > 0
<1>1. PICK f \in FdNums : Names(F[t][f], i, we)
  BY Zenon DEF Held
<1>2. <<t, f>> \in RefsOf(F, i, we)
  BY <1>1, Zenon DEF RefsOf
<1> QED BY <1>2, RefsFinite

\* CountsExact with the emptiness of the reference set read off the counts.
Counted(F, R, W, U) ==
  \A i \in PipeIds : /\ R[i] = Cardinality(RefsOf(F, i, ReadEnd))
                     /\ W[i] = Cardinality(RefsOf(F, i, WriteEnd))
                     /\ U[i] <=> R[i] > 0 \/ W[i] > 0

\* The two readings agree.
LEMMA CountedIsExact ==
  ASSUME NEW F \in Tables, NEW U \in [PipeIds -> BOOLEAN], NEW R, NEW W
  PROVE  Counted(F, R, W, U) <=>
           \A i \in PipeIds :
             /\ R[i] = Cardinality(RefsOf(F, i, ReadEnd))
             /\ W[i] = Cardinality(RefsOf(F, i, WriteEnd))
             /\ U[i] <=> RefsOf(F, i, ReadEnd) \cup RefsOf(F, i, WriteEnd) # {}
<1> DEFINE RR(i) == RefsOf(F, i, ReadEnd)
           RW(i) == RefsOf(F, i, WriteEnd)
<1>1. \A i \in PipeIds :
        /\ Cardinality(RR(i)) \in Nat /\ Cardinality(RW(i)) \in Nat
        /\ Cardinality(RR(i)) = 0 <=> RR(i) = {}
        /\ Cardinality(RW(i)) = 0 <=> RW(i) = {}
  BY RefsFinite, Ends, ZenonT(40)
<1>2. \A i \in PipeIds :
        RR(i) \cup RW(i) # {} <=> Cardinality(RR(i)) > 0 \/ Cardinality(RW(i)) > 0
  <2> SUFFICES ASSUME NEW i \in PipeIds
               PROVE  RR(i) \cup RW(i) # {} <=>
                        Cardinality(RR(i)) > 0 \/ Cardinality(RW(i)) > 0
    OBVIOUS
  <2>1. RR(i) \cup RW(i) # {} <=> RR(i) # {} \/ RW(i) # {}
    OBVIOUS
  <2> HIDE DEF RR, RW
  <2> QED BY <1>1, <2>1
<1>3. Counted(F, R, W, U) <=>
        \A i \in PipeIds : /\ R[i] = Cardinality(RR(i))
                           /\ W[i] = Cardinality(RW(i))
                           /\ U[i] <=> R[i] > 0 \/ W[i] > 0
  BY Zenon DEF Counted
<1> HIDE DEF RR, RW
<1>4. Counted(F, R, W, U) <=>
        \A i \in PipeIds : /\ R[i] = Cardinality(RR(i))
                           /\ W[i] = Cardinality(RW(i))
                           /\ U[i] <=> RR(i) \cup RW(i) # {}
  BY <1>2, <1>3, Zenon
<1> QED BY <1>4, Zenon DEF RR, RW

-----------------------------------------------------------------------------
(* The counts.                                                             *)

\* What CountsExact says before a step, in the form the steps use.
LEMMA CountsHold ==
  ASSUME TypeOK, CountsExact
  PROVE  /\ Counted(fds, readers, writers, pused)
         /\ fds \in Tables
         /\ readers \in [PipeIds -> Nat] /\ writers \in [PipeIds -> Nat]
<1>1. fds \in Tables /\ pused \in [PipeIds -> BOOLEAN]
  BY ZenonT(40) DEF TypeOK, Tables
<1>2. Counted(fds, readers, writers, pused)
  BY <1>1, CountedIsExact, Zenon DEF CountsExact, Refs
<1>3. \A i \in PipeIds : readers[i] \in Nat
  BY <1>1, <1>2, RefsFinite, Ends, SMTT(30) DEF Counted
<1>4. \A i \in PipeIds : writers[i] \in Nat
  BY <1>1, <1>2, RefsFinite, Ends, SMTT(30) DEF Counted
<1> QED BY <1>1, <1>2, <1>3, <1>4, ZenonT(40) DEF TypeOK

\* A descriptor in use keeps the count of its end, and its pipe, alive.
LEMMA UsedIsCounted ==
  ASSUME TypeOK, CountsExact, NEW t \in TableIds, NEW f \in FdNums, fds[t][f].used
  PROVE  /\ fds[t][f].pipe_id \in PipeIds
         /\ pused[fds[t][f].pipe_id]
         /\ fds[t][f].write_end => writers[fds[t][f].pipe_id] > 0
         /\ ~fds[t][f].write_end => readers[fds[t][f].pipe_id] > 0
<1>1. PICK i \in PipeIds : i = fds[t][f].pipe_id
  BY DEF TypeOK, Entry
<1>2. fds[t][f].write_end \in BOOLEAN
  BY DEF TypeOK, Entry
<1>3. f \in Held(fds[t], i, fds[t][f].write_end)
  BY <1>1, ZenonT(40) DEF Held, Names
<1>4. Cardinality(RefsOf(fds, i, fds[t][f].write_end)) > 0
  BY <1>2, <1>3, HeldIsReferenced, CountsHold, ZenonT(40)
<1>5. /\ readers[i] = Cardinality(RefsOf(fds, i, ReadEnd))
      /\ writers[i] = Cardinality(RefsOf(fds, i, WriteEnd))
      /\ pused[i] <=> readers[i] > 0 \/ writers[i] > 0
  BY CountsHold, Zenon DEF Counted
<1>6. CASE fds[t][f].write_end
  <2>1. fds[t][f].write_end = WriteEnd
    BY <1>2, <1>6, SMTT(30) DEF WriteEnd
  <2> QED BY <1>1, <1>4, <1>5, <1>6, <2>1, Zenon
<1>7. CASE ~fds[t][f].write_end
  <2>1. fds[t][f].write_end = ReadEnd
    BY <1>2, <1>7, Zenon DEF ReadEnd
  <2> QED BY <1>1, <1>4, <1>5, <1>7, <2>1, SMTT(30)
<1> QED BY <1>6, <1>7, ZenonT(40)

\* One descriptor is replaced: the counts stay exact if each is moved by
\* what the old and the new entry name, and the used flag follows them.
LEMMA ReplaceOne ==
  ASSUME TypeOK, CountsExact, NEW t \in TableIds, NEW f \in FdNums, NEW d \in Entry,
         NEW R1, NEW W1, NEW U1,
         \A i \in PipeIds :
           /\ R1[i] = readers[i] - One(fds[t][f], i, ReadEnd) + One(d, i, ReadEnd)
           /\ W1[i] = writers[i] - One(fds[t][f], i, WriteEnd) + One(d, i, WriteEnd)
           /\ U1[i] <=> R1[i] > 0 \/ W1[i] > 0
  PROVE  Counted([fds EXCEPT ![t][f] = d], R1, W1, U1)
<1>1. \A i \in PipeIds :
        /\ readers[i] = Cardinality(RefsOf(fds, i, ReadEnd))
        /\ writers[i] = Cardinality(RefsOf(fds, i, WriteEnd))
  BY CountsHold, Zenon DEF Counted
<1>2. \A i \in PipeIds :
        Cardinality(RefsOf([fds EXCEPT ![t][f] = d], i, ReadEnd)) =
          Cardinality(RefsOf(fds, i, ReadEnd)) - One(fds[t][f], i, ReadEnd)
                                               + One(d, i, ReadEnd)
  BY CountsHold, SetOne, Ends, SMTT(30)
<1>3. \A i \in PipeIds :
        Cardinality(RefsOf([fds EXCEPT ![t][f] = d], i, WriteEnd)) =
          Cardinality(RefsOf(fds, i, WriteEnd)) - One(fds[t][f], i, WriteEnd)
                                                + One(d, i, WriteEnd)
  BY CountsHold, SetOne, Ends, SMTT(30)
<1> QED BY <1>1, <1>2, <1>3, ZenonT(40) DEF Counted

\* close_fd()
LEMMA CloseCounts ==
  ASSUME TypeOK, CountsExact, NEW p \in Pids, NEW f \in FdNums, Close(p, f)
  PROVE  Counted(fds', readers', writers', pused')
<1>1. PICK t \in TableIds : /\ fds[t][f].used
                            /\ Drop(fds[t][f])
                            /\ fds' = [fds EXCEPT ![t][f] = NoEntry]
  BY ZenonT(40) DEF Close
<1> DEFINE d == fds[t][f]
<1>2. /\ d.used /\ d.pipe_id \in PipeIds /\ d.write_end \in BOOLEAN
      /\ pused[d.pipe_id]
      /\ d.write_end => writers[d.pipe_id] > 0
      /\ ~d.write_end => readers[d.pipe_id] > 0
  BY <1>1, UsedIsCounted DEF TypeOK, Entry
<1>3. \A i \in PipeIds : One(NoEntry, i, ReadEnd) = 0 /\ One(NoEntry, i, WriteEnd) = 0
  BY Zenon DEF One, Names, NoEntry
<1>4. /\ readers \in [PipeIds -> Nat] /\ writers \in [PipeIds -> Nat]
      /\ pused \in [PipeIds -> BOOLEAN]
      /\ \A i \in PipeIds : pused[i] <=> readers[i] > 0 \/ writers[i] > 0
  BY CountsHold, SMTT(30) DEF Counted, TypeOK
<1> HIDE DEF d
<1>5. /\ writers' = [writers EXCEPT ![d.pipe_id] = IF d.write_end THEN @ - 1 ELSE @]
      /\ readers' = [readers EXCEPT ![d.pipe_id] = IF d.write_end THEN @ ELSE @ - 1]
      /\ pused' = [pused EXCEPT ![d.pipe_id] =
                     @ /\ ~(readers'[d.pipe_id] <= 0 /\ writers'[d.pipe_id] <= 0)]
  BY <1>1, Zenon DEF Drop, d
<1>6. \A i \in PipeIds : /\ readers'[i] = readers[i] - One(d, i, ReadEnd)
                         /\ writers'[i] = writers[i] - One(d, i, WriteEnd)
  BY <1>2, <1>4, <1>5 DEF One, Names, ReadEnd, WriteEnd
<1>7. \A i \in PipeIds : pused'[i] <=> readers'[i] > 0 \/ writers'[i] > 0
  <2> SUFFICES ASSUME NEW i \in PipeIds
               PROVE  pused'[i] <=> readers'[i] > 0 \/ writers'[i] > 0
    OBVIOUS
  <2>1. CASE i = d.pipe_id
    <3>1. pused'[i] <=> pused[i] /\ ~(readers'[i] <= 0 /\ writers'[i] <= 0)
      BY <1>4, <1>5, <2>1, Zenon
    <3>2. readers'[i] \in Int /\ writers'[i] \in Int
      BY <1>4, <1>5, <2>1
    <3>3. pused[i]
      BY <1>2, <2>1, Zenon
    <3> QED BY <3>1, <3>2, <3>3
  <2>2. CASE i # d.pipe_id
    BY <1>4, <1>5, <2>2, SMTT(30)
  <2> QED BY <2>1, <2>2, Zenon
<1>8. \A i \in PipeIds :
        /\ readers'[i] = readers[i] - One(d, i, ReadEnd) + One(NoEntry, i, ReadEnd)
        /\ writers'[i] = writers[i] - One(d, i, WriteEnd) + One(NoEntry, i, WriteEnd)
  <2>1. \A i \in PipeIds : One(d, i, ReadEnd) \in Nat /\ One(d, i, WriteEnd) \in Nat
    BY ZenonT(40) DEF One
  <2> QED BY <1>3, <1>4, <1>6, <2>1
<1> QED BY <1>1, <1>7, <1>8, ReplaceOne, FreshTypes, Zenon DEF d

\* dup_fd()
LEMMA DupCounts ==
  ASSUME TypeOK, CountsExact, NEW p \in Pids, NEW f \in FdNums, Dup(p, f)
  PROVE  Counted(fds', readers', writers', pused')
<1>0. CASE UNCHANGED vars
  BY <1>0, CountsHold, SMTT(30) DEF vars
<1>1. CASE ~UNCHANGED vars
  <2>1. PICK t \in TableIds, n \in FdNums :
          /\ fds[t][f].used /\ ~fds[t][n].used
          /\ fds' = [fds EXCEPT ![t][n] = fds[t][f]]
          /\ Hold(fds[t][f])
          /\ UNCHANGED pused
    BY <1>1, SMTT(30) DEF Dup, Fail, Lowest, FreeFds
  <2> DEFINE d == fds[t][f]
  <2>2. /\ d.used /\ d.pipe_id \in PipeIds /\ d.write_end \in BOOLEAN
        /\ pused[d.pipe_id] /\ d \in Entry
    BY <2>1, UsedIsCounted DEF TypeOK, Entry
  <2>3. \A i \in PipeIds : One(fds[t][n], i, ReadEnd) = 0 /\ One(fds[t][n], i, WriteEnd) = 0
    BY <2>1, Zenon DEF One, Names
  <2>4. /\ readers \in [PipeIds -> Nat] /\ writers \in [PipeIds -> Nat]
        /\ \A i \in PipeIds : pused[i] <=> readers[i] > 0 \/ writers[i] > 0
    BY CountsHold, SMTT(30) DEF Counted
  <2> HIDE DEF d
  <2>5. /\ writers' = [writers EXCEPT ![d.pipe_id] = IF d.write_end THEN @ + 1 ELSE @]
        /\ readers' = [readers EXCEPT ![d.pipe_id] = IF d.write_end THEN @ ELSE @ + 1]
        /\ pused' = pused
    BY <2>1, SMTT(30) DEF Hold, d
  <2>6. \A i \in PipeIds : /\ readers'[i] = readers[i] + One(d, i, ReadEnd)
                           /\ writers'[i] = writers[i] + One(d, i, WriteEnd)
    BY <2>2, <2>4, <2>5, SMTT(30) DEF One, Names, ReadEnd, WriteEnd
  <2>7. \A i \in PipeIds : pused'[i] <=> readers'[i] > 0 \/ writers'[i] > 0
    BY <2>2, <2>4, <2>5, SMTT(30)
  <2>8. \A i \in PipeIds :
          /\ readers'[i] = readers[i] - One(fds[t][n], i, ReadEnd) + One(d, i, ReadEnd)
          /\ writers'[i] = writers[i] - One(fds[t][n], i, WriteEnd) + One(d, i, WriteEnd)
    BY <2>3, <2>4, <2>6, SMTT(30)
  <2> QED BY <2>1, <2>2, <2>7, <2>8, ReplaceOne, ZenonT(40) DEF d
<1> QED BY <1>0, <1>1, ZenonT(40)

\* After the target of dup2() is closed, the source still counts: it is
\* another descriptor, even when both name the same end.
LEMMA SourceSurvives ==
  ASSUME TypeOK, CountsExact, NEW t \in TableIds, NEW f \in FdNums, NEW g \in FdNums,
         f # g, fds[t][f].used
  PROVE  LET c == fds[t][g]
             i == fds[t][f].pipe_id
         IN \/ readers[i] - One(c, i, ReadEnd) > 0
            \/ writers[i] - One(c, i, WriteEnd) > 0
<1> DEFINE F1 == [fds EXCEPT ![t][g] = NoEntry]
           we == fds[t][f].write_end
<1>1. PICK i \in PipeIds : i = fds[t][f].pipe_id
  BY UsedIsCounted, Zenon
<1>2. we \in BOOLEAN /\ (we = ReadEnd \/ we = WriteEnd)
  BY DEF TypeOK, Entry, ReadEnd, WriteEnd
<1>3. fds \in Tables /\ NoEntry \in Entry
  BY CountsHold, FreshTypes, Zenon
<1>4. F1 \in Tables
  BY <1>1, <1>3, SetOne, Ends, Zenon
<1>5. f \in Held(F1[t], i, we)
  BY <1>1, <1>3, ZenonT(40) DEF Held, Names, Tables
<1>6. Cardinality(RefsOf(F1, i, we)) > 0
  BY <1>2, <1>4, <1>5, HeldIsReferenced, ZenonT(40)
<1>7. Cardinality(RefsOf(F1, i, we)) =
        Cardinality(RefsOf(fds, i, we)) - One(fds[t][g], i, we) + One(NoEntry, i, we)
  BY <1>2, <1>3, SetOne
<1>8. One(NoEntry, i, we) = 0 /\ One(fds[t][g], i, we) \in Nat
  BY Zenon DEF One, Names, NoEntry
<1>9. Cardinality(RefsOf(fds, i, we)) \in Nat
  BY <1>2, <1>3, RefsFinite, Zenon
<1> HIDE DEF F1, we
<1>10. Cardinality(RefsOf(fds, i, we)) - One(fds[t][g], i, we) > 0
  BY <1>6, <1>7, <1>8, <1>9, SMTT(30)
<1>11. /\ readers[i] = Cardinality(RefsOf(fds, i, ReadEnd))
       /\ writers[i] = Cardinality(RefsOf(fds, i, WriteEnd))
  BY CountsHold, ZenonT(40) DEF Counted
<1>12. CASE we = ReadEnd
  <2>1. readers[i] - One(fds[t][g], i, ReadEnd) > 0
    BY <1>10, <1>11, <1>12, Zenon
  <2> QED BY <1>1, <2>1, Zenon
<1>13. CASE we = WriteEnd
  <2>1. writers[i] - One(fds[t][g], i, WriteEnd) > 0
    BY <1>10, <1>11, <1>13, Zenon
  <2> QED BY <1>1, <2>1, Zenon
<1> QED BY <1>2, <1>12, <1>13, Zenon

\* dup2_fd()
LEMMA Dup2Counts ==
  ASSUME TypeOK, CountsExact, NEW p \in Pids, NEW f \in FdNums, NEW g \in FdNums,
         Dup2(p, f, g)
  PROVE  Counted(fds', readers', writers', pused')
<1>0. CASE UNCHANGED <<pipeVars, tableVars>>
  BY <1>0, CountsHold, SMTT(30) DEF pipeVars, tableVars
<1>1. CASE ~UNCHANGED <<pipeVars, tableVars>>
  <2>1. PICK t \in TableIds :
          /\ fds[t][f].used /\ f # g
          /\ Moved(fds[t][g], fds[t][f])
          /\ pused' = UsedAfterClose(fds[t][g])
          /\ fds' = [fds EXCEPT ![t][g] = fds[t][f]]
    BY <1>1, SMTT(30) DEF Dup2
  <2> DEFINE c == fds[t][g]
             d == fds[t][f]
  <2>2. /\ d.used /\ d.pipe_id \in PipeIds /\ d.write_end \in BOOLEAN
        /\ pused[d.pipe_id] /\ d \in Entry
    BY <2>1, UsedIsCounted, SMTT(30) DEF TypeOK, Entry
  <2>3. /\ c.used \in BOOLEAN /\ c.pipe_id \in PipeIds /\ c.write_end \in BOOLEAN
        /\ c.used => /\ pused[c.pipe_id]
                     /\ c.write_end => writers[c.pipe_id] > 0
                     /\ ~c.write_end => readers[c.pipe_id] > 0
    BY UsedIsCounted DEF TypeOK, Entry
  <2>4. /\ readers \in [PipeIds -> Nat] /\ writers \in [PipeIds -> Nat]
        /\ pused \in [PipeIds -> BOOLEAN]
        /\ \A i \in PipeIds : pused[i] <=> readers[i] > 0 \/ writers[i] > 0
    BY CountsHold, SMTT(30) DEF Counted, TypeOK
  <2>5. \/ readers[d.pipe_id] - One(c, d.pipe_id, ReadEnd) > 0
        \/ writers[d.pipe_id] - One(c, d.pipe_id, WriteEnd) > 0
    BY <2>1, SourceSurvives, Zenon
  <2>6. Moved(c, d) /\ pused' = UsedAfterClose(c)
    BY <2>1, SMTT(30)
  <2> HIDE DEF c, d
  <2>7. \A i \in PipeIds :
          /\ readers'[i] = readers[i] - One(c, i, ReadEnd) + One(d, i, ReadEnd)
          /\ writers'[i] = writers[i] - One(c, i, WriteEnd) + One(d, i, WriteEnd)
    <3> TAKE i \in PipeIds
    <3>1. /\ writers'[i] = writers[i] - (IF c.used /\ c.write_end /\ c.pipe_id = i THEN 1 ELSE 0)
                                      + (IF d.write_end /\ d.pipe_id = i THEN 1 ELSE 0)
          /\ readers'[i] = readers[i] - (IF c.used /\ ~c.write_end /\ c.pipe_id = i THEN 1 ELSE 0)
                                      + (IF ~d.write_end /\ d.pipe_id = i THEN 1 ELSE 0)
      BY <2>6, Zenon DEF Moved
    <3>2. /\ One(c, i, WriteEnd) = IF c.used /\ c.write_end /\ c.pipe_id = i THEN 1 ELSE 0
          /\ One(c, i, ReadEnd) = IF c.used /\ ~c.write_end /\ c.pipe_id = i THEN 1 ELSE 0
      BY <2>3, OneOfEnd, SMTT(30)
    <3>3. /\ One(d, i, WriteEnd) = IF d.write_end /\ d.pipe_id = i THEN 1 ELSE 0
          /\ One(d, i, ReadEnd) = IF ~d.write_end /\ d.pipe_id = i THEN 1 ELSE 0
      BY ONLY <2>2, SMTT(30) DEF One, Names, ReadEnd, WriteEnd
    <3> QED BY <3>1, <3>2, <3>3, Zenon
  <2>8. \A i \in PipeIds :
          pused'[i] <=> /\ pused[i]
                        /\ ~(/\ c.used /\ c.pipe_id = i
                             /\ writers[i] - One(c, i, WriteEnd) <= 0
                             /\ readers[i] - One(c, i, ReadEnd) <= 0)
    BY <2>3, <2>4, <2>6, SMTT(30) DEF UsedAfterClose, One, Names, ReadEnd, WriteEnd
  <2>9. \A i \in PipeIds : pused'[i] <=> readers'[i] > 0 \/ writers'[i] > 0
    <3> SUFFICES ASSUME NEW i \in PipeIds
                 PROVE  pused'[i] <=> readers'[i] > 0 \/ writers'[i] > 0
      OBVIOUS
    <3> DEFINE cr == One(c, i, ReadEnd)
               cw == One(c, i, WriteEnd)
               dr == One(d, i, ReadEnd)
               dw == One(d, i, WriteEnd)
    <3>1. cr \in Nat /\ cw \in Nat /\ dr \in Nat /\ dw \in Nat
      BY Zenon DEF One
    <3>2. i = d.pipe_id => dr + dw = 1
      BY <2>2 DEF One, Names, ReadEnd, WriteEnd
    <3>3. i # d.pipe_id => dr = 0 /\ dw = 0
      BY Zenon DEF One, Names
    <3>4. ~(c.used /\ c.pipe_id = i) => cr = 0 /\ cw = 0
      BY ZenonT(40) DEF One, Names
    <3>5. i = d.pipe_id => readers[i] - cr > 0 \/ writers[i] - cw > 0
      BY <2>5, SMTT(30)
    <3>6. /\ readers'[i] = readers[i] - cr + dr
          /\ writers'[i] = writers[i] - cw + dw
          /\ pused'[i] <=> /\ pused[i]
                           /\ ~(/\ c.used /\ c.pipe_id = i
                                /\ writers[i] - cw <= 0 /\ readers[i] - cr <= 0)
      BY <2>7, <2>8, ZenonT(40)
    <3>7. readers[i] \in Nat /\ writers[i] \in Nat
      BY <2>4, SMTT(30)
    <3>8. readers[i] - cr >= 0 /\ writers[i] - cw >= 0
      BY <2>3, <3>7, SMTT(30) DEF One, Names, ReadEnd, WriteEnd
    <3> HIDE DEF cr, cw, dr, dw
    <3>9. CASE i = d.pipe_id
      BY <2>2, <3>1, <3>2, <3>5, <3>6, <3>7, <3>8, <3>9, SMTT(30)
    <3>10. CASE i # d.pipe_id /\ c.used /\ c.pipe_id = i
      BY <2>3, <3>1, <3>3, <3>6, <3>7, <3>10, SMTT(30)
    <3>11. CASE i # d.pipe_id /\ ~(c.used /\ c.pipe_id = i)
      BY <2>4, <3>1, <3>3, <3>4, <3>6, <3>7, <3>11, SMTT(30)
    <3> QED BY <3>9, <3>10, <3>11, ZenonT(40)
  <2> QED BY <2>1, <2>2, <2>7, <2>9, ReplaceOne, ZenonT(40) DEF c, d
<1> QED BY <1>0, <1>1, SMTT(30)

\* One whole table is replaced: the counts stay exact if each is moved by
\* the two tables' shares, and the used flag follows them.
LEMMA ReplaceTable ==
  ASSUME TypeOK, CountsExact, NEW t \in TableIds, NEW e \in [FdNums -> Entry],
         NEW R1, NEW W1, NEW U1,
         \A i \in PipeIds :
           /\ R1[i] = readers[i] - Share(fds[t], ReadEnd)[i] + Share(e, ReadEnd)[i]
           /\ W1[i] = writers[i] - Share(fds[t], WriteEnd)[i] + Share(e, WriteEnd)[i]
           /\ U1[i] <=> R1[i] > 0 \/ W1[i] > 0
  PROVE  Counted([fds EXCEPT ![t] = e], R1, W1, U1)
<1>1. \A i \in PipeIds :
        /\ readers[i] = Cardinality(RefsOf(fds, i, ReadEnd))
        /\ writers[i] = Cardinality(RefsOf(fds, i, WriteEnd))
  BY CountsHold, ZenonT(40) DEF Counted
<1>2. \A i \in PipeIds, we \in BOOLEAN :
        Cardinality(RefsOf([fds EXCEPT ![t] = e], i, we)) =
          Cardinality(RefsOf(fds, i, we)) - Share(fds[t], we)[i] + Share(e, we)[i]
  BY CountsHold, SetTable DEF Share
<1>3. \A i \in PipeIds :
        /\ Cardinality(RefsOf([fds EXCEPT ![t] = e], i, ReadEnd)) =
             readers[i] - Share(fds[t], ReadEnd)[i] + Share(e, ReadEnd)[i]
        /\ Cardinality(RefsOf([fds EXCEPT ![t] = e], i, WriteEnd)) =
             writers[i] - Share(fds[t], WriteEnd)[i] + Share(e, WriteEnd)[i]
  BY <1>1, <1>2, Ends, ZenonT(40)
<1> QED BY <1>3, Zenon DEF Counted

\* A table's share of a count is part of the count; a share of zero is no
\* descriptor at all.
LEMMA ShareOfCount ==
  ASSUME TypeOK, CountsExact, NEW t \in TableIds, NEW i \in PipeIds
  PROVE  /\ Share(fds[t], ReadEnd)[i] \in Nat /\ Share(fds[t], WriteEnd)[i] \in Nat
         /\ Share(fds[t], ReadEnd)[i] > 0 => readers[i] > 0
         /\ Share(fds[t], WriteEnd)[i] > 0 => writers[i] > 0
         /\ Share(fds[t], ReadEnd)[i] = 0 <=> Held(fds[t], i, ReadEnd) = {}
         /\ Share(fds[t], WriteEnd)[i] = 0 <=> Held(fds[t], i, WriteEnd) = {}
<1>1. fds \in Tables /\ fds[t] \in [FdNums -> Entry]
  BY CountsHold, Zenon DEF TypeOK
<1>2. \A we \in BOOLEAN :
        /\ Share(fds[t], we)[i] \in Nat
        /\ Share(fds[t], we)[i] = 0 <=> Held(fds[t], i, we) = {}
  BY <1>1, HeldFinite, SMTT(30) DEF Share
<1>3. \A we \in BOOLEAN :
        Share(fds[t], we)[i] > 0 => Cardinality(RefsOf(fds, i, we)) > 0
  BY <1>1, <1>2, HeldIsReferenced, SMTT(30)
<1>4. /\ readers[i] = Cardinality(RefsOf(fds, i, ReadEnd))
      /\ writers[i] = Cardinality(RefsOf(fds, i, WriteEnd))
  BY CountsHold, Zenon DEF Counted
<1> QED BY <1>2, <1>3, <1>4, Ends, Zenon

\* An empty table has no share in anything.
LEMMA NoShare ==
  ASSUME NEW i \in PipeIds, NEW we \in BOOLEAN
  PROVE  Share(NoTable, we)[i] = 0
<1>1. Held(NoTable, i, we) = {}
  BY Zenon DEF Held, NoTable, NoEntry, Names
<1> QED BY <1>1, FS_EmptySet, Zenon DEF Share

\* close_all_of()
LEMMA EndsCounts ==
  ASSUME TypeOK, CountsExact, NEW p \in Pids, ProcessEnds(p)
  PROVE  Counted(fds', readers', writers', pused')
<1>0. CASE UNCHANGED <<pipeVars, tableVars>>
  BY <1>0, CountsHold, SMTT(30) DEF pipeVars, tableVars
<1>1. CASE ~UNCHANGED <<pipeVars, tableVars>>
  <2>1. PICK t \in TableIds :
          /\ readers' = [i \in PipeIds |-> readers[i] - Share(fds[t], ReadEnd)[i]]
          /\ writers' = [i \in PipeIds |-> writers[i] - Share(fds[t], WriteEnd)[i]]
          /\ pused' = [i \in PipeIds |->
               /\ pused[i]
               /\ ~(/\ Held(fds[t], i, ReadEnd) \cup Held(fds[t], i, WriteEnd) # {}
                    /\ readers'[i] <= 0 /\ writers'[i] <= 0)]
          /\ fds' = [fds EXCEPT ![t] = NoTable]
    BY <1>1, ZenonT(40) DEF ProcessEnds, CloseAllOf
  <2>2. \A i \in PipeIds : /\ Share(NoTable, ReadEnd)[i] = 0
                           /\ Share(NoTable, WriteEnd)[i] = 0
    BY NoShare, Ends, SMTT(30)
  <2>3. /\ readers \in [PipeIds -> Nat] /\ writers \in [PipeIds -> Nat]
        /\ pused \in [PipeIds -> BOOLEAN]
        /\ \A i \in PipeIds : pused[i] <=> readers[i] > 0 \/ writers[i] > 0
    BY CountsHold, SMTT(30) DEF Counted, TypeOK
  <2>4. \A i \in PipeIds : pused'[i] <=> readers'[i] > 0 \/ writers'[i] > 0
    <3> TAKE i \in PipeIds
    <3> DEFINE r == Share(fds[t], ReadEnd)[i]
               w == Share(fds[t], WriteEnd)[i]
    <3>1. /\ r \in Nat /\ w \in Nat
          /\ r > 0 => readers[i] > 0
          /\ w > 0 => writers[i] > 0
          /\ r = 0 <=> Held(fds[t], i, ReadEnd) = {}
          /\ w = 0 <=> Held(fds[t], i, WriteEnd) = {}
      BY ShareOfCount, Zenon
    <3>2. readers'[i] = readers[i] - r /\ writers'[i] = writers[i] - w
      BY <2>1, ZenonT(40)
    <3>3. pused'[i] <=>
            /\ pused[i]
            /\ ~(/\ Held(fds[t], i, ReadEnd) \cup Held(fds[t], i, WriteEnd) # {}
                 /\ readers'[i] <= 0 /\ writers'[i] <= 0)
      BY <2>1, Zenon
    <3>4. Held(fds[t], i, ReadEnd) \cup Held(fds[t], i, WriteEnd) # {} <=>
            Held(fds[t], i, ReadEnd) # {} \/ Held(fds[t], i, WriteEnd) # {}
      OBVIOUS
    <3>5. readers[i] \in Nat /\ writers[i] \in Nat
          /\ (pused[i] <=> readers[i] > 0 \/ writers[i] > 0)
      BY <2>3, SMTT(30)
    <3> HIDE DEF r, w
    <3>6. Held(fds[t], i, ReadEnd) \cup Held(fds[t], i, WriteEnd) # {} <=> r # 0 \/ w # 0
      BY <3>1, <3>4, Zenon
    <3>7. (readers[i] > 0 \/ writers[i] > 0)
            /\ ~((r # 0 \/ w # 0) /\ readers[i] - r <= 0 /\ writers[i] - w <= 0)
          <=> readers[i] - r > 0 \/ writers[i] - w > 0
      BY <3>1, <3>5, ShareLeft, Zenon
    <3> QED BY <3>2, <3>3, <3>5, <3>6, <3>7, Zenon
  <2>5. \A i \in PipeIds :
          /\ Share(fds[t], ReadEnd)[i] \in Nat /\ Share(fds[t], WriteEnd)[i] \in Nat
    BY ShareOfCount, SMTT(30)
  <2>6. \A i \in PipeIds :
          /\ readers'[i] = readers[i] - Share(fds[t], ReadEnd)[i] + Share(NoTable, ReadEnd)[i]
          /\ writers'[i] = writers[i] - Share(fds[t], WriteEnd)[i] + Share(NoTable, WriteEnd)[i]
    <3>1. \A i \in PipeIds :
            /\ readers[i] \in Nat /\ writers[i] \in Nat
            /\ readers'[i] = readers[i] - Share(fds[t], ReadEnd)[i]
            /\ writers'[i] = writers[i] - Share(fds[t], WriteEnd)[i]
      BY <2>1, <2>3, Zenon
    <3> QED BY ONLY <2>2, <2>5, <3>1
  <2> QED BY <2>1, <2>4, <2>6, ReplaceTable, FreshTypes, ZenonT(40)
<1> QED BY <1>0, <1>1, Zenon

\* fork_copy()
LEMMA ForkCounts ==
  ASSUME TypeOK, TablesOwned, CountsExact, NEW p \in Pids, NEW c \in Pids, Fork(p, c)
  PROVE  Counted(fds', readers', writers', pused')
<1>0. CASE UNCHANGED <<pipeVars, tableVars>>
  BY <1>0, CountsHold, SMTT(30) DEF pipeVars, tableVars
<1>1. CASE ~UNCHANGED <<pipeVars, tableVars>>
  <2>1. PICK s \in TableIds, t \in TableIds :
          /\ TableFor(c, t)
          /\ fds' = [fds EXCEPT ![t] = fds[s]]
          /\ readers' = [i \in PipeIds |-> readers[i] - Share(EntriesFor(t), ReadEnd)[i]
                                                      + Share(fds[s], ReadEnd)[i]]
          /\ writers' = [i \in PipeIds |-> writers[i] - Share(EntriesFor(t), WriteEnd)[i]
                                                      + Share(fds[s], WriteEnd)[i]]
          /\ UNCHANGED pused
    BY <1>1, SMTT(30) DEF Fork, ForkCopy
  <2>2. TablesOf(c) = {}
    <3>1. proc[c] = "absent"
      BY Zenon DEF Fork
    <3>2. \A u \in TableIds : tab[u].used => proc[tab[u].pid] = "alive"
      BY Zenon DEF TablesOwned
    <3> QED BY <3>1, <3>2, Zenon DEF TablesOf
  <2>3. ~tab[t].used /\ EntriesFor(t) = fds[t] /\ fds[t] = NoTable
    BY <2>1, <2>2, SMTT(30) DEF TableFor, Lowest, FreeTables, TablesOwned, EntriesFor
  <2>4. \A i \in PipeIds :
          /\ readers'[i] = readers[i] - Share(fds[t], ReadEnd)[i] + Share(fds[s], ReadEnd)[i]
          /\ writers'[i] = writers[i] - Share(fds[t], WriteEnd)[i] + Share(fds[s], WriteEnd)[i]
    BY <2>1, <2>3, SMTT(30)
  <2>5. \A i \in PipeIds : pused'[i] <=> readers'[i] > 0 \/ writers'[i] > 0
    <3> TAKE i \in PipeIds
    <3>1. Share(fds[t], ReadEnd)[i] = 0 /\ Share(fds[t], WriteEnd)[i] = 0
      BY <2>3, NoShare, Ends, SMTT(30)
    <3>2. /\ Share(fds[s], ReadEnd)[i] \in Nat /\ Share(fds[s], WriteEnd)[i] \in Nat
          /\ Share(fds[s], ReadEnd)[i] > 0 => readers[i] > 0
          /\ Share(fds[s], WriteEnd)[i] > 0 => writers[i] > 0
      BY ShareOfCount, SMTT(30)
    <3>3. readers[i] \in Nat /\ writers[i] \in Nat
          /\ (pused[i] <=> readers[i] > 0 \/ writers[i] > 0)
      BY CountsHold, ZenonT(40) DEF Counted
    <3>4. pused'[i] <=> readers[i] > 0 \/ writers[i] > 0
      BY <2>1, <3>3, ZenonT(40)
    <3>5. /\ readers'[i] = readers[i] - Share(fds[t], ReadEnd)[i] + Share(fds[s], ReadEnd)[i]
          /\ writers'[i] = writers[i] - Share(fds[t], WriteEnd)[i] + Share(fds[s], WriteEnd)[i]
      BY <2>4, Zenon
    <3> QED BY ONLY <3>1, <3>2, <3>3, <3>4, <3>5, SMTT(30)
  <2>6. fds[s] \in [FdNums -> Entry]
    BY Zenon DEF TypeOK
  <2> QED BY <2>1, <2>4, <2>5, <2>6, ReplaceTable, ZenonT(40)
<1> QED BY <1>0, <1>1, ZenonT(40)

\* The tables with entries d and e on descriptors f and g of table t.
WithTwo(t, f, g, d, e) == [fds EXCEPT ![t] = [fds[t] EXCEPT ![f] = d, ![g] = e]]

\* Two free descriptors of a table are set to two ends: what create() does
\* to the references.
LEMMA SetTwo ==
  ASSUME fds \in Tables, NEW t \in TableIds, NEW f \in FdNums, NEW g \in FdNums,
         NEW d \in Entry, NEW e \in Entry, f # g, ~fds[t][f].used, ~fds[t][g].used,
         NEW i \in PipeIds, NEW end \in BOOLEAN
  PROVE  Cardinality(RefsOf(WithTwo(t, f, g, d, e), i, end)) =
           Cardinality(RefsOf(fds, i, end)) + (One(d, i, end) + One(e, i, end))
<1> DEFINE F1 == [fds EXCEPT ![t][f] = d]
           F2 == [F1 EXCEPT ![t][g] = e]
<1>1. WithTwo(t, f, g, d, e) = F2 /\ F1[t][g] = fds[t][g]
  BY ZenonT(40) DEF Tables, WithTwo
<1>2. /\ F1 \in Tables
      /\ Cardinality(RefsOf(F1, i, end)) =
           Cardinality(RefsOf(fds, i, end)) - One(fds[t][f], i, end) + One(d, i, end)
  BY SetOne, SMTT(30)
<1> HIDE DEF F1
<1>3. Cardinality(RefsOf(F2, i, end)) =
        Cardinality(RefsOf(F1, i, end)) - One(F1[t][g], i, end) + One(e, i, end)
  BY <1>2, SetOne, SMTT(30)
<1> HIDE DEF F2
<1>4. One(fds[t][f], i, end) = 0 /\ One(F1[t][g], i, end) = 0
  BY <1>1 DEF One, Names
<1>5. /\ Cardinality(RefsOf(fds, i, end)) \in Nat
      /\ One(d, i, end) \in Nat /\ One(e, i, end) \in Nat
  BY RefsFinite, SMTT(30) DEF One
<1>6. Cardinality(RefsOf(F2, i, end)) =
        Cardinality(RefsOf(fds, i, end)) + (One(d, i, end) + One(e, i, end))
  BY <1>2, <1>3, <1>4, <1>5, SMTT(30)
<1> QED BY <1>1, <1>6, Zenon

\* Of the two ends of a new pipe, each counts once, for its own end of that
\* pipe and for no other.
LEMMA NewEnds ==
  ASSUME NEW i \in PipeIds, NEW j \in PipeIds, NEW re, NEW we,
         re = [used |-> TRUE, pipe_id |-> i, write_end |-> ReadEnd],
         we = [used |-> TRUE, pipe_id |-> i, write_end |-> WriteEnd]
  PROVE  /\ re \in Entry /\ we \in Entry
         /\ One(re, j, ReadEnd) + One(we, j, ReadEnd) = IF j = i THEN 1 ELSE 0
         /\ One(re, j, WriteEnd) + One(we, j, WriteEnd) = IF j = i THEN 1 ELSE 0
BY Ends DEF One, Names, Entry

\* create(): a pipe that was free has no reference, and gets one of each kind.
LEMMA CreateCounts ==
  ASSUME TypeOK, TablesOwned, CountsExact, NEW p \in Pids, Create(p)
  PROVE  Counted(fds', readers', writers', pused')
<1>0. CASE UNCHANGED <<pipeVars, fds>>
  BY <1>0, CountsHold, SMTT(30) DEF pipeVars
<1>1. CASE ~UNCHANGED <<pipeVars, fds>>
  <2>1. PICK i \in PipeIds, t \in TableIds : Lowest(i, FreePipes) /\ CreateIn(p, i, t)
    BY <1>1, ZenonT(40) DEF Create, Fail, vars, pipeVars
  <2>2. EntriesFor(t) = fds[t]
    BY ZenonT(40) DEF EntriesFor, TablesOwned
  <2>3. fds \in Tables /\ fds[t] \in [FdNums -> Entry]
    BY SMTT(30) DEF TypeOK, Tables
  <2> DEFINE re == [used |-> TRUE, pipe_id |-> i, write_end |-> ReadEnd]
             we == [used |-> TRUE, pipe_id |-> i, write_end |-> WriteEnd]
  <2>4. PICK rfd \in FdNums, wfd \in FdNums :
          /\ ~fds[t][rfd].used /\ ~fds[t][wfd].used /\ rfd # wfd
          /\ fds' = WithTwo(t, rfd, wfd, re, we)
          /\ pused' = [pused EXCEPT ![i] = TRUE]
          /\ readers' = [readers EXCEPT ![i] = 1]
          /\ writers' = [writers EXCEPT ![i] = 1]
    <3>1. ~(fds' = [fds EXCEPT ![t] = EntriesFor(t)] /\ UNCHANGED pipeVars)
      BY <1>1, <2>2, <2>3, SMTT(30) DEF Tables
    <3>2. PICK rfd \in FdNums, wfd \in FdNums :
            /\ Lowest(rfd, FreeFds(fds[t]))
            /\ Lowest(wfd, FreeFds(fds[t]) \ {rfd})
            /\ fds' = WithTwo(t, rfd, wfd, re, we)
            /\ pused' = [pused EXCEPT ![i] = TRUE]
            /\ readers' = [readers EXCEPT ![i] = 1]
            /\ writers' = [writers EXCEPT ![i] = 1]
      BY <2>1, <2>2, <3>1, Zenon DEF CreateIn, WithTwo
    <3>3. ~fds[t][rfd].used /\ ~fds[t][wfd].used /\ rfd # wfd
      BY <3>2, Zenon DEF Lowest, FreeFds
    <3> QED BY <3>2, <3>3, Zenon
  <2> SUFFICES ASSUME NEW j \in PipeIds
               PROVE  /\ readers'[j] = Cardinality(RefsOf(fds', j, ReadEnd))
                      /\ writers'[j] = Cardinality(RefsOf(fds', j, WriteEnd))
                      /\ pused'[j] <=> readers'[j] > 0 \/ writers'[j] > 0
    BY ZenonT(40) DEF Counted
  <2>5. /\ re \in Entry /\ we \in Entry
        /\ One(re, j, ReadEnd) + One(we, j, ReadEnd) = IF j = i THEN 1 ELSE 0
        /\ One(re, j, WriteEnd) + One(we, j, WriteEnd) = IF j = i THEN 1 ELSE 0
    BY NewEnds, SMTT(30)
  <2> HIDE DEF re, we
  <2>6. \A end \in BOOLEAN :
          Cardinality(RefsOf(fds', j, end)) =
            Cardinality(RefsOf(fds, j, end)) + (One(re, j, end) + One(we, j, end))
    <3>1. /\ re \in Entry /\ we \in Entry
          /\ ~fds[t][rfd].used /\ ~fds[t][wfd].used /\ rfd # wfd
          /\ fds' = WithTwo(t, rfd, wfd, re, we)
      BY <2>4, <2>5, Zenon
    <3>2. \A end \in BOOLEAN :
            Cardinality(RefsOf(WithTwo(t, rfd, wfd, re, we), j, end)) =
              Cardinality(RefsOf(fds, j, end)) + (One(re, j, end) + One(we, j, end))
      <4>1. fds \in Tables /\ re \in Entry /\ we \in Entry
            /\ ~fds[t][rfd].used /\ ~fds[t][wfd].used /\ rfd # wfd
        BY <2>3, <3>1, Zenon
      <4> QED BY ONLY <4>1, SetTwo, j \in PipeIds, t \in TableIds, rfd \in FdNums, wfd \in FdNums
    <3> QED BY <3>1, <3>2, Zenon
  <2> DEFINE R == Cardinality(RefsOf(fds, j, ReadEnd))
             W == Cardinality(RefsOf(fds, j, WriteEnd))
  <2>7. /\ readers[j] = R /\ writers[j] = W /\ R \in Nat /\ W \in Nat
        /\ pused[j] <=> R > 0 \/ W > 0
    <3>1. R \in Nat /\ W \in Nat
      BY <2>3, RefsFinite, Ends, Zenon
    <3>2. /\ readers[j] = R /\ writers[j] = W
          /\ pused[j] <=> readers[j] > 0 \/ writers[j] > 0
      BY CountsHold, Zenon DEF Counted
    <3> QED BY <3>1, <3>2, Zenon
  <2> HIDE DEF R, W
  <2>8. /\ Cardinality(RefsOf(fds', j, ReadEnd)) = R + (IF j = i THEN 1 ELSE 0)
        /\ Cardinality(RefsOf(fds', j, WriteEnd)) = W + (IF j = i THEN 1 ELSE 0)
    <3>1. /\ Cardinality(RefsOf(fds', j, ReadEnd)) =
               R + (One(re, j, ReadEnd) + One(we, j, ReadEnd))
          /\ Cardinality(RefsOf(fds', j, WriteEnd)) =
               W + (One(re, j, WriteEnd) + One(we, j, WriteEnd))
      BY <2>6, Ends, Zenon DEF R, W
    <3> QED BY <2>5, <3>1, Zenon
  <2>9. j = i => R = 0 /\ W = 0
    BY <2>1, <2>7, SMTT(30) DEF Lowest, FreePipes
  <2>10. /\ readers'[j] = IF j = i THEN 1 ELSE readers[j]
         /\ writers'[j] = IF j = i THEN 1 ELSE writers[j]
         /\ pused'[j] = IF j = i THEN TRUE ELSE pused[j]
    BY <2>4, SMTT(30) DEF TypeOK
  <2> QED BY <2>7, <2>8, <2>9, <2>10, SMTT(30)
<1> QED BY <1>0, <1>1, ZenonT(40)

\* No step of the kernel's pipe code, by any process, makes a count differ
\* from the descriptors it counts.
LEMMA CountsStep ==
  ASSUME TypeOK, TablesOwned, CountsExact, [Next]_vars
  PROVE  CountsExact'
<1>1. Counted(fds', readers', writers', pused')
  <2>0. CASE UNCHANGED <<pused, readers, writers, fds>>
    BY <2>0, CountsHold, ZenonT(40)
  <2>1. ASSUME NEW p \in Pids, NEW f \in FdNums, NEW n \in 0 .. MaxIO, Read(p, f, n)
        PROVE  Counted(fds', readers', writers', pused')
    BY <2>0, <2>1, SMTT(30) DEF Read, Fail, vars, tableVars
  <2>2. ASSUME NEW p \in Pids, ReadAgain(p)
        PROVE  Counted(fds', readers', writers', pused')
    BY <2>0, <2>2, ZenonT(40) DEF ReadAgain, tableVars
  <2>3. ASSUME NEW p \in Pids, NEW f \in FdNums, NEW s \in Payloads, Write(p, f, s)
        PROVE  Counted(fds', readers', writers', pused')
    <3>1. UNCHANGED vars \/ UNCHANGED <<pused, readers, writers, tableVars>>
      BY <2>3, ZenonT(40) DEF Write, Fail
    <3> QED BY <2>0, <3>1, SMTT(30) DEF vars, tableVars
  <2>4. CASE UNCHANGED vars
    BY <2>0, <2>4, SMTT(30) DEF vars
  <2>5. ASSUME NEW p \in Pids,
               \/ Create(p)
               \/ \E f \in FdNums : Close(p, f) \/ Dup(p, f)
               \/ \E f \in FdNums, g \in FdNums : Dup2(p, f, g)
               \/ ProcessEnds(p)
               \/ \E c \in Pids : Fork(p, c)
        PROVE  Counted(fds', readers', writers', pused')
    BY <2>5, CreateCounts, CloseCounts, DupCounts, Dup2Counts, EndsCounts, ForkCounts, SMTT(30)
  <2> QED BY <2>1, <2>2, <2>3, <2>4, <2>5, SMTT(30) DEF Next
<1>2. fds' \in Tables /\ pused' \in [PipeIds -> BOOLEAN]
  BY TypeStep, ZenonT(40) DEF TypeOK, Tables
<1>3. \A i \in PipeIds :
        /\ readers'[i] = Cardinality(RefsOf(fds', i, ReadEnd))
        /\ writers'[i] = Cardinality(RefsOf(fds', i, WriteEnd))
        /\ pused'[i] <=> RefsOf(fds', i, ReadEnd) \cup RefsOf(fds', i, WriteEnd) # {}
  BY <1>1, <1>2, CountedIsExact, Zenon
<1> QED BY <1>3, Zenon DEF CountsExact, Refs, ReadEnd, WriteEnd

\* The machine starts with no reference to count.
LEMMA InitCounts == Init => CountsExact
<1> HAVE Init
<1>1. \A i \in PipeIds, we \in BOOLEAN : Refs(i, we) = {}
  BY Zenon DEF Init, Refs, RefsOf, NoTable, NoEntry, Names
<1>2. \A i \in PipeIds : Refs(i, ReadEnd) = {} /\ Refs(i, WriteEnd) = {}
  BY <1>1, Ends, SMTT(30)
<1> QED BY <1>2, FS_EmptySet, ZenonT(40) DEF Init, CountsExact

\* At all times, in every history of create, dup, dup2, close, fork and
\* death, the reader and writer counts of each pipe are exactly the
\* descriptors that name its ends, and a pipe is in use exactly while one
\* does; each table belongs to one living process.
THEOREM CountsAlwaysExact == Spec => [](CountsExact /\ TablesOwned)
<1> DEFINE IInv == TypeOK /\ TablesOwned /\ CountsExact
<1>1. Init => IInv
  BY InitTypes, InitCounts, ZenonT(40)
<1>2. IInv /\ [Next]_vars => IInv'
  BY TypeStep, OwnedStep, CountsStep, ZenonT(40)
<1>3. IInv => CountsExact /\ TablesOwned
  OBVIOUS
<1> QED BY <1>1, <1>2, <1>3, PTL DEF Spec

=============================================================================
