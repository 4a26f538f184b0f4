----------------------------- MODULE VfsProofs ------------------------------
(***************************************************************************)
(* Proofs about Vfs, for every size of the tables and of the pool, every   *)
(* initial tree and every set of paths, processes and lengths: who owns    *)
(* descriptors and frames, what becomes of the display, how long a file    *)
(* may be, and how much a user may store.  VfsTables has what the calls do *)
(* to the tables.                                                          *)
(***************************************************************************)
EXTENDS VfsTables

-----------------------------------------------------------------------------
(* A step of the system.                                                   *)

\* A descriptor whose position moved, or that is a copy of another.
LEMMA FileType ==
  ASSUME NEW f \in File
  PROVE  /\ \A pos \in Nat : [f EXCEPT !.pos = pos] \in File
         /\ \A p \in Pids : [f EXCEPT !.owner = p] \in File /\ [f EXCEPT !.owner = p].owner = p
BY ZenonT(40) DEF File

\* A call that only moves a position leaves every descriptor its node and its owner.
LEMMA PosType ==
  ASSUME files \in [Fds -> File], NEW fd \in Fds, NEW pos \in Nat, PosAt(fd, pos)
  PROVE  /\ files' \in [Fds -> File]
         /\ \A j \in Fds : /\ files'[j].used = files[j].used /\ files'[j].node = files[j].node
                           /\ files'[j].owner = files[j].owner
<1> DEFINE f == [files[fd] EXCEPT !.pos = pos]
<1>1. f \in File /\ f.used = files[fd].used /\ f.node = files[fd].node /\ f.owner = files[fd].owner
  BY ZenonT(40) DEF File
<1>2. files' = [files EXCEPT ![fd] = f]
  BY Zenon DEF PosAt
<1> HIDE DEF f
<1> QED BY <1>1, <1>2, ZenonT(40)

\* The calls that only move a position.
LEMMA MovesPos ==
  ASSUME VfsInv, NEW p \in Pids, NEW fd \in Fds,
         \/ getdents(p, fd)
         \/ \E n \in Counts : Read(p, fd, n) \/ Write(p, fd, n)
         \/ \E off \in -1 .. MaxPos : Lseek(p, fd, off)
  PROVE  \E pos \in Nat : PosAt(fd, pos)
<1>1. files[fd] \in File /\ files[fd].pos \in Nat /\ files[fd].node \in 0 .. MAX_N
  BY ZenonT(40) DEF VfsInv, File
<1>2. \A i \in {files[fd].node} \ {0} : nodes[i] \in Node /\ nodes[i].size \in Nat /\ nodes[i].cap \in Nat
  <2>1. \A i \in {files[fd].node} \ {0} : i \in Nodes
    BY <1>1, VfsAssumption DEF Nodes
  <2>2. \A i \in Nodes : nodes[i] \in Node
    BY Zenon DEF VfsInv, Table
  <2> QED BY <2>1, <2>2, Zenon DEF Node
<1>3. CASE getdents(p, fd)
  BY <1>1, <1>3, SMTT(30) DEF getdents
<1>4. CASE \E n \in Counts : Read(p, fd, n)
  <2>1. PICK n \in Counts : Read(p, fd, n)
    BY <1>4, Zenon
  <2>2. PICK i \in {files[fd].node} \ {0} :
          PosAt(fd, files[fd].pos + AtMost(n, AtLeast(nodes[i].size - files[fd].pos, 0)))
    BY <2>1, ZenonT(40) DEF Read, On
  <2>3. n \in Nat
    BY VfsAssumption, Zenon
  <2>4. files[fd].pos + AtMost(n, AtLeast(nodes[i].size - files[fd].pos, 0)) \in Nat
    BY <1>1, <1>2, <2>3, SMTT(30) DEF AtMost, AtLeast
  <2> QED BY <2>2, <2>4, ZenonT(40)
<1>5. CASE \E n \in Counts : Write(p, fd, n)
  <2>1. PICK n \in Counts : Write(p, fd, n)
    BY <1>5, Zenon
  <2>2. PICK i \in {files[fd].node} \ {0} :
          /\ nodes[i].used
          /\ WriteAt(fd, i, IF files[fd].append THEN nodes[i].size ELSE files[fd].pos, n)
    BY <2>1, ZenonT(40) DEF Write, On
  <2>3. PICK pos \in Nat : WriteAt(fd, i, pos, n)
    BY <1>1, <1>2, <2>2, Zenon
  <2>4. n \in Nat /\ pos + n \in Nat
    BY VfsAssumption
  <2> DEFINE b == node_reserve(Buffer(nodes[i]), pos + n)
  <2>5. CASE PosAt(fd, pos)
    BY <2>3, <2>5, Zenon
  <2>6. CASE PosAt(fd, pos + Fitting(b, pos, n))
    <3>1. i \in Nodes /\ nodes[i] \in Node /\ bitmap \in SUBSET (1 .. Frames) /\ Held(nodes[i]) \subseteq bitmap
      BY <1>1, <1>2, SMTT(30) DEF Nodes, VfsInv, Table, Accounted
    <3>2. Rebuffered(bitmap, nodes[i], b)
      BY <2>4, <3>1, StartType, BufferStart, ReserveRebuffers, SMTT(30)
    <3>3. b.n.cap \in Nat
      BY <3>2, ZenonT(40) DEF Rebuffered, Resized, Work, Node
    <3> HIDE DEF b
    <3>4. pos + Fitting(b, pos, n) \in Nat
      BY <2>4, <3>3, SMTT(30) DEF Fitting, AtMost, AtLeast
    <3> QED BY <2>6, <3>4, Zenon
  <2> QED BY <2>3, <2>5, <2>6, Zenon DEF WriteAt, Written
<1>6. CASE \E off \in -1 .. MaxPos : Lseek(p, fd, off)
  <2>1. PICK off \in -1 .. MaxPos : Lseek(p, fd, off)
    BY <1>6, ZenonT(40)
  <2>2. PICK i \in {files[fd].node} \ {0} :
          \E base \in {0, files[fd].pos, nodes[i].size} : PosAt(fd, AtLeast(base + off, 0))
    BY <2>1, ZenonT(40) DEF Lseek, On
  <2>3. off \in Int
    BY VfsAssumption
  <2>4. \A base \in Nat : AtLeast(base + off, 0) \in Nat
    BY <2>3 DEF AtLeast
  <2> QED BY <1>1, <1>2, <2>2, <2>4, Zenon
<1> QED BY <1>3, <1>4, <1>5, <1>6, Zenon

\* open() gives a descriptor to the caller, or none.
LEMMA OpenFiles ==
  ASSUME VfsInv, NEW p \in Pids, NEW path \in Paths, NEW fl \in Flags, Open(p, path, fl)
  PROVE  /\ display' \in Display /\ alive' = alive /\ p \in alive
         /\ \/ files' = files
            \/ \E i \in Nodes, append \in BOOLEAN : files' = Opened(p, i, append)
<1>1. PICK x \in Found(p, path, fl) :
        \/ OpenFile(p, x, fl)
        \/ OpenSynth(p, x, fl)
        \/ OpenDisplay(p, x, fl)
  BY Zenon DEF Open
<1>2. x.i \in Nodes /\ fl.append \in BOOLEAN
  BY FoundTable, VfsAssumption, Zenon DEF OpenFlags
<1>3. files' = files \/ files' = Opened(p, x.i, fl.append)
  BY <1>1, Zenon DEF OpenFile, OpenSynth, OpenDisplay
<1>4. display' \in Display
  <2>1. display \in Display
    BY Zenon DEF VfsInv
  <2>2. CASE OpenDisplay(p, x, fl)
    BY <2>1, <2>2, FrameType, ZenonT(40) DEF OpenDisplay
  <2>3. CASE display' = display
    BY <2>1, <2>3, Zenon
  <2> QED BY <1>1, <2>2, <2>3, Zenon DEF OpenFile, OpenSynth
<1>5. alive' = alive /\ p \in alive
  BY Zenon DEF Open
<1> QED BY <1>2, <1>3, <1>4, <1>5, Zenon

\* The calls on names but open() leave the descriptors alone.
LEMMA NamesRest ==
  ASSUME NEW path, NEW p, \/ stat(path) \/ \E n \in Counts : set_path(path, n)
                          \/ \E to \in Paths : move_file(path, to)
                          \/ touch(p, path) \/ mkdir(p, path) \/ rmdir(p, path) \/ unlink(p, path)
                          \/ \E mode \in Modes : chmod(p, path, mode)
                          \/ \E u \in Uids : chown(p, path, u)
  PROVE  UNCHANGED <<files, alive, display>>
BY ZenonT(40) DEF stat, set_path, move_file, touch, mkdir, rmdir, unlink, chmod, chown, New, Drop, Put

\* Copies: the slot that is written belongs to the caller, who lives.
LEMMA CopyOwners ==
  ASSUME files \in [Fds -> File], OwnersLive, NEW p \in Pids, p \in alive, alive' = alive,
         NEW f \in File, f.owner = p, NEW k \in Fds, files' = [files EXCEPT ![k] = f]
  PROVE  files' \in [Fds -> File] /\ OwnersLive'
<1>1. \A j \in Fds : files'[j] = IF j = k THEN f ELSE files[j]
  OBVIOUS
<1>2. files' \in [Fds -> File]
  OBVIOUS
<1> QED BY <1>1, <1>2, Zenon DEF OwnersLive

\* What every step keeps of the descriptors, the display and the processes.
Kept == files \in [Fds -> File] /\ display \in Display /\ alive \subseteq Pids /\ OwnersLive

\* The end of a program and the start of the next keep descriptors owned by the living.
LEMMA EndsKeep ==
  ASSUME VfsInv, OwnersLive, Ends
  PROVE  Kept'
<1>1. files \in [Fds -> File] /\ display \in Display /\ alive \subseteq Pids
  BY ZenonT(40) DEF VfsInv
<1>2. CASE Respawn
  <2>1. files' = reset_stdio(files) /\ display' = display /\ alive' = alive \cup {Init1}
    BY <1>2, ZenonT(40) DEF Respawn
  <2>2. files' \in [Fds -> File] /\ alive' \subseteq Pids
    BY <1>1, <2>1, ResetType, VfsAssumption, ZenonT(40)
  <2>3. \A j \in Fds : files'[j] = IF j < STDIO THEN Console ELSE files[j]
    BY <2>1, ZenonT(40) DEF reset_stdio
  <2>4. \A j \in OwnFds : ~(j < STDIO)
    BY VfsAssumption DEF OwnFds
  <2>5. OwnersLive'
    BY <2>1, <2>3, <2>4, ConsoleType, Zenon DEF OwnersLive
  <2> QED BY <1>1, <2>1, <2>2, <2>5, ZenonT(40) DEF Kept
<1>3. CASE \E p \in Pids : Exit(p)
  <2>1. PICK p \in Pids : Exit(p)
    BY <1>3, Zenon
  <2> DEFINE w == close_all_of(p)
  <2>2. files' = w.fs /\ display' = w.d /\ alive' = alive \ {p}
    BY <2>1, Zenon DEF Exit
  <2>3. /\ w.fs \in [Fds -> File] /\ w.d \in Display
        /\ \A j \in Fds : w.fs[j].used /\ (j \in OwnFds \/ w.fs[j].node # 0) =>
                           w.fs[j] = files[j] /\ files[j].owner # p
    BY <1>1, CloseAll, Zenon
  <2> HIDE DEF w
  <2>4. OwnersLive'
    BY <2>2, <2>3, ZenonT(40) DEF OwnersLive
  <2> QED BY <1>1, <2>2, <2>3, <2>4, ZenonT(40) DEF Kept
<1>4. CASE \E p \in Pids, fd \in Fds : Close(p, fd)
  <2>1. PICK p \in Pids, fd \in Fds : Close(p, fd)
    BY <1>4, Zenon
  <2> DEFINE v == [fs |-> files, d |-> display]
             w == close(v, fd)
  <2>2. files' = w.fs /\ display' = w.d /\ alive' = alive
    BY <2>1, Zenon DEF Close
  <2>3. v.fs = files /\ v.d = display
    OBVIOUS
  <2> HIDE DEF v
  <2>4. w.fs = [files EXCEPT ![fd] = NoFd] /\ w.fs \in [Fds -> File] /\ w.d \in Display
    BY <1>1, <2>3, CloseType, ZenonT(40)
  <2> HIDE DEF w
  <2>5. \A j \in Fds : files'[j] = IF j = fd THEN NoFd ELSE files[j]
    BY <1>1, <2>2, <2>4, ZenonT(40)
  <2>6. OwnersLive'
    BY <2>2, <2>5, ConsoleType, ZenonT(40) DEF OwnersLive
  <2> QED BY <1>1, <2>2, <2>4, <2>6, ZenonT(40) DEF Kept
<1> QED BY <1>2, <1>3, <1>4, Zenon DEF Ends

\* So do the calls on descriptors.
LEMMA DescriptorsKeep ==
  ASSUME VfsInv, OwnersLive, Descriptors
  PROVE  Kept'
<1>1. files \in [Fds -> File] /\ display \in Display /\ alive \subseteq Pids
  BY Zenon DEF VfsInv
<1>2. UNCHANGED <<alive, display>>
  BY ZenonT(40) DEF Descriptors, dup_fd, dup2_fd, getdents, Read, Write, Lseek
<1>3. PICK p \in Pids, fd \in Fds :
        \/ dup_fd(p, fd) \/ \E newfd \in Fds : dup2_fd(p, fd, newfd)
        \/ getdents(p, fd)
        \/ \E n \in Counts : Read(p, fd, n) \/ Write(p, fd, n)
        \/ \E off \in -1 .. MaxPos : Lseek(p, fd, off)
  BY Zenon DEF Descriptors
<1> DEFINE f == [files[fd] EXCEPT !.owner = p]
<1>4. f \in File /\ f.owner = p
  BY <1>1, FileType, Zenon
<1>5. CASE dup_fd(p, fd)
  <2>1. PICK i \in {FreeFd(files)} \ {0} : files' = [files EXCEPT ![i] = f]
    BY <1>5, Zenon DEF dup_fd
  <2>2. i \in Fds /\ p \in alive
    BY <1>5, FreeFdIn, Zenon DEF dup_fd
  <2> HIDE DEF f
  <2> QED BY <1>1, <1>2, <1>4, <2>1, <2>2, CopyOwners, Zenon DEF Kept
<1>6. CASE \E newfd \in Fds : dup2_fd(p, fd, newfd)
  <2>1. PICK newfd \in Fds : p \in alive /\ files' = [files EXCEPT ![newfd] = f]
    BY <1>6, ZenonT(40) DEF dup2_fd
  <2> HIDE DEF f
  <2> QED BY <1>1, <1>2, <1>4, <2>1, CopyOwners, Zenon DEF Kept
<1>7. CASE \/ getdents(p, fd)
           \/ \E n \in Counts : Read(p, fd, n) \/ Write(p, fd, n)
           \/ \E off \in -1 .. MaxPos : Lseek(p, fd, off)
  <2>1. PICK pos \in Nat : PosAt(fd, pos)
    BY <1>7, MovesPos, Zenon
  <2>2. /\ files' \in [Fds -> File]
        /\ \A j \in Fds : /\ files'[j].used = files[j].used /\ files'[j].node = files[j].node
                          /\ files'[j].owner = files[j].owner
    BY <1>1, <2>1, PosType, Zenon
  <2>3. OwnersLive'
    BY <1>2, <2>2, ZenonT(40) DEF OwnersLive
  <2> QED BY <1>1, <1>2, <2>2, <2>3, Zenon DEF Kept
<1> QED BY <1>3, <1>5, <1>6, <1>7, ZenonT(40)

\* So does open(): the new descriptor belongs to the caller, who is alive.
LEMMA OpenKeeps ==
  ASSUME VfsInv, OwnersLive, NEW p \in Pids, NEW path \in Paths, NEW fl \in Flags, Open(p, path, fl)
  PROVE  Kept'
<1>1. files \in [Fds -> File] /\ alive \subseteq Pids
  BY Zenon DEF VfsInv
<1>2. /\ display' \in Display /\ alive' = alive /\ p \in alive
      /\ \/ files' = files
         \/ \E i \in Nodes, append \in BOOLEAN : files' = Opened(p, i, append)
  BY OpenFiles, ZenonT(40)
<1>3. CASE files' = files
  BY <1>1, <1>2, <1>3, ZenonT(40) DEF Kept, OwnersLive
<1>4. CASE files' # files
  <2>1. PICK i \in Nodes, append \in BOOLEAN : files' = Opened(p, i, append)
    BY <1>2, <1>4, Zenon
  <2> DEFINE f == [used |-> TRUE, pos |-> 0, append |-> append, node |-> i, owner |-> p]
             k == FreeFd(files)
  <2>2. files' = [files EXCEPT ![k] = f] /\ k # 0
    BY <1>4, <2>1, Zenon DEF Opened
  <2>3. f \in File /\ f.owner = p
    BY DEF File, Nodes
  <2>4. k \in Fds
    BY <2>2, FreeFdIn, ZenonT(40)
  <2> HIDE DEF f, k
  <2>5. files' \in [Fds -> File] /\ OwnersLive'
    BY <1>1, <1>2, <2>2, <2>3, <2>4, CopyOwners, Zenon
  <2> QED BY <1>1, <1>2, <2>5, ZenonT(40) DEF Kept
<1> QED BY <1>3, <1>4, ZenonT(40)

\* The calls on names touch nodes and no descriptor.
LEMMA NamesKeep ==
  ASSUME VfsInv, OwnersLive, Names
  PROVE  Table(nodes, bitmap)' /\ Kept'
<1>1. PICK path \in Paths : \E p \in Pids :
        \/ stat(path) \/ \E n \in Counts : set_path(path, n)
        \/ \E to \in Paths : move_file(path, to)
        \/ touch(p, path) \/ mkdir(p, path) \/ rmdir(p, path) \/ unlink(p, path)
        \/ \E mode \in Modes : chmod(p, path, mode)
        \/ \E u \in Uids : chown(p, path, u)
        \/ \E fl \in Flags : Open(p, path, fl)
  BY VfsAssumption, ZenonT(40) DEF Names
<1>2. PICK p \in Pids :
        \/ stat(path) \/ \E n \in Counts : set_path(path, n)
        \/ \E to \in Paths : move_file(path, to)
        \/ touch(p, path) \/ mkdir(p, path) \/ rmdir(p, path) \/ unlink(p, path)
        \/ \E mode \in Modes : chmod(p, path, mode)
        \/ \E u \in Uids : chown(p, path, u)
        \/ \E fl \in Flags : Open(p, path, fl)
  BY <1>1, ZenonT(40)
<1>3. CASE \E fl \in Flags : Open(p, path, fl)
  BY <1>3, OpenTable, OpenKeeps, ZenonT(40)
<1>4. CASE ~\E fl \in Flags : Open(p, path, fl)
  <2>1. Table(nodes, bitmap)'
    BY <1>2, <1>4, NamesTable, ZenonT(40)
  <2>2. UNCHANGED <<files, alive, display>>
    BY <1>2, <1>4, NamesRest, ZenonT(40)
  <2> QED BY <2>1, <2>2, Zenon DEF Kept, VfsInv, OwnersLive
<1> QED BY <1>3, <1>4, Zenon

\* setquota touches the limits only.
LEMMA RulesQuiet == Rules => UNCHANGED <<nodes, files, bitmap, alive, display>>
<1>1. \A p, u, l : quota_set(p, u, l) => UNCHANGED <<nodes, files, bitmap, alive, display>>
  BY Zenon DEF quota_set
<1>2. \A p, l : quota_set_default(p, l) => UNCHANGED <<nodes, files, bitmap, alive, display>>
  BY Zenon DEF quota_set_default
<1> QED BY <1>1, <1>2, Zenon DEF Rules

\* The invariant and the owners of descriptors through any step.
LEMMA VfsStep ==
  ASSUME VfsInv, OwnersLive, [Next]_vars
  PROVE  VfsInv' /\ OwnersLive'
<1>1. Table(nodes, bitmap) /\ Kept
  BY ZenonT(40) DEF VfsInv, Kept
<1>2. CASE Ends
  <2>1. UNCHANGED <<nodes, bitmap>>
    BY <1>2, ZenonT(40) DEF Ends, Respawn, Exit, Close
  <2> QED BY <1>1, <1>2, <2>1, EndsKeep, ZenonT(40) DEF Kept, VfsInv
<1>3. CASE Descriptors
  <2>1. Table(nodes, bitmap)'
    <3>1. CASE \E p \in Pids, fd \in Fds, n \in Counts : Write(p, fd, n)
      BY <3>1, WriteTable, ZenonT(40)
    <3>2. CASE UNCHANGED <<nodes, bitmap>>
      BY <1>1, <3>2, Zenon
    <3> QED BY <1>3, <3>1, <3>2, ZenonT(40) DEF Descriptors, dup_fd, dup2_fd, getdents, Read, Lseek
  <2> QED BY <1>3, <2>1, DescriptorsKeep, ZenonT(40) DEF Kept, VfsInv
<1>4. CASE Names
  BY <1>4, NamesKeep, Zenon DEF Kept, VfsInv
<1>5. CASE Rules \/ UNCHANGED vars
  <2>1. UNCHANGED <<nodes, files, bitmap, alive, display>>
    BY <1>5, RulesQuiet, Zenon DEF vars
  <2> QED BY <1>1, <2>1, ZenonT(40) DEF Kept, VfsInv, OwnersLive
<1>6. CASE DesktopStarts \/ DesktopEnds
  <2>1. UNCHANGED <<nodes, files, bitmap, alive>>
    BY <1>6, ZenonT(40) DEF DesktopStarts, DesktopEnds
  <2>2. display' \in Display
    BY <1>1, <1>6, Zenon DEF DesktopStarts, DesktopEnds, Kept, Display
  <2> QED BY <1>1, <2>1, <2>2, Zenon DEF Kept, VfsInv, OwnersLive
<1> QED BY <1>2, <1>3, <1>4, <1>5, <1>6, ZenonT(40) DEF Next

\* The tree as it is built at boot satisfies the invariant.
LEMMA VfsInit ==
  ASSUME Init
  PROVE  VfsInv /\ OwnersLive
<1>1. nodes \in [Nodes -> Node] /\ NoNode \in Node /\ Held(NoNode) = {}
  <2>1. NoNode \in Node /\ NoNode.at = 0
    BY DEF NoNode, Node
  <2>2. \A i \in Nodes : i <= Len(Tree) => Tree[i] \in Node
    BY VfsAssumption, SMTT(30) DEF Nodes
  <2> QED BY <2>1, <2>2, Zenon DEF Init, Held
<1>2. files \in [Fds -> File] /\ display \in Display /\ alive \subseteq Pids
  BY ConsoleType, Zenon DEF Init, Display
<1>3. OwnersLive
  BY ConsoleType, VfsAssumption DEF Init, OwnersLive, OwnFds
<1>4. Len(Tree) \in Nat /\ Len(Tree) <= MAX_N /\ MAX_N \in Nat
  BY VfsAssumption, SMTT(30)
<1>5. \A i \in Nodes : nodes[i] = IF i \in 1 .. Len(Tree) THEN Tree[i] ELSE NoNode
  BY <1>4, SMTT(30) DEF Init, Nodes
<1>6. bitmap \in SUBSET (1 .. Frames) /\ bitmap = UNION {Held(Tree[i]) : i \in 1 .. Len(Tree)}
  BY TreeApart, ZenonT(40) DEF Init
<1>7. 1 .. Len(Tree) \subseteq Nodes
  BY <1>4 DEF Nodes
<1>8. bitmap = UNION {Held(nodes[i]) : i \in Nodes}
  BY <1>1, <1>5, <1>6, <1>7, ZenonT(40)
<1>9. \A i, j \in Nodes : i # j => Held(nodes[i]) \cap Held(nodes[j]) = {}
  BY <1>1, <1>5, TreeApart, ZenonT(40)
<1>10. \A i \in Nodes : ~nodes[i].used => nodes[i].at = 0
  BY <1>5, TreeApart DEF NoNode
<1> QED BY <1>1, <1>2, <1>3, <1>6, <1>8, <1>9, <1>10, ZenonT(40) DEF VfsInv, Table, Accounted

-----------------------------------------------------------------------------
(* What holds of every run of the file system.                             *)

\* The inductive invariant holds in every reachable state.
LEMMA VfsAlways == Spec => [](VfsInv /\ OwnersLive)
<1>1. Init => VfsInv /\ OwnersLive
  BY VfsInit, Zenon
<1>2. VfsInv /\ OwnersLive /\ [Next]_vars => (VfsInv /\ OwnersLive)'
  BY VfsStep, Zenon
<1> QED BY <1>1, <1>2, PTL DEF Spec

\* Every frame that is taken is in the buffer of one node and of one only, and a
\* free node has none, however node_reserve(), node_set(), unlink(), rmdir() and
\* move_file() succeed or fail on a pool and a table of any size.
THEOREM PagesAlwaysAccounted == Spec => []PagesAccounted
<1>1. VfsInv => PagesAccounted
  BY Zenon DEF VfsInv, Table, Accounted, PagesAccounted
<1> QED BY <1>1, VfsAlways, PTL

\* Every descriptor, and every redirection of a standard one, belongs to a
\* process that lives: dup_fd() and dup2_fd() give the copy to who made it, and
\* close_all_of() leaves none of a process that ends.
THEOREM OwnersAlwaysLive == Spec => []OwnersLive
BY VfsAlways, PTL

\* The display goes back as the last descriptor on it is closed.
LEMMA DisplayStep ==
  ASSUME VfsInv, \E p \in Pids : Exit(p) \/ \E fd \in Fds : Close(p, fd),
         FbFds(files) # {}, FbFds(files') = {}
  PROVE  /\ ~display'.took /\ ~display'.prog
         /\ display'.gfx => display.desk \/ ~display.took
<1>1. files \in [Fds -> File] /\ display \in Display
  BY ZenonT(40) DEF VfsInv
<1>2. \E w : GivenBack(w) /\ files' = w.fs /\ display' = w.d
  <2>1. CASE \E p \in Pids : Exit(p)
    <3>1. PICK p \in Pids : Exit(p)
      BY <2>1, ZenonT(40)
    <3>2. files' = close_all_of(p).fs /\ display' = close_all_of(p).d
      BY <3>1, Zenon DEF Exit
    <3>3. GivenBack(close_all_of(p))
      BY <1>1, CloseAll, Zenon
    <3> QED BY <3>2, <3>3, ZenonT(40)
  <2>2. CASE \E p \in Pids, fd \in Fds : Close(p, fd)
    <3>1. PICK p \in Pids, fd \in Fds : Close(p, fd)
      BY <2>2, Zenon
    <3> DEFINE v == [fs |-> files, d |-> display]
    <3>2. files' = close(v, fd).fs /\ display' = close(v, fd).d /\ fd \in OwnFds /\ files[fd].used
      BY <3>1, ZenonT(40) DEF Close
    <3>3. v.fs = files /\ v.d = display
      OBVIOUS
    <3> HIDE DEF v
    <3>4. GivenBack(v)
      BY <3>3, Zenon DEF GivenBack
    <3>5. GivenBack(close(v, fd))
      BY <1>1, <3>2, <3>3, <3>4, CloseGivesBack, ZenonT(40)
    <3> QED BY <3>2, <3>5, ZenonT(40)
  <2> QED BY <2>1, <2>2, ZenonT(40)
<1>3. display' = release(display)
  BY <1>2, ZenonT(40) DEF GivenBack
<1> QED BY <1>1, <1>3, ReleasedDisplay, ZenonT(40)

\* When the last descriptor on /dev/fb0 is closed, by close() or by
\* close_all_of() in the middle of its loop, release() runs, and once only: what
\* is left is the display it was given, with the mode left if it entered it.
THEOREM DisplayAlwaysGivenBack == Spec => DisplayGivenBack
<1>1. VfsInv => [(\E p \in Pids : Exit(p) \/ \E fd \in Fds : Close(p, fd)) =>
                   (FbFds(files) # {} /\ FbFds(files') = {} =>
                      /\ ~display'.took /\ ~display'.prog
                      /\ display'.gfx => display.desk \/ ~display.took)]_vars
  BY DisplayStep, Zenon
<1> QED BY <1>1, VfsAlways, PTL DEF DisplayGivenBack

\* write(): past the buffer only when no run was found, and then to where it
\* would have begun.
LEMMA WriteOutgrows ==
  ASSUME VfsInv, NEW p \in Pids, NEW fd \in Fds, NEW count \in Counts, Write(p, fd, count),
         NEW k \in Nodes, Overfull(nodes'[k])
  PROVE  Overfull(nodes[k]) \/ StarvedWrite(k)
<1>1. PICK i \in On(p, fd, {"file"}, {"w"}) :
        WriteAt(fd, i, IF files[fd].append THEN nodes[i].size ELSE files[fd].pos, count)
  BY Zenon DEF Write
<1>2. i \in Nodes /\ nodes[i].used /\ files[fd].pos \in Nat /\ files[fd].node = i /\ nodes[i].kind = "file"
  BY <1>1 DEF On, VfsInv, File, Nodes
<1>3. nodes \in [Nodes -> Node] /\ Held(nodes[i]) \subseteq bitmap /\ bitmap \in SUBSET (1 .. Frames)
  BY <1>2, ZenonT(40) DEF VfsInv, Table, Accounted
<1>4. nodes[i] \in Node /\ nodes[i].size \in Nat /\ nodes[i].cap \in Nat
  BY <1>2, <1>3, ZenonT(40) DEF Node
<1>5. PICK pos \in Nat : WriteAt(fd, i, pos, count)
  BY <1>1, <1>2, <1>4, ZenonT(40)
<1>6. CASE UNCHANGED <<nodes, bitmap>>
  BY <1>6, Zenon
<1>7. CASE ~UNCHANGED <<nodes, bitmap>>
  <2> DEFINE b == node_reserve(Start(bitmap, nodes[i]), pos + count)
             end == pos + Fitting(b, pos, count)
             m == [b.n EXCEPT !.size = AtLeast(@, end)]
  <2>1. pos + count \in Nat /\ count \in Nat
    BY VfsAssumption
  <2>2. nodes' = [nodes EXCEPT ![i] = m] /\ PosAt(fd, end)
    BY <1>5, <1>7, BufferStart, Zenon DEF WriteAt, Written
  <2>3. \/ b.ok /\ b.n.cap \in Nat /\ b.n.cap >= pos + count /\ b.n.cap >= nodes[i].cap
        \/ ~b.ok /\ b.n = nodes[i] /\ alloc_contig(bitmap, Wanted(nodes[i], pos + count)) = 0
    <3> DEFINE need == pos + count
    <3>1. need \in Nat /\ b = node_reserve(Start(bitmap, nodes[i]), need)
      BY <2>1, Zenon
    <3>2. bitmap \in SUBSET (1 .. Frames) /\ nodes[i] \in Node
      BY <1>3, <1>4, Zenon
    <3> HIDE DEF need, b
    <3>3. \/ b.ok /\ b.n.cap \in Nat /\ b.n.cap >= need /\ b.n.cap >= nodes[i].cap
          \/ ~b.ok /\ b.n = nodes[i] /\ alloc_contig(bitmap, Wanted(nodes[i], need)) = 0
      BY <3>1, <3>2, ReserveHolds, SMTT(30)
    <3> QED BY <3>3, Zenon DEF need
  <2>4. b.n \in Node /\ b.n.size = nodes[i].size
    <3>1. Rebuffered(bitmap, nodes[i], b)
      BY <1>3, <1>4, <2>1, StartType, ReserveRebuffers, ZenonT(40)
    <3> QED BY <3>1, Zenon DEF Rebuffered, Resized, Work
  <2> HIDE DEF b
  <2>5. end \in Nat
    BY <2>1, <2>4, SMTT(30) DEF Fitting, AtMost, AtLeast, Node
  <2>6. m.cap = b.n.cap /\ m.size = AtLeast(nodes[i].size, end) /\ b.n.cap \in Nat
    BY <2>4, Zenon DEF Node
  <2>7. files'[fd].node = i /\ files'[fd].pos = end
    BY <1>2, <2>2, ZenonT(40) DEF PosAt, VfsInv, File
  <2>8. CASE k # i
    BY <1>3, <2>2, <2>8, Zenon
  <2>9. CASE k = i
    <3>1. nodes'[i] = m
      BY <1>2, <1>3, <2>2, Zenon
    <3> HIDE DEF m
    <3>2. m.size > m.cap
      BY <2>9, <3>1, Zenon DEF Overfull
    <3>3. CASE b.ok
      <4>1. end <= b.n.cap
        BY <2>1, <2>3, <3>3, Zenon DEF Fitting
      <4>2. nodes[i].size > nodes[i].cap
        BY <1>4, <2>3, <2>5, <2>6, <3>2, <3>3, <4>1, SMTT(30) DEF AtLeast
      <4> QED BY <1>2, <2>9, <4>2, Zenon DEF Overfull
    <3>4. CASE ~b.ok /\ nodes[i].size <= nodes[i].cap
      <4>1. end = pos /\ pos > nodes[i].cap
        BY <1>4, <2>1, <2>3, <2>5, <2>6, <3>2, <3>4, SMTT(30) DEF AtLeast, AtMost, Fitting
      <4>2. m.size = pos /\ m.cap = nodes[i].cap /\ pos > nodes[i].size
        BY ONLY <1>4, <2>3, <2>6, <3>4, <4>1 DEF AtLeast
      <4> QED BY <1>2, <2>3, <2>7, <2>9, <3>1, <3>4, <4>1, <4>2, ZenonT(40) DEF StarvedWrite
    <3>5. CASE ~b.ok /\ ~(nodes[i].size <= nodes[i].cap)
      BY <1>2, <1>4, <2>9, <3>5, SMTT(30) DEF Overfull
    <3> QED BY <3>3, <3>4, <3>5, Zenon
  <2> QED BY <2>8, <2>9, Zenon
<1> QED BY <1>6, <1>7, Zenon

\* A node is longer than its buffer only if it was, or if the pool had no run
\* for it in this step: write() left the end of the file where the write would
\* have begun, or regen_synth() gave a /proc page the size of a text that
\* node_set() then did not store.
THEOREM FilesFitUnlessStarved == Spec => OutgrowsOnlyStarved
<1> DEFINE Outgrowth == \A i \in Nodes :
             Overfull(nodes'[i]) => Overfull(nodes[i]) \/ StarvedWrite(i) \/ StarvedPage(i)
<1>1. ASSUME VfsInv, Next PROVE Outgrowth
  <2>1. CASE Ends \/ Rules \/ DesktopStarts \/ DesktopEnds
    BY <2>1, RulesQuiet, ZenonT(40) DEF Ends, Respawn, Exit, Close, DesktopStarts, DesktopEnds
  <2>2. CASE Descriptors
    <3>1. CASE \E p \in Pids, fd \in Fds, n \in Counts : Write(p, fd, n)
      BY <1>1, <3>1, WriteOutgrows, Zenon
    <3>2. CASE UNCHANGED nodes
      BY <3>2, ZenonT(40)
    <3> QED BY <2>2, <3>1, <3>2, ZenonT(40) DEF Descriptors, dup_fd, dup2_fd, getdents, Read, Lseek
  <2>3. CASE Names
    <3>1. CASE \E p \in Pids, path \in Paths : stat(path) \/ \E fl \in Flags : Open(p, path, fl)
      BY <1>1, <3>1, OpenOutgrows, StatOutgrows, ZenonT(40)
    <3>2. CASE Contained(nodes, nodes')
      BY <3>2, Zenon DEF Contained
    <3> QED BY <1>1, <2>3, <3>1, <3>2, NamesContained, MoveContained, VfsAssumption, ZenonT(40) DEF Names
  <2> QED BY <1>1, <2>1, <2>2, <2>3, ZenonT(40) DEF Next
<1>2. VfsInv /\ [Next]_vars => [Outgrowth]_vars
  BY <1>1, Zenon
<1> QED BY <1>2, VfsAlways, PTL DEF Spec, OutgrowsOnlyStarved

-----------------------------------------------------------------------------
(* Quotas: quota_used() adds up the table, entry by entry.                 *)

Totals(f, ns, u, n) ==
  f = [i \in 0 .. n |-> IF i = 0 THEN 0 ELSE f[i - 1] + Charge(ns[i], u)]

\* The running sum of quota_used() is defined up to every index.
LEMMA TotalExists ==
  ASSUME NEW ns, NEW u
  PROVE  \A n \in Nat : \E f : Totals(f, ns, u, n)
<1> DEFINE S == {n \in Nat : \E f : Totals(f, ns, u, n)}
<1>1. 0 \in S
  <2> DEFINE f == [i \in 0 .. 0 |-> 0]
  <2>1. Totals(f, ns, u, 0)
    BY DEF Totals
  <2> QED BY <2>1, Zenon
<1>2. ASSUME NEW n \in S PROVE n + 1 \in S
  <2>1. PICK f : Totals(f, ns, u, n)
    BY <1>2, Zenon
  <2> DEFINE x == f[n] + Charge(ns[n + 1], u)
             g == [i \in 0 .. n + 1 |-> IF i = n + 1 THEN x ELSE f[i]]
  <2>2. \A i \in 0 .. n : g[i] = f[i] /\ i \in 0 .. n + 1
    OBVIOUS
  <2>3. ASSUME NEW i \in 0 .. n + 1
        PROVE  g[i] = IF i = 0 THEN 0 ELSE g[i - 1] + Charge(ns[i], u)
    <3>1. CASE i = n + 1
      <4>1. g[i] = x /\ i # 0 /\ g[i - 1] = f[n]
        BY <2>2, <3>1
      <4> HIDE DEF g
      <4> QED BY <3>1, <4>1, ZenonT(40)
    <3>2. CASE i # n + 1
      <4>1. i \in 0 .. n /\ (i # 0 => i - 1 \in 0 .. n)
        BY <3>2
      <4>2. f[i] = IF i = 0 THEN 0 ELSE f[i - 1] + Charge(ns[i], u)
        BY <2>1, <4>1, Zenon DEF Totals
      <4> HIDE DEF g
      <4> QED BY <2>2, <4>1, <4>2, Zenon
    <3> QED BY <3>1, <3>2, ZenonT(40)
  <2>4. g = [i \in 0 .. n + 1 |-> g[i]]
    OBVIOUS
  <2> HIDE DEF g
  <2>5. Totals(g, ns, u, n + 1)
    BY <2>3, <2>4, Zenon DEF Totals
  <2> QED BY <2>5
<1> HIDE DEF S
<1>3. \A n \in Nat : n \in S
  BY <1>1, <1>2, NatIn, Zenon DEF S
<1> QED BY <1>3, Zenon DEF S

\* quota_used() is the last of its running sums.
LEMMA TotalIs ==
  ASSUME NEW ns, NEW u
  PROVE  \E f : Totals(f, ns, u, MAX_N) /\ quota_used(ns, u) = f[MAX_N]
<1>1. \E f : Totals(f, ns, u, MAX_N)
  BY TotalExists, VfsAssumption, ZenonT(40)
<1> DEFINE f == CHOOSE g : Totals(g, ns, u, MAX_N)
<1>2. Totals(f, ns, u, MAX_N)
  BY <1>1, Zenon
<1>3. quota_used(ns, u) = f[MAX_N]
  BY Zenon DEF quota_used, Totals
<1> QED BY <1>2, <1>3, Zenon

\* One entry's share changes, and the total by as much.
LEMMA TotalChange ==
  ASSUME NEW ns \in [Nodes -> Node], NEW ms \in [Nodes -> Node], NEW u, NEW k \in Nodes,
         \A i \in Nodes : i # k => ms[i] = ns[i]
  PROVE  /\ quota_used(ns, u) \in Nat /\ quota_used(ms, u) \in Nat
         /\ Charge(ns[k], u) \in Nat /\ Charge(ms[k], u) \in Nat
         /\ quota_used(ms, u) = quota_used(ns, u) - Charge(ns[k], u) + Charge(ms[k], u)
<1>1. MAX_N \in Nat /\ k \in 1 .. MAX_N
  BY VfsAssumption, Zenon DEF Nodes
<1>2. \A n \in Node : Charge(n, u) \in Nat
  BY Zenon DEF Charge, Node
<1>3. PICK f : Totals(f, ns, u, MAX_N) /\ quota_used(ns, u) = f[MAX_N]
  BY TotalIs, ZenonT(40)
<1>4. PICK g : Totals(g, ms, u, MAX_N) /\ quota_used(ms, u) = g[MAX_N]
  BY TotalIs, ZenonT(40)
<1> DEFINE a == Charge(ns[k], u)
           b == Charge(ms[k], u)
<1>5. a \in Nat /\ b \in Nat
  BY <1>2, ZenonT(40)
<1> HIDE DEF a, b
<1> DEFINE S == {n \in Nat : n <= MAX_N =>
                    /\ f[n] \in Nat /\ g[n] \in Nat
                    /\ g[n] = IF n < k THEN f[n] ELSE f[n] - a + b}
<1>6. 0 \in S
  <2>1. f[0] = 0 /\ g[0] = 0
    BY <1>1, <1>3, <1>4, SMTT(30) DEF Totals
  <2> QED BY <1>1, <2>1, SMTT(30)
<1>7. ASSUME NEW n \in S PROVE n + 1 \in S
  <2> SUFFICES ASSUME n + 1 <= MAX_N
               PROVE  /\ f[n + 1] \in Nat /\ g[n + 1] \in Nat
                      /\ g[n + 1] = IF n + 1 < k THEN f[n + 1] ELSE f[n + 1] - a + b
    OBVIOUS
  <2>1. n \in Nat /\ f[n] \in Nat /\ g[n] \in Nat /\ g[n] = IF n < k THEN f[n] ELSE f[n] - a + b
    BY <1>1, SMTT(30)
  <2> DEFINE x == Charge(ns[n + 1], u)
             y == Charge(ms[n + 1], u)
  <2>2. f[n + 1] = f[n] + x /\ g[n + 1] = g[n] + y
    BY <1>1, <1>3, <1>4, <2>1, SMTT(30) DEF Totals
  <2>3. n + 1 \in Nodes /\ x \in Nat /\ y \in Nat
    BY <1>1, <1>2, <2>1, SMTT(30) DEF Nodes
  <2>4. IF n + 1 = k THEN x = a /\ y = b ELSE x = y
    BY <2>3, Zenon DEF a, b
  <2> HIDE DEF x, y
  <2> QED BY <1>1, <1>5, <2>1, <2>2, <2>3, <2>4, SMTT(30)
<1> HIDE DEF S
<1>8. \A n \in Nat : n \in S
  BY <1>6, <1>7, NatIn, ZenonT(40) DEF S
<1>9. MAX_N \in S
  BY <1>1, <1>8, ZenonT(40)
<1>10. f[MAX_N] \in Nat /\ g[MAX_N] \in Nat /\ g[MAX_N] = f[MAX_N] - a + b
  BY <1>1, <1>9 DEF S
<1> QED BY <1>3, <1>4, <1>5, <1>10, ZenonT(40) DEF a, b

\* No entry costs u more than it did.
Cheaper(ns, ms, u) == quota_used(ms, u) <= quota_used(ns, u)

\* A table with one node that costs a user no more costs that user no more.
LEMMA CheaperOne ==
  ASSUME NEW ns \in [Nodes -> Node], NEW k \in Nodes, NEW m \in Node, NEW u,
         Charge(m, u) <= Charge(ns[k], u)
  PROVE  Cheaper(ns, [ns EXCEPT ![k] = m], u)
<1> DEFINE ms == [ns EXCEPT ![k] = m]
<1>1. ms \in [Nodes -> Node] /\ ms[k] = m /\ \A i \in Nodes : i # k => ms[i] = ns[i]
  OBVIOUS
<1> HIDE DEF ms
<1>2. /\ quota_used(ns, u) \in Nat /\ quota_used(ms, u) \in Nat
      /\ Charge(ns[k], u) \in Nat /\ Charge(m, u) \in Nat
      /\ quota_used(ms, u) = quota_used(ns, u) - Charge(ns[k], u) + Charge(m, u)
  BY <1>1, TotalChange, ZenonT(40)
<1>3. Cheaper(ns, ms, u)
  BY <1>2 DEF Cheaper
<1> QED BY <1>3, Zenon DEF ms

\* What a user is charged is a number.
LEMMA TotalNat ==
  ASSUME NEW ns \in [Nodes -> Node], NEW u
  PROVE  quota_used(ns, u) \in Nat
<1>1. CASE \E k \in Nodes : TRUE
  BY <1>1, TotalChange, ZenonT(40)
<1>2. CASE Nodes = {}
  <2>1. MAX_N = 0
    <3>1. MAX_N \in Nat /\ ~(1 \in 1 .. MAX_N)
      BY <1>2, VfsAssumption, Zenon DEF Nodes
    <3> QED BY <3>1
  <2>2. PICK f : Totals(f, ns, u, MAX_N) /\ quota_used(ns, u) = f[MAX_N]
    BY TotalIs, Zenon
  <2> QED BY <2>1, <2>2 DEF Totals
<1> QED BY <1>1, <1>2, ZenonT(40)

\* Costing no more is reflexive and transitive.
LEMMA CheaperSteps ==
  ASSUME NEW ns \in [Nodes -> Node], NEW ms \in [Nodes -> Node], NEW ls \in [Nodes -> Node], NEW u
  PROVE  Cheaper(ns, ns, u) /\ (Cheaper(ns, ms, u) /\ Cheaper(ms, ls, u) => Cheaper(ns, ls, u))
<1>1. quota_used(ns, u) \in Nat /\ quota_used(ms, u) \in Nat /\ quota_used(ls, u) \in Nat
  BY TotalNat, Zenon
<1> QED BY <1>1 DEF Cheaper

\* What costs nothing, and what costs the same.
LEMMA Charges ==
  ASSUME NEW u
  PROVE  /\ \A n \in Node : Charge(n, u) \in Nat
         /\ \A n : ~IsPlain(n) => Charge(n, u) = 0
         /\ \A n : n.size = 0 => Charge(n, u) = 0
         /\ \A m, n : SameFile(m, n) /\ m.size = n.size => Charge(m, u) = Charge(n, u)
         /\ \A m, n : SameFile(m, n) => (IsPlain(m) <=> IsPlain(n))
BY Zenon DEF Charge, IsPlain, Node, SameFile

\* A node that costs nothing replaces any.
LEMMA CheaperFree ==
  ASSUME NEW ns \in [Nodes -> Node], NEW k \in Nodes, NEW m \in Node, NEW u, Charge(m, u) = 0
  PROVE  Cheaper(ns, [ns EXCEPT ![k] = m], u)
<1>1. Charge(ns[k], u) \in Nat
  BY Charges, Zenon
<1>2. Charge(m, u) <= Charge(ns[k], u)
  BY <1>1
<1> QED BY <1>2, CheaperOne, Zenon

\* regen_synth() of a /proc page.
LEMMA CheaperRegen ==
  ASSUME NEW ns, Table(ns, bitmap), NEW k \in Nodes, ns[k].used, ~IsPlain(ns[k]), NEW len \in Nat,
         NEW r, r = regen_synth(ns[k], len), NEW u
  PROVE  Cheaper(ns, [ns EXCEPT ![k] = r.n], u)
<1>1. ns \in [Nodes -> Node] /\ ns[k] \in Node
  BY Zenon DEF Table
<1>2. r.n \in Node /\ SameFile(r.n, ns[k])
  BY RegenIn, Zenon
<1>3. Charge(r.n, u) = 0
  BY <1>1, <1>2, Charges, Zenon
<1> QED BY <1>1, <1>2, <1>3, CheaperFree, ZenonT(40)

-----------------------------------------------------------------------------
(* The calls.                                                              *)

\* open() charges nobody anything: a file it makes is empty, one it truncates shrinks.
LEMMA OpenCheaper ==
  ASSUME VfsInv, NEW p \in Pids, NEW path \in Paths, NEW fl \in Flags, Open(p, path, fl), NEW u
  PROVE  Cheaper(nodes, nodes', u)
<1>1. PICK x \in Found(p, path, fl) :
        \/ OpenFile(p, x, fl)
        \/ x.ns[x.i].kind = "synth" /\ OpenSynth(p, x, fl)
        \/ OpenDisplay(p, x, fl)
  BY ZenonT(40) DEF Open
<1>2. Table(x.ns, bitmap) /\ x.i \in Nodes /\ x.ns \in [Nodes -> Node] /\ x.ns[x.i] \in Node
  BY FoundTable, ZenonT(40) DEF Table
<1>3. nodes \in [Nodes -> Node]
  BY Zenon DEF VfsInv, Table
<1>4. Cheaper(nodes, x.ns, u)
  <2>1. CASE x.ns = nodes
    BY <1>3, <2>1, CheaperSteps, Zenon
  <2>2. CASE x.ns # nodes
    <3> DEFINE m == add(p, path, "file")
    <3>1. PICK i \in Nodes : x.ns = [nodes EXCEPT ![i] = m]
      BY <2>2, FoundIn, SMTT(30) DEF Found
    <3>2. m \in Node /\ m.size = 0
      BY AddType, Zenon DEF add
    <3> HIDE DEF m
    <3>3. Charge(m, u) = 0
      BY <3>2, Charges, ZenonT(40)
    <3>4. Cheaper(nodes, [nodes EXCEPT ![i] = m], u)
      BY <1>3, <3>2, <3>3, CheaperFree, ZenonT(40)
    <3> QED BY <3>1, <3>4, Zenon
  <2> QED BY <2>1, <2>2, Zenon
<1>5. (Cheaper(x.ns, nodes', u) /\ nodes' \in [Nodes -> Node]) \/ nodes' = nodes
  <2>1. CASE OpenFile(p, x, fl)
    <3> DEFINE m == [x.ns[x.i] EXCEPT !.size = 0]
    <3>1. nodes' = x.ns \/ nodes' = [x.ns EXCEPT ![x.i] = m]
      BY <2>1, Zenon DEF OpenFile, Emptied
    <3>2. m \in Node /\ m.size = 0
      BY <1>2, ZenonT(40) DEF Node
    <3> HIDE DEF m
    <3>3. Charge(m, u) = 0
      BY <3>2, Charges, ZenonT(40)
    <3>4. Cheaper(x.ns, [x.ns EXCEPT ![x.i] = m], u) /\ Cheaper(x.ns, x.ns, u)
      BY <1>2, <3>2, <3>3, CheaperFree, CheaperSteps, ZenonT(40)
    <3> QED BY <1>2, <3>1, <3>2, <3>4, Zenon
  <2>2. CASE x.ns[x.i].kind = "synth" /\ OpenSynth(p, x, fl)
    <3>1. PICK len \in Counts : \E b \in {regen_synth(x.ns[x.i], len)} :
              nodes' = [x.ns EXCEPT ![x.i] = b.n]
      BY <2>2, ZenonT(40) DEF OpenSynth
    <3> DEFINE b == regen_synth(x.ns[x.i], len)
    <3>2. nodes' = [x.ns EXCEPT ![x.i] = b.n] /\ len \in Nat /\ ~IsPlain(x.ns[x.i])
      BY <2>2, <3>1, VfsAssumption, ZenonT(40) DEF IsPlain
    <3>5. x.ns[x.i].used
      BY FoundTable, ZenonT(40)
    <3>3. Cheaper(x.ns, [x.ns EXCEPT ![x.i] = b.n], u)
      BY <1>2, <3>2, <3>5, CheaperRegen, ZenonT(40)
    <3>4. nodes' \in [Nodes -> Node]
      BY OpenTable, ZenonT(40) DEF Table
    <3> QED BY <3>2, <3>3, <3>4, ZenonT(40)
  <2>3. CASE OpenDisplay(p, x, fl)
    BY <2>3, ZenonT(40) DEF OpenDisplay
  <2> QED BY <1>1, <2>1, <2>2, <2>3, Zenon
<1> QED BY <1>2, <1>3, <1>4, <1>5, CheaperSteps, Zenon

\* The calls on names, but the three that do not ask.
LEMMA NamesCheaper ==
  ASSUME VfsInv, NEW path \in Paths, NEW p \in Pids, NEW u,
         \/ stat(path)
         \/ touch(p, path) \/ mkdir(p, path) \/ rmdir(p, path) \/ unlink(p, path)
         \/ \E mode \in Modes : chmod(p, path, mode)
         \/ \E v \in Uids \ {u} : chown(p, path, v)
  PROVE  Cheaper(nodes, nodes', u)
<1>1. \A i \in {find(nodes, path)} \ {0} : i \in Nodes
  BY FoundIn, ZenonT(40)
<1>2. Counts \subseteq Nat /\ Table(nodes, bitmap) /\ nodes \in [Nodes -> Node]
  BY VfsAssumption, ZenonT(40) DEF VfsInv, Table
<1>3. CASE stat(path)
  <2>1. PICK i \in {find(nodes, path)} \ {0}, len \in Counts :
          /\ nodes[i].kind = "synth"
          /\ \E b \in {regen_synth(nodes[i], len)} : nodes' = [nodes EXCEPT ![i] = b.n]
    BY <1>3, ZenonT(40) DEF stat, Put
  <2> DEFINE b == regen_synth(nodes[i], len)
  <2>2. nodes' = [nodes EXCEPT ![i] = b.n] /\ ~IsPlain(nodes[i]) /\ nodes[i].used
    BY <2>1, FoundIn, ZenonT(40) DEF IsPlain
  <2>3. Cheaper(nodes, [nodes EXCEPT ![i] = b.n], u)
    BY <1>1, <1>2, <2>2, CheaperRegen, ZenonT(40)
  <2> QED BY <2>2, <2>3, Zenon
<1>4. CASE touch(p, path) \/ mkdir(p, path)
  <2>1. PICK i \in Nodes, kind \in {"file", "dir"} : nodes' = [nodes EXCEPT ![i] = add(p, path, kind)]
    BY <1>4, FoundIn, Zenon DEF touch, mkdir, New, Put
  <2> DEFINE m == add(p, path, kind)
  <2>2. m \in Node /\ m.size = 0
    BY AddType, Zenon DEF add
  <2> HIDE DEF m
  <2>3. Charge(m, u) = 0
    BY <2>2, Charges, ZenonT(40)
  <2>4. Cheaper(nodes, [nodes EXCEPT ![i] = m], u)
    BY <1>2, <2>2, <2>3, CheaperFree, ZenonT(40)
  <2> QED BY <2>1, <2>4, Zenon DEF m
<1>5. CASE rmdir(p, path) \/ unlink(p, path)
  <2>1. PICK i \in {find(nodes, path)} \ {0} : nodes' = [nodes EXCEPT ![i] = Gone(@)]
    BY <1>5, ZenonT(40) DEF rmdir, unlink, Drop, Put
  <2> DEFINE r == node_release(nodes[i])
             m == [r EXCEPT !.used = FALSE]
  <2>2. r \in Node
    BY <1>1, <1>2, ReleaseType, ZenonT(40)
  <2>3. nodes' = [nodes EXCEPT ![i] = m]
    BY <2>1, ZenonT(40) DEF Gone
  <2> HIDE DEF r
  <2>4. m \in Node /\ ~m.used
    BY <2>2, Zenon DEF Node
  <2> HIDE DEF m
  <2>5. Charge(m, u) = 0
    BY <2>4, Charges, ZenonT(40) DEF IsPlain
  <2>6. Cheaper(nodes, [nodes EXCEPT ![i] = m], u)
    BY <1>1, <1>2, <2>4, <2>5, CheaperFree, Zenon
  <2> QED BY <2>3, <2>6, ZenonT(40)
<1>6. CASE \E mode \in Modes : chmod(p, path, mode)
  <2>1. PICK i \in {find(nodes, path)} \ {0}, mode \in Modes : nodes' = [nodes EXCEPT ![i].perm = mode]
    BY <1>6, ZenonT(40) DEF chmod, Put
  <2> DEFINE m == [nodes[i] EXCEPT !.perm = mode]
  <2>2. mode \in SUBSET (Classes \X RW) /\ nodes[i] \in Node /\ i \in Nodes
    BY <1>1, <1>2, VfsAssumption, ZenonT(40)
  <2>3. m \in Node /\ SameFile(m, nodes[i]) /\ m.size = nodes[i].size
    BY <2>2, ZenonT(40) DEF Node, SameFile
  <2>4. nodes' = [nodes EXCEPT ![i] = m]
    BY <2>1, Zenon
  <2> HIDE DEF m
  <2>5. Charge(m, u) <= Charge(nodes[i], u)
    <3>1. Charge(m, u) = Charge(nodes[i], u) /\ Charge(nodes[i], u) \in Nat
      BY <2>2, <2>3, Charges, ZenonT(40)
    <3> QED BY <3>1, SMTT(30)
  <2>6. Cheaper(nodes, [nodes EXCEPT ![i] = m], u)
    BY <1>2, <2>2, <2>3, <2>5, CheaperOne, Zenon
  <2> QED BY <2>4, <2>6, ZenonT(40)
<1>7. CASE \E v \in Uids \ {u} : chown(p, path, v)
  <2>1. PICK i \in {find(nodes, path)} \ {0}, v \in Uids \ {u} : nodes' = [nodes EXCEPT ![i].uid = v]
    BY <1>7, ZenonT(40) DEF chown, Put
  <2> DEFINE m == [nodes[i] EXCEPT !.uid = v]
  <2>2. v \in Nat /\ nodes[i] \in Node /\ i \in Nodes
    BY <1>1, <1>2, VfsAssumption, ZenonT(40)
  <2>3. m \in Node /\ m.uid = v
    BY <2>2, ZenonT(40) DEF Node
  <2>4. nodes' = [nodes EXCEPT ![i] = m]
    BY <2>1, ZenonT(40)
  <2> HIDE DEF m
  <2>5. Charge(m, u) = 0
    BY <2>3, Zenon DEF Charge
  <2>6. Cheaper(nodes, [nodes EXCEPT ![i] = m], u)
    BY <1>2, <2>2, <2>3, <2>5, CheaperFree, ZenonT(40)
  <2> QED BY <2>4, <2>6, ZenonT(40)
<1> QED BY <1>3, <1>4, <1>5, <1>6, <1>7, Zenon

\* move_file() of a file: what one node costs more, the other costs less.
LEMMA MoveCheaper ==
  ASSUME VfsInv, NEW from \in Paths, NEW to \in Paths, move_file(from, to),
         IsPlain(nodes[find(nodes, from)]), NEW u
  PROVE  Cheaper(nodes, nodes', u)
<1>0. PICK i \in {find(nodes, from)} \ {0}, j \in {FreeNode(nodes)} \ {0} :
        \E b \in {node_set(Buffer(Copied(nodes[i], to)), nodes[i].size)} :
          IF b.ok THEN nodes' = [nodes EXCEPT ![j] = b.n, ![i] = node_release(@)]
                  ELSE nodes' = [nodes EXCEPT ![j] = [b.n EXCEPT !.used = FALSE]]
  BY DEF move_file, Put
<1>1. i \in Nodes /\ j \in Nodes /\ nodes[i].used /\ ~nodes[j].used
  BY FoundIn, Zenon
<1> DEFINE c == Copied(nodes[i], to)
           b == node_set(Buffer(c), nodes[i].size)
           s == node_reserve(Start(bitmap, c), nodes[i].size)
<1>2. Table(nodes, bitmap) /\ nodes \in [Nodes -> Node] /\ bitmap \in SUBSET (1 .. Frames)
  BY Zenon DEF VfsInv, Table
<1>3. nodes[i] \in Node /\ nodes[i].size \in Nat /\ i # j /\ IsPlain(nodes[i])
  BY <1>1, <1>2, Zenon DEF Node
<1>4. c \in Node /\ SameFile(c, nodes[i]) /\ Held(c) = {}
  <2> DEFINE r == node_release(nodes[i])
  <2>1. r \in Node /\ r.at = 0 /\ to \in Seq(STRING)
    BY <1>3, ReleaseType, VfsAssumption, ZenonT(40)
  <2>2. r.used = nodes[i].used /\ r.uid = nodes[i].uid
    BY <1>3, ZenonT(40) DEF node_release, Node
  <2>3. c = [r EXCEPT !.path = to, !.kind = "file"]
    BY Zenon DEF Copied
  <2> HIDE DEF r, c
  <2>4. c \in Node /\ c.at = 0 /\ c.used = r.used /\ c.uid = r.uid /\ c.kind = "file"
    <3> DEFINE m == [r EXCEPT !.path = to]
    <3>1. m \in Node
      BY <2>1, Zenon DEF Node
    <3>2. m.at = r.at /\ m.used = r.used /\ m.uid = r.uid
      BY <2>1, Zenon DEF Node
    <3>3. c = [m EXCEPT !.kind = "file"]
      BY <2>3, Zenon
    <3> HIDE DEF m
    <3>4. c \in Node
      BY <3>1, <3>3, Zenon DEF Node
    <3>5. c.at = m.at /\ c.used = m.used /\ c.uid = m.uid /\ c.kind = "file"
      BY <3>1, <3>3, Zenon DEF Node
    <3> QED BY <2>1, <3>2, <3>4, <3>5, Zenon
  <2>5. SameFile(c, nodes[i])
    BY <1>3, <2>2, <2>4, Zenon DEF SameFile, IsPlain
  <2>6. Held(c) = {}
    BY <2>4, Zenon DEF Held
  <2> QED BY <2>4, <2>5, <2>6, Zenon
<1> HIDE DEF c
<1>5. Resized(bitmap, c, b)
  BY <1>2, <1>3, <1>4, SetRebuffers, BufferStart, ZenonT(40)
<1>6. b.n \in Node /\ SameFile(b.n, nodes[i])
  <2>1. b.n \in Node /\ SameFile(b.n, c)
    BY <1>5, ZenonT(40) DEF Resized, Work
  <2> HIDE DEF b
  <2> QED BY <1>4, <2>1, SameFiles, Zenon
<1>7. CASE b.ok
  <2> DEFINE r == node_release(nodes[i])
             ns == [nodes EXCEPT ![j] = b.n]
  <2>1. b.n.size = nodes[i].size
    <3>1. Start(bitmap, c) \in Work /\ Start(bitmap, c).bm = bitmap /\ Start(bitmap, c).n = c /\ Start(bitmap, c).ok
      BY <1>2, <1>4, StartType, ZenonT(40)
    <3>2. Rebuffered(bitmap, c, s)
      BY <1>3, <1>4, <3>1, ReserveRebuffers, ZenonT(40)
    <3>3. s \in Work /\ s.n \in Node
      BY <3>2, ZenonT(40) DEF Rebuffered, Resized, Work
    <3>4. b = Sized(s, nodes[i].size)
      BY BufferStart, ZenonT(40) DEF node_set
    <3> HIDE DEF b, s
    <3>5. b = [s EXCEPT !.n.size = nodes[i].size]
      BY <1>7, <3>4, ZenonT(40) DEF Sized
    <3>6. b.n = [s.n EXCEPT !.size = nodes[i].size]
      BY <3>3, <3>5, ZenonT(40) DEF Work
    <3> QED BY <3>3, <3>6, ZenonT(40) DEF Node
  <2>2. nodes' = [nodes EXCEPT ![j] = b.n, ![i] = node_release(@)]
    BY <1>0, <1>7, ZenonT(40) DEF c
  <2> HIDE DEF b
  <2>3. ns \in [Nodes -> Node] /\ ns[i] = nodes[i] /\ ns[j] = b.n
        /\ \A k \in Nodes : k # j => ns[k] = nodes[k]
    BY <1>1, <1>2, <1>3, <1>6, ZenonT(40)
  <2>4. nodes' = [ns EXCEPT ![i] = r]
    BY <2>2, <2>3, Zenon
  <2>5. r \in Node /\ r.size = 0
    BY <1>3, ReleaseType, Zenon
  <2> HIDE DEF r, ns
  <2>6. nodes' \in [Nodes -> Node] /\ nodes'[i] = r /\ \A k \in Nodes : k # i => nodes'[k] = ns[k]
    BY <1>1, <2>3, <2>4, <2>5, ZenonT(40)
  <2>7. Charge(r, u) = 0 /\ Charge(nodes[j], u) = 0 /\ Charge(b.n, u) = Charge(nodes[i], u)
    BY <1>1, <1>6, <2>1, <2>5, Charges, ZenonT(40) DEF IsPlain
  <2>8. /\ quota_used(nodes, u) \in Nat /\ quota_used(ns, u) \in Nat
        /\ quota_used(ns, u) = quota_used(nodes, u) - Charge(nodes[j], u) + Charge(b.n, u)
    BY <1>1, <1>2, <2>3, TotalChange, SMTT(30)
  <2>9. /\ quota_used(nodes', u) \in Nat /\ Charge(nodes[i], u) \in Nat
        /\ quota_used(nodes', u) = quota_used(ns, u) - Charge(nodes[i], u) + Charge(r, u)
    <3>1. /\ quota_used(ns, u) \in Nat /\ quota_used(nodes', u) \in Nat
          /\ Charge(ns[i], u) \in Nat /\ Charge(nodes'[i], u) \in Nat
          /\ quota_used(nodes', u) = quota_used(ns, u) - Charge(ns[i], u) + Charge(nodes'[i], u)
      BY <1>1, <2>3, <2>6, TotalChange, ZenonT(40)
    <3> QED BY <2>3, <2>6, <3>1, ZenonT(40)
  <2> QED BY <2>7, <2>8, <2>9, SMTT(30) DEF Cheaper
<1>8. CASE ~b.ok
  <2> DEFINE m == [b.n EXCEPT !.used = FALSE]
  <2>1. nodes' = [nodes EXCEPT ![j] = m]
    BY <1>0, <1>8, Zenon DEF c
  <2> HIDE DEF b
  <2>2. m \in Node /\ ~m.used
    BY <1>6, Zenon DEF Node
  <2> HIDE DEF m
  <2>3. Charge(m, u) = 0
    BY <2>2, Charges, Zenon DEF IsPlain
  <2> QED BY <1>1, <1>2, <2>1, <2>2, <2>3, CheaperFree, Zenon
<1> QED BY <1>7, <1>8, ZenonT(40)

\* Limits are numbers, whoever set them.
QuotaType ==
  /\ quota = [entries |-> quota.entries, default |-> quota.default]
  /\ quota.default \in Nat
  /\ \A u \in DOMAIN quota.entries : quota.entries[u] \in Nat

\* The limits stay limits.
LEMMA QuotaStep ==
  ASSUME QuotaType, [Next]_vars
  PROVE  QuotaType'
<1>1. CASE UNCHANGED quota
  BY <1>1, Zenon DEF QuotaType
<1>2. CASE \E p \in Pids, l \in Limits : quota_set_default(p, l)
  <2>1. PICK l \in Limits : quota' = [quota EXCEPT !.default = l]
    BY <1>2, Zenon DEF quota_set_default
  <2>2. l \in Nat
    BY VfsAssumption, Zenon
  <2>3. quota' = [entries |-> quota.entries, default |-> l]
    BY <2>1, Zenon DEF QuotaType
  <2> QED BY <2>2, <2>3, Zenon DEF QuotaType
<1>3. CASE \E p \in Pids, l \in Limits, u \in Uids : quota_set(p, u, l)
  <2>1. PICK l \in Limits, u \in Uids :
          quota' = [quota EXCEPT !.entries = [v \in {u} \cup DOMAIN @ |-> IF v = u THEN l ELSE quota.entries[v]]]
    BY <1>3, ZenonT(40) DEF quota_set
  <2> DEFINE es == [v \in {u} \cup DOMAIN quota.entries |-> IF v = u THEN l ELSE quota.entries[v]]
  <2>2. l \in Nat
    BY VfsAssumption, ZenonT(40)
  <2>3. quota' = [entries |-> es, default |-> quota.default]
    BY <2>1, ZenonT(40) DEF QuotaType
  <2>4. \A v \in DOMAIN es : es[v] \in Nat
    BY <2>2, ZenonT(40) DEF QuotaType
  <2> HIDE DEF es
  <2> QED BY <2>3, <2>4, Zenon DEF QuotaType
<1>4. Ends \/ Descriptors \/ DesktopStarts \/ DesktopEnds \/ UNCHANGED vars => UNCHANGED quota
  BY ZenonT(40) DEF vars, Ends, Respawn, Exit, Close, Descriptors, dup_fd, dup2_fd, getdents, Read, Write, Lseek,
         DesktopStarts, DesktopEnds
<1>5. Names => UNCHANGED quota
  <2>1. \A ns : Put(ns) => UNCHANGED quota
    BY Zenon DEF Put
  <2>2. \A path : stat(path) => UNCHANGED quota
    BY <2>1, Zenon DEF stat
  <2>3. \A path, n : set_path(path, n) => UNCHANGED quota
    BY <2>1, Zenon DEF set_path
  <2>4. \A path, to : move_file(path, to) => UNCHANGED quota
    BY <2>1, Zenon DEF move_file
  <2>5. \A p, path, fl : Open(p, path, fl) => UNCHANGED quota
    BY Zenon DEF Open
  <2>6. \A p, path : touch(p, path) \/ mkdir(p, path) => UNCHANGED quota
    BY <2>1, Zenon DEF touch, mkdir, New
  <2>7. \A p, path : rmdir(p, path) \/ unlink(p, path) => UNCHANGED quota
    BY <2>1, Zenon DEF rmdir, unlink, Drop
  <2>8. \A p, path, m : chmod(p, path, m) \/ chown(p, path, m) => UNCHANGED quota
    BY <2>1, Zenon DEF chmod, chown
  <2> QED BY <2>2, <2>3, <2>4, <2>5, <2>6, <2>7, <2>8, Zenon DEF Names
<1>6. Rules => \/ \E p \in Pids, l \in Limits : quota_set_default(p, l)
               \/ \E p \in Pids, l \in Limits, u \in Uids : quota_set(p, u, l)
  BY ZenonT(40) DEF Rules
<1> QED BY <1>1, <1>2, <1>3, <1>4, <1>5, <1>6, ZenonT(40) DEF Next

\* write(): within the limit of the file's owner, if the file grows.
LEMMA WriteWithin ==
  ASSUME VfsInv, QuotaType, NEW p \in Pids, NEW fd \in Fds, NEW count \in Counts,
         Write(p, fd, count), NEW u
  PROVE  Cheaper(nodes, nodes', u) \/ Within(quota', nodes', u)
<1>1. PICK i \in On(p, fd, {"file"}, {"w"}) :
        WriteAt(fd, i, IF files[fd].append THEN nodes[i].size ELSE files[fd].pos, count)
  BY Zenon DEF Write
<1>2. i \in Nodes /\ nodes[i].used /\ nodes[i].kind = "file" /\ files[fd].pos \in Nat
  BY <1>1, SMTT(30) DEF On, VfsInv, File, Nodes
<1>3. nodes \in [Nodes -> Node] /\ Held(nodes[i]) \subseteq bitmap /\ bitmap \in SUBSET (1 .. Frames)
  BY <1>2, Zenon DEF VfsInv, Table, Accounted
<1>4. nodes[i] \in Node /\ nodes[i].size \in Nat
  BY <1>2, <1>3, Zenon DEF Node
<1>5. PICK pos \in Nat : WriteAt(fd, i, pos, count)
  BY <1>1, <1>2, <1>4, Zenon
<1>6. CASE UNCHANGED nodes
  BY <1>3, <1>6, CheaperSteps, Zenon
<1>7. CASE ~UNCHANGED nodes
  <2> DEFINE b == node_reserve(Start(bitmap, nodes[i]), pos + count)
             end == pos + Fitting(b, pos, count)
             m == [b.n EXCEPT !.size = AtLeast(@, end)]
             limit == quota_limit(quota, nodes[i].uid)
             used == quota_used(nodes, nodes[i].uid)
  <2>1. pos + count \in Nat /\ count \in Nat
    BY VfsAssumption
  <2>2. nodes' = [nodes EXCEPT ![i] = m] /\ ~NoQuota(nodes[i], used, limit, pos + count)
    BY <1>5, <1>7, BufferStart, Zenon DEF WriteAt, Written, OverQuota
  <2>3. b.n \in Node /\ SameFile(b.n, nodes[i]) /\ b.n.size = nodes[i].size /\ b.n.cap \in Nat
    <3> DEFINE w == Start(bitmap, nodes[i])
    <3>1. w \in Work /\ w.bm = bitmap /\ w.n = nodes[i] /\ w.ok
      BY <1>3, <1>4, StartType, Zenon
    <3>2. Rebuffered(bitmap, nodes[i], b)
      <4> HIDE DEF w
      <4> QED BY <1>3, <2>1, <3>1, ReserveRebuffers, Zenon DEF w
    <3> QED BY <3>2, ZenonT(40) DEF Rebuffered, Resized, Work, Node
  <2> HIDE DEF b
  <2>4. end \in Nat /\ end <= pos + count
    BY <2>1, <2>3, SMTT(30) DEF Fitting, AtMost, AtLeast
  <2> HIDE DEF end
  <2>5. AtLeast(nodes[i].size, end) \in Nat
    BY <1>4, <2>4, ZenonT(40) DEF AtLeast
  <2>6. m \in Node /\ SameFile(m, b.n) /\ m.size = AtLeast(nodes[i].size, end)
    BY <2>3, <2>5, ZenonT(40) DEF Node, SameFile
  <2> HIDE DEF m
  <2>7. SameFile(m, nodes[i])
    BY <2>3, <2>6, SameFiles, ZenonT(40)
  <2>8. CASE u # nodes[i].uid
    <3>1. Charge(m, u) = 0
      BY <2>7, <2>8, ZenonT(40) DEF Charge, SameFile
    <3> QED BY <1>2, <1>3, <2>2, <2>6, <3>1, CheaperFree, ZenonT(40)
  <2>9. CASE u = nodes[i].uid
    <3>1. Charge(m, u) = m.size /\ Charge(nodes[i], u) = nodes[i].size
      BY <1>2, <2>7, <2>9, ZenonT(40) DEF Charge, SameFile, IsPlain
    <3>2. nodes' \in [Nodes -> Node] /\ nodes'[i] = m /\ \A k \in Nodes : k # i => nodes'[k] = nodes[k]
      BY <1>2, <1>3, <2>2, <2>6, ZenonT(40)
    <3>3. /\ used \in Nat /\ quota_used(nodes', u) \in Nat
          /\ quota_used(nodes', u) = used - nodes[i].size + m.size
      <4>1. /\ quota_used(nodes, u) \in Nat /\ quota_used(nodes', u) \in Nat
            /\ Charge(nodes[i], u) \in Nat /\ Charge(nodes'[i], u) \in Nat
            /\ quota_used(nodes', u) = quota_used(nodes, u) - Charge(nodes[i], u) + Charge(nodes'[i], u)
        BY <1>2, <1>3, <3>2, TotalChange, ZenonT(40)
      <4> QED BY <2>9, <3>1, <3>2, <4>1, ZenonT(40)
    <3>4. limit \in Nat
      BY Zenon DEF quota_limit, QuotaType
    <3>5. quota' = quota
      BY Zenon DEF Write
    <3> HIDE DEF limit, used
    <3>6. CASE m.size <= nodes[i].size
      <4>1. quota_used(nodes', u) <= used
        <5>1. nodes[i].size \in Nat /\ m.size \in Nat
          BY <1>4, <2>5, <2>6, Zenon
        <5> QED BY <3>3, <3>6, <5>1, SMTT(30)
      <4> QED BY <2>9, <4>1, Zenon DEF Cheaper, used
    <3>7. CASE ~(m.size <= nodes[i].size)
      <4>1. m.size <= pos + count /\ pos + count > nodes[i].size
        BY <1>4, <2>1, <2>4, <2>6, <3>7, SMTT(30) DEF AtLeast
      <4>2. limit = 0 \/ (used < limit /\ pos + count - nodes[i].size <= limit - used)
        BY <1>4, <2>1, <2>2, <3>3, <3>4, <4>1, SMTT(30) DEF NoQuota
      <4>3. limit = 0 \/ quota_used(nodes', u) <= limit
        BY <1>4, <2>1, <2>5, <2>6, <3>3, <3>4, <4>1, <4>2, SMTT(30)
      <4> QED BY <2>9, <3>5, <4>3, ZenonT(40) DEF Within, limit
    <3> QED BY <3>6, <3>7, ZenonT(40)
  <2> QED BY <2>8, <2>9, Zenon
<1> QED BY <1>6, <1>7, Zenon

\* What a user stores grows past the limit by a change of owner, a file that the
\* kernel replaces and a /proc page that is moved, and in no other way.
THEOREM QuotaAlwaysHeld == Spec => QuotaHeld
<1>1. Init => QuotaType
  BY DEF Init, QuotaType
<1>2. QuotaType /\ [Next]_vars => QuotaType'
  BY QuotaStep, Zenon
<1>3. ASSUME VfsInv, QuotaType, Next, NEW u \in Uids
      PROVE  Cheaper(nodes, nodes', u) \/ Within(quota', nodes', u) \/ Unasked(u)
  <2>1. nodes \in [Nodes -> Node]
    BY <1>3, ZenonT(40) DEF VfsInv, Table
  <2>2. CASE UNCHANGED nodes
    BY <2>1, <2>2, CheaperSteps, ZenonT(40)
  <2>3. CASE \E p \in Pids, fd \in Fds, n \in Counts : Write(p, fd, n)
    BY <1>3, <2>3, WriteWithin, Zenon
  <2>4. CASE Names
    <3>1. CASE \E p \in Pids, path \in Paths : \/ stat(path)
             \/ touch(p, path) \/ mkdir(p, path) \/ rmdir(p, path) \/ unlink(p, path)
             \/ \E mode \in Modes : chmod(p, path, mode)
      BY <1>3, <3>1, NamesCheaper, Zenon
    <3>2. CASE \E p \in Pids, path \in Paths, fl \in Flags : Open(p, path, fl)
      BY <1>3, <3>2, OpenCheaper, Zenon
    <3>3. CASE \E path \in Paths, n \in Counts : set_path(path, n)
      BY <3>3, Zenon DEF Unasked
    <3>4. CASE \E from \in Paths, to \in Paths : move_file(from, to)
      BY <1>3, <3>4, MoveCheaper, Zenon DEF Unasked
    <3>5. CASE \E p \in Pids, path \in Paths, v \in Uids : chown(p, path, v)
      BY <1>3, <3>5, NamesCheaper, Zenon DEF Unasked
    <3> QED BY <2>4, <3>1, <3>2, <3>3, <3>4, <3>5, VfsAssumption, Zenon DEF Names
  <2> QED BY <1>3, <2>2, <2>3, <2>4, RulesQuiet, ZenonT(40) DEF Next, Ends, Respawn, Exit, Close, Descriptors, dup_fd, dup2_fd,
        getdents, Read, Lseek, DesktopStarts, DesktopEnds
<1>4. VfsInv /\ QuotaType /\ [Next]_vars =>
        [\A u \in Uids :
           quota_used(nodes', u) <= quota_used(nodes, u) \/ Within(quota', nodes', u) \/ Unasked(u)]_vars
  BY <1>3, Zenon DEF Cheaper
<1> QED BY <1>1, <1>2, <1>4, VfsAlways, PTL DEF Spec, QuotaHeld
=============================================================================
