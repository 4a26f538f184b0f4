-------------------------------- MODULE Vfs --------------------------------
(***************************************************************************)
(* The half of kernel/fs/vfs.cpp that keeps its files in memory: the node  *)
(* table, whose buffers are runs of frames of the pool, the descriptor     *)
(* table that all processes share, quotas, and the display that a          *)
(* descriptor on /dev/fb0 holds (drivers/fb.cpp).  Files on a mounted      *)
(* volume are in Mount, pipes in Pipe.                                     *)
(*                                                                         *)
(* Of a file's contents only the size is kept, and of its buffer only      *)
(* where it is and how long.  A call that is refused without a trace is no *)
(* step; a refusal that leaves one is.                                     *)
(***************************************************************************)
EXTENDS Integers, Sequences, FiniteSets, FiniteSetsExt, TLC

CONSTANTS Pids, Init1,   \* processes, and the one that is started again
          UidOf, GidOf,  \* [Pids -> Nat], 0 is root
          Uids,          \* to whom files may be given
          MAX_N, MAX_FD, \* nodes and descriptors
          STDIO,         \* how many descriptors are the console's: 3
          Frames,        \* frames in the pool
          PAGE,          \* bytes of a frame
          Tree,          \* the nodes there are to begin with
          Paths,         \* sequences of names that calls may be given
          KernelPaths,   \* files that the kernel replaces
          Flags,         \* of open(): records of acc, creat, trunc and append
          Modes,         \* permissions that chmod may be given
          Counts,        \* lengths of reads, writes and replacements
          Limits,        \* quotas that may be set, 0 is none
          MaxPos,        \* bound on positions
          Budgets        \* how many calls of each kind, and on which paths

Classes == {"u", "g", "o"}
RW == {"r", "w"}

\* A node of the table, and what open() is asked for.
Node == [used: BOOLEAN, path: Seq(STRING), kind: {"file", "dir", "synth", "fb"},
         perm: SUBSET (Classes \X RW), uid: Nat, gid: Nat, at: Nat, cap: Nat, size: Nat]
OpenFlags == [acc: SUBSET RW, creat: BOOLEAN, trunc: BOOLEAN, append: BOOLEAN]

ASSUME VfsAssumption ==
  /\ UidOf \in [Pids -> Nat] /\ GidOf \in [Pids -> Nat] /\ Uids \subseteq Nat
  /\ Init1 \in Pids /\ UidOf[Init1] = 0
  /\ MAX_N \in Nat /\ STDIO \in Nat \ {0} /\ MAX_FD \in Nat /\ MAX_FD > STDIO
  /\ Frames \in Nat /\ PAGE \in Nat \ {0} /\ MaxPos \in Nat /\ Counts \subseteq Nat /\ Limits \subseteq Nat
  /\ Paths \subseteq Seq(STRING) /\ Flags \subseteq OpenFlags
  /\ Modes \subseteq SUBSET (Classes \X RW)
  /\ Tree \in Seq(Node) /\ Len(Tree) <= MAX_N

VARIABLES nodes, files, bitmap, alive, quota,
          display, \* a graphics mode with a frame is up (gfx), /dev/fb0 entered
                   \* it (took), a program (prog) or the desktop (desk) presents
          left     \* calls that may still be made, by kind, and the paths

vars == <<nodes, files, bitmap, alive, quota, display, left>>

Nodes == 1 .. MAX_N
Fds == 0 .. MAX_FD - 1
OwnFds == STDIO .. MAX_FD - 1

Lowest(S) == IF S = {} THEN 0 ELSE Min(S)
AtMost(a, b) == IF a <= b THEN a ELSE b
AtLeast(a, b) == IF a >= b THEN a ELSE b

Spend(k) == left[k] > 0 /\ left' = [left EXCEPT ![k] = @ - 1]
SpendOn(k, S) == S \subseteq left.paths /\ Spend(k)

-----------------------------------------------------------------------------
(* Buffers: a run of frames, and how a node gets a longer one.  A working  *)
(* state b is a bitmap, a node and whether all went well.                  *)

Pages(n) == (n + PAGE - 1) \div PAGE
Run(at, k) == at .. at + k - 1
Held(n) == IF n.at = 0 THEN {} ELSE Run(n.at, n.cap \div PAGE)

alloc_contig(bm, k) ==
  IF k = 0 THEN 0 ELSE Lowest({i \in 1 .. Frames : Run(i, k) \subseteq (1 .. Frames) \ bm})

node_release(n) == [n EXCEPT !.at = 0, !.cap = 0, !.size = 0]

\* Mutant: the old run is not given back.
MovedKeepsOld(b, at, k) ==
  IF at = 0 THEN [b EXCEPT !.ok = FALSE]
  ELSE [bm |-> b.bm \cup Run(at, k), n |-> [b.n EXCEPT !.at = at, !.cap = k * PAGE], ok |-> TRUE]

Moved(b, at, k) ==
  IF at = 0 THEN [b EXCEPT !.ok = FALSE]
  ELSE [bm |-> (b.bm \cup Run(at, k)) \ Held(b.n), n |-> [b.n EXCEPT !.at = at, !.cap = k * PAGE], ok |-> TRUE]

Grown(b, k) == Moved(b, alloc_contig(b.bm, k), k)
Wanted(n, need) == AtLeast(Pages(need), 2 * (n.cap \div PAGE))
node_reserve(b, need) ==
  IF need <= b.n.cap THEN b
  ELSE Grown(b, Wanted(b.n, need))

Sized(b, len) == IF b.ok THEN [b EXCEPT !.n.size = len] ELSE b
node_set(b, len) == Sized(node_reserve(b, len), len)

Buffer(n) == [bm |-> bitmap, n |-> n, ok |-> TRUE]

\* A /proc page with a text of len bytes.  Its size is that before there is
\* room for it, and stays so if there is none.
regen_synth(n, len) == node_set(Buffer([n EXCEPT !.size = len]), len)

-----------------------------------------------------------------------------
(* Names and rights.                                                       *)

NoNode == [used |-> FALSE, path |-> <<>>, kind |-> "file", perm |-> {}, uid |-> 0,
           gid |-> 0, at |-> 0, cap |-> 0, size |-> 0]

find(ns, path) == Lowest({i \in Nodes : ns[i].used /\ ns[i].path = path})
Above(path) == SubSeq(path, 1, Len(path) - 1)
parent_dir(ns, path) == find(ns, Above(path))
FreeNode(ns) == Lowest({i \in Nodes : ~ns[i].used})

Default == {<<"u", "w">>} \cup (Classes \X {"r"})

add(p, path, kind) ==
  [used |-> TRUE, path |-> path, kind |-> kind, perm |-> Default, uid |-> UidOf[p],
   gid |-> GidOf[p], at |-> 0, cap |-> 0, size |-> 0]

ClassOf(p, n) == IF UidOf[p] = n.uid THEN "u" ELSE IF GidOf[p] = n.gid THEN "g" ELSE "o"
have_access(p, n, want) == UidOf[p] = 0 \/ {ClassOf(p, n)} \X want \subseteq n.perm

\* The parent is there and may be changed; it need not be a directory.
MayChangeIn(p, path) ==
  \E i \in {parent_dir(nodes, path)} \ {0} : have_access(p, nodes[i], {"w"})

-----------------------------------------------------------------------------
(* The display behind /dev/fb0.                                            *)

ensure_frame(d) ==
  IF d.gfx THEN {[prep |-> "Shared", d |-> d]}
  ELSE {[prep |-> "Refused", d |-> d], [prep |-> "Refused", d |-> [d EXCEPT !.took = FALSE]],
        [prep |-> "TookMode", d |-> [d EXCEPT !.gfx = TRUE, !.took = TRUE, !.prog = TRUE]]}

release(d) == [d EXCEPT !.prog = FALSE, !.took = FALSE, !.gfx = @ /\ (d.desk \/ ~d.took)]
undo_open(prep, d) == IF prep = "TookMode" THEN release(d) ELSE d

\* enter_gfx_mode() and the flag, as the desktop starts; and as it ends.
DesktopStarts ==
  /\ Spend("desk") /\ ~display.desk
  /\ display' = [display EXCEPT !.gfx = TRUE, !.desk = TRUE]
  /\ UNCHANGED <<nodes, files, bitmap, alive, quota>>
DesktopEnds ==
  /\ Spend("desk") /\ display.desk
  /\ display' = [display EXCEPT !.gfx = FALSE, !.desk = FALSE]
  /\ UNCHANGED <<nodes, files, bitmap, alive, quota>>

-----------------------------------------------------------------------------
(* Descriptors.                                                            *)

Console == [used |-> TRUE, pos |-> 0, append |-> FALSE, node |-> 0, owner |-> 0]
NoFd == [Console EXCEPT !.used = FALSE]
reset_stdio(fs) == [i \in Fds |-> IF i < STDIO THEN Console ELSE fs[i]]

FreeFd(fs) == Lowest({i \in OwnFds : ~fs[i].used})
OnDisplay(fs, i) == fs[i].used /\ fs[i].node # 0 /\ nodes[fs[i].node].kind = "fb"
FbFds(fs) == {i \in OwnFds : OnDisplay(fs, i)}

\* A working state of descriptors and display.
Closed(w, fs, wasFb) == [fs |-> fs, d |-> IF wasFb /\ FbFds(fs) = {} THEN release(w.d) ELSE w.d]
close(w, i) == Closed(w, [w.fs EXCEPT ![i] = NoFd], w.fs[i].node # 0 /\ nodes[w.fs[i].node].kind = "fb")

\* Lowest slot first; then the standard ones, all of them if one was p's.
Redirected(fs, p) == \E i \in 0 .. STDIO - 1 : fs[i].owner = p /\ fs[i].node # 0
Restored(w, p) == IF Redirected(w.fs, p) THEN [w EXCEPT !.fs = reset_stdio(@)] ELSE w
CloseIfOf(w, p, i) == IF w.fs[i].used /\ w.fs[i].owner = p THEN close(w, i) ELSE w
\* Mutant: the whole table is cleared behind the driver's back.
CloseOwnBlindly(p) ==
  [fs |-> [i \in Fds |-> IF i >= STDIO /\ files[i].owner = p THEN NoFd ELSE files[i]], d |-> display]

CloseOwn(p) ==
  LET w[i \in STDIO - 1 .. MAX_FD - 1] ==
        IF i < STDIO THEN [fs |-> files, d |-> display] ELSE CloseIfOf(w[i - 1], p, i)
  IN w[MAX_FD - 1]
close_all_of(p) == Restored(CloseOwn(p), p)

\* open() once the node is known: nothing to give it, or the lowest slot.
Opened(p, i, append) ==
  IF FreeFd(files) = 0 THEN files
  ELSE [files EXCEPT ![FreeFd(files)] =
          [used |-> TRUE, pos |-> 0, append |-> append, node |-> i, owner |-> p]]
Emptied(ns, i, trunc) ==
  IF trunc /\ ns[i].kind = "file" /\ FreeFd(files) # 0 THEN [ns EXCEPT ![i].size = 0] ELSE ns

\* What is open()ed: the node there is, or a new one.
Found(p, path, fl) ==
  IF find(nodes, path) # 0 THEN {[ns |-> nodes, i |-> find(nodes, path)]}
  ELSE {[ns |-> [nodes EXCEPT ![i] = add(p, path, "file")], i |-> i] :
          i \in {j \in {FreeNode(nodes)} \ {0} : fl.creat /\ MayChangeIn(p, path)}}
MayOpen(p, n, fl) == ~(n.kind = "dir" /\ fl.acc = {"w"}) /\ have_access(p, n, fl.acc)

\* /proc files are generated anew, the display is prepared and mapped.
OpenFile(p, x, fl) ==
  /\ nodes' = Emptied(x.ns, x.i, fl.trunc) /\ files' = Opened(p, x.i, fl.append)
  /\ UNCHANGED <<bitmap, display>>
OpenSynth(p, x, fl) ==
  \E b \in {regen_synth(x.ns[x.i], len) : len \in Counts} :
    /\ nodes' = [x.ns EXCEPT ![x.i] = b.n] /\ bitmap' = b.bm
    /\ files' = Opened(p, x.i, fl.append) /\ UNCHANGED display
OpenDisplay(p, x, fl) ==
  \E y \in ensure_frame(display), mapped \in BOOLEAN :
    /\ UNCHANGED <<nodes, bitmap>>
    /\ IF y.prep # "Refused" /\ mapped
         THEN files' = Opened(p, x.i, fl.append) /\ display' = y.d
         ELSE UNCHANGED files /\ display' = undo_open(y.prep, y.d)

Open(p, path, fl) ==
  /\ SpendOn("open", {path}) /\ p \in alive
  /\ \E x \in Found(p, path, fl) :
       /\ MayOpen(p, x.ns[x.i], fl)
       /\ \/ x.ns[x.i].kind \in {"file", "dir"} /\ OpenFile(p, x, fl)
          \/ x.ns[x.i].kind = "synth" /\ OpenSynth(p, x, fl)
          \/ x.ns[x.i].kind = "fb" /\ OpenDisplay(p, x, fl)
  /\ UNCHANGED <<alive, quota>>

Close(p, fd) ==
  /\ Spend("close") /\ p \in alive
  /\ fd \in OwnFds /\ files[fd].used
  /\ \E w \in {close([fs |-> files, d |-> display], fd)} : files' = w.fs /\ display' = w.d
  /\ UNCHANGED <<nodes, bitmap, alive, quota>>

\* Mutant: the copy is still the other process's.
dup_fdKeepsOwner(p, fd) ==
  /\ Spend("dup") /\ p \in alive /\ files[fd].used
  /\ \E i \in {FreeFd(files)} \ {0} : files' = [files EXCEPT ![i] = files[fd]]
  /\ UNCHANGED <<nodes, bitmap, alive, quota, display>>

dup_fd(p, fd) ==
  /\ Spend("dup") /\ p \in alive /\ files[fd].used
  /\ \E i \in {FreeFd(files)} \ {0} : files' = [files EXCEPT ![i] = [files[fd] EXCEPT !.owner = p]]
  /\ UNCHANGED <<nodes, bitmap, alive, quota, display>>

\* What was at newfd is gone without a close().
dup2_fd(p, oldfd, newfd) ==
  /\ Spend("dup") /\ p \in alive /\ files[oldfd].used /\ oldfd # newfd
  /\ files' = [files EXCEPT ![newfd] = [files[oldfd] EXCEPT !.owner = p]]
  /\ UNCHANGED <<nodes, bitmap, alive, quota, display>>

\* The end of a process, by itself or by a signal.
Exit(p) ==
  /\ Spend("exit") /\ p \in alive /\ alive' = alive \ {p}
  /\ \E w \in {close_all_of(p)} : files' = w.fs /\ display' = w.d
  /\ UNCHANGED <<nodes, bitmap, quota>>
Respawn ==
  /\ Init1 \notin alive /\ alive' = alive \cup {Init1}
  /\ files' = reset_stdio(files)
  /\ UNCHANGED <<nodes, bitmap, quota, display, left>>

-----------------------------------------------------------------------------
(* Reading and writing.                                                    *)

\* The node of a descriptor that is on one that is still there, with a
\* right that p has to it.
On(p, fd, kinds, want) ==
  {i \in {files[fd].node} \ {0} : /\ p \in alive /\ files[fd].used /\ nodes[i].used
                                 /\ nodes[i].kind \in kinds /\ have_access(p, nodes[i], want)}
PosAt(fd, pos) == files' = [files EXCEPT ![fd].pos = pos]

Read(p, fd, count) ==
  /\ Spend("io")
  /\ \E i \in On(p, fd, {"file", "synth"}, {"r"}) :
       PosAt(fd, files[fd].pos + AtMost(count, AtLeast(nodes[i].size - files[fd].pos, 0)))
  /\ UNCHANGED <<nodes, bitmap, alive, quota, display>>

\* With room for one entry; position counts the entries handed out.
Children(path) == {i \in Nodes : nodes[i].used /\ nodes[i].path # <<>> /\ Above(nodes[i].path) = path}
getdents(p, fd) ==
  /\ Spend("io")
  /\ \E i \in On(p, fd, {"dir"}, {"r"}) :
       /\ files[fd].pos < Cardinality(Children(nodes[i].path))
       /\ PosAt(fd, files[fd].pos + 1)
  /\ UNCHANGED <<nodes, bitmap, alive, quota, display>>

\* From the beginning, the position or the end.
Lseek(p, fd, off) ==
  /\ Spend("io")
  /\ \E i \in On(p, fd, {"file", "dir", "synth"}, {}) :
       \E base \in {0, files[fd].pos, nodes[i].size} :
         base + off <= MaxPos /\ PosAt(fd, AtLeast(base + off, 0))
  /\ UNCHANGED <<nodes, bitmap, alive, quota, display>>

IsPlain(n) == n.used /\ n.kind = "file"

\* The sum stays below UINT32_MAX, where the code stops counting: MaxPos bounds sizes.
Charge(n, u) == IF IsPlain(n) /\ n.uid = u THEN n.size ELSE 0
quota_used(ns, u) ==
  LET total[i \in 0 .. MAX_N] == IF i = 0 THEN 0 ELSE total[i - 1] + Charge(ns[i], u)
  IN total[MAX_N]
quota_limit(q, u) == IF u \in DOMAIN q.entries THEN q.entries[u] ELSE q.default

\* Mutant: the last write may go past the limit.
NoQuotaWhenFull(n, used, limit, end) ==
  end > n.size /\ limit # 0 /\ used >= limit

\* A growth that does not fit in what is left of the owner's limit.
NoQuota(n, used, limit, end) ==
  end > n.size /\ limit # 0 /\ (used >= limit \/ end - n.size > limit - used)
OverQuota(n, end) == NoQuota(n, quota_used(nodes, n.uid), quota_limit(quota, n.uid), end)

\* With no room in the pool, what fits in the buffer there is.
Fitting(b, pos, count) == IF b.ok THEN count ELSE AtMost(count, AtLeast(b.n.cap - pos, 0))
Written(b, fd, i, end) ==
  /\ nodes' = [nodes EXCEPT ![i] = [b.n EXCEPT !.size = AtLeast(@, end)]]
  /\ bitmap' = b.bm /\ PosAt(fd, end)
\* Mutant: room only for where the write begins.
WriteAtReservesStart(fd, i, pos, count) ==
  /\ pos + count <= MaxPos
  /\ IF OverQuota(nodes[i], pos + count) THEN PosAt(fd, pos) /\ UNCHANGED <<nodes, bitmap>>
     ELSE \E b \in {node_reserve(Buffer(nodes[i]), pos)} :
            Written(b, fd, i, pos + Fitting(b, pos, count))

WriteAt(fd, i, pos, count) ==
  /\ pos + count <= MaxPos
  /\ IF OverQuota(nodes[i], pos + count) THEN PosAt(fd, pos) /\ UNCHANGED <<nodes, bitmap>>
     ELSE \E b \in {node_reserve(Buffer(nodes[i]), pos + count)} :
            Written(b, fd, i, pos + Fitting(b, pos, count))
Write(p, fd, count) ==
  /\ Spend("io")
  /\ \E i \in On(p, fd, {"file"}, {"w"}) :
       WriteAt(fd, i, IF files[fd].append THEN nodes[i].size ELSE files[fd].pos, count)
  /\ UNCHANGED <<alive, quota, display>>

-----------------------------------------------------------------------------
(* Names.                                                                  *)

Put(ns) == nodes' = ns /\ UNCHANGED <<files, alive, quota, display>>
New(p, path, kind) ==
  \E i \in {FreeNode(nodes)} \ {0} :
    Put([nodes EXCEPT ![i] = add(p, path, kind)]) /\ UNCHANGED bitmap

touch(p, path) ==
  SpendOn("name", {path}) /\ p \in alive /\ find(nodes, path) = 0 /\ MayChangeIn(p, path) /\ New(p, path, "file")
mkdir(p, path) ==
  SpendOn("name", {path}) /\ p \in alive /\ find(nodes, path) = 0 /\ MayChangeIn(p, path) /\ New(p, path, "dir")

Gone(n) == [node_release(n) EXCEPT !.used = FALSE]
Drop(i) == Put([nodes EXCEPT ![i] = Gone(@)]) /\ bitmap' = bitmap \ Held(nodes[i])

rmdir(p, path) ==
  /\ SpendOn("name", {path}) /\ p \in alive
  /\ \E i \in {find(nodes, path)} \ {0} :
       nodes[i].kind = "dir" /\ MayChangeIn(p, path) /\ Children(path) = {} /\ Drop(i)
unlink(p, path) ==
  /\ SpendOn("name", {path}) /\ p \in alive
  /\ \E i \in {find(nodes, path)} \ {0} :
       nodes[i].kind # "dir" /\ MayChangeIn(p, path) /\ Drop(i)

\* The copy keeps mode and owner; the old node is emptied and stays.  No
\* room for the copy's buffer undoes the copy.
Copied(n, path) == [node_release(n) EXCEPT !.path = path, !.kind = "file"]
move_file(from, to) ==
  /\ SpendOn("name", {from, to})
  /\ find(nodes, to) = 0 /\ parent_dir(nodes, to) # 0
  /\ \E i \in {find(nodes, from)} \ {0}, j \in {FreeNode(nodes)} \ {0} :
       /\ nodes[i].kind # "dir"
       /\ \E b \in {node_set(Buffer(Copied(nodes[i], to)), nodes[i].size)} :
            IF b.ok
              THEN Put([nodes EXCEPT ![j] = b.n, ![i] = node_release(@)]) /\ bitmap' = b.bm \ Held(nodes[i])
              ELSE Put([nodes EXCEPT ![j] = [b.n EXCEPT !.used = FALSE]]) /\ UNCHANGED bitmap

\* The kernel replaces a file; without room it stays as it was.
set_path(path, len) ==
  /\ SpendOn("name", {path}) /\ path \in KernelPaths
  /\ \E i \in {find(nodes, path)} \ {0} :
       /\ nodes[i].kind \notin {"dir", "synth"}
       /\ \E b \in {node_set(Buffer(nodes[i]), len)} :
            Put([nodes EXCEPT ![i] = b.n]) /\ bitmap' = b.bm

\* stat() of a /proc file generates it.
stat(path) ==
  /\ SpendOn("name", {path})
  /\ \E i \in {find(nodes, path)} \ {0}, len \in Counts :
       /\ nodes[i].kind = "synth"
       /\ \E b \in {regen_synth(nodes[i], len)} :
            Put([nodes EXCEPT ![i] = b.n]) /\ bitmap' = b.bm

chmod(p, path, mode) ==
  /\ SpendOn("own", {path}) /\ p \in alive
  /\ \E i \in {find(nodes, path)} \ {0} :
       UidOf[p] \in {0, nodes[i].uid} /\ Put([nodes EXCEPT ![i].perm = mode])
  /\ UNCHANGED bitmap
chown(p, path, u) ==
  /\ SpendOn("own", {path}) /\ p \in alive /\ UidOf[p] = 0
  /\ \E i \in {find(nodes, path)} \ {0} : Put([nodes EXCEPT ![i].uid = u])
  /\ UNCHANGED bitmap

quota_set(p, u, limit) ==
  /\ Spend("own") /\ p \in alive /\ UidOf[p] = 0
  /\ quota' = [quota EXCEPT !.entries = [v \in {u} \cup DOMAIN @ |-> IF v = u THEN limit ELSE quota.entries[v]]]
  /\ UNCHANGED <<nodes, files, bitmap, alive, display>>
quota_set_default(p, limit) ==
  /\ Spend("own") /\ p \in alive /\ UidOf[p] = 0
  /\ quota' = [quota EXCEPT !.default = limit]
  /\ UNCHANGED <<nodes, files, bitmap, alive, display>>

-----------------------------------------------------------------------------
\* init() filled the nodes there are one after the other, each from the pool.
ASSUME TreeApart ==
  \A i \in 1 .. Len(Tree) :
    /\ Held(Tree[i]) \subseteq 1 .. Frames
    /\ ~Tree[i].used => Tree[i].at = 0
    /\ \A j \in 1 .. Len(Tree) : i # j => Held(Tree[i]) \cap Held(Tree[j]) = {}

Init ==
  /\ nodes = [i \in Nodes |-> IF i <= Len(Tree) THEN Tree[i] ELSE NoNode]
  /\ files = [i \in Fds |-> IF i < STDIO THEN Console ELSE NoFd]
  /\ bitmap = UNION {Held(Tree[i]) : i \in 1 .. Len(Tree)} /\ alive = Pids
  /\ quota = [entries |-> <<>>, default |-> 0]
  /\ display = [gfx |-> FALSE, took |-> FALSE, prog |-> FALSE, desk |-> FALSE]
  /\ left \in Budgets

Ends == Respawn \/ \E p \in Pids : Exit(p) \/ \E fd \in Fds : Close(p, fd)
Descriptors ==
  \E p \in Pids, fd \in Fds :
    \/ dup_fd(p, fd) \/ \E newfd \in Fds : dup2_fd(p, fd, newfd)
    \/ getdents(p, fd)
    \/ \E n \in Counts : Read(p, fd, n) \/ Write(p, fd, n)
    \/ \E off \in -1 .. MaxPos : Lseek(p, fd, off)
Names ==
  \E path \in Paths :
    \/ stat(path)
    \/ \E n \in Counts : set_path(path, n)
    \/ \E to \in Paths : move_file(path, to)
    \/ \E p \in Pids :
         \/ \E fl \in Flags : Open(p, path, fl)
         \/ touch(p, path) \/ mkdir(p, path) \/ rmdir(p, path) \/ unlink(p, path)
         \/ \E mode \in Modes : chmod(p, path, mode)
         \/ \E u \in Uids : chown(p, path, u)
Rules == \E p \in Pids, l \in Limits : quota_set_default(p, l) \/ \E u \in Uids : quota_set(p, u, l)

Next == Ends \/ Descriptors \/ Names \/ Rules \/ DesktopStarts \/ DesktopEnds
Spec == Init /\ [][Next]_vars

-----------------------------------------------------------------------------
(* Properties.                                                             *)

\* The table is global and a process that ends cannot close its descriptors:
\* close_all_of() finds them by owner, so every descriptor, and every
\* redirection of a standard one, belongs to a living process, whoever copied
\* it from whom.
OwnersLive ==
  \A fd \in Fds : files[fd].used /\ (fd \in OwnFds \/ files[fd].node # 0) => files[fd].owner \in alive

\* Every frame that is taken is in the buffer of one node and of one only, and a
\* node that is free has none: through growth, replacement, removal, moves and
\* their failures.
PagesAccounted ==
  /\ bitmap = UNION {Held(nodes[i]) : i \in Nodes}
  /\ \A i, j \in Nodes : i # j => Held(nodes[i]) \cap Held(nodes[j]) = {}
  /\ \A i \in Nodes : ~nodes[i].used => nodes[i].at = 0

\* When the last descriptor on /dev/fb0 is closed, by its holder or at the end of
\* a process that may have had several, the display goes back: the console may
\* draw again, and a mode that /dev/fb0 entered is left unless a desktop has
\* come to use it.
DisplayGivenBack ==
  [][(\E p \in Pids : Exit(p) \/ \E fd \in Fds : Close(p, fd)) =>
       (FbFds(files) # {} /\ FbFds(files') = {} =>
          /\ ~display'.took /\ ~display'.prog
          /\ display'.gfx => display.desk \/ ~display.took)]_vars

\* write() keeps the quota a hard one.  Three calls make what a user stores
\* grow to more than the limit, none of which asks: a change of owner, the
\* kernel's replacement of a file, and move_file() of a /proc page, which is
\* charged to nobody, to a file.
Within(q, ns, u) == quota_limit(q, u) = 0 \/ quota_used(ns, u) <= quota_limit(q, u)
Unasked(u) ==
  \/ \E path \in Paths, p \in Pids : chown(p, path, u)
  \/ \E path \in Paths, n \in Counts : set_path(path, n)
  \/ \E from, to \in Paths : move_file(from, to) /\ ~IsPlain(nodes[find(nodes, from)])
QuotaHeld ==
  [][\A u \in Uids :
       quota_used(nodes', u) <= quota_used(nodes, u) \/ Within(quota', nodes', u) \/ Unasked(u)]_vars

\* A node becomes longer than its buffer in two ways only, both when the pool
\* has no run for it.  A write beyond the buffer writes nothing and still moves
\* the end of the file to where the write would have begun (vfs.cpp:2024); and
\* regen_synth() gives a /proc page the size of a text that it then cannot
\* store (vfs.cpp:968).
Overfull(n) == n.used /\ n.size > n.cap
StarvedWrite(i) ==
  /\ nodes[i].kind = "file" /\ nodes'[i].cap = nodes[i].cap /\ nodes'[i].size > nodes[i].size
  /\ \E n \in Counts : alloc_contig(bitmap, Wanted(nodes[i], nodes'[i].size + n)) = 0
  /\ \E fd \in Fds : files'[fd].node = i /\ files'[fd].pos = nodes'[i].size
StarvedPage(i) ==
  /\ nodes[i].kind = "synth" /\ UNCHANGED bitmap
  /\ nodes'[i] = [nodes[i] EXCEPT !.size = nodes'[i].size]
  /\ alloc_contig(bitmap, Wanted(nodes[i], nodes'[i].size)) = 0
OutgrowsOnlyStarved ==
  [][\A i \in Nodes : Overfull(nodes'[i]) => Overfull(nodes[i]) \/ StarvedWrite(i) \/ StarvedPage(i)]_vars
=============================================================================
