------------------------------- MODULE Mount -------------------------------
(***************************************************************************)
(* The mounted-volume half of kernel/fs/vfs.cpp over the FAT16 library:    *)
(* paths are resolved to a directory's first cluster and a name, which is  *)
(* also all that a descriptor keeps of its file, besides a position and    *)
(* the size it believes the file to have.                                  *)
(*                                                                         *)
(* Any call may be hit by a fault: a sector write that fails, which the    *)
(* call sees, or a loss of power, after which the machine comes up again   *)
(* with the disk as it is and no descriptors.                              *)
(***************************************************************************)
EXTENDS Fat16

CONSTANTS FilePaths, DirPaths,  \* <<name>>, or <<directory, name>>
          Fds,                  \* the part of files[] there is
          MaxLen, MaxIO,        \* longest file, longest write
          CHUNK,                \* buffer of move_stream
          MaxFaults,            \* calls hit by a fault
          MaxCalls,
          Volumes               \* what may be on the volume to begin with

VARIABLES disk,    \* what is on the volume
          tree,    \* the files that reads as: always Tree(disk)
          files,   \* descriptors, with two fields the code has not: the path,
                   \* and fresh, nobody else changed the file since
          faults,  \* calls hit by a fault so far
          last,    \* what befell the last call, "calm", "fail" or "power", and
                   \* which it was if it was not calm, or went to a directory
                   \* that is no more ("stray")
          failed,  \* some call has returned an error
          calls    \* made so far

vars == <<disk, tree, files, faults, last, failed, calls>>

Paths == FilePaths \cup DirPaths
Above(p) == SubSeq(p, 1, Len(p) - 1)
NoDir == -1

NoFile == [used |-> FALSE, dir |-> 0, name |-> "", append |-> FALSE, pos |-> 0,
           fsize |-> 0, fresh |-> FALSE, path |-> <<>>]

-----------------------------------------------------------------------------
(* Resolving a path, and the tree of files it makes of a volume.           *)

DirOf(found) == IF found = <<>> \/ ~Head(found).slot.dir THEN NoDir ELSE Head(found).slot.cluster
mount_dir_cluster(v, p) == IF p = <<>> THEN 0 ELSE DirOf(Named(v, 0, p[1]))

\* Every entry of the volume with its path and its directory.
In(v, d, above) == {[path |-> Append(above, e.name), dir |-> d, e |-> e] : e \in Children(v, d)}
SubDirs(L) == {x \in L : x.e.slot.t = "entry" /\ x.e.slot.dir}
Below(v, L) == UNION {In(v, x.e.slot.cluster, x.path) : x \in SubDirs(L)}
WithBelow(v, L) == L \cup Below(v, L)
Listing(v) == WithBelow(v, In(v, 0, <<>>))

IsADir == <<[t |-> "directory"]>>
Contents(v, e) == IF e.slot.dir THEN IsADir ELSE read(v, e)
At(L, p) == CHOOSE x \in L : x.path = p /\ \A y \in L : y.path = p => x.e.pos <= y.e.pos
TreeOf(v, L) == [p \in {x.path : x \in L} |-> Contents(v, At(L, p).e)]
Tree(v) == TreeOf(v, {x \in Listing(v) : x.path \in Paths})

-----------------------------------------------------------------------------
(* A sound volume: what every call may rely on and must leave behind.      *)

ClustersOf(v, e) == ToSet(Chain(v, e.slot.cluster))

EntrySound(v, e, chain) ==
  /\ e.slot.t = "entry" /\ e.name \in Names
  /\ e.slot.cluster = 0 => e.slot.size = 0 /\ ~e.slot.dir
  /\ e.slot.cluster # 0 => v.fat[1][Last(chain)] = FAT_EOC
  /\ e.slot.size <= Len(chain) * SLOTS

\* Every long-name slot before the end mark belongs to an entry.
LfnSound(v, d) ==
  LET typed == {<<p, SlotAt(v, d, p).t>> : p \in 0 .. dir_total(v, d) - 1}
      InUse(P) == {x[1] : x \in {y \in P : y[2] = "lfn" /\
                                   \A z \in P : z[2] = "zero" => y[1] < z[1]}}
  IN  InUse(typed) = UNION {ToSet(e.lfn) : e \in Children(v, d)}

ListingSound(v, L) ==
  /\ \A x \in L : EntrySound(v, x.e, Chain(v, x.e.slot.cluster))
  /\ \A x, y \in L : x # y => /\ x.path # y.path
                              /\ ClustersOf(v, x.e) \cap ClustersOf(v, y.e) = {}
  /\ \A d \in {0} \cup {x.e.slot.cluster : x \in SubDirs(L)} : LfnSound(v, d)
Structured(v) == ListingSound(v, Listing(v))

TailsZero(v) ==
  \A x \in Listing(v) : ~x.e.slot.dir =>
    \A i \in x.e.slot.size .. chain_len(v, x.e.slot.cluster) * SLOTS - 1 :
      SlotAt(v, x.e.slot.cluster, i) = Zero

Sound(v) == Structured(v) /\ TailsZero(v)

\* Clusters that are taken and belong to no file.
Leaked(v) == {k \in Clusters : v.fat[1][k] # FAT_FREE}
               \ UNION {ClustersOf(v, x.e) : x \in Listing(v)}

-----------------------------------------------------------------------------
(* A call: Body is what it does to the device, After the descriptors it    *)
(* leaves.  It may be hit at any of the writes it makes.                   *)

Exists(p) == p \in DOMAIN tree
IsFile(p) == Exists(p) /\ tree[p] # IsADir
SizeIn(t, p) == IF p \in DOMAIN t THEN Len(t[p]) ELSE 0

\* Other descriptors of a file that changed are no longer fresh.
Aged(c, t, fs, self) ==
  [f \in Fds |-> [fs[f] EXCEPT !.fresh =
     @ /\ ~c.hit /\ (f = self \/ SizeIn(t, fs[f].path) = SizeIn(tree, fs[f].path))]]

Call(op, self, Body(_), After(_)) ==
  \E whole \in {Body(Begin(disk, -1, FALSE))} :
    \E h \in {<<-1, FALSE>>} \cup (IF faults = MaxFaults THEN {} ELSE (0 .. whole.n - 1) \X BOOLEAN) :
      \E c \in {IF h[1] = -1 THEN whole ELSE Body(Begin(disk, h[1], h[2]))} :
      \E t \in {IF c.v = disk THEN tree ELSE Tree(c.v)} :
            /\ disk' = c.v
            /\ tree' = t
            /\ files' = IF c.dead THEN [f \in Fds |-> NoFile] ELSE Aged(c, t, After(c), self)
            /\ faults' = IF c.hit THEN faults + 1 ELSE faults
            /\ last' = CASE c.dead -> <<op, "power">>
                         [] c.hit -> <<op, "fail">>
                         [] OTHER -> <<IF op = "stray" THEN op ELSE "any", "calm">>
            /\ failed' = (failed \/ ~c.ok)

Keeps(c) == files
NoFd == -1
FreeFds == {f \in Fds : ~files[f].used}
FirstFd == CHOOSE f \in FreeFds : \A g \in FreeFds : f <= g
Gone(f) == files[f].dir # mount_dir_cluster(disk, Above(files[f].path))

\* What split_parent and mount_dir_cluster make of a path.
dir_clu(p) == mount_dir_cluster(disk, Above(p))

\* With O_CREAT, or of a file there is.  It is created before a descriptor
\* is looked for; one whose truncation fails stays taken.
Open(p, trunc, append) ==
  \E d \in {dir_clu(p)} :
  LET size == SizeIn(tree, p)
      Body(c) == Then(IF Exists(p) THEN c ELSE create(c, d, Last(p)), LAMBDA a :
                   CASE FreeFds = {} -> Failed(a)
                     [] trunc /\ size # 0 -> truncate(a, d, Last(p), 0)
                     [] OTHER -> a)
      After(c) == IF (~Exists(p) /\ ~c.ok) \/ FreeFds = {} THEN files
                  ELSE [files EXCEPT ![FirstFd] =
                         [NoFile EXCEPT !.used = TRUE, !.dir = d, !.name = Last(p), !.path = p,
                                        !.append = append, !.fresh = c.ok,
                                        !.fsize = IF trunc /\ c.ok THEN 0 ELSE size]]
  IN  /\ d # NoDir
      /\ Call("open", IF FreeFds = {} THEN NoFd ELSE FirstFd, Body, After)

\* Mutant: the remembered size is not brought up to date.
WriteForgetsSize(f, src) ==
  LET at == IF files[f].append THEN files[f].fsize ELSE files[f].pos
      end == at + Len(src)
      Body(c) == write(c, files[f].dir, files[f].name, at, src)
      After(c) == [files EXCEPT ![f].pos = IF c.ok THEN end ELSE at]
  IN  /\ files[f].used /\ end <= MaxLen
      /\ Call(IF Gone(f) THEN "stray" ELSE "write", f, Body, After)

Write(f, src) ==
  LET at == IF files[f].append THEN files[f].fsize ELSE files[f].pos
      end == at + Len(src)
      Body(c) == write(c, files[f].dir, files[f].name, at, src)
      After(c) == [files EXCEPT ![f].pos = IF c.ok THEN end ELSE at,
                                ![f].fsize = IF c.ok /\ end > @ THEN end ELSE @]
  IN  /\ files[f].used /\ end <= MaxLen
      /\ Call(CASE Gone(f) -> "stray" [] Exists(files[f].path) -> "write" [] OTHER -> "recreate",
              f, Body, After)

Read(f, n) ==
  /\ files[f].used /\ ~Gone(f)
  /\ \E found \in {Named(disk, files[f].dir, files[f].name)} :
       LET left == Len(read(disk, Head(found))) - files[f].pos
       IN  /\ found # <<>> /\ left > 0
           /\ files' = [files EXCEPT ![f].pos = @ + Least({n, left})]
  /\ UNCHANGED <<disk, tree, faults, last, failed>>

Lseek(f, pos) ==
  /\ files[f].used
  /\ files' = [files EXCEPT ![f].pos = pos]
  /\ UNCHANGED <<disk, tree, faults, last, failed>>

Close(f) ==
  /\ files[f].used
  /\ files' = [files EXCEPT ![f] = NoFile]
  /\ UNCHANGED <<disk, tree, faults, last, failed>>

Touch(p) ==
  \E d \in {dir_clu(p)} :
    /\ d # NoDir /\ ~Exists(p)
    /\ Call("create", NoFd, LAMBDA c : create(c, d, Last(p)), Keeps)

Mkdir(p) ==
  \E d \in {dir_clu(p)} :
    /\ d # NoDir /\ ~Exists(p)
    /\ Call("mkdir", NoFd, LAMBDA c : mkdir(c, d, Last(p)), Keeps)

Rmdir(p) ==
  /\ Exists(p) /\ ~IsFile(p)
  /\ \E d \in {dir_clu(p)} : Call("rmdir", NoFd, LAMBDA c : rmdir(c, d, Last(p)), Keeps)

Unlink(p) ==
  /\ IsFile(p)
  /\ \E d \in {dir_clu(p)} : Call("unlink", NoFd, LAMBDA c : unlink(c, d, Last(p)), Keeps)

\* A call of the library that the kernel itself makes with size 0 only.
Truncate(p, size) ==
  /\ IsFile(p)
  /\ \E d \in {dir_clu(p)} :
       Call(IF size > SizeIn(tree, p) THEN "grow" ELSE "shrink", NoFd,
            LAMBDA c : truncate(c, d, Last(p), size), Keeps)

SetPath(p, src) ==
  \E d \in {dir_clu(p)} :
  LET Body(c) == Then(Then(IF Exists(p) THEN c ELSE create(c, d, Last(p)),
                           LAMBDA a : truncate(a, d, Last(p), 0)),
                      LAMBDA a : IF src = <<>> THEN a ELSE write(a, d, Last(p), 0, src))
  IN  d # NoDir /\ Call("set_path", NoFd, Body, Keeps)

\* Mutant: the source goes first.
MoveUnlinksFirst(p, q) ==
  \E dp \in {dir_clu(p)}, dq \in {dir_clu(q)} :
  LET Body(c) == Then(Then(unlink(c, dp, Last(p)), LAMBDA a : create(a, dq, Last(q))),
                      LAMBDA a : write(a, dq, Last(q), 0, tree[p]))
  IN  /\ IsFile(p) /\ dq # NoDir /\ ~Exists(q) /\ Cardinality(FreeFds) >= 2
      /\ Call("move", NoFd, Body, Keeps)

\* move_stream: two descriptors for the time of the call, a copy by chunks,
\* then the source goes.
Move(p, q) ==
  \E dp \in {dir_clu(p)}, dq \in {dir_clu(q)} :
  LET cells == tree[p]
      copy(a, i) == write(a, dq, Last(q), (i - 1) * CHUNK,
                          SubSeq(cells, (i - 1) * CHUNK + 1, Least({i * CHUNK, Len(cells)})))
      Moved(a) == Then(Each(a, [i \in 1 .. (Len(cells) + CHUNK - 1) \div CHUNK |-> i], copy),
                       LAMBDA b : unlink(b, dp, Last(p)))
      Body(c) == Then(create(c, dq, Last(q)), LAMBDA a :
                   IF Cardinality(FreeFds) < 2 THEN Failed(a) ELSE Moved(a))
  IN  /\ IsFile(p) /\ dq # NoDir /\ ~Exists(q)
      /\ FreeFds # {}
      /\ Call("move", NoFd, Body, Keeps)

-----------------------------------------------------------------------------
(* The model follows a volume as long as it is sound: what the calls do on *)
(* one that a fault has broken is nothing they promise.                    *)

Sources == {[i \in 1 .. n |-> Byte(x)] : n \in 1 .. MaxIO, x \in Data}

Init == /\ disk \in Volumes
        /\ tree = Tree(disk)
        /\ files = [f \in Fds |-> NoFile]
        /\ faults = 0
        /\ last = <<"any", "calm">>
        /\ failed = FALSE
        /\ calls = 0

Next ==
  /\ Sound(disk) /\ last[1] # "stray"
  /\ calls < MaxCalls /\ calls' = calls + 1
  /\ \/ \E p \in FilePaths, trunc, append \in BOOLEAN : Open(p, trunc, append)
     \/ \E f \in Fds, src \in Sources : Write(f, src)
     \/ \E f \in Fds, n \in 1 .. MaxIO : Read(f, n)
     \/ \E f \in Fds, pos \in 0 .. MaxLen : Lseek(f, pos)
     \/ \E f \in Fds : Close(f)
     \/ \E p \in FilePaths : Touch(p) \/ Unlink(p)
     \/ \E p \in DirPaths : Mkdir(p) \/ Rmdir(p)
     \/ \E p \in FilePaths, size \in 0 .. MaxLen : Truncate(p, size)
     \/ \E p \in FilePaths, src \in Sources \cup {<<>>} : SetPath(p, src)
     \/ \E p, q \in FilePaths : Move(p, q)

Spec == Init /\ [][Next]_vars

-----------------------------------------------------------------------------

\* No call that meets no fault breaks the volume, be it full, be its root
\* directory full, be the file open twice, be the fault an earlier call met
\* still to be seen in lost clusters: every entry has its own chain, long
\* enough for its size, and a name; every long-name slot has its entry; what
\* is beyond the end of a file is zero.  As long as no call met a fault, the
\* copy of the allocation table that fat_next never reads agrees with the other.
CalmKeepsSound == /\ last = <<"any", "calm">> => Sound(disk)
                  /\ faults = 0 => disk.fat[1] = disk.fat[2]

\* A write to a file there is, or a truncate that makes one longer, may be
\* hit at any of its sector writes, by an error or by a loss of power, and
\* every chain and every entry of the volume is still in order: data reach
\* the disk before the entry does, and a cluster is marked before it is
\* linked.  (unlink, rmdir and a truncate that shrinks are not like this:
\* they free the chain while the entry still names it.)
WriteHitStructured == last[1] \in {"write", "grow"} => Structured(disk)

\* A cluster is lost only by a call that reports an error, or one that was
\* hit: free_chain gives back all that ensure_chain took.
LeaksOnlyOnFailure == faults = 0 /\ ~failed /\ last[1] # "stray" => Leaked(disk) = {}

\* The size a descriptor remembers, at which O_APPEND writes and from which
\* SEEK_END counts, is the file's, unless somebody else changed the file.
CachedSizeRight ==
  \A f \in Fds : files[f].used /\ files[f].fresh /\ ~Gone(f)
                   => files[f].fsize = SizeIn(tree, files[f].path)

Abs == INSTANCE FileStore WITH
         Cells <- {Byte(x) : x \in Data}, ZeroCell <- Zero,
         store <- tree, lost <- (last[1] = "stray")

\* Where a write through f starts.
Start(f) == IF files[f].append THEN files[f].fsize ELSE files[f].pos

\* The step is a write through f that stored something and met no fault: it
\* leaves f's position past where it started.
Wrote(f) == /\ files[f].used /\ ~Gone(f)
            /\ files'[f].pos # files[f].pos /\ files'[f].pos > Start(f)
            /\ tree' # tree /\ faults' = faults

\* The volume is a store of files: a call that is not hit changes one file, as
\* one of the operations of FileStore does, and no other, all of it or none,
\* and one that is hit changes no file but the ones it was given.  A write
\* moreover changes the file its descriptor was opened on, in the cells from
\* where it was asked to write to where it leaves the position.
Refines ==
  /\ Abs!Spec
  /\ [][\A f \in Fds : Wrote(f) =>
          LET p == files[f].path
          IN  \E x \in Data :
                tree' = Abs!With(p, Abs!Overwritten(Abs!Old(p), Start(f),
                                                    files'[f].pos - Start(f), Byte(x)))]_vars

\* A move the power fails in loses no file: the copy is whole before
\* move_stream unlinks the source.
MovePowerSafe ==
  [][last' = <<"move", "power">> =>
       \A p \in FilePaths \cap DOMAIN tree :
         \E q \in FilePaths \cap DOMAIN tree' : tree'[q] = tree[p]]_vars
=============================================================================
