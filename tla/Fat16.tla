------------------------------- MODULE Fat16 -------------------------------
(***************************************************************************)
(* The FAT16 library, kernel/fs/fat16.cpp, as operators on a volume.       *)
(*                                                                         *)
(* A call of the library runs with interrupts off, so no other process     *)
(* sees it half done; what does is the disk, if a sector write fails or    *)
(* the power goes in the middle.  Each operator therefore maps a device    *)
(* state c (the volume, how many more writes will succeed, the result of   *)
(* the last call) to the next one and makes its sector writes in the       *)
(* code's order through dev_write.                                         *)
(*                                                                         *)
(* The unit of the model is the 32-byte directory slot: a sector holds     *)
(* SLOTS of them and a cluster is one sector (what format() lays down on a *)
(* volume of up to 60000 sectors).  Sizes and offsets of files are in      *)
(* slots too, so that a sector of data and one of entries are the same     *)
(* kind of thing, as they are on the disk.                                 *)
(***************************************************************************)
EXTENDS Integers, Sequences, FiniteSets, SequencesExt

CONSTANTS MAX_CLUSTER,   \* highest cluster number; the lowest is 2
          ROOT_ENTRIES,  \* slots of the root directory (512)
          SLOTS,         \* slots of a sector (16)
          ShortNames,    \* names that fit 8.3
          LongNames,     \* names that need long-name slots
          LFN_SLOTS,     \* how many of them
          Data           \* what a program may write

ASSUME Fat16Assumption ==
  /\ MAX_CLUSTER >= 2 /\ ROOT_ENTRIES >= 1 /\ SLOTS >= 2 /\ LFN_SLOTS >= 1
  /\ ShortNames \cap LongNames = {}

NUM_FATS == 2
FAT_FREE == 0
FAT_EOC  == -1
Clusters == 2 .. MAX_CLUSTER
Names == ShortNames \cup LongNames

(* What a slot can hold.  The mangled short name of a long name is its     *)
(* number, 0 for a name that fits; long names share their first letters.   *)
(* A checksum of a short name is taken to be that short name.              *)
Zero    == [t |-> "zero"]
Deleted == [t |-> "deleted"]
Label   == [t |-> "label"]
Dot     == [t |-> "dot"]
Byte(x) == [t |-> "data", val |-> x]
Sfn(n, k) == <<IF n \in LongNames THEN "LONGNA" ELSE n, k>>
Lfn(n, seq, sfn) == [t |-> "lfn", name |-> n, seq |-> seq, chk |-> sfn]
Ent(sfn, dir, clu, size) ==
  [t |-> "entry", sfn |-> sfn, dir |-> dir, cluster |-> clu, size |-> size]

Least(S) == CHOOSE x \in S : \A y \in S : x <= y
Zeros(n) == [i \in 1 .. n |-> Zero]
Blank == Zeros(SLOTS)

-----------------------------------------------------------------------------
(* The device.  left is the number of writes that still succeed, -1 if all *)
(* do; the write after them fails once, or is where the power goes.  n     *)
(* counts the writes made.                                                 *)

Begin(v, left, stop) ==
  [v |-> v, left |-> left, stop |-> stop, dead |-> FALSE, hit |-> FALSE,
   n |-> 0, ok |-> TRUE, out |-> 0]

dev_write(c, v) ==
  CASE c.dead     -> [c EXCEPT !.ok = FALSE]
    [] c.left = 0 -> [c EXCEPT !.ok = FALSE, !.left = -1, !.hit = TRUE, !.dead = c.stop]
    [] OTHER      -> [c EXCEPT !.ok = TRUE, !.v = v, !.n = @ + 1,
                               !.left = IF @ > 0 THEN @ - 1 ELSE @]

Failed(c)     == [c EXCEPT !.ok = FALSE]
Returns(c, x) == [c EXCEPT !.out = x]

\* if (!...) return false; what follows is op.
Then(c, op(_)) == IF c.ok THEN op(c) ELSE c

\* for (...) if (!op(...)) return false;
Each(c, s, op(_, _)) == FoldLeft(LAMBDA a, x : IF a.ok THEN op(a, x) ELSE a, c, s)

-----------------------------------------------------------------------------
(* The allocation table: read from the first copy, written to each.        *)

fat_next(v, k) == IF k \in Clusters /\ v.fat[1][k] \in Clusters THEN v.fat[1][k] ELSE 0

fat_set(c, k, x) ==
  Each(c, [i \in 1 .. NUM_FATS |-> i],
       LAMBDA a, i : dev_write(a, [a.v EXCEPT !.fat[i][k] = x]))

\* The n-th cluster of a chain, 0 if it is shorter.
chain_at(v, first, n) ==
  LET at[i \in 0 .. n] == IF i = 0 THEN first ELSE fat_next(v, at[i - 1])
  IN  at[n]

\* The clusters of a chain; one that comes back to itself is cut off.
Chain(v, first) ==
  LET next[s \in Seq(Clusters)] ==
        LET k == fat_next(v, Last(s))
        IN  IF k = 0 \/ Len(s) > MAX_CLUSTER THEN s ELSE next[Append(s, k)]
  IN  IF first \in Clusters THEN next[<<first>>] ELSE <<>>

chain_len(v, first) == Len(Chain(v, first))

free_chain(c, first) == Each(c, Chain(c.v, first), LAMBDA a, k : fat_set(a, k, FAT_FREE))

zero_cluster(c, k) == dev_write(c, [c.v EXCEPT !.clu[k] = Blank])

FreeClusters(v) == {k \in Clusters : v.fat[1][k] = FAT_FREE}
FirstFree(v) == Least(FreeClusters(v))

\* The free cluster k is marked, then linked after prev, then zeroed.
Link(c, prev, k) == IF prev = 0 THEN c ELSE fat_set(c, prev, k)
Take(c, prev, k) ==
  Returns(Then(Then(fat_set(c, k, FAT_EOC), LAMBDA a : Link(a, prev, k)),
               LAMBDA a : zero_cluster(a, k)), k)

\* Mutant: linked before it is marked.
cluster_allocLinksFirst(c, prev) ==
  LET k == FirstFree(c.v)
  IN  IF FreeClusters(c.v) = {} THEN Failed(c)
      ELSE Returns(Then(Then(Link(c, prev, k), LAMBDA a : fat_set(a, k, FAT_EOC)),
                        LAMBDA a : zero_cluster(a, k)), k)

cluster_alloc(c, prev) ==
  IF FreeClusters(c.v) = {} THEN Failed(c) ELSE Take(c, prev, FirstFree(c.v))

\* Clusters are added one by one to the had there are; out is the first of
\* the chain.
Lengthened(c, first, had, need) ==
  LET start == IF had = 0 THEN 0 ELSE chain_at(c.v, first, had - 1)
      add(a, i) == cluster_alloc(a, IF i = 1 THEN 0 ELSE a.out)
  IN  Then(Each(Returns(c, start), [i \in 1 .. need - had |-> had + i], add),
           LAMBDA a : Returns(a, IF had > 0 THEN first ELSE FirstFree(c.v)))

ensure_chain(c, first, need) ==
  LET had == chain_len(c.v, first)
  IN  IF need <= had THEN Returns(c, first) ELSE Lengthened(c, first, had, need)

\* Mutant: only the first sector is written.
range_writeOneSector(c, first, off, src) ==
  LET lo == off \div SLOTS
      k == chain_at(c.v, first, lo)
  IN  IF first = 0 \/ k = 0 THEN Failed(c)
      ELSE dev_write(c, [c.v EXCEPT !.clu[k] =
             [j \in 1 .. SLOTS |-> IF lo * SLOTS + j - off \in DOMAIN src
                                   THEN src[lo * SLOTS + j - off] ELSE @[j]]])

\* src replaces what a file has from slot off on, one sector after another.
range_write(c, first, off, src) ==
  LET sector(a, i) ==
        LET k == chain_at(a.v, first, i)
        IN  IF k = 0 THEN Failed(a)
            ELSE dev_write(a, [a.v EXCEPT !.clu[k] =
                   [j \in 1 .. SLOTS |-> IF i * SLOTS + j - off \in DOMAIN src
                                         THEN src[i * SLOTS + j - off] ELSE @[j]]])
      lo == off \div SLOTS
      hi == (off + Len(src) - 1) \div SLOTS
  IN  IF first = 0 THEN Failed(c) ELSE Each(c, [i \in 1 .. hi - lo + 1 |-> lo + i - 1], sector)

-----------------------------------------------------------------------------
(* Directories: 0 is the fixed root, another one is named by its first     *)
(* cluster.  Slots are numbered from 0.                                    *)

ClustersFor(n) == (n + SLOTS - 1) \div SLOTS

dir_total(v, d) == IF d = 0 THEN ROOT_ENTRIES ELSE chain_len(v, d) * SLOTS

SlotAt(v, d, pos) ==
  IF d = 0 THEN v.root[pos + 1]
  ELSE v.clu[chain_at(v, d, pos \div SLOTS)][(pos % SLOTS) + 1]

write_entry_at(c, d, pos, e) ==
  dev_write(c, IF d = 0 THEN [c.v EXCEPT !.root[pos + 1] = e]
               ELSE [c.v EXCEPT !.clu[chain_at(c.v, d, pos \div SLOTS)][(pos % SLOTS) + 1] = e])

mark_deleted(c, d, pos) == write_entry_at(c, d, pos, Deleted)

\* The live entries in order.  Long-name slots collect until the entry they
\* belong to; a slot with another checksum drops what was collected, and is
\* itself dropped.  A name of which a piece is missing is nobody's name.
Scan(v, d) ==
  LET none == [pieces |-> {}, lfn |-> <<>>, chk |-> <<>>]
      LongName(P) ==
        IF \E n \in LongNames : P = {<<n, q>> : q \in 1 .. LFN_SLOTS}
        THEN CHOOSE n \in LongNames : <<n, 1>> \in P ELSE "?"
      NameOf(e, s) ==
        CASE e.t # "entry" -> e.t
          [] s.lfn # <<>> /\ s.chk = e.sfn -> LongName(s.pieces)
          [] OTHER -> IF e.sfn[2] = 0 THEN e.sfn[1] ELSE "?"
      live(e, s, pos) ==
        [name |-> NameOf(e, s), pos |-> pos, slot |-> e,
         lfn |-> IF e.t = "entry" /\ s.chk = e.sfn THEN s.lfn ELSE <<>>]
      step(a, pos) ==
        LET e == SlotAt(v, d, pos)
            s == a.s
        IN  CASE a.end -> a
              [] e.t = "zero" -> [a EXCEPT !.end = TRUE]
              [] e.t = "deleted" -> [a EXCEPT !.s = none]
              [] e.t = "lfn" /\ s.lfn # <<>> /\ e.chk # s.chk -> [a EXCEPT !.s = none]
              [] e.t = "lfn" -> [a EXCEPT !.s = [pieces |-> s.pieces \cup {<<e.name, e.seq>>},
                                                 lfn |-> Append(s.lfn, pos), chk |-> e.chk]]
              [] OTHER -> [a EXCEPT !.s = none, !.found = Append(@, live(e, s, pos))]
  IN  FoldLeft(step, [end |-> FALSE, s |-> none, found |-> <<>>],
               [i \in 1 .. dir_total(v, d) |-> i - 1]).found

Children(v, d) == {x \in ToSet(Scan(v, d)) : x.slot.t \notin {"label", "dot"}}

\* The entries of that name in the order of the directory; the first counts.
Named(v, d, n) ==
  SelectSeq(Scan(v, d), LAMBDA x : x.name = n /\ x.slot.t \notin {"label", "dot"})
Missing(v, d, n) == Named(v, d, n) = <<>>
find_entry(v, d, n) == Head(Named(v, d, n))

make_unique_sfn(v, d, n) ==
  LET used == {x.slot.sfn : x \in {y \in Children(v, d) : y.slot.t = "entry"}}
  IN  Sfn(n, Least({k \in 1 .. MAX_CLUSTER * SLOTS + ROOT_ENTRIES : Sfn(n, k) \notin used}))

LongEntries(n, dir, clu, sfn) ==
  [i \in 1 .. LFN_SLOTS |-> Lfn(n, LFN_SLOTS + 1 - i, sfn)] \o <<Ent(sfn, dir, clu, 0)>>

build_entries(v, d, n, dir, clu) ==
  IF n \in ShortNames THEN <<Ent(Sfn(n, 0), dir, clu, 0)>>
  ELSE LongEntries(n, dir, clu, make_unique_sfn(v, d, n))

\* Room for all of es at slot pos first, then the slots, the end mark last.
AppendAt(c, d, es, total, pos) ==
  LET more == IF pos + Len(es) > total THEN ClustersFor(pos + Len(es) - total) ELSE 0
      extend(a, i) == cluster_alloc(a, Last(Chain(a.v, d)))
      put(a, i) == write_entry_at(a, d, pos + i - 1, IF i > Len(es) THEN Zero ELSE es[i])
      room == pos + Len(es) < total + more * SLOTS
  IN  IF total = 0 \/ (d = 0 /\ more > 0) THEN Failed(c)
      ELSE Each(Each(c, [i \in 1 .. more |-> i], extend),
                [i \in 1 .. Len(es) + (IF room THEN 1 ELSE 0) |-> i], put)

\* The first slot that was never used, or the end.
EndOf(v, d, total) == Least({p \in 0 .. total - 1 : SlotAt(v, d, p) = Zero} \cup {total})

dir_append(c, d, es) ==
  LET total == dir_total(c.v, d)
  IN  AppendAt(c, d, es, total, EndOf(c.v, d, total))

\* The bytes of the cluster and the size change, in whatever the slot holds
\* by now.  A failure to store them is not reported.
Updated(e, clu, size) ==
  IF e.t = "entry" THEN [e EXCEPT !.cluster = clu, !.size = size] ELSE [t |-> e.t, junk |-> TRUE]

update_entry(c, d, pos, clu, size) ==
  [write_entry_at(c, d, pos, Updated(SlotAt(c.v, d, pos), clu, size)) EXCEPT !.ok = TRUE]

init_subdir(c, k) ==
  dev_write(c, [c.v EXCEPT !.clu[k] = [@ EXCEPT ![1] = Dot, ![2] = Dot]])

-----------------------------------------------------------------------------
(* The calls of fat16.h that change the volume.                            *)

create(c, d, n) ==
  IF ~Missing(c.v, d, n) THEN Failed(c)
  ELSE dir_append(c, d, build_entries(c.v, d, n, FALSE, 0))

\* The chain, zeros up to off, the data, and last the entry.
Stored(c, d, e, off, src) ==
  LET end == off + Len(src)
      gap == off - e.slot.size
  IN  Then(ensure_chain(c, e.slot.cluster, ClustersFor(end)), LAMBDA a :
        Then(Then(IF gap > 0 THEN range_write(a, a.out, e.slot.size, Zeros(gap)) ELSE a,
                  LAMBDA b : range_write(b, a.out, off, src)),
             LAMBDA b : update_entry(b, d, e.pos, a.out,
                                     IF end > e.slot.size THEN end ELSE e.slot.size)))

\* found are the entries of the file's name.
WriteTo(c, d, found, off, src) ==
  CASE found = <<>> \/ Head(found).slot.dir -> Failed(c)
    [] src = <<>> -> c
    [] OTHER -> Stored(c, d, Head(found), off, src)

\* Creates the file if need be.
write(c, d, n, off, src) ==
  Then(IF Missing(c.v, d, n) THEN create(c, d, n) ELSE c,
       LAMBDA a : WriteTo(a, d, Named(a.v, d, n), off, src))

\* The chain is cut after its cluster last.
Cut(c, last, rest) ==
  IF rest = 0 THEN c ELSE Then(free_chain(c, rest), LAMBDA a : fat_set(a, last, FAT_EOC))

\* Mutant: what is behind the new end stays there.
ShrunkKeepsTail(c, first, size) ==
  LET last == chain_at(c.v, first, ClustersFor(size) - 1)
  IN  CASE size = 0 -> free_chain(c, first)
        [] last = 0 -> Failed(c)
        [] OTHER -> Cut(c, last, fat_next(c.v, last))

\* Shrinking gives the clusters back before the chain, and at last the
\* entry, stop naming them.
Shrunk(c, first, size) ==
  LET last == chain_at(c.v, first, ClustersFor(size) - 1)
      tail == ClustersFor(size) * SLOTS - size
  IN  CASE size = 0 -> free_chain(c, first)
        [] last = 0 -> Failed(c)
        [] OTHER -> Then(Cut(c, last, fat_next(c.v, last)), LAMBDA a :
                         IF tail > 0 THEN range_write(a, first, size, Zeros(tail)) ELSE a)

Resized(c, old, size) ==
  IF size > old.size THEN ensure_chain(c, old.cluster, ClustersFor(size))
  ELSE Returns(Shrunk(c, old.cluster, size), IF size = 0 THEN 0 ELSE old.cluster)

TruncateIn(c, d, found, size) ==
  CASE found = <<>> \/ Head(found).slot.dir -> Failed(c)
    [] size = Head(found).slot.size -> c
    [] OTHER -> Then(Resized(c, Head(found).slot, size),
                     LAMBDA a : update_entry(a, d, Head(found).pos, a.out, size))

truncate(c, d, n, size) == TruncateIn(c, d, Named(c.v, d, n), size)

\* Mutant: the chain stays.
RemovedKeepsChain(c, d, e) == Each(c, Append(e.lfn, e.pos), LAMBDA a, p : mark_deleted(a, d, p))

\* The chain goes before the entry.
Removed(c, d, e) ==
  Then(free_chain(c, e.slot.cluster),
       LAMBDA b : Each(b, Append(e.lfn, e.pos), LAMBDA a, p : mark_deleted(a, d, p)))

\* A file, or a directory with nothing in it.
Removable(v, e, isDir) == e.slot.dir = isDir /\ (isDir => Children(v, e.slot.cluster) = {})
RemoveEntry(c, d, found, isDir) ==
  IF found # <<>> /\ Removable(c.v, Head(found), isDir) THEN Removed(c, d, Head(found)) ELSE Failed(c)

unlink(c, d, n) == RemoveEntry(c, d, Named(c.v, d, n), FALSE)
rmdir(c, d, n) == RemoveEntry(c, d, Named(c.v, d, n), TRUE)

\* A directory that cannot be entered gives its cluster back.
Enter(c, d, n, clu) ==
  LET Undo(a) == IF a.ok THEN a ELSE Failed(free_chain([a EXCEPT !.ok = TRUE], clu))
  IN  Undo(Then(init_subdir(c, clu),
                LAMBDA a : dir_append(a, d, build_entries(a.v, d, n, TRUE, clu))))

mkdir(c, d, n) ==
  IF ~Missing(c.v, d, n) THEN Failed(c)
  ELSE Then(cluster_alloc(c, 0), LAMBDA a : Enter(a, d, n, a.out))

\* What format() leaves: nothing allocated, the label in the root.
format ==
  [fat |-> [i \in 1 .. NUM_FATS |-> [k \in Clusters |-> FAT_FREE]],
   root |-> [p \in 1 .. ROOT_ENTRIES |-> IF p = 1 THEN Label ELSE Zero],
   clu |-> [k \in Clusters |-> Blank]]

\* read() of a whole file: short if the chain is.
read(v, e) ==
  [i \in 1 .. Least({e.slot.size, chain_len(v, e.slot.cluster) * SLOTS}) |->
     SlotAt(v, e.slot.cluster, i - 1)]
=============================================================================
