----------------------------- MODULE VfsTables ------------------------------
(***************************************************************************)
(* The half of the proofs about Vfs that is about its tables: what every   *)
(* call does to the nodes and the frames of the pool behind them, and      *)
(* close_all_of() to the descriptors.                                      *)
(***************************************************************************)
EXTENDS Vfs, WellFoundedInduction, TLAPS

-----------------------------------------------------------------------------
(* Least elements, and induction from them.                                *)

Below == {ss \in Nat \X Nat : ss[1] < ss[2]}

\* A set of numbers that is not empty has a least one.
LEMMA LeastNat ==
  ASSUME NEW S, S \subseteq Nat, S # {}
  PROVE  \E x \in S : \A y \in S : x <= y
<1>1. IsWellFoundedOn(Below, Nat)
  BY NatLessThanWellFounded, Zenon DEF OpToRel, Below
<1>2. PICK x \in S : \A y \in S : ~(<<y, x>> \in Below)
  BY <1>1, WFMin, Zenon
<1>3. \A m, n \in Nat : ~(<<n, m>> \in Below) => m <= n
  BY DEF Below
<1> QED BY <1>2, <1>3, Zenon

\* A set with 0, and with the successor of each of its numbers, has them all.
LEMMA NatIn ==
  ASSUME NEW S, S \subseteq Nat, 0 \in S, \A n \in S : n + 1 \in S
  PROVE  \A n \in Nat : n \in S
<1> SUFFICES ASSUME Nat \ S # {} PROVE FALSE
  OBVIOUS
<1>1. PICK x \in Nat \ S : \A y \in Nat \ S : x <= y
  BY LeastNat, Zenon
<1>2. x # 0 /\ x - 1 \in Nat
  BY <1>1
<1>3. x - 1 \in S
  BY <1>1, <1>2
<1> QED BY <1>1, <1>2, <1>3

\* A first-fit search answers a member of the set it searches, or 0.
LEMMA LowestIn ==
  ASSUME NEW S, S \subseteq Nat
  PROVE  IF S = {} THEN Lowest(S) = 0 ELSE Lowest(S) \in S
BY LeastNat, Zenon DEF Lowest, Min

-----------------------------------------------------------------------------
(* Buffers.                                                                *)

Work == [bm: SUBSET (1 .. Frames), n: Node, ok: BOOLEAN]

\* The work on a buffer begins.
Start(bm, n) == [bm |-> bm, n |-> n, ok |-> TRUE]

\* Work on a buffer starts from the pool and the node as they are.
LEMMA StartType ==
  ASSUME NEW bm \in SUBSET (1 .. Frames), NEW n \in Node
  PROVE  Start(bm, n) \in Work /\ Start(bm, n).bm = bm /\ Start(bm, n).n = n /\ Start(bm, n).ok
BY Zenon DEF Start, Work

\* As many frames as a buffer of k frames was given.
LEMMA DivExact ==
  ASSUME NEW k \in Nat, NEW p \in Nat, p > 0
  PROVE  (k * p) \div p = k /\ k * p \in Nat
OBVIOUS

\* A number of frames.
LEMMA PagesNat ==
  ASSUME NEW n \in Nat
  PROVE  Pages(n) \in Nat /\ n \div PAGE \in Nat
<1>1. PAGE \in Nat /\ PAGE > 0
  BY VfsAssumption
<1>2. \A a \in Nat : a \div PAGE \in Nat
  BY <1>1
<1>3. n + PAGE - 1 \in Nat
  BY <1>1
<1> QED BY <1>2, <1>3, Zenon DEF Pages

\* alloc_contig(): a run that is free, or none.
LEMMA AllocFree ==
  ASSUME NEW bm, NEW k \in Nat, alloc_contig(bm, k) # 0
  PROVE  /\ alloc_contig(bm, k) \in Nat
         /\ Run(alloc_contig(bm, k), k) \subseteq (1 .. Frames) \ bm
<1> DEFINE S == {i \in 1 .. Frames : Run(i, k) \subseteq (1 .. Frames) \ bm}
<1>1. S \subseteq Nat
  BY VfsAssumption
<1>2. alloc_contig(bm, k) = Lowest(S)
  BY Zenon DEF alloc_contig
<1> HIDE DEF S
<1>3. alloc_contig(bm, k) \in S
  BY <1>1, <1>2, LowestIn, Zenon
<1> QED BY <1>1, <1>3, Zenon DEF S

\* A node that is used, of the kind and owned as another is.
SameFile(m, n) == m.used = n.used /\ m.kind = n.kind /\ m.uid = n.uid

\* Being the same file with another buffer is transitive.
LEMMA SameFiles ==
  ASSUME NEW a, NEW b, NEW c, SameFile(a, b), SameFile(b, c)
  PROVE  SameFile(a, c)
BY Zenon DEF SameFile

\* What growing a buffer does to the pool: the frames of the old run, if any,
\* are given back, those of the new one were free, and nothing else changes.
Resized(bm, n, r) ==
  /\ r \in Work /\ SameFile(r.n, n)
  /\ r.bm = (bm \ Held(n)) \cup Held(r.n)
  /\ Held(r.n) \cap (bm \ Held(n)) = {}
  /\ r.ok \/ r.n = n
Rebuffered(bm, n, r) == Resized(bm, n, r) /\ r.n.size = n.size

\* A node that holds the same frames.
LEMMA SameHeld ==
  ASSUME NEW n, NEW m, m.at = n.at, m.cap = n.cap
  PROVE  Held(m) = Held(n)
BY Zenon DEF Held

\* Moved(), with a run that alloc_contig() found.
LEMMA MovedRebuffers ==
  ASSUME NEW b \in Work, Held(b.n) \subseteq b.bm, b.ok, NEW k \in Nat
  PROVE  Rebuffered(b.bm, b.n, Grown(b, k))
<1> DEFINE at == alloc_contig(b.bm, k)
           m == [b.n EXCEPT !.at = at, !.cap = k * PAGE]
<1>1. CASE at = 0
  BY <1>1, Zenon DEF Grown, Moved, Resized, Rebuffered, Work, SameFile
<1>2. CASE at # 0
  <2>1. at \in Nat /\ Run(at, k) \subseteq (1 .. Frames) \ b.bm
    BY <1>2, AllocFree, Zenon
  <2>2. (k * PAGE) \div PAGE = k /\ k * PAGE \in Nat
    BY DivExact, VfsAssumption
  <2>3. b.n \in Node
    BY Zenon DEF Work
  <2> HIDE DEF at
  <2>4. m \in Node /\ SameFile(m, b.n) /\ m.at = at /\ m.cap = k * PAGE /\ m.size = b.n.size
    BY <2>1, <2>2, <2>3, ZenonT(40) DEF Node, SameFile
  <2>5. Held(m) = Run(at, k)
    BY <1>2, <2>2, <2>4, Zenon DEF Held
  <2>6. Grown(b, k) = [bm |-> (b.bm \cup Run(at, k)) \ Held(b.n), n |-> m, ok |-> TRUE]
    BY <1>2, Zenon DEF Grown, Moved, at
  <2> HIDE DEF m
  <2>7. Grown(b, k) \in Work
    BY <2>1, <2>4, <2>6 DEF Work
  <2> QED BY <2>1, <2>4, <2>5, <2>6, <2>7 DEF Rebuffered, Resized
<1> QED BY <1>1, <1>2, Zenon

\* node_reserve(): the buffer there is, or a longer one, or no change.
LEMMA ReserveRebuffers ==
  ASSUME NEW b \in Work, Held(b.n) \subseteq b.bm, b.ok, NEW need \in Nat
  PROVE  Rebuffered(b.bm, b.n, node_reserve(b, need))
<1>1. b.n \in Node /\ b.n.cap \in Nat /\ b.n.size \in Nat
  BY Zenon DEF Work, Node
<1>2. CASE need <= b.n.cap
  BY <1>2, Zenon DEF node_reserve, Resized, Rebuffered, Work, SameFile
<1>3. CASE ~(need <= b.n.cap)
  <2>1. Wanted(b.n, need) \in Nat
    BY <1>1, PagesNat DEF Wanted, AtLeast
  <2> QED BY <1>3, <2>1, MovedRebuffers, Zenon DEF node_reserve
<1> QED BY <1>2, <1>3, Zenon

\* node_set(): the same, and then the new size.
LEMMA SetRebuffers ==
  ASSUME NEW bm \in SUBSET (1 .. Frames), NEW n \in Node, Held(n) \subseteq bm, NEW len \in Nat,
         NEW r, r = node_set(Start(bm, n), len)
  PROVE  Resized(bm, n, r)
<1> DEFINE b == Start(bm, n)
           s == node_reserve(b, len)
<1>1. b \in Work /\ b.bm = bm /\ b.n = n /\ b.ok
  BY StartType, Zenon
<1> HIDE DEF b
<1>2. Rebuffered(bm, n, s)
  BY <1>1, ReserveRebuffers, Zenon
<1>3. r = Sized(s, len)
  BY Zenon DEF node_set, b
<1> HIDE DEF s
<1>4. CASE ~s.ok
  BY <1>2, <1>3, <1>4, Zenon DEF Sized, Rebuffered, Resized
<1>5. CASE s.ok
  <2> DEFINE m == [s.n EXCEPT !.size = len]
  <2>1. r = Start(s.bm, m)
    BY <1>2, <1>3, <1>5, Zenon DEF Sized, Rebuffered, Resized, Work, Start
  <2>2. m \in Node /\ SameFile(m, s.n) /\ m.at = s.n.at /\ m.cap = s.n.cap
    BY <1>2, ZenonT(40) DEF Rebuffered, Resized, Work, Node, SameFile
  <2> HIDE DEF m
  <2>3. Held(m) = Held(s.n)
    BY <2>2, SameHeld, Zenon
  <2>4. s.bm \in SUBSET (1 .. Frames)
    BY <1>2, Zenon DEF Rebuffered, Resized, Work
  <2>5. r.n = m /\ r.bm = s.bm /\ r.ok
    BY <2>1, <2>2, <2>4, StartType
  <2>6. r \in Work
    BY <2>1, <2>2, <2>4, StartType
  <2> QED BY <1>2, <2>2, <2>3, <2>5, <2>6, SameFiles DEF Rebuffered, Resized
<1> QED BY <1>4, <1>5, Zenon

-----------------------------------------------------------------------------
(* The table of nodes and the pool.                                        *)

Accounted(ns, bm) ==
  /\ bm = UNION {Held(ns[i]) : i \in Nodes}
  /\ \A i, j \in Nodes : i # j => Held(ns[i]) \cap Held(ns[j]) = {}
  /\ \A i \in Nodes : ~ns[i].used => ns[i].at = 0

Table(ns, bm) == ns \in [Nodes -> Node] /\ bm \in SUBSET (1 .. Frames) /\ Accounted(ns, bm)

\* One node is replaced; the frames it gives back and takes are its own.
LEMMA Replaced ==
  ASSUME NEW ns, NEW bm, Table(ns, bm), NEW i \in Nodes, NEW m \in Node, ~m.used => m.at = 0,
         Held(m) \cap (bm \ Held(ns[i])) = {}, NEW bm2 \in SUBSET (1 .. Frames),
         bm2 = (bm \ Held(ns[i])) \cup Held(m)
  PROVE  Table([ns EXCEPT ![i] = m], bm2)
<1> DEFINE ms == [ns EXCEPT ![i] = m]
<1>1. ms \in [Nodes -> Node] /\ ms[i] = m /\ \A j \in Nodes : j # i => ms[j] = ns[j]
  BY Zenon DEF Table
<1> HIDE DEF ms
<1>2. \A j \in Nodes : Held(ns[j]) \subseteq bm
  BY DEF Table, Accounted
<1>3. \A j \in Nodes : j # i => Held(ms[j]) = Held(ns[j]) /\ Held(ns[j]) \subseteq bm \ Held(ns[i])
  BY <1>1, <1>2, Zenon DEF Table, Accounted
<1>4. Held(ms[i]) = Held(m)
  BY <1>1, Zenon
<1>5. bm2 = UNION {Held(ms[j]) : j \in Nodes}
  <2>1. ASSUME NEW x \in bm2 PROVE \E j \in Nodes : x \in Held(ms[j])
    <3>1. CASE x \in Held(m)
      BY <1>4, <3>1, Zenon
    <3>2. CASE x \in bm \ Held(ns[i])
      <4>1. PICK j \in Nodes : x \in Held(ns[j])
        BY <3>2 DEF Table, Accounted
      <4> QED BY <1>3, <3>2, <4>1, Zenon
    <3> QED BY <3>1, <3>2, ZenonT(40)
  <2>2. ASSUME NEW j \in Nodes PROVE Held(ms[j]) \subseteq bm2
    BY <1>3, <1>4, Zenon
  <2> QED BY <2>1, <2>2
<1>6. \A j, k \in Nodes : j # k => Held(ms[j]) \cap Held(ms[k]) = {}
  <2> SUFFICES ASSUME NEW j \in Nodes, NEW k \in Nodes, j # k
               PROVE  Held(ms[j]) \cap Held(ms[k]) = {}
    OBVIOUS
  <2>1. CASE j = i
    BY <1>3, <1>4, <2>1, Zenon
  <2>2. CASE k = i
    BY <1>3, <1>4, <2>2, Zenon
  <2>3. CASE j # i /\ k # i
    BY <1>3, <2>3, ZenonT(40) DEF Table, Accounted
  <2> QED BY <2>1, <2>2, <2>3, Zenon
<1>7. \A j \in Nodes : ~ms[j].used => ms[j].at = 0
  BY <1>1, Zenon DEF Table, Accounted
<1> QED BY <1>1, <1>5, <1>6, <1>7, Zenon DEF Table, Accounted, ms

\* The same run, used as before.
LEMMA SameRun ==
  ASSUME NEW ns, NEW bm, Table(ns, bm), NEW i \in Nodes, NEW m \in Node,
         m.at = ns[i].at, m.cap = ns[i].cap, m.used = ns[i].used
  PROVE  Table([ns EXCEPT ![i] = m], bm)
<1>1. Held(m) = Held(ns[i])
  BY SameHeld, Zenon
<1>2. Held(ns[i]) \subseteq bm /\ bm \in SUBSET (1 .. Frames) /\ (~ns[i].used => ns[i].at = 0)
  BY ZenonT(40) DEF Table, Accounted
<1> QED BY <1>1, <1>2, Replaced

\* No run any more, as when a node is emptied or gone.
LEMMA Released ==
  ASSUME NEW ns, NEW bm, Table(ns, bm), NEW i \in Nodes, NEW m \in Node, m.at = 0
  PROVE  Table([ns EXCEPT ![i] = m], bm \ Held(ns[i]))
<1>1. Held(m) = {}
  BY Zenon DEF Held
<1>2. bm \ Held(ns[i]) \in SUBSET (1 .. Frames)
  BY ZenonT(40) DEF Table
<1> QED BY <1>1, <1>2, Replaced

\* A free entry is filled in.
LEMMA FilledIn ==
  ASSUME NEW ns, NEW bm, Table(ns, bm), NEW i \in Nodes, ~ns[i].used, NEW m \in Node,
         m.used, Held(m) \cap bm = {}, NEW bm2 \in SUBSET (1 .. Frames), bm2 = bm \cup Held(m)
  PROVE  Table([ns EXCEPT ![i] = m], bm2)
<1>1. Held(ns[i]) = {}
  BY Zenon DEF Table, Accounted, Held
<1> QED BY <1>1, Replaced, SMTT(30)

\* node_set() of the node in an entry.
LEMMA SetIn ==
  ASSUME NEW ns, NEW bm, Table(ns, bm), NEW i \in Nodes, NEW len \in Nat,
         ns[i].used, NEW r, r = node_set(Start(bm, ns[i]), len)
  PROVE  Table([ns EXCEPT ![i] = r.n], r.bm)
<1>1. ns[i] \in Node /\ Held(ns[i]) \subseteq bm /\ bm \in SUBSET (1 .. Frames)
  BY Zenon DEF Table, Accounted
<1>2. Resized(bm, ns[i], r)
  BY <1>1, SetRebuffers, Zenon
<1>3. r.n \in Node /\ r.bm \in SUBSET (1 .. Frames) /\ r.n.used
  BY <1>2, Zenon DEF Work, Resized, SameFile
<1> QED BY <1>2, <1>3, Replaced, Zenon DEF Resized

-----------------------------------------------------------------------------
(* The helpers of the calls.                                               *)

\* find() and add()'s search.
LEMMA FoundIn ==
  ASSUME NEW ns, NEW path
  PROVE  /\ find(ns, path) # 0 => find(ns, path) \in Nodes /\ ns[find(ns, path)].used
         /\ FreeNode(ns) # 0 => FreeNode(ns) \in Nodes /\ ~ns[FreeNode(ns)].used
<1> DEFINE S == {i \in Nodes : ns[i].used /\ ns[i].path = path}
           T == {i \in Nodes : ~ns[i].used}
<1>1. S \subseteq Nat /\ T \subseteq Nat
  BY DEF Nodes
<1>2. find(ns, path) = Lowest(S) /\ FreeNode(ns) = Lowest(T)
  BY Zenon DEF find, FreeNode
<1> HIDE DEF S, T
<1>3. find(ns, path) # 0 => find(ns, path) \in S
  BY <1>1, <1>2, LowestIn, Zenon
<1>4. FreeNode(ns) # 0 => FreeNode(ns) \in T
  BY <1>1, <1>2, LowestIn, Zenon
<1> QED BY <1>3, <1>4, Zenon DEF S, T

\* The lowest free descriptor.
LEMMA FreeFdIn ==
  ASSUME NEW fs, FreeFd(fs) # 0
  PROVE  FreeFd(fs) \in OwnFds /\ FreeFd(fs) \in Fds /\ ~fs[FreeFd(fs)].used
<1> DEFINE S == {i \in OwnFds : ~fs[i].used}
<1>1. S \subseteq Nat /\ OwnFds \subseteq Fds
  BY VfsAssumption DEF OwnFds, Fds
<1>2. FreeFd(fs) = Lowest(S)
  BY Zenon DEF FreeFd
<1> HIDE DEF S
<1>3. FreeFd(fs) \in S
  BY <1>1, <1>2, LowestIn, ZenonT(40)
<1> QED BY <1>1, <1>3, Zenon DEF S

\* A node that add() makes.
LEMMA AddType ==
  ASSUME NEW p \in Pids, NEW path \in Paths, NEW kind \in {"file", "dir"}
  PROVE  add(p, path, kind) \in Node /\ add(p, path, kind).used /\ Held(add(p, path, kind)) = {}
<1>1. UidOf[p] \in Nat /\ GidOf[p] \in Nat /\ path \in Seq(STRING)
  BY VfsAssumption, Zenon
<1>2. Default \in SUBSET (Classes \X RW)
  BY DEF Default, Classes, RW
<1> QED BY <1>1, <1>2, Zenon DEF add, Node, Held

-----------------------------------------------------------------------------
(* The types of the variables the calls work on.                           *)

File == [used: BOOLEAN, pos: Nat, append: BOOLEAN, node: 0 .. MAX_N, owner: Pids \cup {0}]
Display == [gfx: BOOLEAN, took: BOOLEAN, prog: BOOLEAN, desk: BOOLEAN]

\* What the calls find: tables of their types, and every frame accounted for.
VfsInv ==
  /\ Table(nodes, bitmap)
  /\ files \in [Fds -> File]
  /\ display \in Display
  /\ alive \subseteq Pids

\* The buffer of a node begins as what the node has.
LEMMA BufferStart ==
  ASSUME NEW n
  PROVE  Buffer(n) = Start(bitmap, n)
BY Zenon DEF Buffer, Start

\* A node of another size, of which nothing else is different.
LEMMA OtherSize ==
  ASSUME NEW n \in Node, NEW len \in Nat, NEW m, m = [n EXCEPT !.size = len]
  PROVE  /\ m \in Node /\ SameFile(m, n) /\ Held(m) = Held(n)
         /\ m.cap = n.cap /\ m.size = len
<1>1. m \in Node /\ m.at = n.at /\ m.cap = n.cap /\ m.size = len
  BY ZenonT(40) DEF Node
<1>2. SameFile(m, n)
  BY ZenonT(40) DEF Node, SameFile
<1>3. Held(m) = Held(n)
  BY <1>1, SameHeld, Zenon
<1> QED BY <1>1, <1>2, <1>3, Zenon

\* regen_synth() is node_set() of the page that has its new size already.
LEMMA RegenResizes ==
  ASSUME NEW ns, Table(ns, bitmap), NEW i \in Nodes, NEW len \in Nat,
         NEW r, r = regen_synth(ns[i], len), NEW m, m = [ns[i] EXCEPT !.size = len]
  PROVE  /\ m \in Node /\ Held(m) = Held(ns[i]) /\ Held(m) \subseteq bitmap
         /\ SameFile(m, ns[i]) /\ m.cap = ns[i].cap /\ m.size = len
         /\ r = node_set(Start(bitmap, m), len) /\ Resized(bitmap, m, r)
<1>1. ns[i] \in Node /\ Held(ns[i]) \subseteq bitmap /\ bitmap \in SUBSET (1 .. Frames)
  BY Zenon DEF Table, Accounted
<1>2. /\ m \in Node /\ SameFile(m, ns[i]) /\ Held(m) = Held(ns[i])
      /\ m.cap = ns[i].cap /\ m.size = len
  BY <1>1, OtherSize, SMTT(30)
<1>3. r = node_set(Start(bitmap, m), len)
  BY BufferStart, Zenon DEF regen_synth
<1>4. Held(m) \subseteq bitmap
  BY <1>1, <1>2, Zenon
<1>5. Resized(bitmap, m, r)
  BY <1>1, <1>2, <1>3, <1>4, SetRebuffers, Zenon
<1> QED BY <1>2, <1>3, <1>4, <1>5, Zenon

\* regen_synth() of the page in an entry.
LEMMA RegenIn ==
  ASSUME NEW ns, Table(ns, bitmap), NEW i \in Nodes, ns[i].used, NEW len \in Nat,
         NEW r, r = regen_synth(ns[i], len)
  PROVE  Table([ns EXCEPT ![i] = r.n], r.bm) /\ r.n \in Node /\ SameFile(r.n, ns[i])
<1>0. PICK m : m = [ns[i] EXCEPT !.size = len]
  BY Zenon
<1>1. Held(m) = Held(ns[i]) /\ SameFile(m, ns[i]) /\ Resized(bitmap, m, r)
  BY <1>0, RegenResizes, SMTT(30)
<1>2. /\ r.n \in Node /\ r.bm \in SUBSET (1 .. Frames)
      /\ r.bm = (bitmap \ Held(ns[i])) \cup Held(r.n)
      /\ Held(r.n) \cap (bitmap \ Held(ns[i])) = {}
  BY <1>1, ZenonT(40) DEF Work, Resized
<1>3. SameFile(r.n, ns[i])
  BY <1>1, SameFiles, Zenon DEF Resized
<1>4. r.n.used
  BY <1>3, Zenon DEF SameFile
<1>5. Table([ns EXCEPT ![i] = r.n], r.bm)
  BY <1>2, <1>4, Replaced, Zenon
<1> QED BY <1>2, <1>3, <1>5, Zenon

-----------------------------------------------------------------------------
(* Every call keeps the frames accounted for.                              *)

\* open(), once the node is known: in any case a used one of a sound table.
LEMMA FoundTable ==
  ASSUME VfsInv, NEW p \in Pids, NEW path \in Paths, NEW fl, NEW x \in Found(p, path, fl)
  PROVE  Table(x.ns, bitmap) /\ x.i \in Nodes /\ x.ns[x.i].used
<1>1. CASE find(nodes, path) # 0
  <2>1. x = [ns |-> nodes, i |-> find(nodes, path)]
    BY <1>1, Zenon DEF Found
  <2> QED BY <1>1, <2>1, FoundIn, Zenon DEF VfsInv
<1>2. CASE find(nodes, path) = 0
  <2> DEFINE n == add(p, path, "file")
  <2>1. PICK i \in Nodes : ~nodes[i].used /\ x = [ns |-> [nodes EXCEPT ![i] = n], i |-> i]
    BY <1>2, FoundIn, Zenon DEF Found
  <2>2. n \in Node /\ n.used /\ Held(n) = {}
    BY AddType, Zenon
  <2> HIDE DEF n
  <2>3. bitmap \in SUBSET (1 .. Frames) /\ nodes \in [Nodes -> Node] /\ Table(nodes, bitmap)
    BY Zenon DEF VfsInv, Table
  <2>4. Table([nodes EXCEPT ![i] = n], bitmap)
    BY <2>1, <2>2, <2>3, FilledIn, ZenonT(40)
  <2> QED BY <2>1, <2>2, <2>3, <2>4, Zenon
<1> QED BY <1>1, <1>2, Zenon

\* open() keeps the frames accounted for.
LEMMA OpenTable ==
  ASSUME VfsInv, NEW p \in Pids, NEW path \in Paths, NEW fl \in Flags, Open(p, path, fl)
  PROVE  Table(nodes, bitmap)'
<1>1. PICK x \in Found(p, path, fl) :
        \/ OpenFile(p, x, fl)
        \/ OpenSynth(p, x, fl)
        \/ OpenDisplay(p, x, fl)
  BY Zenon DEF Open
<1>2. Table(x.ns, bitmap) /\ x.i \in Nodes /\ x.ns[x.i].used
  BY FoundTable, Zenon
<1>3. CASE OpenFile(p, x, fl)
  <2>1. bitmap' = bitmap /\ nodes' = Emptied(x.ns, x.i, fl.trunc)
    BY <1>3, Zenon DEF OpenFile
  <2>2. CASE nodes' = x.ns
    BY <1>2, <2>1, <2>2, Zenon
  <2>3. CASE nodes' # x.ns
    <3> DEFINE m == [x.ns[x.i] EXCEPT !.size = 0]
    <3>1. nodes' = [x.ns EXCEPT ![x.i] = m]
      BY <2>1, <2>3, Zenon DEF Emptied
    <3>2. x.ns[x.i] \in Node
      BY <1>2, Zenon DEF Table
    <3>3. /\ m \in Node /\ m.at = x.ns[x.i].at /\ m.cap = x.ns[x.i].cap
          /\ m.used = x.ns[x.i].used
      BY <3>2, Zenon DEF Node
    <3> HIDE DEF m
    <3>4. Table([x.ns EXCEPT ![x.i] = m], bitmap)
      BY <1>2, <3>3, SameRun, ZenonT(40)
    <3> QED BY <2>1, <3>1, <3>4, Zenon
  <2> QED BY <2>2, <2>3, Zenon
<1>4. CASE OpenSynth(p, x, fl)
  <2>1. PICK len \in Counts : \E b \in {regen_synth(x.ns[x.i], len)} :
            nodes' = [x.ns EXCEPT ![x.i] = b.n] /\ bitmap' = b.bm
    BY <1>4, Zenon DEF OpenSynth
  <2>2. len \in Nat
    BY VfsAssumption, Zenon
  <2> DEFINE b == regen_synth(x.ns[x.i], len)
  <2>3. nodes' = [x.ns EXCEPT ![x.i] = b.n] /\ bitmap' = b.bm
    BY <2>1, Zenon
  <2>4. Table([x.ns EXCEPT ![x.i] = b.n], b.bm)
    BY <1>2, <2>2, RegenIn, Zenon
  <2> QED BY <2>3, <2>4, Zenon
<1>5. CASE OpenDisplay(p, x, fl)
  BY <1>5, Zenon DEF OpenDisplay, VfsInv
<1> QED BY <1>1, <1>3, <1>4, <1>5, Zenon

\* write(): the node of the descriptor, in a buffer that may have moved.
LEMMA WriteTable ==
  ASSUME VfsInv, NEW p \in Pids, NEW fd \in Fds, NEW count \in Counts, Write(p, fd, count)
  PROVE  Table(nodes, bitmap)'
<1>1. PICK i \in On(p, fd, {"file"}, {"w"}) :
        WriteAt(fd, i, IF files[fd].append THEN nodes[i].size ELSE files[fd].pos, count)
  BY Zenon DEF Write
<1>2. i \in Nodes /\ nodes[i].used /\ files[fd].pos \in Nat
  BY <1>1 DEF On, VfsInv, File, Nodes
<1>3. nodes[i] \in Node /\ Held(nodes[i]) \subseteq bitmap /\ bitmap \in SUBSET (1 .. Frames)
      /\ Table(nodes, bitmap)
  BY <1>2, SMTT(30) DEF VfsInv, Table, Accounted
<1>4. PICK pos \in Nat : WriteAt(fd, i, pos, count)
  BY <1>1, <1>2, <1>3, Zenon DEF Node
<1>5. CASE UNCHANGED <<nodes, bitmap>>
  BY <1>3, <1>5, Zenon
<1>6. CASE ~UNCHANGED <<nodes, bitmap>>
  <2> DEFINE b == node_reserve(Buffer(nodes[i]), pos + count)
             end == pos + Fitting(b, pos, count)
             m == [b.n EXCEPT !.size = AtLeast(@, end)]
  <2>1. pos + count \in Nat /\ count \in Nat
    BY VfsAssumption
  <2>2. nodes' = [nodes EXCEPT ![i] = m] /\ bitmap' = b.bm
    BY <1>4, <1>6, SMTT(30) DEF WriteAt, Written
  <2>3. Rebuffered(bitmap, nodes[i], b)
    BY <1>3, <2>1, StartType, BufferStart, ReserveRebuffers
  <2>4. b.n \in Node /\ b.n.used /\ b.bm \in SUBSET (1 .. Frames)
    BY <1>2, <2>3, Zenon DEF Rebuffered, Resized, Work, SameFile
  <2> HIDE DEF b
  <2>5. end \in Nat
    BY <2>1, <2>4, SMTT(30) DEF Fitting, AtMost, AtLeast, Node
  <2> HIDE DEF end
  <2>6. m \in Node /\ m.used /\ m.at = b.n.at /\ m.cap = b.n.cap
    BY <2>4, <2>5, ZenonT(40) DEF AtLeast, Node
  <2> HIDE DEF m
  <2>7. Held(m) = Held(b.n)
    BY <2>6, SameHeld, ZenonT(40)
  <2>8. Table([nodes EXCEPT ![i] = m], b.bm)
    BY <1>2, <1>3, <2>3, <2>4, <2>6, <2>7, Replaced, SMTT(30) DEF Rebuffered, Resized
  <2> QED BY <2>2, <2>8, Zenon
<1> QED BY <1>5, <1>6, SMTT(30)

\* touch(), mkdir(): an entry that was free.
LEMMA NewTable ==
  ASSUME VfsInv, NEW p \in Pids, NEW path \in Paths, NEW kind \in {"file", "dir"}, New(p, path, kind)
  PROVE  Table(nodes, bitmap)'
<1> DEFINE n == add(p, path, kind)
<1>1. PICK i \in Nodes : ~nodes[i].used /\ nodes' = [nodes EXCEPT ![i] = n] /\ bitmap' = bitmap
  BY FoundIn, Zenon DEF New, Put
<1>2. n \in Node /\ n.used /\ Held(n) = {}
  BY AddType, ZenonT(40)
<1> HIDE DEF n
<1>3. bitmap \in SUBSET (1 .. Frames) /\ Table(nodes, bitmap)
  BY Zenon DEF VfsInv, Table
<1>4. Table([nodes EXCEPT ![i] = n], bitmap)
  BY <1>1, <1>2, <1>3, FilledIn, ZenonT(40)
<1> QED BY <1>1, <1>4, Zenon

\* rmdir(), unlink(): the run goes back with the name.
LEMMA DropTable ==
  ASSUME VfsInv, NEW i \in Nodes, Drop(i)
  PROVE  Table(nodes, bitmap)'
<1> DEFINE m == Gone(nodes[i])
<1>1. nodes' = [nodes EXCEPT ![i] = m] /\ bitmap' = bitmap \ Held(nodes[i])
  BY Zenon DEF Drop, Put
<1>2. Table(nodes, bitmap) /\ nodes[i] \in Node
  BY Zenon DEF VfsInv, Table
<1>3. m \in Node /\ m.at = 0
  BY <1>2, Zenon DEF Gone, node_release, Node
<1> HIDE DEF m
<1>4. Table([nodes EXCEPT ![i] = m], bitmap \ Held(nodes[i]))
  BY <1>2, <1>3, Released, Zenon
<1> QED BY <1>1, <1>4, Zenon

\* What is not ever used again is emptied.
LEMMA ReleaseType ==
  ASSUME NEW n \in Node
  PROVE  /\ node_release(n) \in Node /\ node_release(n).at = 0
         /\ node_release(n).used = n.used /\ node_release(n).size = 0 /\ node_release(n).cap = 0
BY Zenon DEF node_release, Node

\* move_file(): first the copy, whose run was free, then the run of the old.
LEMMA MoveTable ==
  ASSUME VfsInv, NEW from \in Paths, NEW to \in Paths, move_file(from, to)
  PROVE  Table(nodes, bitmap)'
<1>0. PICK i \in {find(nodes, from)} \ {0}, j \in {FreeNode(nodes)} \ {0} :
        \E b \in {node_set(Buffer(Copied(nodes[i], to)), nodes[i].size)} :
          IF b.ok
            THEN Put([nodes EXCEPT ![j] = b.n, ![i] = node_release(@)]) /\ bitmap' = b.bm \ Held(nodes[i])
            ELSE Put([nodes EXCEPT ![j] = [b.n EXCEPT !.used = FALSE]]) /\ UNCHANGED bitmap
  BY Zenon DEF move_file
<1>1. i \in Nodes /\ j \in Nodes /\ nodes[i].used /\ ~nodes[j].used
  BY FoundIn, Zenon
<1> DEFINE c == Copied(nodes[i], to)
           b == node_set(Buffer(c), nodes[i].size)
<1>2. Table(nodes, bitmap) /\ nodes \in [Nodes -> Node] /\ bitmap \in SUBSET (1 .. Frames)
  BY Zenon DEF VfsInv, Table
<1>3. nodes[i] \in Node /\ nodes[i].size \in Nat /\ to \in Seq(STRING) /\ i # j
  BY <1>1, <1>2, VfsAssumption, SMTT(30) DEF Node
<1>4. c \in Node /\ c.at = 0 /\ c.used
  <2> DEFINE r == node_release(nodes[i])
  <2>1. r \in Node /\ r.at = 0 /\ r.used = nodes[i].used
    BY <1>3, ReleaseType, ZenonT(40)
  <2>2. c = [r EXCEPT !.path = to, !.kind = "file"]
    BY Zenon DEF Copied
  <2> HIDE DEF r, c
  <2> QED BY <1>1, <1>3, <2>1, <2>2, ZenonT(40) DEF Node
<1>5. Held(c) = {}
  BY <1>4, Zenon DEF Held
<1> HIDE DEF c
<1>6. Resized(bitmap, c, b)
  BY <1>2, <1>3, <1>4, <1>5, SetRebuffers, BufferStart, SMTT(30)
<1>7. b.n \in Node /\ b.n.used /\ b.bm \in SUBSET (1 .. Frames) /\ (b.ok \/ b.n = c)
      /\ b.bm = bitmap \cup Held(b.n) /\ Held(b.n) \cap bitmap = {}
  BY <1>4, <1>5, <1>6, ZenonT(40) DEF Resized, Work, SameFile
<1>8. CASE b.ok
  <2> DEFINE ns == [nodes EXCEPT ![j] = b.n]
             m == node_release(nodes[i])
  <2>1. nodes' = [nodes EXCEPT ![j] = b.n, ![i] = node_release(@)] /\ bitmap' = b.bm \ Held(nodes[i])
    BY <1>0, <1>8, Zenon DEF Put, c
  <2> HIDE DEF b
  <2>2. ns[i] = nodes[i]
    BY <1>2, <1>3
  <2>3. nodes' = [ns EXCEPT ![i] = m]
    BY <2>1, <2>2, Zenon
  <2>4. Table(ns, b.bm)
    BY <1>1, <1>2, <1>7, FilledIn, ZenonT(40)
  <2> HIDE DEF ns
  <2>5. m \in Node /\ m.at = 0
    BY <1>3, ReleaseType, SMTT(30)
  <2> HIDE DEF m
  <2>6. Table([ns EXCEPT ![i] = m], b.bm \ Held(ns[i]))
    BY <1>1, <2>4, <2>5, Released, Zenon
  <2> QED BY <2>1, <2>2, <2>3, <2>6, ZenonT(40)
<1>9. CASE ~b.ok
  <2> DEFINE m == [b.n EXCEPT !.used = FALSE]
  <2>1. nodes' = [nodes EXCEPT ![j] = m] /\ bitmap' = bitmap
    BY <1>0, <1>9, SMTT(30) DEF Put, c
  <2>2. b.n = c
    BY <1>7, <1>9, ZenonT(40)
  <2> HIDE DEF b
  <2>3. m \in Node /\ m.at = 0
    BY <1>4, <2>2, ZenonT(40) DEF Node
  <2>4. Held(nodes[j]) = {}
    BY <1>1, <1>2, ZenonT(40) DEF Table, Accounted, Held
  <2> HIDE DEF m
  <2>5. Table([nodes EXCEPT ![j] = m], bitmap \ Held(nodes[j]))
    BY <1>1, <1>2, <2>3, Released, ZenonT(40)
  <2> QED BY <2>1, <2>4, <2>5, SMTT(30)
<1> QED BY <1>8, <1>9, Zenon

\* set_path() and stat(): a node is given new contents.
LEMMA SetTable ==
  ASSUME VfsInv, NEW i \in Nodes, nodes[i].used, NEW len \in Nat,
         NEW b, b = node_set(Buffer(nodes[i]), len) \/ b = regen_synth(nodes[i], len),
         Put([nodes EXCEPT ![i] = b.n]), bitmap' = b.bm
  PROVE  Table(nodes, bitmap)'
<1>1. CASE b = node_set(Buffer(nodes[i]), len)
  <2>1. Table([nodes EXCEPT ![i] = b.n], b.bm)
    BY <1>1, SetIn, BufferStart, Zenon DEF VfsInv
  <2> QED BY <2>1, Zenon DEF Put
<1>2. CASE b = regen_synth(nodes[i], len)
  <2>1. Table([nodes EXCEPT ![i] = b.n], b.bm)
    BY <1>2, RegenIn, Zenon DEF VfsInv
  <2> QED BY <2>1, Zenon DEF Put
<1> QED BY <1>1, <1>2, Zenon

\* chmod() and chown().
LEMMA OwnTable ==
  ASSUME VfsInv, NEW path,
         \/ \E p \in Pids, mode \in Modes : chmod(p, path, mode)
         \/ \E p \in Pids, u \in Uids : chown(p, path, u)
  PROVE  Table(nodes, bitmap)'
<1>1. Table(nodes, bitmap) /\ nodes \in [Nodes -> Node] /\ bitmap' = bitmap
  BY Zenon DEF VfsInv, Table, chmod, chown
<1>2. PICK i \in Nodes :
        \/ \E mode \in Modes : nodes' = [nodes EXCEPT ![i].perm = mode]
        \/ \E u \in Uids : nodes' = [nodes EXCEPT ![i].uid = u]
  BY FoundIn DEF chmod, chown, Put
<1>3. nodes[i] \in Node
  BY <1>1, Zenon
<1>4. CASE \E mode \in Modes : nodes' = [nodes EXCEPT ![i].perm = mode]
  <2>1. PICK mode \in Modes : nodes' = [nodes EXCEPT ![i].perm = mode]
    BY <1>4, Zenon
  <2> DEFINE m == [nodes[i] EXCEPT !.perm = mode]
  <2>2. nodes' = [nodes EXCEPT ![i] = m] /\ mode \in SUBSET (Classes \X RW)
    BY <2>1, VfsAssumption, Zenon
  <2>3. m \in Node /\ m.at = nodes[i].at /\ m.cap = nodes[i].cap /\ m.used = nodes[i].used
    BY <1>3, <2>2, SMTT(30) DEF Node
  <2> HIDE DEF m
  <2>4. Table([nodes EXCEPT ![i] = m], bitmap)
    BY <1>1, <2>3, SameRun, Zenon
  <2> QED BY <1>1, <2>2, <2>4, Zenon
<1>5. CASE \E u \in Uids : nodes' = [nodes EXCEPT ![i].uid = u]
  <2>1. PICK u \in Uids : nodes' = [nodes EXCEPT ![i].uid = u]
    BY <1>5, Zenon
  <2> DEFINE m == [nodes[i] EXCEPT !.uid = u]
  <2>2. nodes' = [nodes EXCEPT ![i] = m] /\ u \in Nat
    BY <2>1, VfsAssumption, Zenon
  <2>3. m \in Node /\ m.at = nodes[i].at /\ m.cap = nodes[i].cap /\ m.used = nodes[i].used
    BY <1>3, <2>2, Zenon DEF Node
  <2> HIDE DEF m
  <2>4. Table([nodes EXCEPT ![i] = m], bitmap)
    BY <1>1, <2>3, SameRun, Zenon
  <2> QED BY <1>1, <2>2, <2>4, Zenon
<1> QED BY <1>2, <1>4, <1>5, Zenon

\* The calls on names but open().
LEMMA NamesTable ==
  ASSUME VfsInv, NEW path \in Paths, NEW p \in Pids,
         \/ stat(path) \/ \E n \in Counts : set_path(path, n)
         \/ \E to \in Paths : move_file(path, to)
         \/ touch(p, path) \/ mkdir(p, path) \/ rmdir(p, path) \/ unlink(p, path)
         \/ \E mode \in Modes : chmod(p, path, mode)
         \/ \E u \in Uids : chown(p, path, u)
  PROVE  Table(nodes, bitmap)'
<1>1. \A i \in {find(nodes, path)} \ {0} : i \in Nodes /\ nodes[i].used
  BY FoundIn, Zenon
<1>2. Counts \subseteq Nat
  BY VfsAssumption, Zenon
<1>3. CASE stat(path) \/ \E n \in Counts : set_path(path, n)
  <2>1. PICK i \in {find(nodes, path)} \ {0}, len \in Counts :
          \E b \in {node_set(Buffer(nodes[i]), len), regen_synth(nodes[i], len)} :
            Put([nodes EXCEPT ![i] = b.n]) /\ bitmap' = b.bm
    BY <1>3, ZenonT(40) DEF stat, set_path
  <2> QED BY <1>1, <1>2, <2>1, SetTable, ZenonT(40)
<1>4. CASE \E to \in Paths : move_file(path, to)
  BY <1>4, MoveTable, ZenonT(40)
<1>5. CASE touch(p, path) \/ mkdir(p, path)
  BY <1>5, NewTable, ZenonT(40) DEF touch, mkdir
<1>6. CASE rmdir(p, path) \/ unlink(p, path)
  <2>1. PICK i \in {find(nodes, path)} \ {0} : Drop(i)
    BY <1>6, ZenonT(40) DEF rmdir, unlink
  <2> QED BY <1>1, <2>1, DropTable, ZenonT(40)
<1>7. CASE (\E mode \in Modes : chmod(p, path, mode)) \/ (\E u \in Uids : chown(p, path, u))
  BY <1>7, OwnTable, ZenonT(40)
<1> QED BY <1>3, <1>4, <1>5, <1>6, <1>7, SMTT(30)

-----------------------------------------------------------------------------
(* Files and their buffers.                                                *)

\* So many frames hold so many bytes.
LEMMA PagesHold ==
  ASSUME NEW need \in Nat, NEW k \in Nat, k >= Pages(need)
  PROVE  k * PAGE >= need
<1>1. PAGE \in Nat /\ PAGE > 0
  BY VfsAssumption
<1> DEFINE a == need + PAGE - 1
           q == a \div PAGE
<1>2. a \in Nat /\ q \in Nat /\ Pages(need) = q
  BY <1>1, PagesNat DEF Pages
<1>3. \A x, y \in Nat : y > 0 => x < y * (x \div y) + y
  OBVIOUS
<1>4. a < PAGE * q + PAGE
  BY <1>1, <1>2, <1>3, Zenon
<1> HIDE DEF q
<1>5. need <= q * PAGE
  BY <1>1, <1>2, <1>4
<1>6. \A x, y, z \in Nat : x >= y => x * z >= y * z
  OBVIOUS
<1>7. k * PAGE >= q * PAGE /\ k * PAGE \in Nat /\ q * PAGE \in Nat
  BY <1>1, <1>2, <1>6, SMTT(30)
<1> QED BY <1>5, <1>7

\* node_reserve(): room for what was asked, or no run to be found.
LEMMA ReserveHolds ==
  ASSUME NEW bm \in SUBSET (1 .. Frames), NEW n \in Node, NEW need \in Nat,
         NEW r, r = node_reserve(Start(bm, n), need)
  PROVE  \/ r.ok /\ r.n.cap \in Nat /\ r.n.cap >= need /\ r.n.cap >= n.cap
         \/ ~r.ok /\ r.n = n /\ alloc_contig(bm, Wanted(n, need)) = 0
<1> DEFINE b == Start(bm, n)
           k == Wanted(n, need)
           at == alloc_contig(bm, k)
<1>1. b \in Work /\ b.bm = bm /\ b.n = n /\ b.ok
  BY StartType, Zenon
<1>2. b = [bm |-> bm, n |-> n, ok |-> TRUE] /\ n.cap \in Nat
  BY Zenon DEF Start, Node
<1>3. k \in Nat /\ k >= Pages(need)
  BY <1>2, PagesNat DEF Wanted, AtLeast
<1>4. k * PAGE >= need /\ k * PAGE \in Nat
  BY <1>3, PagesHold, VfsAssumption, SMTT(30)
<1>5. r = IF need <= n.cap THEN b ELSE Moved(b, at, k)
  BY <1>1, Zenon DEF node_reserve, Grown
<1> HIDE DEF b, k, at
<1>6. CASE need <= n.cap
  BY <1>1, <1>2, <1>5, <1>6
<1>7. CASE ~(need <= n.cap) /\ at = 0
  <2>1. r = [b EXCEPT !.ok = FALSE]
    BY <1>5, <1>7, SMTT(30) DEF Moved
  <2> QED BY <1>1, <1>7, <2>1, Zenon DEF at, k, Work
<1>8. CASE ~(need <= n.cap) /\ at # 0
  <2> DEFINE m == [b.n EXCEPT !.at = at, !.cap = k * PAGE]
  <2>1. r = [bm |-> (b.bm \cup Run(at, k)) \ Held(b.n), n |-> m, ok |-> TRUE]
    BY <1>5, <1>8, ZenonT(40) DEF Moved
  <2>3. m.cap = k * PAGE
    BY <1>1, SMTT(30) DEF Node
  <2> HIDE DEF m
  <2>2. r.ok /\ r.n.cap = k * PAGE
    BY <2>1, <2>3
  <2> QED BY <1>2, <1>4, <1>8, <2>2, SMTT(30)
<1> QED BY <1>6, <1>7, <1>8, SMTT(30)

\* node_set(): what is stored fits, or there is no run for it and nothing changes.
LEMMA SetHolds ==
  ASSUME NEW bm \in SUBSET (1 .. Frames), NEW n \in Node, NEW len \in Nat,
         NEW r, r = node_set(Start(bm, n), len), Held(n) \subseteq bm, Overfull(r.n)
  PROVE  ~r.ok /\ r.n = n /\ alloc_contig(bm, Wanted(n, len)) = 0
<1> DEFINE b == Start(bm, n)
           s == node_reserve(b, len)
<1>1. \/ s.ok /\ s.n.cap \in Nat /\ s.n.cap >= len
      \/ ~s.ok /\ s.n = n /\ alloc_contig(bm, Wanted(n, len)) = 0
  BY ReserveHolds, SMTT(30)
<1>0. b \in Work /\ b.bm = bm /\ b.n = n /\ b.ok
  BY StartType, SMTT(30)
<1>2. s \in Work
  <2> HIDE DEF b
  <2> QED BY <1>0, ReserveRebuffers, ZenonT(40) DEF Rebuffered, Resized
<1>3. r = Sized(s, len)
  BY ZenonT(40) DEF node_set
<1> HIDE DEF s
<1>4. CASE ~s.ok
  BY <1>1, <1>3, <1>4, SMTT(30) DEF Sized
<1>5. CASE s.ok
  <2>1. s.n \in Node
    BY <1>2, Zenon DEF Work
  <2>2. r.n = [s.n EXCEPT !.size = len]
    BY <1>2, <1>3, <1>5, Zenon DEF Sized, Work
  <2>3. r.n.size = len /\ r.n.cap = s.n.cap
    BY <2>1, <2>2, ZenonT(40) DEF Node
  <2> QED BY <1>1, <1>5, <2>3 DEF Overfull
<1> QED BY <1>4, <1>5, SMTT(30)

\* No node got longer than its buffer.
Contained(ns, ms) == \A i \in Nodes : Overfull(ms[i]) => Overfull(ns[i])

\* A node that is not made overfull keeps the table contained.
LEMMA ContainedOne ==
  ASSUME NEW ns \in [Nodes -> Node], NEW k \in Nodes, NEW m, Overfull(m) => Overfull(ns[k])
  PROVE  Contained(ns, [ns EXCEPT ![k] = m])
BY ZenonT(40) DEF Contained

\* node_set() leaves no node overfull that was not.
LEMMA ContainedSet ==
  ASSUME NEW ns, NEW bm, Table(ns, bm), NEW k \in Nodes, NEW len \in Nat,
         NEW r, r = node_set(Start(bm, ns[k]), len)
  PROVE  Contained(ns, [ns EXCEPT ![k] = r.n])
<1>1. ns \in [Nodes -> Node] /\ ns[k] \in Node /\ Held(ns[k]) \subseteq bm /\ bm \in SUBSET (1 .. Frames)
  BY ZenonT(40) DEF Table, Accounted
<1>2. Overfull(r.n) => r.n = ns[k]
  BY <1>1, SetHolds
<1> QED BY <1>1, <1>2, ContainedOne, ZenonT(40)

\* regen_synth() of a page in the table: longer than its buffer if it was, or
\* if there is no run for its text.
LEMMA PageOutgrows ==
  ASSUME VfsInv, NEW i \in Nodes, nodes[i].kind = "synth", NEW len \in Nat,
         NEW r, r = regen_synth(nodes[i], len),
         nodes' = [nodes EXCEPT ![i] = r.n], bitmap' = r.bm,
         NEW k \in Nodes, Overfull(nodes'[k])
  PROVE  Overfull(nodes[k]) \/ StarvedPage(k)
<1>1. Table(nodes, bitmap) /\ nodes \in [Nodes -> Node] /\ bitmap \in SUBSET (1 .. Frames)
  BY Zenon DEF VfsInv, Table
<1>0. PICK m : m = [nodes[i] EXCEPT !.size = len]
  BY Zenon
<1>2. CASE k # i
  BY <1>1, <1>2, Zenon
<1>3. CASE k = i
  <2>1. /\ m \in Node /\ Held(m) \subseteq bitmap /\ m.cap = nodes[i].cap /\ m.size = len
        /\ r = node_set(Start(bitmap, m), len) /\ Resized(bitmap, m, r)
    BY <1>0, <1>1, RegenResizes, SMTT(30)
  <2>2. nodes'[i] = r.n /\ Overfull(r.n)
    BY <1>1, <1>3, Zenon
  <2>3. r.n = m /\ alloc_contig(bitmap, Wanted(m, len)) = 0
    BY <1>1, <2>1, <2>2, SetHolds, SMTT(30)
  <2>4. Wanted(m, len) = Wanted(nodes[i], len)
    BY <2>1, Zenon DEF Wanted
  <2>5. r.bm = bitmap
    <3>1. r.bm = (bitmap \ Held(m)) \cup Held(m)
      BY <2>1, <2>3, Zenon DEF Resized
    <3> QED BY <2>1, <3>1, Zenon
  <2>6. nodes'[i].size = len /\ nodes'[i] = [nodes[i] EXCEPT !.size = len] /\ bitmap' = bitmap
    BY <1>0, <2>1, <2>2, <2>3, <2>5, Zenon
  <2> QED BY <1>3, <2>3, <2>4, <2>6, Zenon DEF StarvedPage
<1> QED BY <1>2, <1>3, Zenon

\* A node of a free entry, one that is emptied, one whose rights change.
LEMMA NotOverfull ==
  /\ \A path, kind : \A p \in Pids : ~Overfull(add(p, path, kind))
  /\ \A n \in Node : ~Overfull([n EXCEPT !.size = 0]) /\ ~Overfull(node_release(n)) /\ ~Overfull(Gone(n))
  /\ \A perm : \A n \in Node : Overfull([n EXCEPT !.perm = perm]) => Overfull(n)
  /\ \A u : \A n \in Node : Overfull([n EXCEPT !.uid = u]) => Overfull(n)
  /\ \A n \in Node : ~Overfull([n EXCEPT !.used = FALSE])
<1>1. \A path, kind : \A p \in Pids : ~Overfull(add(p, path, kind))
  BY DEF add, Overfull
<1>2. \A n \in Node : ~Overfull([n EXCEPT !.size = 0])
  BY DEF Overfull, Node
<1>3. \A n \in Node : node_release(n) \in Node /\ ~Overfull(node_release(n))
  BY ReleaseType DEF Overfull
<1>4. \A n \in Node : ~Overfull([n EXCEPT !.used = FALSE])
  BY Zenon DEF Overfull, Node
<1>5. ASSUME NEW n \in Node PROVE ~Overfull(Gone(n))
  <2> DEFINE r == node_release(n)
  <2>1. r \in Node /\ Gone(n) = [r EXCEPT !.used = FALSE]
    BY <1>3, Zenon DEF Gone
  <2> HIDE DEF r
  <2> QED BY <1>4, <2>1, Zenon
<1>6. \A perm : \A n \in Node : Overfull([n EXCEPT !.perm = perm]) => Overfull(n)
  BY ZenonT(40) DEF Overfull, Node
<1>7. \A u : \A n \in Node : Overfull([n EXCEPT !.uid = u]) => Overfull(n)
  BY ZenonT(40) DEF Overfull, Node
<1> QED BY <1>1, <1>2, <1>3, <1>4, <1>5, <1>6, <1>7, SMTT(30)

\* open() makes no node overfull but a /proc page.
LEMMA OpenOutgrows ==
  ASSUME VfsInv, NEW p \in Pids, NEW path \in Paths, NEW fl \in Flags, Open(p, path, fl),
         NEW k \in Nodes, Overfull(nodes'[k])
  PROVE  Overfull(nodes[k]) \/ StarvedPage(k)
<1>1. PICK x \in Found(p, path, fl) :
        \/ OpenFile(p, x, fl)
        \/ x.ns[x.i].kind = "synth" /\ OpenSynth(p, x, fl)
        \/ OpenDisplay(p, x, fl)
  BY ZenonT(40) DEF Open
<1>2. Table(x.ns, bitmap) /\ x.i \in Nodes /\ x.ns \in [Nodes -> Node] /\ x.ns[x.i] \in Node
  BY FoundTable, ZenonT(40) DEF Table
<1>3. nodes \in [Nodes -> Node]
  BY Zenon DEF VfsInv, Table
<1>4. Contained(nodes, x.ns)
  <2>1. CASE x.ns = nodes
    BY <2>1, SMTT(30) DEF Contained
  <2>2. CASE x.ns # nodes
    <3> DEFINE m == add(p, path, "file")
    <3>1. PICK i \in Nodes : x.ns = [nodes EXCEPT ![i] = m]
      BY <2>2, FoundIn DEF Found
    <3>2. ~Overfull(m)
      BY NotOverfull, Zenon
    <3> HIDE DEF m
    <3>3. Contained(nodes, [nodes EXCEPT ![i] = m])
      BY <1>3, <3>2, ContainedOne, ZenonT(40)
    <3> QED BY <3>1, <3>3, SMTT(30)
  <2> QED BY <2>1, <2>2, Zenon
<1>5. CASE OpenFile(p, x, fl)
  <2> DEFINE m == [x.ns[x.i] EXCEPT !.size = 0]
  <2>1. nodes' = x.ns \/ nodes' = [x.ns EXCEPT ![x.i] = m]
    BY <1>5, Zenon DEF OpenFile, Emptied
  <2>2. ~Overfull(m)
    BY <1>2, NotOverfull, SMTT(30)
  <2> HIDE DEF m
  <2>3. Contained(x.ns, [x.ns EXCEPT ![x.i] = m]) /\ Contained(x.ns, x.ns)
    BY <1>2, <2>2, ContainedOne, SMTT(30) DEF Contained
  <2>4. Contained(x.ns, nodes')
    BY <2>1, <2>3, Zenon
  <2> QED BY <1>4, <2>4, Zenon DEF Contained
<1>6. CASE x.ns[x.i].kind = "synth" /\ OpenSynth(p, x, fl)
  <2>1. x.ns = nodes
    <3> DEFINE m == add(p, path, "file")
    <3>1. x.ns = nodes \/ x.ns = [nodes EXCEPT ![x.i] = m]
      BY SMTT(30) DEF Found
    <3>2. m.kind = "file"
      BY Zenon DEF add
    <3> HIDE DEF m
    <3>3. x.ns # [nodes EXCEPT ![x.i] = m]
      BY <1>2, <1>3, <1>6, <3>2, SMTT(30)
    <3> QED BY <3>1, <3>3, Zenon
  <2>2. PICK len \in Counts : \E b \in {regen_synth(x.ns[x.i], len)} :
            nodes' = [x.ns EXCEPT ![x.i] = b.n] /\ bitmap' = b.bm
    BY <1>6, Zenon DEF OpenSynth
  <2>3. len \in Nat
    BY VfsAssumption, Zenon
  <2>4. PICK b : b = regen_synth(nodes[x.i], len) /\ nodes' = [nodes EXCEPT ![x.i] = b.n] /\ bitmap' = b.bm
    BY <2>1, <2>2, Zenon
  <2> QED BY <1>2, <1>6, <2>1, <2>3, <2>4, PageOutgrows, Zenon
<1>7. CASE OpenDisplay(p, x, fl)
  BY <1>7, Zenon DEF OpenDisplay
<1> QED BY <1>1, <1>5, <1>6, <1>7, Zenon

\* stat() makes no node overfull but a /proc page.
LEMMA StatOutgrows ==
  ASSUME VfsInv, NEW path \in Paths, stat(path), NEW k \in Nodes, Overfull(nodes'[k])
  PROVE  Overfull(nodes[k]) \/ StarvedPage(k)
<1>1. PICK i \in {find(nodes, path)} \ {0}, len \in Counts :
        /\ nodes[i].kind = "synth"
        /\ \E b \in {regen_synth(nodes[i], len)} : nodes' = [nodes EXCEPT ![i] = b.n] /\ bitmap' = b.bm
  BY ZenonT(40) DEF stat, Put
<1>2. i \in Nodes /\ len \in Nat
  BY FoundIn, VfsAssumption, Zenon
<1>3. PICK b : b = regen_synth(nodes[i], len) /\ nodes' = [nodes EXCEPT ![i] = b.n] /\ bitmap' = b.bm
  BY <1>1, Zenon
<1> QED BY <1>1, <1>2, <1>3, PageOutgrows, Zenon

\* The other calls on names make no node overfull.
LEMMA NamesContained ==
  ASSUME VfsInv, NEW path \in Paths, NEW p \in Pids,
         \/ \E n \in Counts : set_path(path, n)
         \/ touch(p, path) \/ mkdir(p, path) \/ rmdir(p, path) \/ unlink(p, path)
         \/ \E mode \in Modes : chmod(p, path, mode)
         \/ \E u \in Uids : chown(p, path, u)
  PROVE  Contained(nodes, nodes')
<1>1. \A i \in {find(nodes, path)} \ {0} : i \in Nodes
  BY FoundIn, Zenon
<1>2. Counts \subseteq Nat /\ Table(nodes, bitmap) /\ nodes \in [Nodes -> Node]
  BY VfsAssumption, Zenon DEF VfsInv, Table
<1>3. CASE \E n \in Counts : set_path(path, n)
  <2>1. PICK i \in {find(nodes, path)} \ {0}, len \in Counts :
          \E b \in {node_set(Buffer(nodes[i]), len)} : nodes' = [nodes EXCEPT ![i] = b.n]
    BY <1>3, ZenonT(40) DEF set_path, Put
  <2> DEFINE b == node_set(Start(bitmap, nodes[i]), len)
  <2>2. nodes' = [nodes EXCEPT ![i] = b.n]
    BY <2>1, BufferStart, Zenon
  <2>3. Contained(nodes, [nodes EXCEPT ![i] = b.n])
    BY <1>1, <1>2, ContainedSet, ZenonT(40)
  <2> QED BY <2>2, <2>3, ZenonT(40)
<1>4. CASE touch(p, path) \/ mkdir(p, path)
  <2>1. PICK i \in Nodes, kind \in {"file", "dir"} : nodes' = [nodes EXCEPT ![i] = add(p, path, kind)]
    BY <1>4, FoundIn, Zenon DEF touch, mkdir, New, Put
  <2> DEFINE m == add(p, path, kind)
  <2>2. ~Overfull(m)
    BY NotOverfull, Zenon
  <2> HIDE DEF m
  <2>3. Contained(nodes, [nodes EXCEPT ![i] = m])
    BY <1>2, <2>2, ContainedOne, ZenonT(40)
  <2> QED BY <2>1, <2>3, SMTT(30) DEF m
<1>5. CASE rmdir(p, path) \/ unlink(p, path)
  <2>1. PICK i \in {find(nodes, path)} \ {0} : nodes' = [nodes EXCEPT ![i] = Gone(@)]
    BY <1>5, Zenon DEF rmdir, unlink, Drop, Put
  <2>2. ~Overfull(Gone(nodes[i]))
    BY <1>1, <1>2, NotOverfull, Zenon
  <2>3. Contained(nodes, [nodes EXCEPT ![i] = Gone(nodes[i])])
    BY <1>1, <1>2, <2>2, ContainedOne, Zenon
  <2> QED BY <2>1, <2>3, SMTT(30)
<1>6. CASE \E mode \in Modes : chmod(p, path, mode)
  <2>1. PICK i \in {find(nodes, path)} \ {0}, mode \in Modes : nodes' = [nodes EXCEPT ![i].perm = mode]
    BY <1>6, ZenonT(40) DEF chmod, Put
  <2> DEFINE m == [nodes[i] EXCEPT !.perm = mode]
  <2>2. Overfull(m) => Overfull(nodes[i])
    BY <1>1, <1>2, NotOverfull, ZenonT(40)
  <2>3. nodes' = [nodes EXCEPT ![i] = m]
    BY <2>1, Zenon
  <2> HIDE DEF m
  <2> QED BY <1>1, <1>2, <2>2, <2>3, ContainedOne, Zenon
<1>7. CASE \E u \in Uids : chown(p, path, u)
  <2>1. PICK i \in {find(nodes, path)} \ {0}, u \in Uids : nodes' = [nodes EXCEPT ![i].uid = u]
    BY <1>7, ZenonT(40) DEF chown, Put
  <2> DEFINE m == [nodes[i] EXCEPT !.uid = u]
  <2>2. Overfull(m) => Overfull(nodes[i])
    BY <1>1, <1>2, NotOverfull, ZenonT(40)
  <2>3. nodes' = [nodes EXCEPT ![i] = m]
    BY <2>1, ZenonT(40)
  <2> HIDE DEF m
  <2> QED BY <1>1, <1>2, <2>2, <2>3, ContainedOne, Zenon
<1> QED BY <1>3, <1>4, <1>5, <1>6, <1>7, SMTT(30)

\* move_file() makes no node overfull, whether the copy fits or not.
LEMMA MoveContained ==
  ASSUME VfsInv, NEW from \in Paths, NEW to \in Paths, move_file(from, to)
  PROVE  Contained(nodes, nodes')
<1>0. PICK i \in {find(nodes, from)} \ {0}, j \in {FreeNode(nodes)} \ {0} :
        \E b \in {node_set(Buffer(Copied(nodes[i], to)), nodes[i].size)} :
          IF b.ok THEN nodes' = [nodes EXCEPT ![j] = b.n, ![i] = node_release(@)]
                  ELSE nodes' = [nodes EXCEPT ![j] = [b.n EXCEPT !.used = FALSE]]
  BY DEF move_file, Put
<1>1. i \in Nodes /\ j \in Nodes /\ nodes[i].used /\ ~nodes[j].used
  BY FoundIn, Zenon
<1> DEFINE c == Copied(nodes[i], to)
           b == node_set(Buffer(c), nodes[i].size)
<1>2. Table(nodes, bitmap) /\ nodes \in [Nodes -> Node] /\ bitmap \in SUBSET (1 .. Frames)
  BY SMTT(30) DEF VfsInv, Table
<1>3. nodes[i] \in Node /\ nodes[i].size \in Nat /\ i # j
  BY <1>1, <1>2, SMTT(30) DEF Node
<1>4. c \in Node /\ Held(c) = {}
  <2> DEFINE r == node_release(nodes[i])
  <2>1. r \in Node /\ r.at = 0 /\ to \in Seq(STRING)
    BY <1>3, ReleaseType, VfsAssumption, ZenonT(40)
  <2>2. c = [r EXCEPT !.path = to, !.kind = "file"]
    BY Zenon DEF Copied
  <2> HIDE DEF r, c
  <2> QED BY <2>1, <2>2, Zenon DEF Node, Held
<1> HIDE DEF c
<1>5. b.ok => ~Overfull(b.n)
  <2>1. b = node_set(Start(bitmap, c), nodes[i].size) /\ Held(c) \subseteq bitmap
    BY <1>4, BufferStart, Zenon
  <2> HIDE DEF b
  <2>2. Overfull(b.n) => ~b.ok
    BY <1>2, <1>3, <1>4, <2>1, SetHolds, SMTT(30)
  <2> QED BY <2>2, Zenon
<1>6. b.n \in Node
  <2>1. Resized(bitmap, c, b)
    BY <1>2, <1>3, <1>4, SetRebuffers, BufferStart, SMTT(30)
  <2> QED BY <2>1, ZenonT(40) DEF Resized, Work
<1>7. CASE b.ok
  <2> DEFINE r == node_release(nodes[i])
  <2>1. nodes' = [nodes EXCEPT ![j] = b.n, ![i] = node_release(@)]
    BY <1>0, <1>7, SMTT(30) DEF c
  <2> HIDE DEF b
  <2>2. \A k \in Nodes : nodes'[k] = IF k = i THEN r ELSE IF k = j THEN b.n ELSE nodes[k]
    BY <1>2, <1>3, <2>1, ZenonT(40)
  <2>3. ~Overfull(r)
    BY <1>3, NotOverfull, Zenon
  <2> HIDE DEF r
  <2> QED BY <1>5, <1>7, <2>2, <2>3, SMTT(30) DEF Contained
<1>8. CASE ~b.ok
  <2> DEFINE m == [b.n EXCEPT !.used = FALSE]
  <2>1. nodes' = [nodes EXCEPT ![j] = m]
    BY <1>0, <1>8, ZenonT(40) DEF c
  <2> HIDE DEF b
  <2>2. ~Overfull(m)
    BY <1>6, NotOverfull, Zenon
  <2> HIDE DEF m
  <2> QED BY <1>1, <1>2, <2>1, <2>2, ContainedOne, ZenonT(40)
<1> QED BY <1>7, <1>8, SMTT(30)

-----------------------------------------------------------------------------
(* Types of the descriptor table and of the display.                       *)

\* A descriptor that open() makes, or none.
LEMMA OpenedType ==
  ASSUME files \in [Fds -> File], NEW p \in Pids, NEW i \in Nodes, NEW append \in BOOLEAN
  PROVE  Opened(p, i, append) \in [Fds -> File]
<1> DEFINE f == [used |-> TRUE, pos |-> 0, append |-> append, node |-> i, owner |-> p]
<1>1. f \in File
  BY DEF File, Nodes
<1>2. Opened(p, i, append) = IF FreeFd(files) = 0 THEN files ELSE [files EXCEPT ![FreeFd(files)] = f]
  BY Zenon DEF Opened
<1> HIDE DEF f
<1> QED BY <1>1, <1>2, Zenon

\* The display after open() and after it is given back.
LEMMA ReleasedDisplay ==
  ASSUME NEW d \in Display
  PROVE  /\ release(d) \in Display /\ ~release(d).prog /\ ~release(d).took
         /\ release(d).gfx => d.desk \/ ~d.took
BY Zenon DEF release, Display

\* Preparing the display for an open(), and undoing it, keeps the display well formed.
LEMMA FrameType ==
  ASSUME NEW d \in Display, NEW y \in ensure_frame(d)
  PROVE  y.d \in Display /\ undo_open(y.prep, y.d) \in Display
<1> DEFINE d1 == [d EXCEPT !.took = FALSE]
           d2 == [d EXCEPT !.gfx = TRUE, !.took = TRUE, !.prog = TRUE]
<1>0. d1 \in Display /\ d2 \in Display
  BY Zenon DEF Display
<1>1. y.d \in {d, d1, d2}
  BY DEF ensure_frame
<1> HIDE DEF d1, d2
<1> QED BY <1>0, <1>1, ReleasedDisplay, Zenon DEF undo_open

\* The console's descriptors, an empty one, and the three made anew.
LEMMA ConsoleType == Console \in File /\ Console.node = 0 /\ NoFd \in File /\ ~NoFd.used /\ NoFd.node = 0
<1>1. 0 \in 0 .. MAX_N /\ 0 \in Pids \cup {0} /\ 0 \in Nat
  BY VfsAssumption
<1>2. Console \in File /\ Console.node = 0
  BY <1>1, Zenon DEF Console, File
<1>3. NoFd = [Console EXCEPT !.used = FALSE]
  BY Zenon DEF NoFd
<1> QED BY <1>2, <1>3, Zenon DEF File

\* The three standard descriptors are put back to the console.
LEMMA ResetType ==
  ASSUME NEW fs \in [Fds -> File]
  PROVE  reset_stdio(fs) \in [Fds -> File]
BY ConsoleType, Zenon DEF reset_stdio

\* close() of one descriptor.
LEMMA CloseType ==
  ASSUME NEW w, w.fs \in [Fds -> File], w.d \in Display, NEW i \in Fds
  PROVE  /\ close(w, i).fs = [w.fs EXCEPT ![i] = NoFd]
         /\ close(w, i).fs \in [Fds -> File] /\ close(w, i).d \in Display
         /\ close(w, i).d \in {w.d, release(w.d)}
<1>1. close(w, i).fs = [w.fs EXCEPT ![i] = NoFd] /\ close(w, i).d \in {w.d, release(w.d)}
  BY Zenon DEF close, Closed
<1> QED BY <1>1, ConsoleType, ReleasedDisplay, ZenonT(40)

-----------------------------------------------------------------------------
(* close_all_of(): the descriptors of a process, lowest slot first.        *)

Sweeps(w, p, n) ==
  w = [i \in STDIO - 1 .. n |->
         IF i < STDIO THEN [fs |-> files, d |-> display] ELSE CloseIfOf(w[i - 1], p, i)]

\* The loop has a value at every slot.
LEMMA SweepExists ==
  ASSUME NEW p
  PROVE  \A n \in Nat : \E w : Sweeps(w, p, STDIO - 1 + n)
<1> DEFINE S == {n \in Nat : \E w : Sweeps(w, p, STDIO - 1 + n)}
<1>1. STDIO \in Nat /\ STDIO > 0
  BY VfsAssumption
<1>2. 0 \in S
  <2> DEFINE w == [i \in STDIO - 1 .. STDIO - 1 |-> [fs |-> files, d |-> display]]
  <2>1. Sweeps(w, p, STDIO - 1 + 0)
    BY <1>1 DEF Sweeps
  <2> QED BY <2>1, Zenon
<1>3. ASSUME NEW n \in S PROVE n + 1 \in S
  <2>1. PICK w : Sweeps(w, p, STDIO - 1 + n)
    BY <1>3, Zenon
  <2> DEFINE k == STDIO + n
             x == CloseIfOf(w[k - 1], p, k)
             v == [i \in STDIO - 1 .. k |-> IF i = k THEN x ELSE w[i]]
  <2>2. n \in Nat /\ k \in Nat /\ k - 1 = STDIO - 1 + n /\ k = STDIO - 1 + (n + 1)
    BY <1>1
  <2>3. \A i \in STDIO - 1 .. k - 1 : v[i] = w[i]
    BY <1>1, <2>2
  <2>4. ASSUME NEW i \in STDIO - 1 .. k
        PROVE  v[i] = IF i < STDIO THEN [fs |-> files, d |-> display] ELSE CloseIfOf(v[i - 1], p, i)
    <3>1. CASE i = k
      <4>1. v[i] = x /\ ~(i < STDIO) /\ v[i - 1] = w[k - 1]
        BY <1>1, <2>2, <2>3, <3>1, SMTT(30)
      <4> HIDE DEF v
      <4> QED BY <3>1, <4>1, ZenonT(40)
    <3>2. CASE i # k
      <4>1. i \in STDIO - 1 .. k - 1
        BY <1>1, <2>2, <3>2
      <4>2. w[i] = IF i < STDIO THEN [fs |-> files, d |-> display] ELSE CloseIfOf(w[i - 1], p, i)
        BY <2>1, <2>2, <4>1, Zenon DEF Sweeps
      <4>3. ~(i < STDIO) => i - 1 \in STDIO - 1 .. k - 1
        BY <1>1, <2>2, <4>1
      <4> HIDE DEF v
      <4> QED BY <2>3, <4>1, <4>2, <4>3, ZenonT(40)
    <3> QED BY <3>1, <3>2, ZenonT(40)
  <2>5. v = [i \in STDIO - 1 .. k |-> v[i]]
    OBVIOUS
  <2> HIDE DEF v, k
  <2>6. Sweeps(v, p, k)
    BY <2>4, <2>5, SMTT(30) DEF Sweeps
  <2> QED BY <2>2, <2>6
<1> HIDE DEF S
<1>4. \A n \in Nat : n \in S
  BY <1>2, <1>3, NatIn, Zenon DEF S
<1> QED BY <1>4, Zenon DEF S

\* CloseOwn() is the last value of such a loop.
LEMMA SweepIs ==
  ASSUME NEW p
  PROVE  \E w : Sweeps(w, p, MAX_FD - 1) /\ CloseOwn(p) = w[MAX_FD - 1]
<1>1. MAX_FD - STDIO \in Nat /\ MAX_FD - 1 = STDIO - 1 + (MAX_FD - STDIO)
  BY VfsAssumption
<1>2. \E w : Sweeps(w, p, MAX_FD - 1)
  BY <1>1, SweepExists, Zenon
<1> DEFINE w == CHOOSE v : Sweeps(v, p, MAX_FD - 1)
<1>3. Sweeps(w, p, MAX_FD - 1)
  BY <1>2, Zenon
<1>4. CloseOwn(p) = w[MAX_FD - 1]
  BY Zenon DEF CloseOwn, Sweeps
<1> QED BY <1>3, <1>4, Zenon

\* What the loop has done to the table after slot n, and to the display: it
\* was given back as the last descriptor on it went, and not before.
Swept(p, n) ==
  [j \in Fds |-> IF j \in STDIO .. n /\ files[j].used /\ files[j].owner = p THEN NoFd ELSE files[j]]
GivenBack(w) ==
  FbFds(files) # {} => IF FbFds(w.fs) # {} THEN w.d = display ELSE w.d = release(display)
SweptTo(w, p, n) ==
  /\ w = [fs |-> w.fs, d |-> w.d]
  /\ w.fs = Swept(p, n) /\ w.d \in Display /\ GivenBack(w)

\* One descriptor on the display closes after another.
LEMMA CloseGivesBack ==
  ASSUME NEW w, w.fs \in [Fds -> File], w.d \in Display, NEW i \in OwnFds, w.fs[i].used,
         GivenBack(w)
  PROVE  GivenBack(close(w, i))
<1> DEFINE gs == [w.fs EXCEPT ![i] = NoFd]
           isFb == w.fs[i].node # 0 /\ nodes[w.fs[i].node].kind = "fb"
<1>1. i \in Fds
  BY VfsAssumption DEF OwnFds, Fds
<1>2. close(w, i).fs = gs /\ close(w, i).d = IF isFb /\ FbFds(gs) = {} THEN release(w.d) ELSE w.d
  BY Zenon DEF close, Closed
<1>3. FbFds(gs) = FbFds(w.fs) \ {i}
  <2>1. OwnFds \subseteq Fds
    BY VfsAssumption DEF OwnFds, Fds
  <2>2. \A j \in OwnFds : gs[j] = IF j = i THEN NoFd ELSE w.fs[j]
    BY <2>1, SMTT(30)
  <2>3. \A j \in OwnFds : OnDisplay(gs, j) <=> j # i /\ OnDisplay(w.fs, j)
    BY <2>2, ConsoleType, SMTT(30) DEF OnDisplay
  <2> QED BY <2>3, Zenon DEF FbFds
<1>4. isFb <=> i \in FbFds(w.fs)
  BY Zenon DEF FbFds, OnDisplay
<1> HIDE DEF gs, isFb
<1> QED BY <1>2, <1>3, <1>4, ZenonT(40) DEF GivenBack

\* The sweep of close_pid() moves past one more descriptor.
LEMMA SweepStep ==
  ASSUME files \in [Fds -> File], NEW p, NEW w, NEW i \in OwnFds, SweptTo(w, p, i - 1)
  PROVE  SweptTo(CloseIfOf(w, p, i), p, i)
<1>1. i \in Fds /\ i \in Nat /\ STDIO \in Nat /\ i >= STDIO
  BY VfsAssumption DEF OwnFds, Fds
<1>2. w.fs = Swept(p, i - 1) /\ w.d \in Display /\ GivenBack(w) /\ w = [fs |-> w.fs, d |-> w.d]
  BY Zenon DEF SweptTo
<1>3. Swept(p, i - 1) \in [Fds -> File]
  BY ConsoleType, Zenon DEF Swept
<1>4. w.fs[i] = files[i]
  BY <1>1, <1>2 DEF Swept
<1>5. CASE files[i].used /\ files[i].owner = p
  <2>1. CloseIfOf(w, p, i) = close(w, i)
    BY <1>4, <1>5, ZenonT(40) DEF CloseIfOf
  <2>2. /\ close(w, i).fs = [w.fs EXCEPT ![i] = NoFd]
        /\ close(w, i).d \in Display
    BY <1>1, <1>2, <1>3, CloseType, SMTT(30)
  <2>5. close(w, i) = [fs |-> close(w, i).fs, d |-> close(w, i).d]
    BY Zenon DEF close, Closed
  <2>3. [Swept(p, i - 1) EXCEPT ![i] = NoFd] = Swept(p, i)
    <3>1. \A j \in Fds : j # i => (j \in STDIO .. i <=> j \in STDIO .. i - 1)
      BY <1>1 DEF Fds
    <3>2. \A j \in Fds : [Swept(p, i - 1) EXCEPT ![i] = NoFd][j] = Swept(p, i)[j]
      BY <1>1, <1>5, <3>1 DEF Swept
    <3> QED BY <3>2, ZenonT(40) DEF Swept
  <2>4. GivenBack(close(w, i))
    BY <1>2, <1>3, <1>4, <1>5, CloseGivesBack, SMTT(30)
  <2> QED BY <1>2, <2>1, <2>2, <2>3, <2>4, <2>5, SMTT(30) DEF SweptTo
<1>6. CASE ~(files[i].used /\ files[i].owner = p)
  <2>1. CloseIfOf(w, p, i) = w
    BY <1>4, <1>6, ZenonT(40) DEF CloseIfOf
  <2>2. Swept(p, i - 1) = Swept(p, i)
    BY <1>1, <1>6 DEF Swept, Fds
  <2> QED BY <1>2, <2>1, <2>2, Zenon DEF SweptTo
<1> QED BY <1>5, <1>6, ZenonT(40)

\* The whole loop.
LEMMA SweepDone ==
  ASSUME files \in [Fds -> File], display \in Display, NEW p
  PROVE  SweptTo(CloseOwn(p), p, MAX_FD - 1)
<1>1. PICK w : Sweeps(w, p, MAX_FD - 1) /\ CloseOwn(p) = w[MAX_FD - 1]
  BY SweepIs, Zenon
<1>2. STDIO \in Nat /\ STDIO > 0 /\ MAX_FD \in Nat /\ MAX_FD > STDIO
  BY VfsAssumption
<1> DEFINE S == {n \in Nat : STDIO - 1 + n <= MAX_FD - 1 => SweptTo(w[STDIO - 1 + n], p, STDIO - 1 + n)}
<1>3. 0 \in S
  <2>1. w[STDIO - 1] = [fs |-> files, d |-> display]
    BY <1>1, <1>2 DEF Sweeps
  <2>2. Swept(p, STDIO - 1) = files
    BY <1>2 DEF Swept
  <2> QED BY <1>2, <2>1, <2>2 DEF SweptTo, GivenBack
<1>4. ASSUME NEW n \in S PROVE n + 1 \in S
  <2> DEFINE k == STDIO + n
  <2>1. k = STDIO - 1 + (n + 1) /\ k - 1 = STDIO - 1 + n /\ n + 1 \in Nat
    BY <1>2
  <2> SUFFICES ASSUME k <= MAX_FD - 1 PROVE SweptTo(w[k], p, k)
    BY <2>1, Zenon
  <2>2. k - 1 <= MAX_FD - 1 /\ k \in OwnFds /\ k \in STDIO - 1 .. MAX_FD - 1 /\ ~(k < STDIO)
    BY <1>2 DEF OwnFds
  <2>3. SweptTo(w[k - 1], p, k - 1)
    BY <1>4, <2>1, <2>2, ZenonT(40)
  <2> HIDE DEF k
  <2>4. w[k] = CloseIfOf(w[k - 1], p, k)
    BY <1>1, <2>2, Zenon DEF Sweeps
  <2> QED BY <2>2, <2>3, <2>4, SweepStep, Zenon
<1> HIDE DEF S
<1>5. \A n \in Nat : n \in S
  BY <1>3, <1>4, NatIn, ZenonT(40) DEF S
<1>6. MAX_FD - STDIO \in S
  BY <1>2, <1>5
<1>7. STDIO - 1 + (MAX_FD - STDIO) = MAX_FD - 1
  BY <1>2
<1> QED BY <1>1, <1>2, <1>6, <1>7, SMTT(30) DEF S

\* close_all_of(): no descriptor of p is left, nor a redirection that is p's,
\* the others are as they were, and the display went back if it was to.
LEMMA CloseAll ==
  ASSUME files \in [Fds -> File], display \in Display, NEW p, NEW w, w = close_all_of(p)
  PROVE  /\ w.fs \in [Fds -> File] /\ w.d \in Display /\ GivenBack(w)
         /\ \A j \in Fds : w.fs[j].used /\ (j \in OwnFds \/ w.fs[j].node # 0) =>
                            w.fs[j] = files[j] /\ files[j].owner # p
<1> DEFINE v == CloseOwn(p)
<1>1. v.fs = Swept(p, MAX_FD - 1) /\ v.d \in Display /\ GivenBack(v) /\ v = [fs |-> v.fs, d |-> v.d]
  BY SweepDone, Zenon DEF SweptTo
<1>2. /\ v.fs \in [Fds -> File]
      /\ \A j \in OwnFds : v.fs[j].used => v.fs[j] = files[j] /\ files[j].owner # p
      /\ \A j \in Fds \ OwnFds : v.fs[j] = files[j]
  BY <1>1, ConsoleType, VfsAssumption, SMTT(30) DEF Swept, OwnFds, Fds
<1>3. w = IF Redirected(v.fs, p) THEN [v EXCEPT !.fs = reset_stdio(@)] ELSE v
  BY Zenon DEF close_all_of, Restored
<1> HIDE DEF v
<1>5. CASE ~Redirected(v.fs, p)
  <2>1. \A j \in Fds \ OwnFds : j \in 0 .. STDIO - 1
    BY VfsAssumption DEF Fds, OwnFds
  <2>2. \A j \in Fds \ OwnFds : v.fs[j].node # 0 => files[j].owner # p
    BY <1>2, <1>5, <2>1, SMTT(30) DEF Redirected
  <2> QED BY <1>1, <1>2, <1>3, <1>5, <2>2, SMTT(30)
<1>6. CASE Redirected(v.fs, p)
  <2>1. w.fs = reset_stdio(v.fs) /\ w.d = v.d
    BY <1>1, <1>3, <1>6, SMTT(30)
  <2>2. w.fs \in [Fds -> File]
    BY <1>2, <2>1, ResetType, ZenonT(40)
  <2>3. \A j \in OwnFds : j \in Fds /\ ~(j < STDIO)
    BY VfsAssumption DEF OwnFds, Fds
  <2>4. \A j \in Fds \ OwnFds : j < STDIO
    BY VfsAssumption DEF OwnFds, Fds
  <2>5. (\A j \in OwnFds : w.fs[j] = v.fs[j]) /\ (\A j \in Fds \ OwnFds : w.fs[j].node = 0)
    BY <2>1, <2>3, <2>4, ConsoleType, SMTT(30) DEF reset_stdio
  <2>6. FbFds(w.fs) = FbFds(v.fs)
    BY <2>5, ZenonT(40) DEF FbFds, OnDisplay
  <2> QED BY <1>1, <1>2, <2>1, <2>2, <2>5, <2>6, SMTT(30) DEF GivenBack
<1> QED BY <1>5, <1>6, Zenon
=============================================================================
