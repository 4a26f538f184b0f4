-------------------------------- MODULE Seed --------------------------------
(***************************************************************************)
(* The end of init_disks() in kernel/fs/vfs.cpp: at every boot the data    *)
(* volume is given the subtrees it lacks, copied from the RAM tree, and    *)
(* each of them is then served from the volume.  A boot may meet a sector  *)
(* write that fails, or lose power.                                        *)
(***************************************************************************)
EXTENDS Fat16

CONSTANTS SeedDirs,   \* "home", "root", "etc": a sequence
          SeedFiles,  \* what the RAM tree has below each, in node order
          SeedData,   \* and in each file
          MaxFaults

VARIABLES disk, up,
          served,     \* subtrees that are mounted
          faults

vars == <<disk, up, served, faults>>

\* One file: the entry, then its content.
seed_file(c, d, n) ==
  Then(create(c, d, n),
       LAMBDA a : IF SeedData = <<>> THEN a ELSE write(a, d, n, 0, SeedData))

\* A volume that has the subtree is left alone.
migrate_tree(c, sub) ==
  LET Filled(a, d) == Each(a, SeedFiles, LAMBDA x, n : seed_file(x, d, n))
      found == Named(c.v, 0, sub)
  IN  IF found # <<>> THEN [c EXCEPT !.ok = Head(found).slot.dir]
      ELSE Then(mkdir(c, 0, sub), LAMBDA a : Filled(a, find_entry(a.v, 0, sub).slot.cluster))

Mounted(c, others, sub) == [c |-> c, served |-> IF c.ok THEN others \cup {sub} ELSE others]

\* A subtree that could not be seeded stays in RAM; the others go on.
init_disks(c) ==
  FoldLeft(LAMBDA a, sub :
             Mounted(migrate_tree([a.c EXCEPT !.ok = TRUE], sub), a.served, sub),
           [c |-> c, served |-> {}], SeedDirs)

Boot ==
  /\ ~up
  /\ LET writes == init_disks(Begin(disk, -1, FALSE)).c.n
         Hits == IF faults = MaxFaults THEN {} ELSE (0 .. writes - 1) \X BOOLEAN
     IN  \E h \in {<<-1, FALSE>>} \cup Hits : \E b \in {init_disks(Begin(disk, h[1], h[2]))} :
           /\ disk' = b.c.v
           /\ up' = ~b.c.dead
           /\ served' = IF b.c.dead THEN {} ELSE b.served
           /\ faults' = IF b.c.hit THEN faults + 1 ELSE faults

Shutdown ==
  /\ up
  /\ up' = FALSE /\ served' = {}
  /\ UNCHANGED <<disk, faults>>

Init == disk = format /\ up = FALSE /\ served = {} /\ faults = 0
Next == Boot \/ Shutdown
Spec == Init /\ [][Next]_vars

\* What the comment in init_disks says: "A seed that fails (a disk error
\* mid-copy) falls back to the RAM tree rather than a half-written one."
\* The boot after the one that failed finds the subdirectory, takes it for
\* the whole tree and serves it.
NoHalfSeed ==
  \A s \in served :
    LET d == find_entry(disk, 0, s).slot.cluster
    IN  \A i \in DOMAIN SeedFiles :
          /\ ~Missing(disk, d, SeedFiles[i])
          /\ read(disk, find_entry(disk, d, SeedFiles[i])) = SeedData
=============================================================================
