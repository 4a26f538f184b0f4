------------------------------- MODULE Paging -------------------------------
(***************************************************************************)
(* The frame pool (vnu/kernel/mm/pmm.cpp) and the private address spaces   *)
(* built from it (vnu/kernel/arch/i386/paging.cpp), as operators.          *)
(*                                                                         *)
(* A page number stands for a virtual address; WINDOW consecutive pages    *)
(* share a page table, as the 1024 pages of a 4 MiB window do.  A private  *)
(* table is seeded with what the shared one it replaces maps, so giving a  *)
(* window a private table changes no page: the map of a space is kept page *)
(* by page, whoever the table belongs to.  A page of the identity map is   *)
(* Seed: present, shared with the kernel and with every other space, and   *)
(* below the pool where the programs' regions are, so that free_frame      *)
(* refuses it.                                                             *)
(*                                                                         *)
(* The operations are loops over pages that stop at the first failure and  *)
(* leave what they did until then, so each is a fold over a working state  *)
(* of the pool, the space and whether the loop is still going.             *)
(***************************************************************************)
EXTENDS Integers, FiniteSets, Sequences, SequencesExt

CONSTANTS NFRAMES,                    \* frames in the pool
          MAX_FRAMES_PER_SPACE,       \* data frames one space can list (2560)
          MAX_PRIVATE_PDES_PER_SPACE, \* private page tables (8)
          NPAGES, WINDOW,             \* virtual pages, and how many share a table
          IdentityWindows             \* the windows of the shared identity map

ASSUME Sizes == /\ NFRAMES \in Nat
                /\ MAX_FRAMES_PER_SPACE \in Nat
                /\ MAX_PRIVATE_PDES_PER_SPACE \in Nat
                /\ NPAGES \in Nat
                /\ WINDOW \in Nat \ {0}

Frames == 0 .. NFRAMES - 1
Pages == 0 .. NPAGES - 1
WindowOf(p) == p \div WINDOW
Windows == {WindowOf(p) : p \in Pages}

NoFrame == -1   \* 0 in the code, which is no frame of the pool
Seed == -2
Borrowed == -3  \* a frame of the display's; which one is not kept

\* pt_frames is kept by the window each table serves.
AddrSpaceMeta == [used: BOOLEAN, pgdir: Frames \cup {NoFrame},
                  data_frames: SUBSET Frames, pt_frames: [Windows -> Frames \cup {NoFrame}],
                  map: [Pages -> Frames \cup {NoFrame, Seed, Borrowed}]]

\* The view of memory g_kernel_pgdir gives.
KernelMap == [p \in Pages |-> IF WindowOf(p) \in IdentityWindows THEN Seed ELSE NoFrame]

Unused == [used |-> FALSE, pgdir |-> NoFrame, data_frames |-> {},
           pt_frames |-> [w \in Windows |-> NoFrame], map |-> KernelMap]

-----------------------------------------------------------------------------
(* pmm: bitmap is the set of frames taken. *)

Free(bitmap) == Frames \ bitmap

\* The lowest free frame; only asked when there is one.
alloc_frame(bitmap) == CHOOSE f \in Free(bitmap) : \A g \in Free(bitmap) : f <= g

Run(base, n) == IF base = NoFrame THEN {} ELSE base .. base + n - 1

\* First fit, or NoFrame.
alloc_contig(bitmap, n) ==
  LET fits == {b \in Frames : b + n <= NFRAMES /\ Run(b, n) \cap bitmap = {}}
  IN  IF n = 0 \/ fits = {} THEN NoFrame
      ELSE CHOOSE b \in fits : \A c \in fits : b <= c

free_contig(bitmap, base, n) == bitmap \ Run(base, n)

-----------------------------------------------------------------------------
(* Page by page.  A working state st is [bitmap, m, ok]. *)

Stopped(st) == [st EXCEPT !.ok = FALSE]

Tables(m) == {m.pt_frames[w] : w \in Windows} \ {NoFrame}

\* A fresh frame, seeded, for the table of window w.
FreshTable(st, w) ==
  IF Free(st.bitmap) = {} THEN Stopped(st)
  ELSE LET f == alloc_frame(st.bitmap)
       IN  [st EXCEPT !.bitmap = @ \cup {f}, !.m.pt_frames[w] = f]

\* Mutant: no limit on the tables.
private_page_table_unbounded(st, w) ==
  IF st.m.pt_frames[w] # NoFrame THEN st ELSE FreshTable(st, w)

private_page_table(st, w) ==
  IF st.m.pt_frames[w] # NoFrame THEN st
  ELSE IF Cardinality(Tables(st.m)) >= MAX_PRIVATE_PDES_PER_SPACE THEN Stopped(st)
  ELSE FreshTable(st, w)

Listed(st) == Cardinality(st.m.data_frames)

\* A fresh frame for page p.
FreshFrame(st, p) ==
  IF Listed(st) >= MAX_FRAMES_PER_SPACE \/ Free(st.bitmap) = {}
  THEN Stopped(st)
  ELSE LET f == alloc_frame(st.bitmap)
       IN  [st EXCEPT !.bitmap = @ \cup {f},
                      !.m.data_frames = @ \cup {f}, !.m.map[p] = f]

CreatePage(st, p) ==
  IF ~st.ok THEN st
  ELSE LET t == private_page_table(st, WindowOf(p))
       IN  IF t.ok THEN FreshFrame(t, p) ELSE t

owns_frame(m, f) == f \in m.data_frames

\* Mutant: any present page counts as mapped already, a shared one included.
ExtendPresentPage(st, p) ==
  IF ~st.ok THEN st
  ELSE LET t == private_page_table(st, WindowOf(p))
       IN  IF t.ok /\ t.m.map[p] = NoFrame THEN FreshFrame(t, p) ELSE t

\* Mutant: a page the space has already gets a second frame.
ExtendOwnedPage(st, p) ==
  IF ~st.ok THEN st
  ELSE LET t == private_page_table(st, WindowOf(p))
       IN  IF t.ok THEN FreshFrame(t, p) ELSE t

ExtendPage(st, p) ==
  IF ~st.ok THEN st
  ELSE LET t == private_page_table(st, WindowOf(p))
       IN  IF t.ok /\ ~owns_frame(t.m, t.m.map[p]) THEN FreshFrame(t, p) ELSE t

\* Page p shows frame f, which becomes the space's.
MapPage(st, p, f) ==
  IF ~st.ok THEN st
  ELSE LET t == private_page_table(st, WindowOf(p))
       IN  IF ~t.ok THEN t
           ELSE IF Listed(t) >= MAX_FRAMES_PER_SPACE THEN Stopped(t)
           ELSE [t EXCEPT !.m.data_frames = @ \cup {f}, !.m.map[p] = f]

\* Mutant: a borrowed frame is listed with the space's own.
BorrowListedPage(st, p, f) == MapPage(st, p, f)

\* Page p shows frame f, which does not become the space's.
BorrowPage(st, p, f) ==
  IF ~st.ok THEN st
  ELSE LET t == private_page_table(st, WindowOf(p))
       IN  IF t.ok THEN [t EXCEPT !.m.map[p] = Borrowed] ELSE t

UnmapPage(st, p) ==
  IF ~st.ok THEN st
  ELSE IF st.m.pt_frames[WindowOf(p)] = NoFrame \/ st.m.map[p] = NoFrame
  THEN Stopped(st)
  ELSE [st EXCEPT !.bitmap = @ \ {st.m.map[p]},
                  !.m.data_frames = @ \ {st.m.map[p]}, !.m.map[p] = NoFrame]

-----------------------------------------------------------------------------
(* The operations of paging.h, each from the working state it finds. *)

Working(bitmap, m) == [bitmap |-> bitmap, m |-> m, ok |-> TRUE]

PageSeq(start, n) == [i \in 1 .. n |-> start + i - 1]

extend_address_space(st, start, n) == FoldLeft(ExtendPage, st, PageSeq(start, n))

map_frames(st, start, n, phys) ==
  FoldLeft(LAMBDA s, p : MapPage(s, p, phys + p - start), st, PageSeq(start, n))

map_borrowed_frames(st, start, n, phys) ==
  FoldLeft(LAMBDA s, p : BorrowPage(s, p, phys + p - start), st, PageSeq(start, n))

unmap_frames(st, start, n) == FoldLeft(UnmapPage, st, PageSeq(start, n))

\* Every frame a space holds.
Holds(m) == IF m.used THEN m.data_frames \cup Tables(m) \cup {m.pgdir} ELSE {}

destroy_address_space(st) ==
  [st EXCEPT !.bitmap = @ \ Holds(st.m), !.m = Unused]

\* A directory of its own, then the pages of all ranges in order.
Furnished(bitmap, pages) ==
  LET pgdir == alloc_frame(bitmap)
  IN  FoldLeft(CreatePage,
               Working(bitmap \cup {pgdir}, [Unused EXCEPT !.used = TRUE, !.pgdir = pgdir]),
               pages)

\* Mutant: a loop that stops half way gives nothing back.
create_address_space_leaky(bitmap, pages) ==
  IF Free(bitmap) = {} THEN Stopped(Working(bitmap, Unused))
  ELSE LET st == Furnished(bitmap, pages)
       IN  IF st.ok THEN st ELSE [st EXCEPT !.m = Unused]

create_address_space(bitmap, pages) ==
  IF Free(bitmap) = {} THEN Stopped(Working(bitmap, Unused))
  ELSE LET st == Furnished(bitmap, pages)
       IN  IF st.ok THEN st ELSE destroy_address_space(st)

=============================================================================
