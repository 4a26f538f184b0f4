------------------------------- MODULE Frames -------------------------------
(***************************************************************************)
(* Who holds the pool's frames: the processes (vnu/kernel/proc/process.cpp)*)
(* and the windowed tasks (vnu/kernel/gui/wintask.cpp) with their address  *)
(* spaces, a task's program image and canvas, and the display's back       *)
(* buffer (drivers/vga_gfx.cpp), lent to programs through drivers/fb.cpp.  *)
(*                                                                         *)
(* Each operation runs with interrupts off, so it is one step; what        *)
(* matters is the order of the operations of different holders and where   *)
(* in its loop an operation runs out of frames.  Sizes are in pages.       *)
(***************************************************************************)
EXTENDS Paging

CONSTANTS Ids,                      \* the records of g_spaces (16)
          APP_BASE, APP_PAGES,      \* the image; a task's has a fixed size
          GFX_SURFACE_VA,           \* the canvas of a task
          STACK_OF,                 \* the stack page, by kind of program
          BRK_MIN, HEAP_PAGES,      \* the heap
          VNU_FB_VA,                \* the display's frame
          EmbeddedPages, FilePages, \* sizes of the kernel's programs, of files'
          RootPages,                \* frames that keep a task's root program
          CanvasSizes,              \* the least is what a canvas starts with
          Modes                     \* sizes of the back buffer, by mode

Largest(S) == CHOOSE x \in S : \A y \in S : y <= x
Least(S) == CHOOSE x \in S : \A y \in S : x <= y
Kinds == {"process", "task"}

\* A program's regions are apart.  The code has this as a convention of its
\* address constants; a canvas of more than 4 MiB would break it.
ASSUME RegionsApart ==
  /\ Kinds = DOMAIN STACK_OF
  /\ APP_BASE + Largest(EmbeddedPages \cup FilePages) <= STACK_OF["process"]
  /\ APP_BASE + APP_PAGES <= GFX_SURFACE_VA
  /\ GFX_SURFACE_VA + Largest(CanvasSizes) <= STACK_OF["task"]
  /\ STACK_OF["task"] < BRK_MIN
  /\ BRK_MIN + HEAP_PAGES <= VNU_FB_VA
  /\ VNU_FB_VA + Largest(Modes) <= NPAGES

VARIABLES bitmap,  \* the frames taken
          space,   \* g_spaces
          prog,    \* the program of each space: fields of Process or Task
          screen   \* g_backbuf and the mode it is sized by

vars == <<bitmap, space, prog, screen>>

\* image is the size of the program that was loaded last.
Program == [kind: Kinds \cup {"none"}, app_pages: Nat, image: Nat, brk: 0 .. HEAP_PAGES,
            root_base: Frames \cup {NoFrame}, pixel: Frames \cup {NoFrame}, pix_pages: Nat]

NoProgram == [kind |-> "none", app_pages |-> 0, image |-> 0, brk |-> 0,
              root_base |-> NoFrame, pixel |-> NoFrame, pix_pages |-> 0]

Live == {i \in Ids : prog[i].kind # "none"}
Processes == {i \in Ids : prog[i].kind = "process"}
Tasks == {i \in Ids : prog[i].kind = "task"}

Init == /\ bitmap = {}
        /\ space = [i \in Ids |-> Unused]
        /\ prog = [i \in Ids |-> NoProgram]
        /\ screen = [backbuf |-> NoFrame, mode |-> Least(Modes)]

-----------------------------------------------------------------------------
(* Starting and ending programs. *)

\* A record that is not used; the code takes the first, and nothing depends
\* on which.
alloc_meta(i) == ~space[i].used

\* An address space for an image of n pages and the stack of its kind.
Build(taken, kind, n) ==
  create_address_space(taken, PageSeq(APP_BASE, n) \o PageSeq(STACK_OF[kind], 1))

\* What is left of a space when the program cannot be put in it.
Given(st, fits) == IF st.ok /\ ~fits THEN Stopped(destroy_address_space(st)) ELSE st

\* The space and the program of record i become those of st, if it went well.
Started(i, st, p) ==
  /\ space' = [space EXCEPT ![i] = st.m]
  /\ prog' = IF st.ok THEN [prog EXCEPT ![i] = p] ELSE prog
  /\ UNCHANGED screen

\* loads: elf_load_into finds a program it can load.
sys_spawn(i, n, loads) ==
  LET st == Given(Build(bitmap, "process", n), loads)
  IN  /\ alloc_meta(i)
      /\ bitmap' = st.bitmap
      /\ Started(i, st, [NoProgram EXCEPT !.kind = "process", !.app_pages = n, !.image = n])

spawn_common(i, loads) ==
  LET root_base == alloc_contig(bitmap, RootPages)
      st == Given(Build(bitmap \cup Run(root_base, RootPages), "task", APP_PAGES), loads)
  IN  /\ alloc_meta(i)
      /\ root_base # NoFrame
      /\ bitmap' = IF st.ok THEN st.bitmap
                            ELSE free_contig(st.bitmap, root_base, RootPages)
      /\ Started(i, st, [NoProgram EXCEPT !.kind = "task", !.app_pages = APP_PAGES,
                                          !.image = APP_PAGES, !.root_base = root_base])

copy_pages(dst, src, start, n) ==
  \A p \in start .. start + n - 1 : src.map[p] # NoFrame /\ dst.map[p] # NoFrame

sys_fork(i, c) ==
  LET parent == prog[i]
      built == Build(bitmap, "process", parent.app_pages)
      grown == IF built.ok THEN extend_address_space(built, BRK_MIN, parent.brk) ELSE built
      copied == /\ copy_pages(grown.m, space[i], APP_BASE, parent.app_pages)
                /\ copy_pages(grown.m, space[i], STACK_OF["process"], 1)
                /\ copy_pages(grown.m, space[i], BRK_MIN, parent.brk)
      st == IF grown.ok /\ copied THEN grown ELSE Stopped(destroy_address_space(grown))
  IN  /\ i \in Processes
      /\ alloc_meta(c)
      /\ bitmap' = st.bitmap
      /\ Started(c, st, parent)

\* reap_children or waitpid for a process, close_task for a task.
Reap(i) ==
  /\ i \in Live
  /\ bitmap' = free_contig(destroy_address_space(Working(bitmap, space[i])).bitmap,
                           prog[i].root_base, RootPages)
  /\ space' = [space EXCEPT ![i] = Unused]
  /\ prog' = [prog EXCEPT ![i] = NoProgram]
  /\ UNCHANGED screen

-----------------------------------------------------------------------------
(* What a program asks for while it runs. *)

\* Program i becomes p with the pool and the space of st.
Becomes(i, st, p) ==
  /\ bitmap' = st.bitmap
  /\ space' = [space EXCEPT ![i] = st.m]
  /\ prog' = [prog EXCEPT ![i] = p]
  /\ UNCHANGED screen

Here(i) == Working(bitmap, space[i])

\* The image of n pages replaces the program and its heap starts again.
Loaded(p, n) == [p EXCEPT !.image = n, !.brk = 0]

\* One of the kernel's own programs is loaded over the caller's image, in a
\* process (exec_prepared) and in a task (exec_current) alike.  A program
\* a task reads from a file is loaded the same way.
exec_embedded(i, n) == i \in Live /\ Becomes(i, Here(i), Loaded(prog[i], n))

\* exec_prepared of a file of `frames` pages whose image takes n: it is staged
\* in frames of its own while the image's region grows.
exec_file(i, frames, n, loads) ==
  LET cp == prog[i]
      phys == alloc_contig(bitmap, frames)
      staged == Working(bitmap \cup Run(phys, frames), space[i])
      st == IF n > cp.app_pages
            THEN extend_address_space(staged, APP_BASE + cp.app_pages, n - cp.app_pages)
            ELSE staged
      grown == IF st.ok /\ n > cp.app_pages THEN [cp EXCEPT !.app_pages = n] ELSE cp
  IN  /\ i \in Processes
      /\ phys # NoFrame
      /\ Becomes(i, [st EXCEPT !.bitmap = free_contig(@, phys, frames)],
                 IF st.ok /\ loads THEN Loaded(grown, n) ELSE grown)

\* brk_set and task_brk: lowering the break unmaps nothing.
brk_set(i, req) ==
  LET prev == prog[i].brk
      st == IF req > prev THEN extend_address_space(Here(i), BRK_MIN + prev, req - prev)
                          ELSE Here(i)
  IN  /\ i \in Live
      /\ Becomes(i, st, IF st.ok THEN [prog[i] EXCEPT !.brk = req] ELSE prog[i])

\* Mutant: the compositor's pointer stays on the old run.
install_canvas_stale(p, pages, phys) ==
  [p EXCEPT !.pixel = IF @ = NoFrame THEN phys ELSE @, !.pix_pages = pages]

install_canvas(p, pages, phys) == [p EXCEPT !.pixel = phys, !.pix_pages = pages]

task_gfx_surface(i) ==
  LET pages == Least(CanvasSizes)
      phys == alloc_contig(bitmap, pages)
      st == map_frames(Working(bitmap \cup Run(phys, pages), space[i]),
                       GFX_SURFACE_VA, pages, phys)
  IN  /\ i \in Tasks
      /\ prog[i].pixel = NoFrame
      /\ phys # NoFrame
      /\ IF st.ok
         THEN Becomes(i, st, install_canvas(prog[i], pages, phys))
         ELSE Becomes(i, [st EXCEPT !.bitmap = free_contig(@, phys, pages)], prog[i])

\* A larger canvas: reserve the new run, give the old one back, map the new.
canvas_resize(i, need) ==
  LET c == prog[i]
      fresh == alloc_contig(bitmap, need)
      gone == unmap_frames(Working(bitmap \cup Run(fresh, need), space[i]),
                           GFX_SURFACE_VA, c.pix_pages)
      st == map_frames([gone EXCEPT !.ok = TRUE,
                                    !.bitmap = free_contig(@, c.pixel, c.pix_pages)],
                       GFX_SURFACE_VA, need, fresh)
  IN  /\ i \in Tasks
      /\ c.pixel # NoFrame
      /\ need > c.pix_pages
      /\ fresh # NoFrame
      /\ IF st.ok
         THEN Becomes(i, st, install_canvas(c, need, fresh))
         ELSE Becomes(i, [st EXCEPT !.bitmap = free_contig(@, fresh, need)],
                      [c EXCEPT !.pixel = NoFrame, !.pix_pages = 0])

\* A program opens /dev/fb0: the back buffer is lent to it.
map_for(i) ==
  /\ i \in Live
  /\ screen.backbuf # NoFrame
  /\ Becomes(i, map_borrowed_frames(Here(i), VNU_FB_VA, screen.mode, screen.backbuf), prog[i])

-----------------------------------------------------------------------------
(* The display. *)

\* The pool without the back buffer the display has.
release_backbuf(taken) == free_contig(taken, screen.backbuf, screen.mode)

enter_gfx_mode ==
  LET phys == alloc_contig(bitmap, screen.mode)
  IN  /\ screen.backbuf = NoFrame
      /\ phys # NoFrame
      /\ bitmap' = bitmap \cup Run(phys, screen.mode)
      /\ screen' = [screen EXCEPT !.backbuf = phys]
      /\ UNCHANGED <<space, prog>>

\* set_resolution, and restore_console_geometry, which differs from it in
\* taking a frame for the mode it is in already when there is none.  The
\* driver that refuses the mode has the new run given back.
set_resolution(mode) ==
  LET next == alloc_contig(bitmap, mode)
  IN  /\ mode # screen.mode \/ screen.backbuf = NoFrame
      /\ next # NoFrame
      /\ bitmap' = release_backbuf(bitmap \cup Run(next, mode))
      /\ screen' = [backbuf |-> next, mode |-> mode]
      /\ UNCHANGED <<space, prog>>

exit_to_text ==
  /\ screen.backbuf # NoFrame
  /\ bitmap' = release_backbuf(bitmap)
  /\ screen' = [screen EXCEPT !.backbuf = NoFrame]
  /\ UNCHANGED <<space, prog>>

-----------------------------------------------------------------------------

Next == \/ \E i \in Ids, n \in EmbeddedPages, loads \in BOOLEAN : sys_spawn(i, n, loads)
        \/ \E i \in Ids, loads \in BOOLEAN : spawn_common(i, loads)
        \/ \E i, c \in Ids : sys_fork(i, c)
        \/ \E i \in Ids : Reap(i)
        \/ \E i \in Ids, n \in EmbeddedPages : exec_embedded(i, n)
        \/ \E i \in Ids, frames, n \in FilePages, loads \in BOOLEAN :
             exec_file(i, frames, n, loads)
        \/ \E i \in Ids, req \in 0 .. HEAP_PAGES : brk_set(i, req)
        \/ \E i \in Ids : task_gfx_surface(i)
        \/ \E i \in Ids, need \in CanvasSizes : canvas_resize(i, need)
        \/ \E i \in Ids : map_for(i)
        \/ enter_gfx_mode
        \/ \E mode \in Modes : set_resolution(mode)
        \/ exit_to_text

Spec == Init /\ [][Next]_vars

-----------------------------------------------------------------------------
(* Properties. *)

\* Type correctness, with the limits of a space's two lists: the code keeps
\* them in arrays of that many entries (AddrSpaceMeta).
TypeOK ==
  /\ bitmap \subseteq Frames
  /\ space \in [Ids -> AddrSpaceMeta]
  /\ prog \in [Ids -> Program]
  /\ screen \in [backbuf: Frames \cup {NoFrame}, mode: Modes]
  /\ \A i \in Ids : /\ Cardinality(space[i].data_frames) <= MAX_FRAMES_PER_SPACE
                    /\ Cardinality(Tables(space[i])) <= MAX_PRIVATE_PDES_PER_SPACE

\* The holders and what each holds.
Holding == [h \in ({"space", "root"} \X Ids) \cup {<<"screen">>} |->
              CASE h[1] = "space"  -> Holds(space[h[2]])
                [] h[1] = "root"   -> Run(prog[h[2]].root_base, RootPages)
                [] h[1] = "screen" -> Run(screen.backbuf, screen.mode)]

\* The pool's bitmap is exactly what somebody holds: no sequence of calls,
\* failed half way or not, loses a frame for good or leaves one in use that
\* the pool would hand out again.
FramesAccounted == bitmap = UNION {Holding[h] : h \in DOMAIN Holding}

\* No frame has two holders: an address space is "physically different
\* memory" from every other one (paging.h), and from the display and the
\* images the kernel keeps.
HoldersApart ==
  \A g, h \in DOMAIN Holding : g # h => Holding[g] \cap Holding[h] = {}

\* The pages a program may use: image, stack, heap up to the break.
Regions(i) == (APP_BASE .. APP_BASE + prog[i].image - 1)
              \cup {STACK_OF[prog[i].kind]}
              \cup (BRK_MIN .. BRK_MIN + prog[i].brk - 1)

\* The pages of an image past the region of its process.  exec_prepared grows
\* the region for a file only, so a program of the kernel's own that is larger
\* than its caller's region lies, from there on, on the kernel's memory.
Overhang(i) == APP_BASE + prog[i].app_pages .. APP_BASE + prog[i].image - 1

\* Every page of a running program, except for that overhang, is backed by a
\* frame of its own space that backs no other page, not by the kernel's memory
\* behind the identity map (the comment on owns_frame), whatever failed on the
\* way: a refused break, a refused exec, a resized canvas, a file's program
\* loaded where an overhang was.  The window of the display's frame is left
\* out: what a program sees there once the mode has changed is stale until it
\* asks again (fb.h).
ProgramBacked ==
  \A i \in Live : \A p \in Regions(i) \ Overhang(i) :
    /\ owns_frame(space[i], space[i].map[p])
    /\ \A q \in 0 .. VNU_FB_VA - 1 : q # p => space[i].map[q] # space[i].map[p]

\* "One address, two views" (task_gfx_surface): the run the compositor reads
\* is, page for page, what the task draws on.
CanvasOneSurface ==
  \A i \in Tasks : \A k \in 0 .. prog[i].pix_pages - 1 :
    /\ space[i].map[GFX_SURFACE_VA + k] = prog[i].pixel + k
    /\ owns_frame(space[i], prog[i].pixel + k)

\* The regions whose pages are never taken back from a program.
Kept(i) == (APP_BASE .. APP_BASE + prog[i].app_pages - 1)
           \cup {STACK_OF[prog[i].kind]}
           \cup (BRK_MIN .. BRK_MIN + HEAP_PAGES - 1)

\* "already-present pages are left untouched" (extend_address_space): while a
\* program lives, the pages it has of image, stack and heap keep their
\* frames, and with them their content, through an exec that grows the image
\* and a break that is lowered and raised again.
PagesStay ==
  [][\A i \in Live : prog'[i].kind # "none" =>
       \A p \in Kept(i) : owns_frame(space[i], space[i].map[p]) =>
                            space'[i].map[p] = space[i].map[p]]_vars

=============================================================================
