------------------------------ MODULE MCFrames ------------------------------
(***************************************************************************)
(* Frames on a small machine.  Five pages share a table: an image of one   *)
(* or two pages, or three from a file, a task's canvas and the stacks are  *)
(* in window 0 (identity-mapped), the heap is in window 1 and the          *)
(* display's frame in window 2.  Nine frames hold two programs with little *)
(* to spare, so that every loop is cut short somewhere; the limit of two   *)
(* tables lets a program have a heap or the display's frame.               *)
(***************************************************************************)
EXTENDS Frames, TLC

MCStacks == [process |-> 3, task |-> 4]
MCSymmetry == Permutations(Ids)

=============================================================================
