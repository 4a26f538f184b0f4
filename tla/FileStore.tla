----------------------------- MODULE FileStore -----------------------------
(***************************************************************************)
(* What a mounted volume promises its callers (include/vnu/fat16.h and the *)
(* mount half of include/vnu/vfs.h): a tree of named files, each a         *)
(* sequence of cells.  A call changes one file in one step or not at all;  *)
(* one that is hit by a disk fault may leave anything in the files it was  *)
(* about, and nothing else.                                                *)
(***************************************************************************)
EXTENDS Integers, Sequences, FiniteSets

CONSTANTS Paths,   \* sequences of one name, or of a directory's and a name
          Cells,   \* contents of a cell
          ZeroCell,
          IsADir,     \* what stands for a directory
          MaxLen

VARIABLES store,   \* the files and directories that exist
          faults,  \* how many calls were hit by a fault
          lost     \* a call went to a directory that is no more

IsDir(p) == p \in DOMAIN store /\ store[p] = IsADir
IsFile(p) == p \in DOMAIN store /\ store[p] # IsADir
Above(p) == SubSeq(p, 1, Len(p) - 1)
HasRoom(p) == Above(p) = <<>> \/ IsDir(Above(p))
Below(p) == {q \in DOMAIN store : q # p /\ Above(q) = p}

With(p, x) == [q \in DOMAIN store \cup {p} |-> IF q = p THEN x ELSE store[q]]
Without(S) == [q \in DOMAIN store \ S |-> store[q]]
Old(p) == IF IsFile(p) THEN store[p] ELSE <<>>

\* A file grows with zeros; the written cells replace what was there.
Longer(s, n) == IF n <= Len(s) THEN s ELSE [i \in 1 .. n |-> IF i <= Len(s) THEN s[i] ELSE ZeroCell]
Overwritten(s, off, len, x) ==
  [i \in 1 .. Len(Longer(s, off + len)) |->
     IF i \in off + 1 .. off + len THEN x ELSE Longer(s, off + len)[i]]

Put(p, s) == HasRoom(p) /\ ~IsDir(p) /\ store' = With(p, s) /\ UNCHANGED <<faults, lost>>

Write == \E p \in Paths, off \in 0 .. MaxLen, len \in 0 .. MaxLen, x \in Cells :
           Put(p, Overwritten(Old(p), off, len, x))
Truncate == \E p \in DOMAIN store, n \in 0 .. MaxLen :
              IsFile(p) /\ Put(p, SubSeq(Longer(store[p], n), 1, n))
\* Replacing a file empties it first.
Replace == \E p \in Paths, len \in 0 .. MaxLen, x \in Cells :
             Put(p, Overwritten(<<>>, 0, len, x))
Mkdir == \E p \in Paths : /\ Len(p) = 1 /\ p \notin DOMAIN store
                          /\ store' = With(p, IsADir) /\ UNCHANGED <<faults, lost>>
Remove == \E p \in DOMAIN store :
            Below(p) = {} /\ store' = Without({p}) /\ UNCHANGED <<faults, lost>>
\* The new file is whole before the old one goes; a move that fails leaves
\* the old one and a beginning of the new one.
Move == \E p \in DOMAIN store, q \in Paths \ DOMAIN store :
          /\ IsFile(p) /\ HasRoom(q)
          /\ \/ store' = [r \in (DOMAIN store \ {p}) \cup {q} |-> IF r = q THEN store[p] ELSE store[r]]
             \/ \E n \in 0 .. Len(store[p]) : store' = With(q, SubSeq(store[p], 1, n))
          /\ UNCHANGED <<faults, lost>>

Hit == \E S \in SUBSET Paths :
         /\ Cardinality(S) \in 1 .. 2
         /\ \A p \in DOMAIN store \cup DOMAIN store' : p \notin S =>
              /\ p \in DOMAIN store /\ p \in DOMAIN store'
              /\ store'[p] = store[p]
         /\ faults' = faults + 1 /\ UNCHANGED lost

\* A descriptor outlived its directory: nothing is promised from here on.
Stray == lost' = TRUE /\ faults' \in {faults, faults + 1}

Init == faults = 0 /\ lost = FALSE
Next == Write \/ Truncate \/ Replace \/ Mkdir \/ Remove \/ Move \/ Hit \/ Stray
Spec == Init /\ [][Next]_<<store, faults, lost>>
=============================================================================
