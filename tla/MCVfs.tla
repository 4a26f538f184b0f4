------------------------------- MODULE MCVfs -------------------------------
(* Instance of Vfs: root's init and a user, /tmp that all may write, the   *)
(* display and one file of /proc.                                          *)
EXTENDS Vfs

CONSTANTS root, user

MCUid == (root :> 0) @@ (user :> 1)
MCGid == (root :> 0) @@ (user :> 1)

At(path, kind, perm) == [NoNode EXCEPT !.used = TRUE, !.path = path, !.kind = kind, !.perm = perm]
All == Classes \X RW
MCTree == << At(<<>>, "dir", Default), At(<<"tmp">>, "dir", All), At(<<"fb">>, "fb", All),
             At(<<"proc">>, "synth", Default), At(<<"host">>, "file", Default) >>
MCKernelPaths == {<<"host">>}
Fl(acc, creat, trunc, append) == [acc |-> acc, creat |-> creat, trunc |-> trunc, append |-> append]
MCFlags == {Fl({"r"}, FALSE, FALSE, FALSE), Fl({"w"}, TRUE, TRUE, FALSE), Fl(RW, TRUE, FALSE, TRUE)}
MCModes == {{}, All}

Budget(open, cls, dup, io, name, own, exit, desk, paths) ==
  [open |-> open, close |-> cls, dup |-> dup, io |-> io, name |-> name, own |-> own,
   exit |-> exit, desk |-> desk, paths |-> paths]

A == <<"tmp", "a">>
Fb == <<"fb">>
Host == <<"host">>
MCPaths == {A, <<"tmp", "b">>, <<"tmp", "a", "c">>, <<"tmp">>, Fb, <<"proc">>, Host}

\* Copies of descriptors; the display and the desktop; files that outgrow the
\* pool; names, and one below a file; a directory that is read; owners and
\* quotas; a /proc page that is moved.
MCBudgets == {Budget(2, 1, 1, 0, 0, 0, 2, 0, {A, Fb}),
              Budget(1, 1, 2, 0, 0, 0, 1, 0, {Fb}),
              Budget(2, 1, 0, 0, 1, 0, 1, 2, {Fb}),
              Budget(1, 0, 0, 3, 1, 0, 0, 0, {A, <<"proc">>, Host}),
              Budget(0, 0, 0, 0, 4, 0, 0, 0, {A, <<"tmp", "a", "c">>, Host}),
              Budget(1, 0, 0, 2, 1, 0, 0, 0, {A, <<"tmp">>}),
              Budget(2, 0, 0, 2, 0, 1, 0, 0, {A, <<"tmp", "b">>}),
              Budget(1, 0, 0, 1, 0, 2, 0, 0, {A}),
              Budget(0, 0, 0, 0, 3, 1, 0, 0, {A, <<"proc">>, Host})}
=============================================================================
