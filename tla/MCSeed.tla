------------------------------- MODULE MCSeed -------------------------------
(* Two subtrees with a file each.                                          *)
EXTENDS Seed

MCSeedDirs == <<"home", "etc">>
MCSeedFiles == <<"rc">>
MCSeedData == <<Byte(1)>>
=============================================================================
