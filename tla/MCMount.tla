------------------------------ MODULE MCMount ------------------------------
(* Instance of Mount: volumes that a few calls from a fresh one have left, *)
(* small enough to fill up.                                                *)
EXTENDS Mount

MCFilePaths == {<<"a">>, <<"d", "Long">>}
MCDirPaths == {<<"d">>}

Bytes(n) == [i \in 1 .. n |-> Byte(1)]
Fresh == Begin(format, -1, FALSE)
WithDir == mkdir(Fresh, 0, "d")
D == mount_dir_cluster(WithDir.v, <<"d">>)
WithLong == write(WithDir, D, "Long", 0, Bytes(1))
Filled == write(WithDir, 0, "a", 0, Bytes(3))
Used == unlink(write(Fresh, 0, "a", 0, Bytes(4)), 0, "a")
Crowded == write(WithDir, 0, "Long", 0, Bytes(1))
MCVolumes == {c.v : c \in {WithLong, Filled, Used, Crowded}}
=============================================================================
