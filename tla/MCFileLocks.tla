---------------------------- MODULE MCFileLocks ----------------------------
(* Two tasks and four paths for TLC: hard links in the same and in the     *)
(* opposite order of their paths, and a directory with a missing file.     *)
EXTENDS FileLocks

MCPath == 1..4
MCInitial == {<<1, 2, 1, 2>>, <<1, 2, 2, 1>>, <<1, 0, 1, 2>>}
=============================================================================
