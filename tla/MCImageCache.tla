---------------------------- MODULE MCImageCache ----------------------------
(* An image that other programs touch, rewrite and cut short while two     *)
(* workers read it, and a file that is read as bytes.                      *)
EXTENDS ImageCache, TLC

CONSTANTS f1, f2
MCFile == {f1, f2}
MCReads == {<<f1, "image">>, <<f2, "bytes">>}

A == <<1, 1>>
B == <<2, 2>>
MCVersions == (f1 :> {<<A, A, B>>, <<A, B>>, <<A, <<1>>>>}) @@ (f2 :> {<<A>>})

Symmetry == Permutations(Worker)
=============================================================================
