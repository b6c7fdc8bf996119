---------------------------- MODULE MCPairInstall ----------------------------
(* Small instances of PairInstall for TLC; the bounds are in the .cfg files. *)
EXTENDS PairInstallInv, TLC
CONSTANTS d1, d2
OneDoc  == {d1}
TwoDocs == {d1, d2}
Documents == Permutations(TwoDocs)
=============================================================================
