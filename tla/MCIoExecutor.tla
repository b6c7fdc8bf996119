---------------------------- MODULE MCIoExecutor ----------------------------
(* A small instance of IoExecutor for TLC.                                 *)
EXTENDS IoExecutor, TLC
CONSTANTS w1, w2, a, c
TwoWorkers == {w1, w2}
\* A single closure, and a batch with more files than lanes.
Jobs == {a, c}
Mixed == (a :> 0) @@ (c :> 3)
=============================================================================
