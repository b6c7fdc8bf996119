------------------------------ MODULE AtomicPair ------------------------------
(***************************************************************************)
(* What a normal save promises of the native document and its raster       *)
(* companion (docs/file-format.md, "one logical normal-save transaction"): *)
(* the two files have one value that only a commit changes, to both files  *)
(* of one save at once.  A save that was reported as failed with the old   *)
(* pair in place never takes effect afterwards.                            *)
(*                                                                         *)
(* value[m] is the contents of member m: 0 when there is no file, t when   *)
(* save number t wrote it, a larger number for contents that were there    *)
(* before the first save.                                                  *)
(***************************************************************************)
EXTENDS Naturals

CONSTANT MaxSaves   \* the saves are numbered 1..MaxSaves

VARIABLES value,    \* the contents of the two members
          fate      \* what has become of each save

avars == <<value, fate>>

Save == 1..MaxSaves
Pair == {"native", "raster"}

Init == /\ value \in [Pair -> {0, MaxSaves + 1}]
        /\ fate = [t \in Save |-> "open"]

\* Both members change, together.
Commit(t) == /\ fate[t] = "open"
             /\ value' = [m \in Pair |-> t]
             /\ fate' = [fate EXCEPT ![t] = "committed"]

\* The caller is told that the old pair is still there, for good.
Refuse(t) == /\ fate[t] = "open"
             /\ fate' = [fate EXCEPT ![t] = "refused"]
             /\ UNCHANGED value

Next == \E t \in Save : Commit(t) \/ Refuse(t)

Spec == Init /\ [][Next]_avars
=============================================================================
