----------------------------- MODULE UndoStack -----------------------------
(***************************************************************************)
(* What the document history promises its user: a line of documents with   *)
(* one of them shown.  An edit drops what lies beyond the shown document   *)
(* and appends its result; undo, redo and a jump only choose another       *)
(* document of the line; a new document starts a new line.                 *)
(***************************************************************************)
EXTENDS Integers, Sequences

CONSTANT Doc

VARIABLES line, at, shown

vars == <<line, at, shown>>

Init == /\ line \in {<<d>> : d \in Doc}
        /\ at = 1
        /\ shown = line[1]

Edit(d) == /\ line' = Append(SubSeq(line, 1, at), d)
           /\ at' = at + 1
           /\ shown' = d

Move(k) == /\ at' = k
           /\ shown' = line[k]
           /\ line' = line

Restart(d) == /\ line' = <<d>>
              /\ at' = 1
              /\ shown' = d

Next == \/ \E d \in Doc : Edit(d) \/ Restart(d)
        \/ \E k \in 1..Len(line) : Move(k)

Spec == Init /\ [][Next]_vars
=============================================================================
