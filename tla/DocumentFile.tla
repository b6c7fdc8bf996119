---------------------------- MODULE DocumentFile ----------------------------
(***************************************************************************)
(* The native files of a document: the normal save, the recovery copy of   *)
(* an autosave and the compacted copy, each a whole journal with the       *)
(* counters of the Core that wrote it, and the open that rebuilds a Core   *)
(* from one of them (inkpod-core/src/{persistence,persistence_task}.rs).   *)
(* A crash loses the Core and keeps the files: it is an Open.              *)
(***************************************************************************)
EXTENDS DocumentHistory

CONSTANTS NoFile,
          MaxSteps,           \* bound of the model on edits and writes
          CheckpointInterval  \* CHECKPOINT_PROCEDURE_INTERVAL

ASSUME FileAssumption == {CheckpointInterval, MaxSteps} \subseteq Nat

VARIABLES files,      \* the native file of each kind on disk
          path,       \* Core::current_path, as the kind of the file there
          savepoint,  \* Core::savepoint, 0 for None
          steps       \* edits and writes so far, at most MaxSteps

fileVars == <<files, path, savepoint, steps>>
allVars == <<vars, fileVars>>

Kinds == {"normal", "recovery", "copy"}
NoState == 0

Step == steps < MaxSteps /\ steps' = steps + 1

-----------------------------------------------------------------------------
(* Writing. *)

Procedures == Cardinality({i \in DOMAIN journal : IsCommit(journal[i])})

(* checkpoint_due: the procedure count forces a checkpoint; the replay     *)
(* work and the bytes of the procedures, which the model does not count,   *)
(* may force one as soon as there is a procedure.                          *)
CheckpointDue(due) == /\ Procedures >= CheckpointInterval => due
                      /\ due => Procedures > 0

(* Mutant of Written: META keeps the cursor of the visible history's end. *)
WrittenAtTail(sp, due) ==
    [genesis |-> genesis, journal |-> journal, doc |-> doc,
     current |-> current, cursor |-> Len(history), active |-> active,
     savepoint |-> sp, next |-> nextId, nextState |-> nextState,
     branches |-> Len(tails), checkpoint |-> due]

(* build_procedure_file: META, GENS, PROC and, when due, CKPT. *)
Written(sp, due) ==
    [genesis |-> genesis, journal |-> journal, doc |-> doc,
     current |-> current, cursor |-> cursor, active |-> active,
     savepoint |-> sp, next |-> nextId, nextState |-> nextState,
     branches |-> Len(tails), checkpoint |-> due]

Write(k, f) == /\ Step
               /\ files' = [files EXCEPT ![k] = f]

(* save: the savepoint moves only once the file has replaced the old one. *)
Save(due) ==
    /\ Verified
    /\ CheckpointDue(due)
    /\ Write("normal", Written(current, due))
    /\ path' = "normal"
    /\ savepoint' = current
    /\ UNCHANGED vars

(* Mutant of Autosave: the recovery copy counts as a save. *)
AutosaveAsSave(due) ==
    /\ Verified
    /\ CheckpointDue(due)
    /\ Write("recovery", Written(savepoint, due))
    /\ savepoint' = current
    /\ UNCHANGED <<vars, path>>

(* autosave: recovery data, neither path nor savepoint is adopted. *)
Autosave(due) ==
    /\ Verified
    /\ CheckpointDue(due)
    /\ Write("recovery", Written(savepoint, due))
    /\ UNCHANGED <<vars, path, savepoint>>

(* build_compacted_native_file: the document becomes the Genesis of a file *)
(* without history, with the live id watermark.                            *)
Compacted ==
    [genesis |-> doc, journal |-> <<>>, doc |-> doc, current |-> Genesis,
     cursor |-> 0, active |-> Root, savepoint |-> Genesis, next |-> nextId,
     nextState |-> Genesis + 1, branches |-> 1, checkpoint |-> FALSE]

(* start_compacted_copy: never onto the path of the open document. *)
WriteCompactedCopy ==
    /\ path # "copy"
    /\ Write("copy", Compacted)
    /\ UNCHANGED <<vars, path, savepoint>>

-----------------------------------------------------------------------------
(* Opening. *)

(* branch_tails_from_journal: the last commit or cut of each branch. *)
TailsFrom(log, count) ==
    [b \in 1..count |->
        LET about == {i \in DOMAIN log : log[i].event # "move"
                                         /\ log[i].branch = b}
        IN  IF about = {} THEN Genesis
            ELSE LET e == log[CHOOSE i \in about : \A j \in about : j <= i]
                 IN  IF IsCommit(e) THEN e.proc.committed ELSE e.fork]

(* A file with a checkpoint, written with its META in one piece, matches   *)
(* it and is opened along its digests; otherwise every procedure runs.     *)
Rebuilt(f) == Replayed(f.genesis, f.journal, ~f.checkpoint)

RebuiltNext(f, r) == IF f.checkpoint THEN f.next ELSE r.nodes[r.current].next

Opens(f) ==
    LET r == Rebuilt(f)
    IN  /\ Len(f.journal) <= MaxEvents
        /\ Rebuilds(r, f.current, f.active, TailsFrom(f.journal, f.branches),
                    f.nextState)
        /\ f.savepoint \in 0..Len(r.nodes)
        /\ RebuiltNext(f, r) = f.next
        /\ Place(BranchPath(r), f.current) = f.cursor
        /\ r.nodes[f.current].doc = f.doc

(* A rebuilt history; one from a checkpoint has no inverses yet. *)
RebuiltHistory(f, r) ==
    LET states == BranchPath(r)
    IN  [i \in 1..Cardinality(states) |->
            LET node == r.nodes[CHOOSE s \in states : Place(states, s) = i]
                proc == node.proc[1]
            IN  [proc |-> proc, branch |-> node.branch,
                 change |-> IF f.checkpoint THEN Released
                            ELSE [before |-> proc.pre, after |-> proc.post]]]

(* from_procedure_file, then adopt_opened_document: the staged Core        *)
(* replaces the live one.                                                  *)
Adopt(f) ==
    LET r == Rebuilt(f)
    IN  /\ Opens(f)
        /\ doc' = f.doc
        /\ nextId' = f.next
        /\ history' = RebuiltHistory(f, r)
        /\ cursor' = f.cursor
        /\ current' = f.current
        /\ nextState' = f.nextState
        /\ journal' = f.journal
        /\ active' = f.active
        /\ tails' = TailsFrom(f.journal, f.branches)
        /\ genesis' = f.genesis

(* open, and revert of the file at the current path. *)
Open(k) ==
    /\ k # "recovery"
    /\ files[k] # NoFile
    /\ Adopt(files[k])
    /\ path' = k
    /\ savepoint' = files[k].savepoint
    /\ UNCHANGED <<files, steps>>

(* open_recovery: pathless and dirty, whatever savepoint was recorded. *)
OpenRecovery ==
    /\ files["recovery"] # NoFile
    /\ Adopt(files["recovery"])
    /\ path' = "none"
    /\ savepoint' = NoState
    /\ UNCHANGED <<files, steps>>

-----------------------------------------------------------------------------
(* new_cell: pathless, and its own savepoint. *)
NewDocument ==
    /\ NewCell
    /\ path' = "none"
    /\ savepoint' = Genesis
    /\ Step
    /\ UNCHANGED files

Edit == /\ \/ \E inv \in Invocation : Execute(inv)
           \/ Undo
           \/ Redo
           \/ \E to \in 0..Len(history) : JumpHistory(to)
           \/ ReleaseHistoryCache
        /\ Step
        /\ UNCHANGED <<files, path, savepoint>>

FileInit == /\ Init
            /\ files = [k \in Kinds |-> NoFile]
            /\ path = "none"
            /\ savepoint = Genesis
            /\ steps = 0

FileNext == \/ Edit
            \/ NewDocument
            \/ \E due \in BOOLEAN : Save(due) \/ Autosave(due)
            \/ WriteCompactedCopy
            \/ \E k \in Kinds : Open(k)
            \/ OpenRecovery

FileSpec == FileInit /\ [][FileNext]_allVars

-----------------------------------------------------------------------------
(* Properties. *)

(* A document shown as saved is the one in its file: whatever edits, moves *)
(* and reopenings led back to the savepoint, no state id ever names two    *)
(* documents.                                                              *)
CleanMeansSaved ==
    savepoint = current /\ path # "none" => files[path].doc = doc

(* A saved or autosaved file opens again, from the state and the branch it *)
(* was written in, if no id allocation was undone in its journal.          *)
SavedOpens ==
    \A k \in {"normal", "recovery"} :
        files[k] # NoFile => \/ Opens(files[k])
                             \/ AllocationUndone(files[k].journal)

(* Any normal save reopens clean with Undo, Redo and inactive branches     *)
(* intact (docs/architecture.md:2097).                                     *)
SavedReopens == files["normal"] # NoFile => Opens(files["normal"])
=============================================================================
