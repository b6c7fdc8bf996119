--------------------------- MODULE RecoveryArtifacts ---------------------------
(***************************************************************************)
(* Recovery artifacts of a document session with a sequence of cells       *)
(* (apps/windows/ui/main_window_runtime.cpp, apps/windows/app/             *)
(* document_session.cpp, inkpod-io/src/recovery.rs).  Unsaved work is      *)
(* written to a fresh attempt, first its native file and then its metadata,*)
(* by a job that runs while the user goes on.  When the job ends, the UI   *)
(* thread either associates the attempt (with the open document's shell,   *)
(* or with a cell it has left) and discards the one before, or discards    *)
(* the attempt itself.  Cells of a sequence that were opened stay resident *)
(* with their unsaved work; leaving one is at once, its autosave follows.  *)
(* Left out: Light Table swaps, opening another document in the session,   *)
(* sessions opened from a recovery file, and other programs.               *)
(***************************************************************************)
EXTENDS Naturals, Sequences, FiniteSets

CONSTANTS Cell,        \* cells of the sequence
          MaxOps,      \* bound of the model on what the user does
          MaxFailures  \* bound of the model on operations that fail

ASSUME RecoveryAssumption == /\ IsFiniteSet(Cell)
                             /\ {MaxOps, MaxFailures} \subseteq Nat

VARIABLES active,    \* the cell that is open
          ver,       \* by cell: the version in memory, a number of its own
          saved,     \* by cell: the version of its savepoint
          resident,  \* inactive cells that Core keeps ready
          shell,     \* the artifact of the open document
          retained,  \* by cell: its shell when it was left
          binding,   \* by cell: sequence_autosaves_
          reserved,  \* sequence_autosave_reservations_
          jobs,      \* the session's file jobs
          art,       \* attempts, by path: what is on disk
          cleanup,   \* attempts that wait for their discard
          owed,      \* by cell: the newest version recorded since it was safe
          imported,  \* cells whose recorded work an import has taken
          ops, failures, open

docs  == <<active, ver, saved, resident>>
names == <<shell, retained, binding, reserved>>
disk  == <<art, cleanup>>
aims  == <<owed, imported>>
run   == <<ops, failures, open>>
vars  == <<docs, names, jobs, disk, aims, run>>

None == 0
Unbound == [art |-> None, gen |-> 0]

(* What AppendRecoveryCleanupArtifact keeps of its arguments. *)
Proven(attempts) == attempts \ {None}

Larger(m, n) == IF m > n THEN m ELSE n

-----------------------------------------------------------------------------
(* Attempts and jobs. *)

(* A job with the state it captures.  An attempt is written by the kinds   *)
(* autosave, resident, and by a switch whose source has unsaved work.      *)
Job(kind, to, attempt) ==
    [kind |-> kind, cell |-> active, to |-> to, art |-> attempt,
     ver |-> ver[active], shell |-> shell, bound |-> binding[active],
     current |-> TRUE, fenced |-> FALSE]

Fresh == Len(art) + 1
NewAttempt == art' = Append(art, [cell |-> active, ver |-> ver[active],
                                  at |-> "nothing"])

Background == {"autosave", "resident"}
Idle == jobs = {}
OnlyBackground == \A j \in jobs : j.kind \in Background

(* SourceRecoveryRequired: the active document has unsaved work. *)
Required == ver[active] # saved[active]

Reservation(j) == [cell |-> j.cell, expected |-> j.bound.gen]
Reserves(j) == j.kind \in {"resident", "switch"} /\ j.art # None

(* ReserveSequenceAutosave.  Its limits (64 reservations, 10000            *)
(* associations) are left out: the model is of sessions below them.        *)
MayReserve == \A r \in reserved : r.cell # active

(* Mutant of Complete: the native file is taken for the attempt. *)
CompleteNative(j) == art[j.art].at # "nothing"

(* A proof is returned once native file and metadata are installed. *)
Complete(j) == art[j.art].at = "both"

(* Recovery and normal file authority move to another document. *)
Outdated(js) == {[j EXCEPT !.current = FALSE] : j \in js}

(* What the job recorded is not to be lost before the cell is safe again. *)
Record(j) ==
    IF j.ver = saved[j.cell] THEN UNCHANGED aims
    ELSE /\ owed' = [owed EXCEPT ![j.cell] =
                        IF j.cell \in imported THEN j.ver
                                               ELSE Larger(@, j.ver)]
         /\ imported' = imported \ {j.cell}

Safe(c) == owed' = [owed EXCEPT ![c] = 0]

User == open /\ ops < MaxOps /\ ops' = ops + 1
Asks == User /\ UNCHANGED <<failures, open>>

Init == /\ active \in Cell
        /\ ver = [c \in Cell |-> 0] /\ saved = ver
        /\ resident \in SUBSET (Cell \ {active})
        /\ shell = Unbound
        /\ retained = [c \in Cell |-> Unbound]
        /\ binding = retained
        /\ reserved = {} /\ jobs = {} /\ art = << >> /\ cleanup = {}
        /\ owed = ver /\ imported = {}
        /\ ops = 0 /\ failures = 0 /\ open = TRUE

-----------------------------------------------------------------------------
(* Editing, and the autosave of the open document. *)

Edit == /\ Asks
        /\ \A j \in jobs : ~j.fenced
        /\ ver' = [ver EXCEPT ![active] = ops + 1]
        /\ UNCHANGED <<active, saved, resident, names, jobs, disk, aims>>

(* QueueAutosave *)
Autosave == /\ Asks /\ Idle
            /\ jobs' = {Job("autosave", active, Fresh)}
            /\ NewAttempt
            /\ UNCHANGED <<docs, names, cleanup, aims>>

(* Mutant of StillCurrent: only the generation is compared. *)
SameGeneration(j) == shell.gen = j.shell.gen

(* The check of its completion. *)
StillCurrent(j) == /\ j.current
                   /\ shell.gen = j.shell.gen
                   /\ active = j.cell

AutosaveDone(j) ==
    /\ j.kind = "autosave" /\ Complete(j)
    /\ jobs' = jobs \ {j}
    /\ IF StillCurrent(j)
       THEN /\ shell' = [art |-> j.art, gen |-> shell.gen + 1]
            /\ cleanup' = cleanup \union Proven({j.shell.art})
            /\ Record(j)
       ELSE /\ cleanup' = cleanup \union {j.art}
            /\ UNCHANGED <<shell, aims>>
    /\ UNCHANGED <<docs, retained, binding, reserved, art, run>>

(* write_recovery: the native file, then the metadata. *)
Written(a, before, after) == /\ art[a].at = before
                             /\ art' = [art EXCEPT ![a].at = after]

Write(j) == /\ j.art # None
            /\ j.kind = "switch" => j.fenced
            /\ \/ Written(j.art, "nothing", "native")
               \/ Written(j.art, "native", "both")
            /\ UNCHANGED <<docs, names, jobs, cleanup, aims, run>>

-----------------------------------------------------------------------------
(* Leaving a cell for another one. *)

(* The shell of a resident cell: its own, or the artifact it was left with.*)
ShellOf(c) == IF binding[c].art # None THEN binding[c] ELSE retained[c]

(* TryResidentSequenceReplacement: the autosave of the cell is queued and  *)
(* the documents are exchanged at once; Core may refuse the exchange.      *)
QueueResidentAutosave(js) ==
    IF Required THEN /\ MayReserve
                     /\ NewAttempt
                     /\ LET j == Job("resident", active, Fresh)
                        IN  /\ jobs' = js \union {j}
                            /\ reserved' = reserved \union {Reservation(j)}
                ELSE jobs' = js /\ UNCHANGED <<art, reserved>>

ResidentSwitch(to) ==
    /\ Asks /\ OnlyBackground
    /\ to \in resident
    /\ QueueResidentAutosave(Outdated(jobs))
    /\ active' = to
    /\ resident' = (resident \ {to}) \union {active}
    /\ retained' = [retained EXCEPT ![active] = shell]
    /\ shell' = ShellOf(to)
    /\ UNCHANGED <<ver, saved, binding, cleanup, aims>>

RefusedSwitch(to) ==
    /\ User /\ OnlyBackground
    /\ to \in resident
    /\ failures < MaxFailures /\ failures' = failures + 1
    /\ QueueResidentAutosave(jobs)
    /\ retained' = [retained EXCEPT ![active] = shell]
    /\ UNCHANGED <<docs, shell, binding, cleanup, aims, open>>

(* PublishReservedSequenceAutosave *)
Publishable(j) == /\ Reservation(j) \in reserved
                  /\ binding[j.cell].gen = j.bound.gen

Publish(j) ==
    /\ binding' = [binding EXCEPT ![j.cell] =
                      [art |-> j.art, gen |-> j.bound.gen + 1]]
    /\ reserved' = reserved \ {Reservation(j)}

ResidentDone(j) ==
    /\ j.kind = "resident" /\ Complete(j)
    /\ jobs' = jobs \ {j}
    /\ IF Publishable(j)
       THEN /\ Publish(j)
            /\ cleanup' = cleanup \union Proven({j.bound.art})
            /\ Record(j)
       ELSE /\ cleanup' = cleanup \union {j.art}
            /\ UNCHANGED <<binding, reserved, aims>>
    /\ UNCHANGED <<docs, shell, retained, art, run>>

(* QueueResolvedSequenceReplacement, for a cell that Core does not keep:   *)
(* its pair is read, then the left cell's artifact is written, under the   *)
(* fence, then Core changes documents.                                     *)
Switch(to) ==
    /\ Asks /\ OnlyBackground
    /\ to \in Cell \ (resident \union {active})
    /\ binding[to].art = None
    /\ retained' = [retained EXCEPT ![active] = shell]
    /\ IF Required
       THEN /\ MayReserve
            /\ NewAttempt
            /\ LET j == Job("switch", to, Fresh)
               IN  /\ jobs' = jobs \union {j}
                   /\ reserved' = reserved \union {Reservation(j)}
       ELSE /\ jobs' = jobs \union {Job("switch", to, None)}
            /\ UNCHANGED <<art, reserved>>
    /\ UNCHANGED <<docs, shell, binding, cleanup, aims>>

(* The document is the one the job captured. *)
Unchanged(j) == j.current /\ active = j.cell /\ ver[active] = j.ver

Fence(j) ==
    /\ j.kind \in {"switch", "save"} /\ ~j.fenced
    /\ Unchanged(j)
    /\ jobs' = (jobs \ {j}) \union {[j EXCEPT !.fenced = TRUE]}
    /\ UNCHANGED <<docs, names, disk, aims, run>>

(* CompleteSequenceSwitchAuthority: the shell's artifact may be one that   *)
(* was associated while the switch was prepared.                           *)
SwitchDone(j) ==
    /\ j.kind = "switch" /\ j.fenced
    /\ active' = j.to
    /\ resident' = resident \union {j.cell}
    /\ shell' = [art |-> None, gen |-> shell.gen + 2]
    /\ jobs' = Outdated(jobs \ {j})
    /\ IF j.art = None
       THEN /\ cleanup' = cleanup \union Proven({shell.art} \ {j.shell.art})
            /\ UNCHANGED <<binding, reserved, aims>>
       ELSE /\ Complete(j)
            /\ Publish(j)
            /\ cleanup' = cleanup
                   \union Proven({j.bound.art, j.shell.art, shell.art})
            /\ Record(j)
    /\ UNCHANGED <<ver, saved, retained, art, run>>

-----------------------------------------------------------------------------
(* Saving, reverting, importing another sequence, closing. *)

(* QueueNativeSave *)
Save == /\ Asks /\ Idle
        /\ jobs' = {Job("save", active, None)}
        /\ UNCHANGED <<docs, names, disk, aims>>

(* RemoveSequenceAutosave *)
Removable(j) == /\ j.bound.gen > 0
                /\ binding[j.cell].gen = j.bound.gen
                /\ \A r \in reserved : r.cell # j.cell

SaveDone(j) ==
    /\ j.kind = "save" /\ j.fenced
    /\ saved' = [saved EXCEPT ![j.cell] = j.ver]
    /\ Safe(j.cell)
    /\ shell' = [art |-> None, gen |-> shell.gen + 1]
    /\ binding' = IF Removable(j) THEN [binding EXCEPT ![j.cell] = Unbound]
                                  ELSE binding
    /\ cleanup' = cleanup \union Proven(
           {j.shell.art, shell.art}
               \union (IF Removable(j) THEN {j.bound.art} ELSE {}))
    /\ jobs' = Outdated(jobs \ {j})
    /\ UNCHANGED <<active, ver, resident, retained, reserved, art, imported,
                   run>>

(* IDM_FILE_REVERT *)
Revert == /\ Asks /\ Idle
          /\ jobs' = {Job("revert", active, None)}
          /\ UNCHANGED <<docs, names, disk, aims>>

RevertDone(j) ==
    /\ j.kind = "revert" /\ Unchanged(j)
    /\ ver' = [ver EXCEPT ![active] = saved[active]]
    /\ Safe(active)
    /\ shell' = [art |-> None, gen |-> shell.gen + 1]
    /\ binding' = [binding EXCEPT ![active] = Unbound]
    /\ cleanup' = cleanup \union Proven({shell.art, binding[active].art})
    /\ jobs' = Outdated(jobs \ {j})
    /\ UNCHANGED <<active, saved, resident, retained, reserved, art, imported,
                   run>>

(* ImportSequenceForContext: Core gets the new catalog and a new set of    *)
(* residents, the session's associations are discarded.  The new catalog   *)
(* names the same cells.                                                   *)
Import == /\ Asks /\ Idle
          /\ jobs' = {Job("import", active, None)}
          /\ UNCHANGED <<docs, names, disk, aims>>

(* The open document's own artifact, which an import leaves alone, holds   *)
(* what was recorded of its cell.                                          *)
ShellHolds == /\ shell.art \notin cleanup \union {None, binding[active].art}
              /\ art[shell.art].at = "both"
              /\ art[shell.art].ver >= owed[active]

(* The import takes the other cells with their work, and the association   *)
(* of the open one.                                                        *)
Taken == {c \in Cell : c = active => binding[c].art # None /\ ~ShellHolds}

ImportDone(j) ==
    /\ j.kind = "import"
    /\ jobs' = jobs \ {j}
    /\ resident' \in SUBSET (Cell \ {active})
    /\ ver' = [c \in Cell |-> IF c = active THEN ver[c] ELSE saved[c]]
    /\ retained' = [c \in Cell |-> Unbound]
    /\ binding' = retained'
    /\ reserved' = {}
    /\ cleanup' = cleanup \union Proven({binding[c].art : c \in Cell})
    /\ imported' = imported \union Taken
    /\ UNCHANGED <<active, saved, shell, art, owed, run>>

(* The fence, or the last check of a revert, refuses it. *)
Stale(j) == j.kind \in {"switch", "save", "revert"} /\ ~Unchanged(j)

(* Mutant of Fail: the reservation is kept. *)
FailReserved(j) ==
    /\ \/ Stale(j) /\ UNCHANGED failures
       \/ ~Stale(j) /\ failures < MaxFailures /\ failures' = failures + 1
    /\ jobs' = jobs \ {j}
    /\ cleanup' = cleanup \union (IF j.kind = "switch" /\ j.art # None /\ Complete(j)
                                  THEN {j.art} ELSE {})
    /\ UNCHANGED <<docs, names, art, aims, ops, open>>

(* A job fails, is cancelled, or finds that the document has changed.      *)
(* Files it has written remain, except those it has a proof of.            *)
Fail(j) ==
    /\ \/ Stale(j) /\ UNCHANGED failures
       \/ ~Stale(j) /\ failures < MaxFailures /\ failures' = failures + 1
    /\ jobs' = jobs \ {j}
    /\ reserved' = reserved \ (IF Reserves(j) THEN {Reservation(j)} ELSE {})
    /\ cleanup' = cleanup \union (IF j.kind = "switch" /\ j.art # None /\ Complete(j)
                                  THEN {j.art} ELSE {})
    /\ UNCHANGED <<docs, shell, retained, binding, art, aims, ops, open>>

(* discard_recovery_with_proof, which leaves what it cannot prove.  Its    *)
(* outcome is not looked at.                                               *)
Gone(a) == [art EXCEPT ![a].at = "gone"]

Discard(a) ==
    /\ a \in cleanup
    /\ cleanup' = cleanup \ {a}
    /\ \/ art' = Gone(a) /\ UNCHANGED failures
       \/ UNCHANGED art /\ failures < MaxFailures /\ failures' = failures + 1
    /\ UNCHANGED <<docs, names, jobs, aims, ops, open>>

(* CloseActiveDocument and ConfirmDiscard: the user gives up the changes   *)
(* of the open document.  The artifacts of the cells remain.               *)
Close ==
    /\ User /\ Idle
    /\ open' = FALSE
    /\ IF Required /\ shell.art # None THEN art' = Gone(shell.art)
                                       ELSE UNCHANGED art
    /\ shell' = IF Required THEN [art |-> None, gen |-> shell.gen + 1] ELSE shell
    /\ IF Required THEN Safe(active) ELSE UNCHANGED owed
    /\ UNCHANGED <<docs, retained, binding, reserved, jobs, cleanup, imported,
                   failures>>

-----------------------------------------------------------------------------
Commands == \/ Edit \/ Autosave \/ Save \/ Revert \/ Import \/ Close
            \/ \E to \in Cell : ResidentSwitch(to) \/ RefusedSwitch(to) \/ Switch(to)

JobStep(j) == \/ Write(j) \/ Fence(j) \/ Fail(j)
              \/ AutosaveDone(j) \/ ResidentDone(j) \/ SwitchDone(j)
              \/ SaveDone(j) \/ RevertDone(j) \/ ImportDone(j)

Next == \/ Commands
        \/ \E j \in jobs : JobStep(j)
        \/ \E a \in cleanup : Discard(a)

Spec == Init /\ [][Next]_vars

-----------------------------------------------------------------------------
(* The startup scan finds an attempt of the cell that is at least as new. *)
Held(c, v) == \E a \in DOMAIN art : /\ art[a].cell = c
                                    /\ art[a].at = "both"
                                    /\ art[a].ver >= v

Kept(c) == owed[c] > 0 => Held(c, owed[c])

(* Unsaved work of a cell that was once recorded stays recorded, in that   *)
(* version or a later one, until the cell is saved, reverted, or closed    *)
(* and given up: through switches that overtake autosaves, failures and    *)
(* discards in any order, and at every moment, as a crash may come at any. *)
(* Excepted is what an import takes: the cells it closes, and the open one *)
(* if its work was recorded with the discarded association alone.          *)
PublishedKept == \A c \in Cell \ imported : Kept(c)

(* Every artifact that the open document, a cell, a job or the cleanup     *)
(* names belongs to that document and was written completely, however late *)
(* the job that wrote it ended.                                            *)
Sound(a, c) == a # None => /\ art[a].cell = c
                           /\ art[a].at \in {"both", "gone"}

AssociationsSound ==
    /\ Sound(shell.art, active)
    /\ \A c \in Cell : Sound(binding[c].art, c) /\ Sound(retained[c].art, c)
    /\ \A j \in jobs : Sound(j.shell.art, j.cell) /\ Sound(j.bound.art, j.cell)
    /\ \A a \in cleanup : Sound(a, art[a].cell)

(* A cell is reserved exactly as long as one job is going to publish its   *)
(* artifact.  A reservation that stays behind would keep the user from     *)
(* leaving that cell for good (ReserveSequenceAutosave refuses).           *)
ReservationsMatchJobs ==
    /\ reserved = {Reservation(j) : j \in {k \in jobs : Reserves(k)}}
    /\ \A j, k \in jobs : Reserves(j) /\ Reserves(k) /\ j # k => j.cell # k.cell
================================================================================
