---------------------------- MODULE PairInstallInv ----------------------------
(***************************************************************************)
(* The inductive invariants behind the theorems about PairInstall, in two  *)
(* layers.  TypeInv and FateInv speak of the control, the markers and the  *)
(* reports: they hold whatever other programs do to the members.  PairInv  *)
(* says what the markers in the directory mean for the members, and what   *)
(* each step of the job in progress may rely on: it holds when no other    *)
(* program touches the pair (MaxExt = 0).                                  *)
(***************************************************************************)
EXTENDS PairInstall

BeforeJournal == {"stage", "backup", "journalNew", "publish"}
AfterJournal  == {"createCommit", "fillCommit", "createRollback", "fillRollback", "seal",
                  "prepared"}
MarkSteps     == {"mark", "markMove", "markConfirm"}
SwapSteps     == {"instVerify", "instDelete", "instMove", "instConfirm", "final", "commitMove"}
RestoreSteps  == {"reclassify", "restore", "restoreMove", "restoreConfirm", "restored"}
CleanSteps    == {"clean", "cleaning"}

(***************************************************************************)
(* TypeOK by parts, and what makes it inductive.                           *)
(***************************************************************************)
FilesOK == dir \in [Shared -> Object] /\ priv \in [Token -> [Private -> Object]]
JobOK ==
  /\ owner \in Doc \cup {Nobody} /\ step \in Step /\ op \in Op /\ cur \in 0..MaxSaves
  /\ mem \in Member /\ cls \in [Member -> {"original", "replacement", "missing"}]
  /\ todo \subseteq Marker \cup Private /\ stamps \in [Member -> Object]
RestOK ==
  /\ rec \in [Token -> [Member -> Object]] /\ last \in 0..MaxSaves
  /\ opened \subseteq Doc /\ reading \subseteq Doc /\ seen \in [Doc -> [Member -> Object]]
  /\ outcome \in [Token -> {"none", "error", "installed", "rolledBack", "failed"}]
  /\ done \subseteq Token
  /\ ext \in 0..MaxExt /\ crashes \in 0..MaxCrashes
FaultsOK == faults \in 0..MaxFaults
Flags == overwrite \in BOOLEAN /\ alias \in BOOLEAN

\* A job that is somewhere belongs to a document and, past recovery's first
\* look, works on a record.
CurInv == /\ step # "idle" => owner \in Doc
          /\ step \notin {"idle", "look", "ready"} => cur \in 1..last
\* A save that has not taken its token yet still has one to take.
SaveInv == op = "save" => \/ step \in BeforeJournal \cup AfterJournal \cup {"scratch"}
                          \/ last < MaxSaves

TypeInv == FilesOK /\ JobOK /\ RestOK /\ FaultsOK /\ CurInv /\ SaveInv

(***************************************************************************)
(* First layer: what has become of each save, and of the markers.          *)
(***************************************************************************)
FreshInv == \A t \in Token : t > last => t \notin done /\ outcome[t] = "none"
\* A save on its way to its commit marker is neither committed nor reported.
PendingInv ==
  /\ step \in {"look", "ready"} => op \in {"open", "save"}
  /\ step \in BeforeJournal \cup AfterJournal =>
       op = "save" /\ cur \notin done /\ outcome[cur] = "none"
  /\ step = "scratch" => cur \notin done
  /\ op = "install" => step \in MarkSteps \cup SwapSteps \cup CleanSteps \cup {"commitConfirm"}
  /\ op = "install" /\ step \in MarkSteps => cur \notin done /\ outcome[cur] = "none"
  /\ step \in SwapSteps => op = "install" /\ cur \notin done /\ outcome[cur] = "none"
\* A commit marker decides; before it is published the save may be undone.
DecidedInv ==
  /\ step = "commitMove" => dir["commitNew"] = Committed(cur)
  /\ step = "commitConfirm" => /\ op = "install" /\ cur \in done /\ outcome[cur] = "none"
                               /\ dir["commit"] = Committed(cur)
  /\ step = "undo" => op = "undo" /\ (dir["commit"] = Absent => cur \notin done)
  /\ op = "undo" => outcome[cur] = "none" /\ (step # "undo" => cur \notin done)
  /\ op \in {"abort", "drop"} => cur \notin done
  /\ op = "install" /\ step \in CleanSteps => cur \in done
\* The members are only moved while there is no commit marker.
UncommittedInv ==
  step \in (MarkSteps \ {"mark"}) \cup SwapSteps \cup RestoreSteps => dir["commit"] = Absent
\* Cleaning knows every marker that is left, and an owner that has recovered
\* the pair has left none.
EvidenceInv ==
  /\ step = "ready" => NoEvidence
  /\ step = "cleaning" => \A n \in Marker : dir[n] # Absent <=> n \in todo

ReportsOK == OutcomeTruthful /\ FreshInv
ControlOK == PendingInv /\ DecidedInv /\ UncommittedInv /\ EvidenceInv
FateInv == ReportsOK /\ ControlOK

(***************************************************************************)
(* Second layer: the directory.                                            *)
(***************************************************************************)
Phase == {"journal", "commit", "rollback"}
NoPhase == \A n \in Phase : dir[n] = Absent

\* Every phase marker present belongs to save t.
Mine(t) == \A n \in Phase : dir[n] \in {Absent, Proof(t, n)}
\* Member m can be brought back to the original of save t.
Restorable(t, m) ==
  \/ Class(t, m) = "original"
  \/ /\ Class(t, m) \in {"missing", "replacement"}
     /\ priv[t][BackupOf(m)] = Backup(t, m)
Original(t) == \A m \in Member : dir[m] = rec[t][m]
Replaced(t) == \A m \in Member : dir[m] = New(t)

Marks(t) ==
  /\ Mine(t)
  /\ dir["commit"] # Absent => Replaced(t)
  /\ dir["commit"] = Absent =>
       IF RollingBack THEN \A m \in Member : Restorable(t, m) ELSE Original(t)
DirInv == NoPhase \/ \E t \in 1..last : Marks(t)

\* Records name originals, never files that a later save will create.
RecInv == /\ \A m \in Member : dir[m].kind \in {"new", "old"} => dir[m].by <= last
          /\ \A t \in Token : \A m \in Member :
               rec[t][m].kind \in {"new", "old"} => rec[t][m].by # t

Undecided(t) == Mine(t) /\ dir["commit"] = Absent
                /\ (dir["journal"] # Absent \/ dir["rollback"] # Absent)
Rolling(t) == Mine(t) /\ dir["commit"] = Absent /\ dir["rollback"] = Prepared(t)

PrepareInv ==
  /\ step \in BeforeJournal => NoPhase /\ Original(cur)
  /\ step = "publish" => priv[cur]["journalNew"] = Prepared(cur)
  /\ step \in AfterJournal => /\ dir["journal"] = Prepared(cur) /\ dir["commit"] = Absent
                              /\ dir["rollback"] = Absent /\ Original(cur)
  /\ step = "scratch" => /\ dir["journal"] \in {Absent, Prepared(cur)}
                         /\ dir["commit"] = Absent /\ dir["rollback"] = Absent /\ Original(cur)

\* A live installation holds all its backups, and the stage of the member it
\* is about to move.
InstallInv ==
  /\ op = "install" /\ step \in MarkSteps \cup SwapSteps =>
       \A m \in Member : priv[cur][BackupOf(m)] = Backup(cur, m)
  /\ step \in SwapSteps => Rolling(cur)
  /\ step \in {"instDelete", "instMove"} => priv[cur][StageOf(mem)] = New(cur)
  /\ step = "commitMove" => Replaced(cur)
  /\ step = "commitConfirm" => Mine(cur)

MarkInv ==
  /\ step \in MarkSteps => Undecided(cur)
  /\ step = "markMove" => dir["rollbackNew"] = Prepared(cur)
  /\ step = "markConfirm" => dir["rollback"] = Prepared(cur)

RollbackInv ==
  /\ step = "recover" => Mine(cur) /\ ~NoPhase
  /\ step = "undo" => Mine(cur) /\ (dir["commit"] = Absent => dir["rollback"] = Prepared(cur))
  /\ step \in RestoreSteps => Rolling(cur)
  /\ step = "restore" => /\ cls[mem] = Class(cur, mem)
                         /\ mem = "native" => cls["raster"] = Class(cur, "raster")
  /\ step = "restoreMove" => Class(cur, mem) = "missing"
  /\ step \in {"restoreMove", "restoreConfirm"} /\ mem = "native"
       => cls["raster"] = Class(cur, "raster")
  /\ step \in {"restore", "restoreMove", "restoreConfirm"} /\ mem = "raster"
       => Class(cur, "native") = "original"
  /\ step = "restored" => Both(cur, "original")

CleanInv ==
  step \in CleanSteps => /\ Mine(cur)
                         /\ dir["commit"] = Absent /\ ~NoPhase => Both(cur, "original")

StepInv == PrepareInv /\ InstallInv /\ MarkInv /\ RollbackInv /\ CleanInv
PairInv == DirInv /\ RecInv /\ StepInv

IInv == TypeInv /\ Flags /\ FateInv /\ PairInv
=============================================================================
