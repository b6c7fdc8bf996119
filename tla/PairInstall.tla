----------------------------- MODULE PairInstall -----------------------------
(***************************************************************************)
(* The recoverable publication of a native document and its raster         *)
(* companion: rust/inkpod-io/src/pair.rs, on the Windows backend, where a  *)
(* rename without overwrite is atomic and a file is checked and deleted    *)
(* through one exclusive handle (backend/windows.rs).                      *)
(*                                                                         *)
(* A save stages both replacements and backups of both originals, publishes*)
(* a prepared journal, then a rollback marker, swaps the two members one   *)
(* after the other and finally publishes a commit marker.  Whatever stops  *)
(* it, the next open or save of the pair resolves the evidence it left.    *)
(*                                                                         *)
(* One destination pair is modelled.  PairOwner lets one job of the manager*)
(* work on it at a time (the others get ResourceBusy), so one set of       *)
(* control variables describes whichever job owns the pair.  Opening gives *)
(* the pair up after recovering it and reads it under the file locks only. *)
(***************************************************************************)
EXTENDS Naturals, FiniteSets

CONSTANTS
  Doc,          \* the documents that may be open on the pair
  Nobody,       \* no document's job owns the pair
  MaxSaves,     \* bound on the prepared saves (PAIR_SEQUENCE tokens)
  MaxCrashes,   \* bound on the process crashes
  MaxFaults,    \* bound on the failing file operations and late cancellations
  MaxExt,       \* bound on what other programs do to the members and the directory
  CrashTears    \* may a crash leave a marker stage created but not filled

Member == {"native", "raster"}
Marker == {"journal", "commit", "commitNew", "rollback", "rollbackNew"}
Shared == Member \cup Marker
\* The token-private files of a save: two stages, two backups, the journal's.
Private == {"nativeNew", "rasterNew", "nativeOld", "rasterOld", "journalNew"}

Token == 1..MaxSaves

ASSUME PairAssumption ==
  /\ MaxSaves \in Nat /\ MaxCrashes \in Nat /\ MaxFaults \in Nat /\ MaxExt \in Nat
  /\ CrashTears \in BOOLEAN
  /\ Nobody \notin Doc

VARIABLES
  dir,        \* the directory: what is at each shared name
  priv,       \* what is at each token-private name
  rec,        \* the originals named in each save's record
  last,       \* the last token handed out
  owner,      \* the document whose job owns the pair
  step,       \* where that job is
  op,         \* what the job is doing there
  cur,        \* the token of the record it works on
  mem,        \* the member it works on
  cls,        \* the classification of both members
  todo,       \* the files it still has to remove
  stamps,     \* the verified stamps a rollback will report
  overwrite,  \* did the user confirm overwriting
  opened,     \* the documents that are open
  reading,    \* the documents being opened that have recovered the pair, not read it
  seen,       \* the pair each open document believes is on disk
  outcome,    \* what was reported of each save
  done,       \* history: the saves whose commit marker was published
  alias,      \* is there another companion candidate in the directory
  ext, faults, crashes   \* the bounds used up

files   == <<dir, priv>>
job     == <<owner, step, op, cur, mem, cls, todo, stamps, overwrite>>
session == <<opened, seen, reading>>
history == <<outcome, done>>
bounds  == <<ext, crashes>>
vars == <<dir, priv, rec, last, owner, step, op, cur, mem, cls, todo, stamps, overwrite,
          opened, seen, reading, outcome, done, alias, ext, faults, crashes>>

(***************************************************************************)
(* Files.  kind and by are the physical identity of a file, val stands for *)
(* its contents: 0 none, t those of save t, above MaxSaves those of others.*)
(***************************************************************************)
File(kind, by, val) == [kind |-> kind, by |-> by, val |-> val]
Absent       == File("none", 0, 0)
Base         == File("base", 0, MaxSaves + 1)
New(t)       == File("new", t, t)
Prepared(t)  == File("prepared", t, t)
Committed(t) == File("committed", t, t)
Torn(t)      == File("torn", t, 0)
Foreign(n)   == File("ext", MaxSaves + n, MaxSaves + 1 + n)
Kind   == {"none", "base", "new", "old", "prepared", "committed", "torn", "ext"}
Object == [kind : Kind, by : Nat, val : Nat]

Nothing == [m \in Member |-> Absent]
Targets == [m \in Member |-> dir[m]]

StageOf(m)  == IF m = "native" THEN "nativeNew" ELSE "rasterNew"
BackupOf(m) == IF m = "native" THEN "nativeOld" ELSE "rasterOld"
\* A backup is a copy of the original under an identity of its own.
CopyOf(t, o) == IF o = Absent THEN Absent ELSE File("old", t, o.val)
Backup(t, m) == CopyOf(t, rec[t][m])

At(t, n) == IF n \in Shared THEN dir[n] ELSE priv[t][n]

\* What the record of save t proves of each of its artifacts.
Proof(t, n) ==
  CASE n \in {"commit", "commitNew"}                 -> Committed(t)
    [] n \in {"journal", "rollback", "rollbackNew", "journalNew"} -> Prepared(t)
    [] n \in {"nativeNew", "rasterNew"}              -> New(t)
    [] n = "nativeOld"                               -> Backup(t, "native")
    [] n = "rasterOld"                               -> Backup(t, "raster")

Put(t, n, o) ==
  IF n \in Shared THEN dir' = [dir EXCEPT ![n] = o] /\ UNCHANGED priv
                  ELSE priv' = [priv EXCEPT ![t][n] = o] /\ UNCHANGED dir

NoEvidence == \A n \in Marker : dir[n] = Absent

(***************************************************************************)
(* Control.                                                                *)
(***************************************************************************)
Step == {"idle", "look", "recover", "ready", "stage", "backup", "journalNew", "publish",
         "createCommit", "fillCommit", "createRollback", "fillRollback", "seal", "scratch",
         "prepared", "mark", "markMove", "markConfirm",
         "instVerify", "instDelete", "instMove", "instConfirm", "final", "commitMove",
         "commitConfirm", "undo", "reclassify", "restore", "restoreMove", "restoreConfirm",
         "restored", "clean", "cleaning"}
Op == {"none", "open", "save", "install", "undo", "abort", "drop"}
Recovering == op \in {"open", "save", "abort"}   \* recover_record runs for these

Goto(s) == /\ step' = s
           /\ UNCHANGED <<owner, op, cur, mem, cls, todo, stamps, overwrite>>
GotoMember(s, m) == /\ step' = s /\ mem' = m
                    /\ UNCHANGED <<owner, op, cur, cls, todo, stamps, overwrite>>

Unclassified == [m \in Member |-> "original"]
\* The PairOwner is dropped.
Release == /\ owner' = Nobody /\ step' = "idle" /\ op' = "none" /\ cur' = 0
           /\ mem' = "native" /\ cls' = Unclassified /\ todo' = {}
           /\ stamps' = Nothing /\ overwrite' = FALSE

\* A file operation fails although its check would pass, or a job that can
\* still be cancelled is.
IoError == faults < MaxFaults /\ faults' = faults + 1
Refused(check) == \/ ~check /\ UNCHANGED faults
                  \/ check /\ IoError

Kept == UNCHANGED <<rec, last, session, history, alias, bounds>>
Silent == Kept /\ UNCHANGED <<files, faults>>   \* only the control moves
Report(t, what) == outcome' = [outcome EXCEPT ![t] = what]

(***************************************************************************)
(* The pair is absent or was there before; nothing is in progress.         *)
(***************************************************************************)
Init ==
  /\ \E there \in SUBSET Member :
       dir = [n \in Shared |-> IF n \in there THEN Base ELSE Absent]
  /\ priv = [t \in Token |-> [n \in Private |-> Absent]]
  /\ rec = [t \in Token |-> Nothing]
  /\ last = 0
  /\ owner = Nobody /\ step = "idle" /\ op = "none" /\ cur = 0
  /\ mem = "native" /\ cls = Unclassified /\ todo = {} /\ stamps = Nothing
  /\ overwrite = FALSE
  /\ opened = {} /\ seen = [d \in Doc |-> Nothing] /\ reading = {}
  /\ outcome = [t \in Token |-> "none"] /\ done = {}
  /\ alias = FALSE
  /\ ext = 0 /\ faults = 0 /\ crashes = 0

-----------------------------------------------------------------------------
(***************************************************************************)
(* Opening and saving both begin by recovering the pair under its owner.   *)
(***************************************************************************)
\* Mutant of Begin: opening reads the pair without recovering it first.
BeginUnrecovered(d, o, confirmed) ==
  /\ owner = Nobody
  /\ owner' = d /\ op' = o /\ overwrite' = confirmed
  /\ step' = IF o = "open" THEN "ready" ELSE "look"
  /\ UNCHANGED <<files, rec, last, cur, mem, cls, todo, stamps, session, history,
                 alias, bounds, faults>>
Begin(d, o, confirmed) ==
  /\ owner = Nobody
  /\ owner' = d /\ op' = o /\ step' = "look" /\ overwrite' = confirmed
  /\ UNCHANGED <<files, rec, last, cur, mem, cls, todo, stamps, session, history,
                 alias, bounds, faults>>

BeginOpen(d) == d \notin opened \cup reading /\ Begin(d, "open", FALSE)
\* Mutant of BeginSave: the tokens are never exhausted.
BeginSaveUncounted(d) == d \in opened /\ \E confirmed \in BOOLEAN : Begin(d, "save", confirmed)
BeginSave(d) == d \in opened /\ last < MaxSaves
                /\ \E confirmed \in BOOLEAN : Begin(d, "save", confirmed)
Close(d) == /\ d \in opened /\ owner # d
            /\ opened' = opened \ {d} /\ seen' = [seen EXCEPT ![d] = Nothing]
            /\ UNCHANGED <<reading, files, rec, last, job, history, alias, bounds, faults>>

\* The record that may be trusted to say what is unfinished: the journal's,
\* else a commit marker's, else a rollback marker's.
Source(t) ==
  \/ dir["journal"] = Prepared(t)
  \/ /\ dir["journal"] = Absent
     /\ \/ dir["commit"] = Committed(t)
        \/ dir["commit"] = Absent /\ dir["rollback"] = Prepared(t)

RecoveryFailed == /\ IF op = "abort" THEN Report(cur, "error") ELSE UNCHANGED outcome
                  /\ Release
                  /\ UNCHANGED <<files, rec, last, session, done, alias, bounds>>

Look ==
  /\ step = "look"
  /\ \/ \E t \in 1..last :
          /\ Source(t) /\ cur' = t /\ step' = "recover"
          /\ UNCHANGED <<owner, op, mem, cls, todo, stamps, overwrite>> /\ Silent
     \/ NoEvidence /\ Goto("ready") /\ Silent
     \/ /\ Refused(NoEvidence \/ \E t \in 1..last : Source(t))
        /\ RecoveryFailed

\* classify: the target is the original (or its restored backup), the
\* replacement, or missing; anything else is somebody else's file.
Classify(t, target, original) ==
  IF target = Absent THEN IF original = Absent THEN "original" ELSE "missing"
  ELSE IF target = New(t) THEN "replacement"
  ELSE IF original # Absent /\ target \in {original, CopyOf(t, original)} THEN "original"
  ELSE "conflict"
Class(t, m) == Classify(t, dir[m], rec[t][m])
Classes(t) == [m \in Member |-> Class(t, m)]

MarkersReadable(t) == /\ dir["commit"] \in {Absent, Committed(t)}
                      /\ dir["rollback"] \in {Absent, Prepared(t)}
NoConflict(t) == \A m \in Member : Class(t, m) # "conflict"
BackupsSound(t) ==
  \A m \in Member : Class(t, m) # "original" => priv[t][BackupOf(m)] = Backup(t, m)

RollingBack == dir["rollback"] # Absent
Both(t, c) == \A m \in Member : Class(t, m) = c
Vanished(t) == \E m \in Member : Class(t, m) = "missing"

\* Mutant of Recoverable: a missing member is a conflict even under a rollback marker.
RecoverableUnlessVanished(t) ==
  /\ op = "abort" \/ Source(t)
  /\ MarkersReadable(t) /\ NoConflict(t)
  /\ IF dir["commit"] # Absent THEN Both(t, "replacement") ELSE ~Vanished(t)
\* May recover_record act at all?
Recoverable(t) ==
  /\ op = "abort" \/ Source(t)
  /\ MarkersReadable(t) /\ NoConflict(t)
  /\ IF dir["commit"] # Absent THEN Both(t, "replacement")
     ELSE RollingBack \/ ~Vanished(t)
\* Mutant of Settled: a pair of two replacements counts as committed.
SettledByMembers(t) == IF dir["commit"] # Absent THEN TRUE
                       ELSE Both(t, "replacement") \/ (~RollingBack /\ Both(t, "original"))
Settled(t) == IF dir["commit"] # Absent THEN TRUE ELSE ~RollingBack /\ Both(t, "original")

RecoverClean == /\ step = "recover" /\ Recoverable(cur) /\ Settled(cur)
                /\ Goto("clean") /\ Silent
RecoverRollBack == /\ step = "recover" /\ Recoverable(cur) /\ ~Settled(cur)
                   /\ BackupsSound(cur)
                   /\ Goto("mark") /\ Silent
RecoverFails == /\ step = "recover"
                /\ Refused(Recoverable(cur) /\ (Settled(cur) \/ BackupsSound(cur)))
                /\ RecoveryFailed

\* Opening drops the PairOwner once recovery is done.
OpenRecovered ==
  /\ step = "ready" /\ op = "open"
  /\ reading' = reading \cup {owner} /\ Release
  /\ UNCHANGED <<files, rec, last, opened, seen, history, alias, bounds, faults>>

\* with_file_locks keeps the reader out while a job stages, installs or recovers.
Unlocked == step \in {"idle", "look", "ready", "prepared"}
\* No other companion candidate, and a raster that is there shows what the
\* native document contains (validate_canonical_companion).
Readable == /\ ~alias
            /\ \E m \in Member : dir[m] = Absent \/ \A k \in Member : dir[k].val = dir[m].val
\* Mutant of ReadPair: the pair is read without its file locks.
ReadUnlocked(d) ==
  /\ d \in reading /\ reading' = reading \ {d}
  /\ \/ /\ Readable
        /\ opened' = opened \cup {d} /\ seen' = [seen EXCEPT ![d] = Targets]
        /\ UNCHANGED faults
     \/ Refused(Readable) /\ UNCHANGED <<opened, seen>>
  /\ UNCHANGED <<files, rec, last, job, history, alias, bounds>>
\* An opened document remembers the pair it was read from.
ReadPair(d) ==
  /\ d \in reading /\ Unlocked /\ reading' = reading \ {d}
  /\ \/ /\ Readable
        /\ opened' = opened \cup {d} /\ seen' = [seen EXCEPT ![d] = Targets]
        /\ UNCHANGED faults
     \/ Refused(Readable) /\ UNCHANGED <<opened, seen>>
  /\ UNCHANGED <<files, rec, last, job, history, alias, bounds>>

-----------------------------------------------------------------------------
(***************************************************************************)
(* prepare_pair: nothing may be pending, the members must be what the      *)
(* document last saw (or the user has confirmed), then everything the      *)
(* installation needs is made durable.                                     *)
(***************************************************************************)
\* Mutant of MayReplace: what the document last saw is not compared.
MayReplaceUnseen == ~alias /\ NoEvidence
MayReplace == ~alias /\ NoEvidence /\ (overwrite \/ Targets = seen[owner])

PrepareBegins ==
  /\ step = "ready" /\ op = "save" /\ MayReplace
  /\ last' = last + 1 /\ cur' = last + 1
  /\ rec' = [rec EXCEPT ![last + 1] = Targets]
  /\ step' = "stage" /\ mem' = "native"
  /\ UNCHANGED <<owner, op, cls, todo, stamps, overwrite>>
  /\ UNCHANGED <<files, session, history, alias, bounds, faults>>
PrepareRefused == /\ step = "ready" /\ op = "save" /\ Refused(MayReplace)
                  /\ Release /\ Kept /\ UNCHANGED files

Stage ==
  /\ step = "stage" /\ Put(cur, StageOf(mem), New(cur))
  /\ IF mem = "native" THEN GotoMember("stage", "raster") ELSE GotoMember("backup", "native")
  /\ Kept /\ UNCHANGED faults
BackUp ==
  /\ step = "backup"
  /\ rec[cur][mem] # Absent => dir[mem] = rec[cur][mem]
  /\ Put(cur, BackupOf(mem), Backup(cur, mem))
  /\ IF mem = "native" THEN GotoMember("backup", "raster") ELSE GotoMember("journalNew", "native")
  /\ Kept /\ UNCHANGED faults
\* Writes one more file, complete and flushed, or creates it still empty.
Write(from, n, o, to) == /\ step = from /\ Put(cur, n, o) /\ Goto(to)
                         /\ Kept /\ UNCHANGED faults
WriteJournal   == Write("journalNew", "journalNew", Prepared(cur), "publish")
PublishJournal ==
  /\ step = "publish" /\ dir["journal"] = Absent
  /\ dir' = [dir EXCEPT !["journal"] = priv[cur]["journalNew"]]
  /\ priv' = [priv EXCEPT ![cur]["journalNew"] = Absent]
  /\ Goto("createCommit") /\ Kept /\ UNCHANGED faults
CreateCommit   == /\ dir["commitNew"] = Absent
                  /\ Write("createCommit", "commitNew", Torn(cur), "fillCommit")
FillCommit     == Write("fillCommit", "commitNew", Committed(cur), "createRollback")
CreateRollback == /\ dir["rollbackNew"] = Absent
                  /\ Write("createRollback", "rollbackNew", Torn(cur), "fillRollback")
FillRollback   == Write("fillRollback", "rollbackNew", Prepared(cur), "seal")

\* The companion candidates are the two members and nothing else.
AliasProofHolds(t) == ~alias /\ \A m \in Member : (dir[m] = Absent) = (rec[t][m] = Absent)
Seal == step = "seal" /\ AliasProofHolds(cur) /\ Goto("prepared") /\ Silent

\* Any of these steps may fail or see the job cancelled: Scratch removes what
\* was created, the last file first, and skips a file it cannot remove.
Preparing == step \in {"stage", "backup", "journalNew", "publish", "createCommit", "fillCommit",
                       "createRollback", "fillRollback", "seal"}
ScratchRank(n) ==
  CASE n = "nativeNew" -> 1 [] n = "rasterNew" -> 2 [] n = "nativeOld" -> 3
    [] n = "rasterOld" -> 4 [] n \in {"journalNew", "journal"} -> 5
    [] n = "commitNew" -> 6 [] n = "rollbackNew" -> 7
ScratchNames == Private \cup {"journal", "commitNew", "rollbackNew"}

PrepareFails ==
  /\ Preparing
  /\ todo' = {n \in ScratchNames : At(cur, n) # Absent}
  /\ step' = "scratch" /\ Report(cur, "error")
  /\ UNCHANGED <<owner, op, cur, mem, cls, stamps, overwrite>>
  /\ UNCHANGED <<files, rec, last, session, done, alias, bounds, faults>>
ScratchRemoves ==
  /\ step = "scratch" /\ todo # {}
  /\ \E n \in todo :
       /\ \A k \in todo : ScratchRank(k) <= ScratchRank(n)
       /\ todo' = todo \ {n}
       /\ \/ Put(cur, n, Absent) /\ UNCHANGED faults
          \/ IoError /\ UNCHANGED files
  /\ UNCHANGED <<owner, step, op, cur, mem, cls, stamps, overwrite>> /\ Kept
ScratchDone == step = "scratch" /\ todo = {} /\ Release /\ Silent

-----------------------------------------------------------------------------
(***************************************************************************)
(* A prepared save is installed once its document is fenced, or dropped.   *)
(***************************************************************************)
PreparedExact(t) ==
  /\ dir["commit"] = Absent /\ dir["rollback"] = Absent
  /\ \A n \in {"journal", "commitNew", "rollbackNew"} : dir[n] = Proof(t, n)
  /\ \A m \in Member : dir[m] = rec[t][m]
  /\ \A n \in Private \ {"journalNew"} : priv[t][n] = Proof(t, n)

\* Mutant of InstallBegins: the members are swapped without a rollback marker.
InstallUnmarked ==
  /\ step = "prepared" /\ PreparedExact(cur) /\ AliasProofHolds(cur)
  /\ step' = "instVerify" /\ op' = "install"
  /\ UNCHANGED <<owner, cur, mem, cls, todo, stamps, overwrite>> /\ Silent
InstallBegins ==
  /\ step = "prepared" /\ PreparedExact(cur) /\ AliasProofHolds(cur)
  /\ step' = "mark" /\ op' = "install"
  /\ UNCHANGED <<owner, cur, mem, cls, todo, stamps, overwrite>> /\ Silent
\* The stamps changed, the job was cancelled or its document refused the
\* fence: the evidence is cleaned up on the queue, which may also refuse.
PreparedDropped ==
  /\ step = "prepared"
  /\ Report(cur, "error")
  /\ \/ /\ step' = "clean" /\ op' = "drop"
        /\ UNCHANGED <<owner, cur, mem, cls, todo, stamps, overwrite>>
     \/ Release
  /\ UNCHANGED <<files, rec, last, session, done, alias, bounds, faults>>

-----------------------------------------------------------------------------
(***************************************************************************)
(* publish_rollback_marker, for a live installation, for undoing one and   *)
(* for crash recovery.  (The code can also write a missing stage again for *)
(* recovery.  No member moves before the marker is published, so a record  *)
(* that recovery has to roll back has its marker, and that never happens.) *)
(***************************************************************************)
AfterMark == IF op = "install" THEN "instVerify" ELSE "reclassify"
MarkStageExact == dir["rollbackNew"] = Prepared(cur)
MarkAllowed == /\ dir["commit"] = Absent
               /\ dir["rollback"] \in {Absent, Prepared(cur)}
               /\ \/ dir["rollback"] = Prepared(cur)
                  \/ MarkStageExact

\* Nothing is published yet: a live installation falls back to recover_record
\* and returns the error; undoing has failed with the evidence kept.
\* Mutant of MarkFailed: a failing undo is reported as if it had succeeded.
MarkFailedSilently ==
  \/ /\ op = "install" /\ op' = "abort" /\ step' = "recover"
     /\ UNCHANGED <<owner, cur, mem, cls, todo, stamps, overwrite>>
     /\ Kept /\ UNCHANGED files
  \/ op = "undo" /\ Report(cur, "rolledBack") /\ seen' = [seen EXCEPT ![owner] = Nothing]
     /\ Release /\ UNCHANGED <<files, rec, last, opened, reading, done, alias, bounds>>
  \/ Recovering /\ RecoveryFailed
MarkFailed ==
  \/ /\ op = "install" /\ op' = "abort" /\ step' = "recover"
     /\ UNCHANGED <<owner, cur, mem, cls, todo, stamps, overwrite>>
     /\ Kept /\ UNCHANGED files
  \/ op = "undo" /\ Report(cur, "failed") /\ seen' = [seen EXCEPT ![owner] = Nothing]
     /\ Release /\ UNCHANGED <<files, rec, last, opened, reading, done, alias, bounds>>
  \/ Recovering /\ RecoveryFailed

Mark ==
  /\ step = "mark"
  /\ \/ /\ MarkAllowed
        /\ \/ dir["rollback"] # Absent /\ GotoMember(AfterMark, "native") /\ UNCHANGED files
           \/ dir["rollback"] = Absent /\ MarkStageExact /\ Goto("markMove") /\ UNCHANGED files
        /\ Kept /\ UNCHANGED faults
     \/ Refused(MarkAllowed) /\ MarkFailed
MarkMove ==
  /\ step = "markMove"
  /\ \/ /\ dir["rollback"] = Absent
        /\ dir' = [dir EXCEPT !["rollback"] = dir["rollbackNew"], !["rollbackNew"] = Absent]
        /\ Goto("markConfirm") /\ Kept /\ UNCHANGED <<priv, faults>>
     \/ Refused(dir["rollback"] = Absent) /\ MarkFailed
MarkConfirm ==
  /\ step = "markConfirm"
  /\ \/ /\ dir["rollback"] = Prepared(cur) /\ GotoMember(AfterMark, "native") /\ Silent
     \/ Refused(dir["rollback"] = Prepared(cur)) /\ MarkFailed

-----------------------------------------------------------------------------
(***************************************************************************)
(* install_outcome_inner: the native member, the raster member, the final  *)
(* fences and the commit marker.  Once publication has started a failure   *)
(* is undone.                                                              *)
(***************************************************************************)
\* Mutants of InstFails: the members are restored without looking for a commit
\* marker, and the failing operation is tried again for ever.
InstFailsUnchecked(check) == /\ Refused(check) /\ op' = "undo" /\ step' = "reclassify"
                             /\ UNCHANGED <<owner, cur, mem, cls, todo, stamps, overwrite>>
                             /\ Kept /\ UNCHANGED files
InstRetries(check) == Refused(check) /\ UNCHANGED <<job, files>> /\ Kept
InstFails(check) == /\ Refused(check) /\ op' = "undo" /\ step' = "undo"
                    /\ UNCHANGED <<owner, cur, mem, cls, todo, stamps, overwrite>>
                    /\ Kept /\ UNCHANGED files

StageReady == /\ priv[cur][StageOf(mem)] = New(cur)
              /\ dir[mem] = rec[cur][mem]
InstVerify ==
  /\ step = "instVerify"
  /\ \/ /\ StageReady
        /\ Goto(IF rec[cur][mem] = Absent THEN "instMove" ELSE "instDelete") /\ Silent
     \/ InstFails(StageReady)
InstDelete ==
  /\ step = "instDelete"
  /\ \/ /\ dir[mem] = rec[cur][mem]
        /\ Put(cur, mem, Absent) /\ Goto("instMove") /\ Kept /\ UNCHANGED faults
     \/ InstFails(dir[mem] = rec[cur][mem])
InstMove ==
  /\ step = "instMove"
  /\ \/ /\ dir[mem] = Absent
        /\ dir' = [dir EXCEPT ![mem] = priv[cur][StageOf(mem)]]
        /\ priv' = [priv EXCEPT ![cur][StageOf(mem)] = Absent]
        /\ Goto("instConfirm") /\ Kept /\ UNCHANGED faults
     \/ InstFails(dir[mem] = Absent)
\* Half installed, the directory must name the new native member and the old
\* raster member only.
HalfAliasFree == ~alias /\ (dir["raster"] = Absent) = (rec[cur]["raster"] = Absent)
InstConfirmed == dir[mem] = New(cur) /\ (mem = "native" => HalfAliasFree)
InstConfirm ==
  /\ step = "instConfirm"
  /\ \/ /\ InstConfirmed
        /\ IF mem = "native" THEN GotoMember("instVerify", "raster") ELSE GotoMember("final", "native")
        /\ Silent
     \/ InstFails(InstConfirmed)

FinalFence == /\ \A m \in Member : dir[m] = New(cur)
              /\ ~alias
              /\ dir["commitNew"] = Committed(cur)
Final ==
  /\ step = "final"
  /\ \/ FinalFence /\ Goto("commitMove") /\ Silent
     \/ InstFails(FinalFence)
CommitMove ==
  /\ step = "commitMove"
  /\ \/ /\ dir["commit"] = Absent
        /\ dir' = [dir EXCEPT !["commit"] = dir["commitNew"], !["commitNew"] = Absent]
        /\ done' = done \cup {cur}
        /\ Goto("commitConfirm")
        /\ UNCHANGED <<priv, rec, last, session, outcome, alias, bounds, faults>>
     \/ InstFails(dir["commit"] = Absent)
CommitConfirm ==
  /\ step = "commitConfirm"
  /\ \/ dir["commit"] = Committed(cur) /\ Goto("clean") /\ Silent
     \/ InstFails(dir["commit"] = Committed(cur))

-----------------------------------------------------------------------------
(***************************************************************************)
(* rollback_install_record undoes a started installation; it shares the    *)
(* restoration of the members with recover_record.                         *)
(***************************************************************************)
UndoAllowed == /\ dir["commit"] = Absent /\ dir["rollback"] \in {Absent, Prepared(cur)}
               /\ NoConflict(cur) /\ (RollingBack \/ ~Vanished(cur))
               /\ BackupsSound(cur)
Undo ==
  /\ step = "undo"
  /\ \/ UndoAllowed /\ Goto("mark") /\ Silent
     \/ Refused(UndoAllowed) /\ MarkFailed

Reclassify ==
  /\ step = "reclassify"
  /\ \/ /\ NoConflict(cur)
        /\ cls' = Classes(cur) /\ step' = "restore" /\ mem' = "native"
        /\ UNCHANGED <<owner, op, cur, todo, stamps, overwrite>> /\ Silent
     \/ Refused(NoConflict(cur)) /\ MarkFailed

AfterRestore == IF op = "undo" THEN "restored" ELSE "clean"
NextMember == IF mem = "native" THEN GotoMember("restore", "raster")
                                ELSE GotoMember(AfterRestore, "native")
\* The replacement is deleted where it still is; an original that was there
\* comes back from its backup.
Restore ==
  /\ step = "restore"
  /\ \/ cls[mem] = "original" /\ NextMember /\ Silent
     \/ cls[mem] = "missing" /\ Goto("restoreMove") /\ Silent
     \/ /\ cls[mem] = "replacement" /\ dir[mem] = New(cur)
        /\ Put(cur, mem, Absent)
        /\ IF rec[cur][mem] = Absent THEN NextMember ELSE Goto("restoreMove")
        /\ Kept /\ UNCHANGED faults
     \/ cls[mem] = "replacement" /\ Refused(dir[mem] = New(cur)) /\ MarkFailed
BackupReady == priv[cur][BackupOf(mem)] = Backup(cur, mem) /\ dir[mem] = Absent
RestoreMove ==
  /\ step = "restoreMove"
  /\ \/ /\ BackupReady
        /\ dir' = [dir EXCEPT ![mem] = priv[cur][BackupOf(mem)]]
        /\ priv' = [priv EXCEPT ![cur][BackupOf(mem)] = Absent]
        /\ Goto("restoreConfirm") /\ Kept /\ UNCHANGED faults
     \/ Refused(BackupReady) /\ MarkFailed
RestoreConfirm ==
  /\ step = "restoreConfirm"
  /\ \/ dir[mem] = Backup(cur, mem) /\ NextMember /\ Silent
     \/ Refused(dir[mem] = Backup(cur, mem)) /\ MarkFailed

\* A live rollback rereads the restored bytes before it vouches for them.
OldBytesBack == \A m \in Member : /\ (dir[m] = Absent) = (rec[cur][m] = Absent)
                                  /\ dir[m].val = rec[cur][m].val
Restored ==
  /\ step = "restored"
  /\ \/ /\ OldBytesBack /\ stamps' = Targets /\ step' = "clean"
        /\ UNCHANGED <<owner, op, cur, mem, cls, todo, overwrite>> /\ Silent
     \/ Refused(OldBytesBack) /\ MarkFailed

-----------------------------------------------------------------------------
(***************************************************************************)
(* cleanup and cleanup_with_stamps: everything is verified before the      *)
(* first file goes; the journal and then the phase marker go last.         *)
(***************************************************************************)
\* Mutant of CleanNames: a commit stage that was never published is left behind.
CleanNamesPublished == (Marker \cup Private) \ {"journalNew", "commitNew"}
CleanNames == (Marker \cup Private) \ {"journalNew"}
CleanAllowed == /\ \A n \in CleanNames : At(cur, n) \in {Absent, Proof(cur, n)}
                /\ \E n \in {"journal", "commit", "rollback"} : dir[n] # Absent
\* Mutant of CleanRank: the journal goes first.
CleanRankJournalFirst(n) ==
  CASE n = "journal" -> 0 [] n = "rollback" -> (IF "commit" \in todo THEN 1 ELSE 9)
    [] n = "commitNew" -> 2 [] n = "rollbackNew" -> 3 [] n = "nativeNew" -> 4
    [] n = "nativeOld" -> 5 [] n = "rasterNew" -> 6 [] n = "rasterOld" -> 7
    [] n = "commit" -> 9
CleanRank(n) ==
  CASE n = "rollback" -> (IF "commit" \in todo THEN 1 ELSE 9)
    [] n = "commitNew" -> 2 [] n = "rollbackNew" -> 3 [] n = "nativeNew" -> 4
    [] n = "nativeOld" -> 5 [] n = "rasterNew" -> 6 [] n = "rasterOld" -> 7
    [] n = "journal" -> 8 [] n = "commit" -> 9

\* What the job returns.  A recovery needs its cleanup to have succeeded, the
\* others have reached their result before and ignore a failing cleanup.
Conclude(cleaned) ==
  /\ CASE op \in {"open", "save"} /\ cleaned ->
            /\ step' = "ready" /\ cur' = 0
            /\ UNCHANGED <<owner, op, mem, cls, todo, stamps, overwrite, session, outcome>>
       [] op = "install" ->
            /\ Report(cur, "installed")
            /\ seen' = [seen EXCEPT ![owner] = [m \in Member |-> New(cur)]]
            /\ Release /\ UNCHANGED <<opened, reading>>
       [] op = "undo" ->
            /\ Report(cur, "rolledBack")
            /\ seen' = [seen EXCEPT ![owner] =
                          IF AliasProofHolds(cur) /\ ~overwrite THEN stamps ELSE Nothing]
            /\ Release /\ UNCHANGED <<opened, reading>>
       [] op = "abort" -> Report(cur, "error") /\ Release /\ UNCHANGED session
       [] OTHER -> Release /\ UNCHANGED <<session, outcome>>
  /\ UNCHANGED <<rec, last, done, alias, bounds>>

Clean ==
  /\ step = "clean"
  /\ \/ /\ CleanAllowed
        /\ todo' = {n \in CleanNames : At(cur, n) # Absent} /\ step' = "cleaning"
        /\ UNCHANGED <<owner, op, cur, mem, cls, stamps, overwrite>> /\ Silent
     \/ Refused(CleanAllowed) /\ Conclude(FALSE) /\ UNCHANGED files
CleanRemoves ==
  /\ step = "cleaning"
  /\ \E n \in todo :
       /\ \A k \in todo : CleanRank(n) <= CleanRank(k)
       /\ \/ /\ At(cur, n) = Proof(cur, n) /\ Put(cur, n, Absent) /\ todo' = todo \ {n}
             /\ UNCHANGED <<owner, step, op, cur, mem, cls, stamps, overwrite>>
             /\ Kept /\ UNCHANGED faults
          \/ Refused(At(cur, n) = Proof(cur, n)) /\ Conclude(FALSE) /\ UNCHANGED files
CleanDone == step = "cleaning" /\ todo = {} /\ Conclude(TRUE) /\ UNCHANGED <<files, faults>>

-----------------------------------------------------------------------------
(***************************************************************************)
(* The environment.                                                        *)
(***************************************************************************)
\* The process dies: locks, owner and documents are gone, files stay.
Crash ==
  /\ crashes < MaxCrashes /\ crashes' = crashes + 1
  /\ CrashTears \/ \A n \in Marker : dir[n].kind # "torn"
  /\ Release /\ opened' = {} /\ seen' = [d \in Doc |-> Nothing] /\ reading' = {}
  /\ UNCHANGED <<files, rec, last, history, alias, ext, faults>>

\* Another program creates, replaces, deletes or rewrites a member, or adds or
\* removes a second companion candidate.
External ==
  /\ ext < MaxExt /\ ext' = ext + 1
  /\ \/ /\ \E m \in Member : \E o \in {Absent, Foreign(ext + 1)} \cup
             (IF dir[m] = Absent THEN {} ELSE {[dir[m] EXCEPT !.val = Foreign(ext + 1).val]}) :
             o # dir[m] /\ dir' = [dir EXCEPT ![m] = o]
        /\ UNCHANGED alias
     \/ alias' = ~alias /\ UNCHANGED dir
  /\ UNCHANGED <<priv, rec, last, job, session, history, faults, crashes>>

-----------------------------------------------------------------------------
Recovery == Look \/ RecoverClean \/ RecoverRollBack \/ RecoverFails \/ OpenRecovered
Prepare == \/ PrepareBegins \/ PrepareRefused \/ Stage \/ BackUp \/ WriteJournal
           \/ PublishJournal \/ CreateCommit \/ FillCommit \/ CreateRollback
           \/ FillRollback \/ Seal \/ PrepareFails \/ ScratchRemoves \/ ScratchDone
Marking == Mark \/ MarkMove \/ MarkConfirm
Install == InstVerify \/ InstDelete \/ InstMove \/ InstConfirm \/ Final \/ CommitMove
           \/ CommitConfirm
Rollback == Undo \/ Reclassify \/ Restore \/ RestoreMove \/ RestoreConfirm \/ Restored
Cleanup == Clean \/ CleanRemoves \/ CleanDone
Worker == \/ Recovery \/ Prepare \/ InstallBegins \/ PreparedDropped \/ Marking \/ Install
          \/ Rollback \/ Cleanup
User == \E d \in Doc : BeginOpen(d) \/ BeginSave(d) \/ Close(d)

Reader == \E d \in Doc : ReadPair(d)

Next == User \/ Reader \/ Worker \/ Crash \/ External

Spec == Init /\ [][Next]_vars
\* A worker thread always goes on with a job it runs; whether documents are
\* opened or saved, and whether the process dies, is nobody's promise.
FairSpec == Spec /\ WF_vars(Worker)

\* What a file, a record, a step and a report can be (PairRecord, PairInstallOutcome).
TypeOK ==
  /\ dir \in [Shared -> Object] /\ priv \in [Token -> [Private -> Object]]
  /\ rec \in [Token -> [Member -> Object]] /\ last \in 0..MaxSaves
  /\ owner \in Doc \cup {Nobody} /\ step \in Step /\ op \in Op /\ cur \in 0..MaxSaves
  /\ mem \in Member /\ cls \in [Member -> {"original", "replacement", "missing"}]
  /\ todo \subseteq Marker \cup Private /\ stamps \in [Member -> Object]
  /\ overwrite \in BOOLEAN
  /\ opened \subseteq Doc /\ reading \subseteq Doc /\ seen \in [Doc -> [Member -> Object]]
  /\ outcome \in [Token -> {"none", "error", "installed", "rolledBack", "failed"}]
  /\ done \subseteq Token /\ alias \in BOOLEAN
  /\ ext \in 0..MaxExt /\ faults \in 0..MaxFaults /\ crashes \in 0..MaxCrashes

-----------------------------------------------------------------------------
(***************************************************************************)
(* The pair as recovery will leave it: while a record is undecided (its    *)
(* journal or rollback marker is there and no commit marker is) the        *)
(* originals it names count, otherwise what is in the directory does.      *)
(***************************************************************************)
InDoubt == /\ dir["commit"] = Absent
           /\ dir["journal"] # Absent \/ dir["rollback"] # Absent
Doubtful == IF dir["journal"] # Absent THEN dir["journal"].by ELSE dir["rollback"].by
PairValue == [m \in Member |-> IF InDoubt THEN rec[Doubtful][m].val ELSE dir[m].val]
PairFate == [t \in Token |-> IF t \in done THEN "committed"
                             ELSE IF outcome[t] \in {"error", "rolledBack"} THEN "refused"
                             ELSE "open"]
Atomic == INSTANCE AtomicPair WITH value <- PairValue, fate <- PairFate

\* Through every crash, failed file operation and recovery a save changes both
\* members at once or neither, and a save reported as refused stays refused.
ImplementsAtomicPair == Atomic!Spec

\* As long as a save is undecided each original is still in its place, or its
\* replacement or a gap is there under a rollback marker and the backup is
\* intact (pair.rs, "a durable rollback marker authorizes the temporary
\* missing state").
OldPairRecoverable ==
  InDoubt => \A m \in Member :
    LET t == Doubtful IN
    \/ Class(t, m) = "original"
    \/ /\ RollingBack /\ Class(t, m) \in {"missing", "replacement"}
       /\ rec[t][m] # Absent => priv[t][BackupOf(m)] = Backup(t, m)

\* A save reported as installed was committed; one reported as failed with the
\* old pair in place never was, whatever happened after the report.
OutcomeTruthful ==
  \A t \in Token : /\ outcome[t] = "installed" => t \in done
                   /\ outcome[t] \in {"error", "rolledBack"} => t \notin done

\* No document was ever read from, or left with, one member of a save without
\* the other, nor with a save that was not committed.
DocumentsSeeWholeSaves ==
  \A d \in opened : \A t \in Token : \A m \in Member :
    seen[d][m].val = t => t \in done /\ \A k \in Member : seen[d][k].val = t

\* Once the commit marker is published the program never touches the members
\* again before the marker is gone: a committed save is not rolled back.
CommitFinal == [][dir["commit"] # Absent /\ ext' = ext => Targets' = Targets]_vars

\* The program only takes a file out of a member's place if it is its own
\* replacement or the very file the document last saw there (or the user
\* confirmed overwriting): what other programs put there survives.
OnlyKnownFilesRemoved ==
  [][ext' = ext => \A m \in Member :
        dir[m] # Absent /\ dir'[m] # dir[m] =>
          \/ dir[m] = New(cur)
          \/ dir[m] = rec[cur][m] /\ (overwrite \/ owner \notin opened
                                      \/ dir[m] = seen[owner][m])]_vars

\* When recovery lets an open or a save go on there is no evidence left.
RecoveryComplete == step = "ready" => NoEvidence

\* "a crash can leave a recoverable journal without that stage, never an
\* unowned deterministic stage without its journal" (pair.rs:437).
StagesOwned == dir["commitNew"] # Absent \/ dir["rollbackNew"] # Absent => \E t \in Token : Source(t)

\* An open or save that begins, and is not cut short by another crash, finds
\* every interrupted save resolved.
Resolves == \A n \in 0..MaxCrashes :
              (step = "look" /\ crashes = n) ~> (NoEvidence \/ crashes > n)

\* Whatever fails, a job comes to its end and lets go of the pair.
OwnerReleased == owner # Nobody ~> owner = Nobody
=============================================================================
