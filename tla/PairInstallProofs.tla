-------------------------- MODULE PairInstallProofs --------------------------
(***************************************************************************)
(* Theorems about PairInstall, in three parts that build on each other:    *)
(* what holds whatever other programs do to the two members, what holds    *)
(* when no other program touches them (MaxExt = 0), and the refinement of  *)
(* AtomicPair.  The invariants are in PairInstallInv.                      *)
(***************************************************************************)
EXTENDS PairInstallInv, TLAPS

-----------------------------------------------------------------------------
(***************************************************************************)
(* Theorems about PairInstall that hold for any documents, any bounds and  *)
(* whatever other programs do to the two members: types (TypeInv), truthful*)
(* reports, the finality of a commit, and recovery that leaves no evidence *)
(* (FateInv on top of TypeInv).  TypeInv adds to the types that a job past *)
(* its first look works on a token that was handed out (CurInv), and that  *)
(* a save still has a token to take (SaveInv).                             *)
(***************************************************************************)

(***************************************************************************)
(* The types of the files, and of the moves every action is built from.    *)
(***************************************************************************)

LEMMA ObjectType ==
  /\ Absent \in Object /\ Base \in Object
  /\ \A t \in Nat : /\ New(t) \in Object /\ Prepared(t) \in Object /\ Committed(t) \in Object
                    /\ Torn(t) \in Object /\ Foreign(t) \in Object
BY PairAssumption DEF Absent, Base, New, Prepared, Committed, Torn, Foreign, File, Object, Kind

LEMMA BackupType == ASSUME RestOK, NEW t \in Token, NEW m \in Member
                    PROVE  Backup(t, m) \in Object
BY ObjectType, PairAssumption DEF RestOK, Backup, CopyOf, File, Object, Kind, Token

LEMMA ReleaseType ==
  ASSUME Release
  PROVE  JobOK' /\ step' = "idle" /\ op' = "none"
BY ObjectType, PairAssumption DEF JobOK, Release, Step, Op, Member, Unclassified, Nothing

LEMMA GotoType ==
  ASSUME JobOK, NEW s \in Step, Goto(s)
  PROVE  JobOK' /\ step' = s /\ op' = op /\ cur' = cur /\ owner' = owner
BY DEF JobOK, Goto

LEMMA GotoMemberType ==
  ASSUME JobOK, NEW s \in Step, NEW m \in Member, GotoMember(s, m)
  PROVE  JobOK' /\ step' = s /\ op' = op /\ cur' = cur /\ owner' = owner
BY DEF JobOK, GotoMember

LEMMA KeptType ==
  ASSUME RestOK, Kept PROVE RestOK' /\ last' = last
BY DEF RestOK, Kept, session, history, bounds

LEMMA RefusedType ==
  ASSUME FaultsOK, NEW c, Refused(c) PROVE FaultsOK'
BY PairAssumption DEF FaultsOK, Refused, IoError

LEMMA FilesType == ASSUME FilesOK, UNCHANGED files PROVE FilesOK'
BY DEF files, FilesOK

LEMMA SilentType ==
  ASSUME FilesOK, RestOK, FaultsOK, Silent
  PROVE  FilesOK' /\ RestOK' /\ FaultsOK' /\ last' = last
BY KeptType, FilesType DEF FaultsOK, Silent, files

LEMMA RecoveryFailedType ==
  ASSUME FilesOK, RestOK, RecoveryFailed
  PROVE  FilesOK' /\ RestOK' /\ JobOK' /\ step' = "idle" /\ op' = "none" /\ last' = last
<1>1. UNCHANGED files /\ last' = last /\ RestOK'
  BY DEF RestOK, RecoveryFailed, session, history, bounds, Report
<1> QED BY <1>1, FilesType, ReleaseType DEF RecoveryFailed

LEMMA PutType ==
  ASSUME FilesOK, NEW t \in Token, NEW n \in Shared \cup Private, NEW o \in Object, Put(t, n, o)
  PROVE  FilesOK'
<1>1. CASE n \in Shared
  BY <1>1 DEF FilesOK, Put
<1>2. CASE n \notin Shared
  <2>1. dir' = dir /\ priv' = [priv EXCEPT ![t] = [priv[t] EXCEPT ![n] = o]]
    BY <1>2 DEF Put
  <2>2. [priv[t] EXCEPT ![n] = o] \in [Private -> Object]
    BY <1>2 DEF FilesOK
  <2> QED BY <2>1, <2>2 DEF FilesOK
<1> QED BY <1>1, <1>2

\* A pair with nothing in progress (prepare_pair and open_native start from it)
\* is well typed.
THEOREM TypeInit == Init => TypeInv
BY ObjectType, PairAssumption
   DEF Init, TypeInv, FilesOK, JobOK, RestOK, FaultsOK, CurInv, SaveInv, Step, Op, Nothing,
       Unclassified, Token, Shared, Member, Marker

\* A job past recovery's first look works on a token that was handed out.
LEMMA TokenType ==
  ASSUME TypeInv, step \notin {"idle", "look", "ready"}
  PROVE  cur \in Token /\ cur \in 1..last /\ owner \in Doc
BY PairAssumption DEF TypeInv, RestOK, CurInv, Token

(***************************************************************************)
(* The steps, one lemma per group of actions.                              *)
(***************************************************************************)
LEMMA MarkFailedType ==
  ASSUME TypeInv, step \notin {"idle", "look", "ready"}, MarkFailed
  PROVE  FilesOK' /\ RestOK' /\ JobOK' /\ CurInv' /\ SaveInv'
<1> USE DEF TypeInv
<1>1. CASE /\ op' = "abort" /\ step' = "recover" /\ Kept /\ UNCHANGED files
           /\ UNCHANGED <<owner, cur, mem, cls, todo, stamps, overwrite>>
  <2>1. JobOK'
    BY <1>1 DEF JobOK, Step, Op
  <2> QED BY <1>1, <2>1, KeptType, FilesType DEF CurInv, SaveInv
<1>2. CASE /\ Report(cur, "failed") /\ seen' = [seen EXCEPT ![owner] = Nothing]
           /\ Release /\ UNCHANGED <<files, rec, last, opened, reading, done, alias, bounds>>
  <2>1. RestOK'
    <3>1. Nothing \in [Member -> Object]
      BY ObjectType DEF Nothing
    <3>2. QED BY <1>2, <3>1 DEF RestOK, Report, bounds
  <2> QED BY <1>2, <2>1, FilesType, ReleaseType DEF CurInv, SaveInv
<1>3. CASE RecoveryFailed
  BY <1>3, RecoveryFailedType DEF CurInv, SaveInv
<1> QED BY <1>1, <1>2, <1>3 DEF MarkFailed

LEMMA ConcludeType ==
  ASSUME TypeInv, step \in CleanSteps, NEW c, Conclude(c) PROVE RestOK' /\ JobOK' /\ CurInv' /\ SaveInv'
<1> USE DEF TypeInv
<1>0. cur \in Token /\ cur \in 1..last
  BY TokenType DEF CleanSteps
<1>1. CASE op \in {"open", "save"} /\ c
  <2>1. JobOK' /\ step' = "ready" /\ op' = op /\ owner' = owner
    BY <1>1, PairAssumption DEF JobOK, Conclude, Step
  <2>2. RestOK' /\ last' = last
    BY <1>1 DEF RestOK, Conclude, session, bounds
  <2> QED BY <2>1, <2>2 DEF CurInv, SaveInv, CleanSteps, BeforeJournal, AfterJournal
<1>2. CASE op = "install"
  <2>1. [m \in Member |-> New(cur)] \in [Member -> Object]
    BY <1>0, ObjectType, PairAssumption DEF Token
  <2>2. Release /\ RestOK'
    BY <1>2, <2>1 DEF Conclude, RestOK, bounds, Report
  <2> QED BY <2>2, ReleaseType DEF CurInv, SaveInv
<1>3. CASE op = "undo"
  <2>1. (IF AliasProofHolds(cur) /\ ~overwrite THEN stamps ELSE Nothing) \in [Member -> Object]
    BY ObjectType DEF Nothing, JobOK
  <2>2. Release /\ RestOK'
    BY <1>3, <2>1 DEF Conclude, RestOK, bounds, Report
  <2> QED BY <2>2, ReleaseType DEF CurInv, SaveInv
<1>4. CASE op = "abort"
  <2>2. Release /\ RestOK'
    BY <1>4 DEF Conclude, RestOK, bounds, Report, session
  <2> QED BY <2>2, ReleaseType DEF CurInv, SaveInv
<1>5. CASE ~(op \in {"open", "save"} /\ c) /\ op \notin {"install", "undo", "abort"}
  <2>2. Release /\ RestOK'
    BY <1>5 DEF Conclude, RestOK, bounds, Report, session
  <2> QED BY <2>2, ReleaseType DEF CurInv, SaveInv
<1> QED BY <1>1, <1>2, <1>3, <1>4, <1>5

LEMMA InstFailsType ==
  ASSUME TypeInv, step \notin {"idle", "look", "ready"}, NEW c, InstFails(c)
  PROVE  TypeInv'
<1> USE DEF TypeInv
<1>1. JobOK'
  BY DEF InstFails, JobOK, Step, Op
<1> QED BY <1>1, KeptType, FilesType, RefusedType DEF InstFails, CurInv, SaveInv

\* Moving on inside a phase of the job keeps CurInv and SaveInv.
LEMMA MovesOn ==
  ASSUME TypeInv, step \notin {"idle", "look", "ready"}, cur' = cur, last' = last, op' = op,
         owner' = owner,
         \/ op # "save"
         \/ step' \in BeforeJournal \cup AfterJournal \cup {"scratch"}
         \/ step \notin BeforeJournal \cup AfterJournal \cup {"scratch"}
  PROVE  CurInv' /\ SaveInv'
BY DEF TypeInv, CurInv, SaveInv


LEMMA UserTypes == ASSUME TypeInv, User \/ Reader PROVE TypeInv'
<1> USE DEF TypeInv
<1>1. ASSUME NEW d \in Doc, BeginOpen(d) \/ BeginSave(d) PROVE TypeInv'
  <2>1. JobOK'
    BY <1>1 DEF BeginOpen, BeginSave, Begin, Step, Op, JobOK
  <2> QED
    BY <1>1, <2>1 DEF BeginOpen, BeginSave, Begin, FilesOK, FaultsOK, RestOK, CurInv, SaveInv,
                      history, bounds, session, files
<1>2. ASSUME NEW d \in Doc, Close(d) PROVE TypeInv'
  <2>1. Nothing \in [Member -> Object]
    BY ObjectType DEF Nothing
  <2> QED BY <1>2, <2>1 DEF Close, FilesOK, FaultsOK, RestOK, JobOK, CurInv, SaveInv,
                            history, bounds, files, job
<1>3. ASSUME NEW d \in Doc, ReadPair(d) PROVE TypeInv'
  <2>1. Targets \in [Member -> Object]
    BY DEF Targets, FilesOK, Shared
  <2>2. RestOK' /\ FaultsOK' /\ UNCHANGED <<files, job>> /\ last' = last
    BY <1>3, <2>1, RefusedType DEF ReadPair, RestOK, FaultsOK, history, bounds
  <2> QED BY <2>2, FilesType DEF JobOK, CurInv, SaveInv, job
<1> QED BY <1>1, <1>2, <1>3 DEF User, Reader

LEMMA RecoveryTypes == ASSUME TypeInv, Recovery PROVE TypeInv'
<1> USE DEF TypeInv
<1>1. CASE Look
  <2>1. CASE RecoveryFailed /\ Refused(NoEvidence \/ \E t \in 1..last : Source(t))
    BY <2>1, RecoveryFailedType, RefusedType DEF CurInv, SaveInv
  <2>2. CASE Goto("ready") /\ Silent
    BY <2>2, <1>1, GotoType, SilentType DEF CurInv, SaveInv, Look, Step, BeforeJournal, AfterJournal
  <2>3. ASSUME NEW t \in 1..last, cur' = t, step' = "recover", Silent,
               UNCHANGED <<owner, op, mem, cls, todo, stamps, overwrite>>
        PROVE TypeInv'
    <3>1. JobOK'
       BY <2>3, PairAssumption DEF JobOK, RestOK, Step
    <3> QED
      BY <2>3, <1>1, <3>1, SilentType DEF CurInv, SaveInv, Look, BeforeJournal, AfterJournal
  <2> QED BY <1>1, <2>1, <2>2, <2>3 DEF Look
<1>2. CASE RecoverClean \/ RecoverRollBack
  BY <1>2, GotoType, SilentType, MovesOn
     DEF RecoverClean, RecoverRollBack, Step, BeforeJournal, AfterJournal
<1>3. CASE RecoverFails
  BY <1>3, RecoveryFailedType, RefusedType DEF RecoverFails, CurInv, SaveInv
<1>4. CASE OpenRecovered
  <2>1. owner \in Doc
    BY <1>4 DEF OpenRecovered, CurInv
  <2>2. RestOK' /\ FaultsOK'
    BY <1>4, <2>1 DEF OpenRecovered, RestOK, FaultsOK, history, bounds
  <2> QED BY <1>4, <2>2, ReleaseType, FilesType DEF OpenRecovered, CurInv, SaveInv, files
<1> QED BY <1>1, <1>2, <1>3, <1>4 DEF Recovery

LEMMA WriteType ==
  ASSUME TypeInv, NEW from, from \in BeforeJournal \cup AfterJournal,
         NEW to \in BeforeJournal \cup AfterJournal,
         NEW n \in Shared \cup Private, NEW o \in Object, Write(from, n, o, to)
  PROVE  TypeInv'
<1> USE DEF TypeInv, BeforeJournal, AfterJournal
<1>1. cur \in Token
  BY TokenType DEF Write
<1>2. FilesOK'
  BY <1>1, PutType DEF Write
<1>3. to \in Step
  BY DEF Step
<1> QED BY <1>2, <1>3, GotoType, MovesOn, KeptType DEF Write, FaultsOK

LEMMA PrepareTypes == ASSUME TypeInv, Prepare PROVE TypeInv'
<1> USE DEF TypeInv
<1>1. CASE PrepareBegins
  <2>1. last < MaxSaves /\ owner \in Doc
    BY <1>1 DEF PrepareBegins, SaveInv, CurInv, BeforeJournal, AfterJournal
  <2>2. Targets \in [Member -> Object]
    BY DEF Targets, FilesOK, Shared
  <2>3. RestOK' /\ last' = last + 1
    BY <1>1, <2>1, <2>2, PairAssumption DEF PrepareBegins, RestOK, session, history, bounds, Token
  <2>4. JobOK'
    BY <1>1, <2>1, PairAssumption DEF PrepareBegins, JobOK, RestOK, Step, Member
  <2>5. CurInv' /\ SaveInv'
    BY <1>1, <2>1, <2>3 DEF PrepareBegins, RestOK, CurInv, SaveInv, BeforeJournal
  <2> QED BY <1>1, <2>3, <2>4, <2>5, FilesType DEF PrepareBegins, FaultsOK
<1>2. CASE PrepareRefused
  BY <1>2, ReleaseType, KeptType, RefusedType, FilesType DEF PrepareRefused, CurInv, SaveInv
<1>3. CASE Stage \/ BackUp
  <2>1. cur \in Token /\ mem \in Member
    BY <1>3, TokenType DEF Stage, BackUp, JobOK
  <2>2. FilesOK'
    <3>1. New(cur) \in Object /\ Backup(cur, mem) \in Object
      BY <2>1, ObjectType, BackupType DEF Token
    <3>2. {StageOf(mem), BackupOf(mem)} \subseteq Private
      BY <2>1 DEF StageOf, BackupOf, Private
    <3> QED BY <1>3, <2>1, <3>1, <3>2, PutType DEF Stage, BackUp
  <2>3. JobOK' /\ cur' = cur /\ op' = op /\ owner' = owner /\ step' \in BeforeJournal
    BY <1>3, GotoMemberType DEF Stage, BackUp, Step, Member, BeforeJournal
  <2> QED BY <1>3, <2>2, <2>3, MovesOn, KeptType DEF Stage, BackUp, FaultsOK
<1>4. CASE WriteJournal
  <2>1. Prepared(cur) \in Object
    BY ObjectType, PairAssumption DEF JobOK
  <2> QED BY <1>4, <2>1, WriteType DEF WriteJournal, BeforeJournal, Private
<1>5. CASE PublishJournal
  <2>1. cur \in Token
    BY <1>5, TokenType DEF PublishJournal
  <2>2. FilesOK'
    <3>1. [priv[cur] EXCEPT !["journalNew"] = Absent] \in [Private -> Object]
      BY <2>1, ObjectType DEF FilesOK
    <3>2. priv[cur]["journalNew"] \in Object
      BY <2>1 DEF FilesOK, Private
    <3> QED BY <1>5, <3>1, <3>2 DEF PublishJournal, FilesOK
  <2> QED BY <1>5, <2>2, GotoType, MovesOn, KeptType
          DEF PublishJournal, FaultsOK, Step, AfterJournal
<1>6. CASE CreateCommit \/ FillCommit \/ CreateRollback \/ FillRollback
  <2>1. {Torn(cur), Committed(cur), Prepared(cur)} \subseteq Object
    BY ObjectType, PairAssumption DEF JobOK
  <2> QED BY <1>6, <2>1, WriteType DEF CreateCommit, FillCommit, CreateRollback, FillRollback,
                                       AfterJournal, Shared, Marker
<1>7. CASE Seal
  BY <1>7, GotoType, SilentType, MovesOn DEF Seal, Step, AfterJournal
<1>8. CASE PrepareFails
  <2>1. JobOK' /\ RestOK'
    BY <1>8 DEF PrepareFails, JobOK, RestOK, Step, ScratchNames, Marker, Report, session, bounds
  <2> QED BY <1>8, <2>1, FilesType, MovesOn DEF PrepareFails, Preparing, FaultsOK
<1>9. CASE ScratchRemoves
  <2>1. cur \in Token
    BY <1>9, TokenType DEF ScratchRemoves
  <2>2. FilesOK' /\ FaultsOK'
    <3>1. \A n \in todo : n \in Shared \cup Private
      BY DEF JobOK, Shared
    <3> QED BY <1>9, <2>1, <3>1, PutType, ObjectType, FilesType, RefusedType
            DEF ScratchRemoves, FaultsOK, Refused
  <2>3. JobOK'
    BY <1>9 DEF ScratchRemoves, JobOK
  <2> QED BY <1>9, <2>2, <2>3, MovesOn, KeptType DEF ScratchRemoves
<1>10. CASE ScratchDone
  BY <1>10, ReleaseType, SilentType DEF ScratchDone, CurInv, SaveInv
<1> QED BY <1>1, <1>2, <1>3, <1>4, <1>5, <1>6, <1>7, <1>8, <1>9, <1>10 DEF Prepare


LEMMA BeginInstallTypes == ASSUME TypeInv, InstallBegins \/ PreparedDropped PROVE TypeInv'
<1> USE DEF TypeInv
<1>1. CASE InstallBegins
  <2>1. JobOK'
    BY <1>1 DEF InstallBegins, JobOK, Step, Op
  <2> QED BY <1>1, <2>1, SilentType DEF InstallBegins, CurInv, SaveInv
<1>2. CASE PreparedDropped
  <2>1. RestOK' /\ last' = last /\ FilesOK' /\ FaultsOK'
    BY <1>2, FilesType DEF PreparedDropped, RestOK, Report, session, bounds, FaultsOK
  <2>2. CASE Release
    BY <2>1, <2>2, ReleaseType DEF CurInv, SaveInv
  <2>3. CASE step' = "clean" /\ op' = "drop"
             /\ UNCHANGED <<owner, cur, mem, cls, todo, stamps, overwrite>>
    BY <1>2, <2>1, <2>3 DEF PreparedDropped, JobOK, Step, Op, CurInv, SaveInv
  <2> QED BY <1>2, <2>2, <2>3 DEF PreparedDropped
<1> QED BY <1>1, <1>2

LEMMA MarkingTypes == ASSUME TypeInv, Marking PROVE TypeInv'
<1> USE DEF TypeInv, MarkSteps
<1>1. CASE MarkFailed /\ FaultsOK' /\ step \in MarkSteps
  BY <1>1, MarkFailedType
<1>2. CASE Mark
  <2>1. AfterMark \in Step
    BY DEF AfterMark, Step
  <2>2. CASE Refused(MarkAllowed) /\ MarkFailed
    BY <1>1, <1>2, <2>2, RefusedType DEF Mark
  <2>3. CASE GotoMember(AfterMark, "native") /\ UNCHANGED files /\ Kept /\ UNCHANGED faults
    BY <1>2, <2>1, <2>3, GotoMemberType, FilesType, KeptType, MovesOn
       DEF Mark, Member, FaultsOK, BeforeJournal, AfterJournal
  <2>4. CASE Goto("markMove") /\ UNCHANGED files /\ Kept /\ UNCHANGED faults
    BY <1>2, <2>4, GotoType, FilesType, KeptType, MovesOn
       DEF Mark, Step, FaultsOK, BeforeJournal, AfterJournal
  <2> QED BY <1>2, <2>2, <2>3, <2>4 DEF Mark
<1>3. CASE MarkMove
  <2>1. CASE Refused(dir["rollback"] = Absent) /\ MarkFailed
    BY <1>1, <1>3, <2>1, RefusedType DEF MarkMove
  <2>2. CASE /\ dir' = [dir EXCEPT !["rollback"] = dir["rollbackNew"], !["rollbackNew"] = Absent]
             /\ Goto("markConfirm") /\ Kept /\ UNCHANGED <<priv, faults>>
    <3>1. FilesOK'
      BY <2>2, ObjectType DEF FilesOK, Shared, Marker
    <3> QED BY <1>3, <2>2, <3>1, GotoType, KeptType, MovesOn
            DEF MarkMove, Step, FaultsOK, BeforeJournal, AfterJournal
  <2> QED BY <1>3, <2>1, <2>2 DEF MarkMove
<1>4. CASE MarkConfirm
  <2>1. CASE Refused(dir["rollback"] = Prepared(cur)) /\ MarkFailed
    BY <1>1, <1>4, <2>1, RefusedType DEF MarkConfirm
  <2>2. CASE GotoMember(AfterMark, "native") /\ Silent
    <3>1. AfterMark \in Step
      BY DEF AfterMark, Step
    <3> QED BY <1>4, <2>2, <3>1, GotoMemberType, SilentType, MovesOn
            DEF MarkConfirm, Member, BeforeJournal, AfterJournal
  <2> QED BY <1>4, <2>1, <2>2 DEF MarkConfirm
<1> QED BY <1>2, <1>3, <1>4 DEF Marking

LEMMA InstallTypes == ASSUME TypeInv, Install PROVE TypeInv'
<1> USE DEF TypeInv
<1> DEFINE Swapping == step \in SwapSteps \cup {"commitConfirm"}
<1>0. Install => Swapping
  BY DEF Install, InstVerify, InstDelete, InstMove, InstConfirm, Final, CommitMove, CommitConfirm,
         SwapSteps
<1>1. Swapping /\ cur \in Token /\ mem \in Member
  BY <1>0, TokenType DEF SwapSteps, JobOK
<1>2. ASSUME NEW c, InstFails(c) PROVE TypeInv'
  BY <1>1, <1>2, InstFailsType DEF SwapSteps
<1>3. ASSUME NEW s \in SwapSteps \cup {"commitConfirm", "clean"}, NEW m \in Member,
             Goto(s) \/ GotoMember(s, m), FilesOK', RestOK', FaultsOK', last' = last
      PROVE TypeInv'
  <2>1. s \in Step /\ s \notin BeforeJournal \cup AfterJournal
    BY DEF SwapSteps, Step, BeforeJournal, AfterJournal
  <2> QED BY <1>1, <1>3, <2>1, GotoType, GotoMemberType, MovesOn
          DEF SwapSteps, BeforeJournal, AfterJournal
<1>4. CASE InstVerify
  BY <1>2, <1>3, <1>4, SilentType DEF InstVerify, SwapSteps, Member
<1>5. CASE InstDelete
  <2>1. Put(cur, mem, Absent) => FilesOK'
    BY <1>1, PutType, ObjectType DEF Shared
  <2> QED BY <1>2, <1>3, <1>5, <2>1, KeptType DEF InstDelete, SwapSteps, Member, FaultsOK
<1>6. CASE InstMove
  <2>1. CASE InstFails(dir[mem] = Absent)
    BY <1>2, <2>1
  <2>2. CASE /\ dir' = [dir EXCEPT ![mem] = priv[cur][StageOf(mem)]]
             /\ priv' = [priv EXCEPT ![cur][StageOf(mem)] = Absent]
             /\ Goto("instConfirm") /\ Kept /\ UNCHANGED faults
    <3>1. [priv[cur] EXCEPT ![StageOf(mem)] = Absent] \in [Private -> Object]
      BY <1>1, ObjectType DEF FilesOK
    <3>2. priv[cur][StageOf(mem)] \in Object
      BY <1>1 DEF FilesOK, Private, StageOf
    <3>3. FilesOK'
      BY <2>2, <3>1, <3>2 DEF FilesOK
    <3> QED BY <1>3, <2>2, <3>3, KeptType DEF FaultsOK, SwapSteps, Member
  <2> QED BY <1>6, <2>1, <2>2 DEF InstMove
<1>7. CASE InstConfirm
  BY <1>2, <1>3, <1>7, SilentType DEF InstConfirm, SwapSteps, Member
<1>8. CASE Final \/ CommitConfirm
  BY <1>2, <1>3, <1>8, SilentType DEF Final, CommitConfirm, SwapSteps, Member
<1>9. CASE CommitMove
  <2>1. CASE InstFails(dir["commit"] = Absent)
    BY <1>2, <2>1
  <2>2. CASE /\ dir' = [dir EXCEPT !["commit"] = dir["commitNew"], !["commitNew"] = Absent]
             /\ done' = done \cup {cur}
             /\ Goto("commitConfirm")
             /\ UNCHANGED <<priv, rec, last, session, outcome, alias, bounds, faults>>
    <3>1. FilesOK'
      BY <2>2, ObjectType DEF FilesOK, Shared, Marker
    <3>2. RestOK' /\ FaultsOK' /\ last' = last
      BY <1>1, <2>2 DEF RestOK, FaultsOK, session, bounds
    <3> QED BY <1>3, <2>2, <3>1, <3>2 DEF Member
  <2> QED BY <1>9, <2>1, <2>2 DEF CommitMove
<1> QED BY <1>4, <1>5, <1>6, <1>7, <1>8, <1>9 DEF Install


LEMMA RollbackTypes == ASSUME TypeInv, Rollback PROVE TypeInv'
<1> USE DEF TypeInv
<1> DEFINE Restoring == step \in RestoreSteps \cup {"undo"}
<1>0. Rollback => Restoring
  BY DEF Rollback, Undo, Reclassify, Restore, RestoreMove, RestoreConfirm, Restored, RestoreSteps
<1>1. Restoring /\ cur \in Token /\ mem \in Member
  BY <1>0, TokenType DEF RestoreSteps, JobOK
<1>2. ASSUME NEW c, Refused(c), MarkFailed PROVE TypeInv'
  BY <1>1, <1>2, MarkFailedType, RefusedType DEF RestoreSteps
<1>3. ASSUME NEW s \in RestoreSteps \cup {"mark", "clean"}, NEW m \in Member,
             Goto(s) \/ GotoMember(s, m), FilesOK', RestOK', FaultsOK', last' = last
      PROVE TypeInv'
  <2>1. s \in Step /\ s \notin BeforeJournal \cup AfterJournal
    BY DEF RestoreSteps, Step, BeforeJournal, AfterJournal
  <2> QED BY <1>1, <1>3, <2>1, GotoType, GotoMemberType, MovesOn
          DEF RestoreSteps, BeforeJournal, AfterJournal
<1>4. ASSUME NextMember, FilesOK', RestOK', FaultsOK', last' = last PROVE TypeInv'
  BY <1>3, <1>4 DEF NextMember, AfterRestore, RestoreSteps, Member
<1>5. CASE Undo
  BY <1>2, <1>3, <1>5, SilentType DEF Undo, Member
<1>6. CASE Reclassify
  <2>1. CASE Refused(NoConflict(cur)) /\ MarkFailed
    BY <1>2, <2>1
  <2>2. CASE /\ NoConflict(cur) /\ cls' = Classes(cur) /\ step' = "restore" /\ mem' = "native"
             /\ UNCHANGED <<owner, op, cur, todo, stamps, overwrite>> /\ Silent
    <3>1. Classes(cur) \in [Member -> {"original", "replacement", "missing"}]
      BY <2>2 DEF Classes, NoConflict, Class, Classify
    <3>2. JobOK'
      BY <2>2, <3>1 DEF JobOK, Step, Member
    <3> QED BY <1>1, <2>2, <3>2, SilentType, MovesOn DEF RestoreSteps, BeforeJournal, AfterJournal
  <2> QED BY <1>6, <2>1, <2>2 DEF Reclassify
<1>7. CASE Restore
  <2>1. CASE cls[mem] = "original" /\ NextMember /\ Silent
    BY <1>4, <2>1, SilentType
  <2>2. CASE cls[mem] = "missing" /\ Goto("restoreMove") /\ Silent
    BY <1>1, <1>3, <2>2, SilentType DEF RestoreSteps
  <2>3. CASE /\ Put(cur, mem, Absent)
             /\ IF rec[cur][mem] = Absent THEN NextMember ELSE Goto("restoreMove")
             /\ Kept /\ UNCHANGED faults
    <3>1. FilesOK'
      BY <1>1, <2>3, PutType, ObjectType DEF Shared
    <3> QED BY <1>1, <1>3, <1>4, <2>3, <3>1, KeptType DEF RestoreSteps, FaultsOK
  <2>4. CASE Refused(dir[mem] = New(cur)) /\ MarkFailed
    BY <1>2, <2>4
  <2> QED BY <1>7, <2>1, <2>2, <2>3, <2>4 DEF Restore
<1>8. CASE RestoreMove
  <2>1. CASE Refused(BackupReady) /\ MarkFailed
    BY <1>2, <2>1
  <2>2. CASE /\ dir' = [dir EXCEPT ![mem] = priv[cur][BackupOf(mem)]]
             /\ priv' = [priv EXCEPT ![cur][BackupOf(mem)] = Absent]
             /\ Goto("restoreConfirm") /\ Kept /\ UNCHANGED faults
    <3>1. [priv[cur] EXCEPT ![BackupOf(mem)] = Absent] \in [Private -> Object]
      BY <1>1, ObjectType DEF FilesOK
    <3>2. priv[cur][BackupOf(mem)] \in Object
      BY <1>1 DEF FilesOK, Private, BackupOf
    <3>3. FilesOK'
      BY <2>2, <3>1, <3>2 DEF FilesOK
    <3> QED BY <1>1, <1>3, <2>2, <3>3, KeptType DEF FaultsOK, RestoreSteps
  <2> QED BY <1>8, <2>1, <2>2 DEF RestoreMove
<1>9. CASE RestoreConfirm
  BY <1>2, <1>4, <1>9, SilentType DEF RestoreConfirm
<1>10. CASE Restored
  <2>1. CASE Refused(OldBytesBack) /\ MarkFailed
    BY <1>2, <2>1
  <2>2. CASE /\ stamps' = Targets /\ step' = "clean"
             /\ UNCHANGED <<owner, op, cur, mem, cls, todo, overwrite>> /\ Silent
    <3>1. Targets \in [Member -> Object]
      BY DEF Targets, FilesOK, Shared
    <3>2. JobOK'
      BY <2>2, <3>1 DEF JobOK, Step
    <3> QED BY <1>1, <2>2, <3>2, SilentType, MovesOn DEF RestoreSteps, BeforeJournal, AfterJournal
  <2> QED BY <1>10, <2>1, <2>2 DEF Restored
<1> QED BY <1>5, <1>6, <1>7, <1>8, <1>9, <1>10 DEF Rollback

LEMMA CleanupTypes == ASSUME TypeInv, Cleanup PROVE TypeInv'
<1> USE DEF TypeInv
<1>0. Cleanup => step \in CleanSteps
  BY DEF Cleanup, Clean, CleanRemoves, CleanDone, CleanSteps
<1>1. step \in CleanSteps /\ cur \in Token
  BY <1>0, TokenType DEF CleanSteps
<1>2. ASSUME NEW c, NEW k, Refused(c) \/ UNCHANGED faults, Conclude(k), UNCHANGED files
      PROVE  TypeInv'
  BY <1>1, <1>2, ConcludeType, RefusedType, FilesType DEF FaultsOK
<1>3. CASE Clean
  <2>1. CASE Refused(CleanAllowed) /\ Conclude(FALSE) /\ UNCHANGED files
    BY <1>2, <2>1
  <2>2. CASE /\ todo' = {n \in CleanNames : At(cur, n) # Absent} /\ step' = "cleaning"
             /\ UNCHANGED <<owner, op, cur, mem, cls, stamps, overwrite>> /\ Silent
    <3>1. JobOK'
      BY <2>2 DEF JobOK, Step, CleanNames
    <3> QED BY <1>1, <2>2, <3>1, SilentType, MovesOn DEF CleanSteps, BeforeJournal, AfterJournal
  <2> QED BY <1>3, <2>1, <2>2 DEF Clean
<1>4. CASE CleanRemoves
  <2>1. ASSUME NEW n \in todo, Refused(At(cur, n) = Proof(cur, n)), Conclude(FALSE), UNCHANGED files
        PROVE  TypeInv'
    BY <1>2, <2>1
  <2>2. ASSUME NEW n \in todo, Put(cur, n, Absent), todo' = todo \ {n},
               UNCHANGED <<owner, step, op, cur, mem, cls, stamps, overwrite>>,
               Kept, UNCHANGED faults
        PROVE  TypeInv'
    <3>1. FilesOK'
      BY <1>1, <2>2, PutType, ObjectType DEF JobOK, Shared
    <3>2. JobOK'
      BY <2>2 DEF JobOK
    <3> QED BY <1>1, <2>2, <3>1, <3>2, KeptType, MovesOn
            DEF CleanSteps, BeforeJournal, AfterJournal, FaultsOK
  <2> QED BY <1>4, <2>1, <2>2 DEF CleanRemoves
<1>5. CASE CleanDone
  BY <1>2, <1>5 DEF CleanDone
<1> QED BY <1>3, <1>4, <1>5 DEF Cleanup

LEMMA EnvironmentTypes == ASSUME TypeInv, Crash \/ External PROVE TypeInv'
<1> USE DEF TypeInv
<1>1. CASE Crash
  <2>1. [d \in Doc |-> Nothing] \in [Doc -> [Member -> Object]]
    BY ObjectType DEF Nothing
  <2>2. RestOK'
    BY <1>1, <2>1, PairAssumption DEF Crash, RestOK, history
  <2> QED BY <1>1, <2>2, ReleaseType, FilesType DEF Crash, CurInv, SaveInv, FaultsOK
<1>2. CASE External
  <2>1. ext \in Nat /\ ext' = ext + 1 /\ ext' \in 0..MaxExt
    BY <1>2, PairAssumption DEF External, RestOK
  <2>2. FilesOK'
    <3>1. ASSUME NEW m \in Member,
                 NEW o \in {Absent, Foreign(ext + 1)} \cup
                   (IF dir[m] = Absent THEN {}
                    ELSE {[dir[m] EXCEPT !.val = Foreign(ext + 1).val]})
          PROVE  o \in Object
      <4>1. dir[m] \in Object /\ Foreign(ext + 1) \in Object
        BY <2>1, ObjectType DEF FilesOK, Shared
      <4>2. [dir[m] EXCEPT !.val = Foreign(ext + 1).val] \in Object
        BY <4>1 DEF Object
      <4> QED BY <4>1, <4>2, ObjectType
    <3> QED BY <1>2, <3>1 DEF External, FilesOK, Shared
  <2>3. RestOK' /\ JobOK' /\ FaultsOK'
    BY <1>2, <2>1 DEF External, RestOK, JobOK, FaultsOK, session, history, job
  <2> QED BY <1>2, <2>2, <2>3 DEF External, CurInv, SaveInv, job
<1> QED BY <1>1, <1>2

\* Every step of the pair's jobs (pair.rs) and of their environment keeps the types.
THEOREM TypeNext == TypeInv /\ [Next]_vars => TypeInv'
<1> SUFFICES ASSUME TypeInv, [Next]_vars PROVE TypeInv'
  OBVIOUS
<1>1. CASE UNCHANGED vars
  BY <1>1 DEF vars, TypeInv, FilesOK, JobOK, RestOK, FaultsOK, CurInv, SaveInv
<1> QED BY <1>1, UserTypes, RecoveryTypes, PrepareTypes, BeginInstallTypes, MarkingTypes,
           InstallTypes, RollbackTypes, CleanupTypes, EnvironmentTypes DEF Next, Worker

-----------------------------------------------------------------------------
\* The Boolean variables apart: no leaf below needs arithmetic.
LEMMA FlagsNext == Flags /\ [Next]_vars => Flags'
<1> SUFFICES ASSUME Flags, [Next]_vars PROVE Flags'
  OBVIOUS
<1> DEFINE Resets == overwrite' = FALSE /\ alias' = alias
           Keeps  == overwrite' = overwrite /\ alias' = alias
<1> USE DEF Goto, GotoMember, Release, Kept, Silent
<1>1. CASE User \/ Reader
  <2>1. ASSUME NEW d \in Doc, BeginOpen(d) \/ Close(d) \/ ReadPair(d) PROVE Resets \/ Keeps
    BY <2>1 DEF BeginOpen, Close, ReadPair, Begin, job
  <2>2. ASSUME NEW d \in Doc, BeginSave(d) PROVE overwrite' \in BOOLEAN /\ alias' = alias
    BY Zenon, <2>2 DEF BeginSave, Begin
  <2> QED BY Zenon, <1>1, <2>1, <2>2 DEF User, Reader, Flags
<1>2. MarkFailed => Resets \/ Keeps
  BY DEF MarkFailed, RecoveryFailed
<1>3. ASSUME NEW c, Conclude(c), alias' = alias PROVE Resets \/ Keeps
  BY <1>3 DEF Conclude
<1>4. CASE Recovery
  <2>1. Resets \/ Keeps
    BY <1>4 DEF Recovery, Look, RecoverClean, RecoverRollBack, RecoverFails, OpenRecovered,
                RecoveryFailed
  <2> QED BY Zenon, <2>1 DEF Flags
<1>5. CASE Prepare
  <2>1. Resets \/ Keeps
    BY <1>5 DEF Prepare, PrepareBegins, PrepareRefused, Stage, BackUp, WriteJournal,
                PublishJournal, CreateCommit, FillCommit, CreateRollback, FillRollback, Write,
                Seal, PrepareFails, ScratchRemoves, ScratchDone
  <2> QED BY Zenon, <2>1 DEF Flags
<1>6. CASE InstallBegins \/ PreparedDropped
  <2>1. Resets \/ Keeps
    BY <1>6 DEF InstallBegins, PreparedDropped
  <2> QED BY Zenon, <2>1 DEF Flags
<1>7. CASE Marking
  <2>1. Resets \/ Keeps
    BY <1>2, <1>7 DEF Marking, Mark, MarkMove, MarkConfirm
  <2> QED BY Zenon, <2>1 DEF Flags
<1>8. CASE Install
  <2>1. Resets \/ Keeps
    BY <1>8 DEF Install, InstVerify, InstDelete, InstMove, InstConfirm, Final, CommitMove,
                CommitConfirm, InstFails
  <2> QED BY Zenon, <2>1 DEF Flags
<1>9. CASE Rollback
  <2>1. Resets \/ Keeps
    BY <1>2, <1>9 DEF Rollback, Undo, Reclassify, Restore, RestoreMove, RestoreConfirm, Restored,
                      NextMember
  <2> QED BY Zenon, <2>1 DEF Flags
<1>10. CASE Cleanup
  <2>1. Resets \/ Keeps
    BY <1>3, <1>10 DEF Cleanup, Clean, CleanRemoves, CleanDone, Conclude
  <2> QED BY Zenon, <2>1 DEF Flags
<1>11. CASE Crash
  BY Zenon, <1>11 DEF Crash, Flags
<1>12. CASE External
  BY Zenon, <1>12 DEF External, Flags, job
<1>13. CASE UNCHANGED vars
  BY Zenon, <1>13 DEF vars, Flags
<1> QED BY <1>1, <1>4, <1>5, <1>6, <1>7, <1>8, <1>9, <1>10, <1>11, <1>12, <1>13 DEF Next, Worker

LEMMA TypeParts == TypeOK <=> FilesOK /\ JobOK /\ RestOK /\ FaultsOK /\ Flags
BY DEF TypeOK, FilesOK, JobOK, RestOK, FaultsOK, Flags

\* Every state the pair's jobs reach is well typed, for any documents, bounds and
\* interference by other programs.
THEOREM TypeCorrect == Spec => []TypeOK
<1>1. Init => TypeInv /\ Flags
  <2>1. Init => Flags
    BY Zenon DEF Init, Flags
  <2> QED BY <2>1, TypeInit
<1>2. TypeInv /\ Flags /\ [Next]_vars => (TypeInv /\ Flags)'
  BY TypeNext, FlagsNext
<1>3. TypeInv /\ Flags => TypeOK
  BY TypeParts DEF TypeInv
<1> QED BY <1>1, <1>2, <1>3, PTL DEF Spec

(***************************************************************************)
(* Reports, the commit marker, and the evidence of a save.                 *)
(***************************************************************************)

LEMMA MarkerFacts ==
  /\ \A t \in Nat : Committed(t) # Absent /\ Prepared(t) # Absent /\ New(t) # Absent
  /\ \A t, u \in Nat : Prepared(t) = Prepared(u) => t = u
  /\ \A t, u \in Nat : Committed(t) = Committed(u) => t = u
BY DEF Committed, Prepared, New, Absent, File

\* Nothing is reported, or something true is.
LEMMA KeepReports == ASSUME ReportsOK, UNCHANGED <<outcome, done, last>> PROVE ReportsOK'
BY DEF ReportsOK, OutcomeTruthful, FreshInv

LEMMA NewReport ==
  ASSUME RestOK, ReportsOK, NEW t \in 1..last, NEW w, Report(t, w), UNCHANGED <<done, last>>,
         w = "installed" => t \in done, w \in {"error", "rolledBack"} => t \notin done
  PROVE ReportsOK'
<1>1. \A u \in Token : outcome'[u] = IF u = t THEN w ELSE outcome[u]
  BY DEF Report, RestOK
<1> QED BY <1>1 DEF ReportsOK, OutcomeTruthful, FreshInv, Token, RestOK

\* A job that ends leaves nothing to prove about its steps.
LEMMA IdleControl == ASSUME Release PROVE ControlOK'
BY DEF Release, ControlOK, PendingInv, DecidedInv, UncommittedInv, EvidenceInv, BeforeJournal,
       AfterJournal, MarkSteps, SwapSteps, CleanSteps, RestoreSteps

LEMMA UserFate == ASSUME TypeInv, FateInv, User \/ Reader PROVE FateInv'
<1> USE DEF FateInv
<1>1. ASSUME NEW d \in Doc, BeginOpen(d) \/ BeginSave(d) PROVE FateInv'
  <2>1. op' \in {"open", "save"} /\ step' = "look" /\ UNCHANGED <<outcome, done, last>>
    BY <1>1 DEF BeginOpen, BeginSave, Begin, history
  <2>2. ControlOK'
    BY <2>1 DEF ControlOK, PendingInv, DecidedInv, UncommittedInv, EvidenceInv, BeforeJournal,
                AfterJournal, MarkSteps, SwapSteps, CleanSteps, RestoreSteps
  <2> QED BY <2>1, <2>2, KeepReports
<1>2. ASSUME NEW d \in Doc, Close(d) \/ ReadPair(d) PROVE FateInv'
  BY <1>2, KeepReports DEF Close, ReadPair, ControlOK, PendingInv, DecidedInv, UncommittedInv, EvidenceInv,
                           NoEvidence, job, files, history
<1> QED BY <1>1, <1>2 DEF User, Reader

LEMMA RecoveryFailedFate ==
  ASSUME TypeInv, FateInv, RecoveryFailed, op = "abort" => step \notin {"idle", "look", "ready"}
  PROVE  FateInv'
<1> USE DEF FateInv
<1>1. ControlOK'
  BY IdleControl DEF RecoveryFailed
<1>2. CASE op = "abort"
  BY <1>1, <1>2, NewReport, TokenType DEF RecoveryFailed, ControlOK, DecidedInv, TypeInv
<1>3. CASE op # "abort"
  BY <1>1, <1>3, KeepReports DEF RecoveryFailed
<1> QED BY <1>2, <1>3

LEMMA RecoveryFate == ASSUME TypeInv, FateInv, Recovery PROVE FateInv'
<1> USE DEF FateInv
<1>1. CASE Look
  <2>1. op \in {"open", "save"} /\ step = "look"
    BY <1>1 DEF Look, ControlOK, PendingInv
  <2>2. CASE RecoveryFailed
    BY <2>1, <2>2, RecoveryFailedFate
  <2>3. CASE Goto("ready") /\ Silent /\ NoEvidence
    <3>1. ControlOK'
      BY <2>1, <2>3 DEF Goto, Silent, files, ControlOK, PendingInv, DecidedInv, UncommittedInv,
            EvidenceInv, NoEvidence, BeforeJournal, AfterJournal, MarkSteps, SwapSteps, CleanSteps,
            RestoreSteps
    <3> QED BY <2>3, <3>1, KeepReports DEF Silent, Kept, history
  <2>4. CASE step' = "recover" /\ op' = op /\ Silent
    <3>1. ControlOK'
      BY <2>1, <2>4 DEF ControlOK, PendingInv, DecidedInv, UncommittedInv,
            EvidenceInv, BeforeJournal, AfterJournal, MarkSteps, SwapSteps, CleanSteps,
            RestoreSteps
    <3> QED BY <2>4, <3>1, KeepReports DEF Silent, Kept, history
  <2> QED BY <1>1, <2>2, <2>3, <2>4 DEF Look
<1>2. CASE RecoverClean \/ RecoverRollBack
  <2>1. /\ step = "recover" /\ step' \in {"clean", "mark"} /\ op' = op /\ cur' = cur
        /\ op # "install" /\ Silent
    BY <1>2 DEF RecoverClean, RecoverRollBack, Goto, ControlOK, PendingInv, MarkSteps, SwapSteps,
                CleanSteps
  <2>2. ControlOK'
    BY <2>1 DEF Silent, Kept, history, ControlOK, PendingInv, DecidedInv, UncommittedInv,
                EvidenceInv, BeforeJournal, AfterJournal, MarkSteps, SwapSteps, RestoreSteps
  <2> QED BY <2>1, <2>2, KeepReports DEF Silent, Kept, history
<1>3. CASE RecoverFails
  BY <1>3, RecoveryFailedFate DEF RecoverFails
<1>4. CASE OpenRecovered
  BY <1>4, IdleControl, KeepReports DEF OpenRecovered, history
<1> QED BY <1>1, <1>2, <1>3, <1>4 DEF Recovery

LEMMA PrepareFate == ASSUME TypeInv, FateInv, Prepare PROVE FateInv'
<1> USE DEF FateInv
<1>1. CASE PrepareBegins
  <2>1. /\ step' = "stage" /\ op' = "save" /\ cur' = last + 1 /\ last' = last + 1
        /\ UNCHANGED <<outcome, done>>
    BY <1>1 DEF PrepareBegins, history
  <2>2. last + 1 \in Token
    BY <1>1, PairAssumption
       DEF PrepareBegins, TypeInv, SaveInv, RestOK, Token, BeforeJournal, AfterJournal
  <2>3. ReportsOK'
    BY <2>1 DEF ReportsOK, OutcomeTruthful, FreshInv, Token, TypeInv, RestOK
  <2>4. last + 1 \notin done /\ outcome[last + 1] = "none"
    BY <2>2 DEF ReportsOK, FreshInv, TypeInv, RestOK
  <2>5. ControlOK'
    BY <2>1, <2>4 DEF ControlOK, PendingInv, DecidedInv, UncommittedInv, EvidenceInv, MarkSteps,
                      SwapSteps, CleanSteps, RestoreSteps
  <2> QED BY <2>3, <2>5
<1>2. CASE PrepareRefused
  BY <1>2, IdleControl, KeepReports DEF PrepareRefused, Kept, history
<1>3. ASSUME step \in BeforeJournal \cup AfterJournal, op' = op, cur' = cur,
             step' \in BeforeJournal \cup AfterJournal, UNCHANGED <<outcome, done, last>>
      PROVE  FateInv'
  BY <1>3, KeepReports DEF ControlOK, PendingInv, DecidedInv, UncommittedInv, EvidenceInv,
       MarkSteps, SwapSteps, CleanSteps, RestoreSteps, BeforeJournal, AfterJournal
<1>4. CASE Stage \/ BackUp \/ WriteJournal \/ PublishJournal \/ CreateCommit \/ FillCommit
           \/ CreateRollback \/ FillRollback \/ Seal
  <2>1. /\ step \in BeforeJournal \cup AfterJournal /\ op' = op /\ cur' = cur
        /\ step' \in BeforeJournal \cup AfterJournal
    BY <1>4 DEF Stage, BackUp, WriteJournal, PublishJournal, CreateCommit, FillCommit,
                CreateRollback, FillRollback, Seal, Write, Goto, GotoMember, BeforeJournal,
                AfterJournal
  <2>2. UNCHANGED <<outcome, done, last>>
    BY <1>4 DEF Stage, BackUp, WriteJournal, PublishJournal, CreateCommit, FillCommit,
                CreateRollback, FillRollback, Seal, Write, Silent, Kept, history
  <2> QED BY <1>3, <2>1, <2>2
<1>5. CASE PrepareFails
  <2>1. step \in BeforeJournal \cup AfterJournal /\ cur \notin done /\ cur \in 1..last
    BY <1>5, TokenType DEF PrepareFails, Preparing, BeforeJournal, AfterJournal, ControlOK,
                           PendingInv
  <2>2. ReportsOK'
    BY <1>5, <2>1, NewReport DEF PrepareFails, TypeInv
  <2>3. ControlOK'
    BY <1>5, <2>1 DEF PrepareFails, ControlOK, PendingInv, DecidedInv, UncommittedInv, EvidenceInv,
       MarkSteps, SwapSteps, CleanSteps, RestoreSteps, BeforeJournal, AfterJournal
  <2> QED BY <2>2, <2>3
<1>6. CASE ScratchRemoves
  BY <1>6, KeepReports DEF ScratchRemoves, Kept, history, ControlOK, PendingInv, DecidedInv,
       UncommittedInv, EvidenceInv, MarkSteps, SwapSteps, CleanSteps, RestoreSteps, BeforeJournal,
       AfterJournal
<1>7. CASE ScratchDone
  BY <1>7, IdleControl, KeepReports DEF ScratchDone, Silent, Kept, history
<1> QED BY <1>1, <1>2, <1>4, <1>5, <1>6, <1>7 DEF Prepare

LEMMA BeginInstallFate == ASSUME TypeInv, FateInv, InstallBegins \/ PreparedDropped PROVE FateInv'
<1> USE DEF FateInv
<1>1. cur \in 1..last /\ step = "prepared" /\ cur \notin done /\ outcome[cur] = "none"
  BY TokenType DEF InstallBegins, PreparedDropped, ControlOK, PendingInv, AfterJournal
<1>2. CASE InstallBegins
  <2>1. ControlOK'
    BY <1>1, <1>2 DEF InstallBegins, Silent, Kept, history, ControlOK, PendingInv, DecidedInv,
       UncommittedInv, EvidenceInv, MarkSteps, SwapSteps, CleanSteps, RestoreSteps, BeforeJournal,
       AfterJournal
  <2> QED BY <1>2, <2>1, KeepReports DEF InstallBegins, Silent, Kept, history
<1>3. CASE PreparedDropped
  <2>1. ReportsOK'
    BY <1>1, <1>3, NewReport DEF PreparedDropped, TypeInv
  <2>2. CASE Release
    BY <2>1, <2>2, IdleControl
  <2>3. CASE step' = "clean" /\ op' = "drop" /\ UNCHANGED cur
    <3>1. ControlOK'
      BY <1>1, <1>3, <2>3 DEF PreparedDropped, ControlOK, PendingInv, DecidedInv,
         UncommittedInv, EvidenceInv, MarkSteps, SwapSteps, RestoreSteps, BeforeJournal,
         AfterJournal
    <3> QED BY <2>1, <3>1
  <2> QED BY <1>3, <2>2, <2>3 DEF PreparedDropped
<1> QED BY <1>2, <1>3

LEMMA MarkFailedFate ==
  ASSUME TypeInv, FateInv, step \in MarkSteps \cup RestoreSteps \cup {"undo"}, MarkFailed
  PROVE  FateInv'
<1> USE DEF FateInv
<1>1. cur \in 1..last
  BY TokenType DEF MarkSteps, RestoreSteps
<1>2. CASE /\ op = "install" /\ op' = "abort" /\ step' = "recover"
           /\ UNCHANGED <<owner, cur, mem, cls, todo, stamps, overwrite>>
           /\ Kept /\ UNCHANGED files
  <2>1. cur \notin done
    BY <1>2 DEF ControlOK, PendingInv, MarkSteps, SwapSteps, RestoreSteps, CleanSteps
  <2>2. ControlOK'
    BY <1>2, <2>1 DEF Kept, history, ControlOK, PendingInv, DecidedInv, UncommittedInv,
       EvidenceInv, MarkSteps, SwapSteps, CleanSteps, RestoreSteps, BeforeJournal, AfterJournal
  <2> QED BY <1>2, <2>2, KeepReports DEF Kept, history
<1>3. CASE Report(cur, "failed") /\ Release /\ UNCHANGED <<last, done>>
  BY <1>1, <1>3, NewReport, IdleControl DEF TypeInv
<1>4. CASE RecoveryFailed
  BY <1>4, RecoveryFailedFate DEF MarkSteps, RestoreSteps
<1> QED BY <1>2, <1>3, <1>4 DEF MarkFailed

LEMMA MarkingFate == ASSUME TypeInv, FateInv, Marking PROVE FateInv'
<1> USE DEF FateInv
<1>0. step \in MarkSteps
  BY DEF Marking, Mark, MarkMove, MarkConfirm, MarkSteps
<1>1. CASE MarkFailed
  BY <1>0, <1>1, MarkFailedFate
<1>2. CASE ~MarkFailed
  <2>1. /\ op' = op /\ cur' = cur /\ UNCHANGED <<outcome, done, last>>
        /\ dir["commit"] = Absent /\ dir'["commit"] = Absent
        /\ step' \in (MarkSteps \ {"mark"}) \cup {AfterMark}
    <3>1. dir["commit"] = Absent
      BY <1>2 DEF Marking, Mark, MarkAllowed, MarkMove, MarkConfirm, ControlOK,
                  UncommittedInv, MarkSteps
    <3>2. dir'["commit"] = dir["commit"]
      BY <1>2 DEF Marking, Mark, MarkMove, MarkConfirm, Put, Silent, files, TypeInv,
                  FilesOK, Shared, Marker
    <3>3. /\ op' = op /\ cur' = cur /\ UNCHANGED <<outcome, done, last>>
          /\ step' \in (MarkSteps \ {"mark"}) \cup {AfterMark}
      BY <1>2 DEF Marking, Mark, MarkMove, MarkConfirm, Silent, Kept, history, Goto,
                  GotoMember, MarkSteps
    <3> QED BY <3>1, <3>2, <3>3
  <2>2. AfterMark = IF op = "install" THEN "instVerify" ELSE "reclassify"
    BY DEF AfterMark
  <2>3. ControlOK'
    BY <1>0, <2>1, <2>2 DEF ControlOK, PendingInv, DecidedInv, UncommittedInv, EvidenceInv,
       MarkSteps, SwapSteps, CleanSteps, RestoreSteps, BeforeJournal, AfterJournal
  <2> QED BY <2>1, <2>3, KeepReports
<1> QED BY <1>1, <1>2

LEMMA InstallFate == ASSUME TypeInv, FateInv, Install PROVE FateInv'
<1> USE DEF FateInv
<1>1. /\ step \in SwapSteps \cup {"commitConfirm"} /\ op = "install" /\ outcome[cur] = "none"
      /\ cur \in Token /\ mem \in Member
  <2>1. step \in SwapSteps \cup {"commitConfirm"}
    BY DEF Install, InstVerify, InstDelete, InstMove, InstConfirm, Final, CommitMove,
           CommitConfirm, SwapSteps
  <2> QED BY <2>1, TokenType DEF ControlOK, PendingInv, DecidedInv, SwapSteps, TypeInv, JobOK
<1>2. ASSUME NEW c, InstFails(c) PROVE FateInv'
  <2>1. dir["commit"] = Absent => cur \notin done
    BY <1>1, MarkerFacts DEF ControlOK, PendingInv, DecidedInv, Token
  <2>2. ControlOK'
    BY <1>1, <1>2, <2>1 DEF InstFails, Kept, history, files, ControlOK, PendingInv, DecidedInv,
       UncommittedInv, EvidenceInv, MarkSteps, SwapSteps, CleanSteps, RestoreSteps, BeforeJournal,
       AfterJournal
  <2> QED BY <1>2, <2>2, KeepReports DEF InstFails, Kept, history
<1>3. ASSUME step \in SwapSteps, step' \in SwapSteps, op' = op, cur' = cur,
             UNCHANGED <<outcome, done, last>>, dir'["commit"] = dir["commit"],
             step' = "commitMove" => dir'["commitNew"] = Committed(cur)
      PROVE  FateInv'
  <2>1. ControlOK'
    BY <1>1, <1>3 DEF ControlOK, PendingInv, DecidedInv, UncommittedInv, EvidenceInv, MarkSteps,
       SwapSteps, CleanSteps, RestoreSteps, BeforeJournal, AfterJournal
  <2> QED BY <1>3, <2>1, KeepReports
<1>4. CASE InstVerify \/ InstDelete \/ InstMove \/ InstConfirm \/ Final
  <2>1. CASE op' = "undo"
    <3>1. \E c : InstFails(c)
      BY <1>1, <1>4, <2>1 DEF InstVerify, InstDelete, InstMove, InstConfirm, Final, Goto, GotoMember
    <3> QED BY <1>2, <3>1
  <2>2. CASE op' # "undo"
    <3>1. /\ step \in SwapSteps /\ step' \in SwapSteps /\ op' = op /\ cur' = cur
          /\ UNCHANGED <<outcome, done, last>>
      BY <1>4, <2>2 DEF InstVerify, InstDelete, InstMove, InstConfirm, Final, Goto, GotoMember,
                        SwapSteps, Silent, Kept, history, InstFails
    <3>2. dir'["commit"] = dir["commit"]
      BY <1>1, <1>4, <2>2 DEF InstVerify, InstDelete, InstMove, InstConfirm, Final, Put, Silent,
         files, TypeInv, FilesOK, Shared, Marker, Member, InstFails
    <3>3. step' = "commitMove" => dir'["commitNew"] = Committed(cur)
      BY <1>4, <2>2 DEF InstVerify, InstDelete, InstMove, InstConfirm, Final, Goto, GotoMember,
                        FinalFence, Silent, files, InstFails
    <3> QED BY <1>3, <3>1, <3>2, <3>3
  <2> QED BY <2>1, <2>2
<1>5. CASE CommitMove
  <2>1. CASE InstFails(dir["commit"] = Absent)
    BY <1>2, <2>1
  <2>2. CASE /\ dir' = [dir EXCEPT !["commit"] = dir["commitNew"], !["commitNew"] = Absent]
             /\ done' = done \cup {cur}
             /\ Goto("commitConfirm")
             /\ UNCHANGED <<priv, rec, last, session, outcome, alias, bounds, faults>>
    <3>1. dir'["commit"] = Committed(cur)
      BY <1>5, <2>2 DEF CommitMove, ControlOK, DecidedInv, TypeInv, FilesOK, Shared, Marker
    <3>2. ReportsOK'
      BY <1>1, <2>2, TokenType DEF ReportsOK, OutcomeTruthful, FreshInv, TypeInv, RestOK, SwapSteps
    <3>3. ControlOK'
      BY <1>1, <2>2, <3>1 DEF Goto, ControlOK, PendingInv, DecidedInv, UncommittedInv, EvidenceInv,
         MarkSteps, SwapSteps, CleanSteps, RestoreSteps, BeforeJournal, AfterJournal
    <3> QED BY <3>2, <3>3
  <2> QED BY <1>5, <2>1, <2>2 DEF CommitMove
<1>6. CASE CommitConfirm
  <2>1. CASE InstFails(dir["commit"] = Committed(cur))
    BY <1>2, <2>1
  <2>2. CASE Goto("clean") /\ Silent
    <3>1. ControlOK'
      BY <1>1, <1>6, <2>2 DEF CommitConfirm, Goto, Silent, Kept, history, ControlOK, PendingInv,
         DecidedInv, UncommittedInv, EvidenceInv, MarkSteps, SwapSteps, CleanSteps, RestoreSteps,
         BeforeJournal, AfterJournal
    <3> QED BY <2>2, <3>1, KeepReports DEF Silent, Kept, history
  <2> QED BY <1>6, <2>1, <2>2 DEF CommitConfirm
<1> QED BY <1>4, <1>5, <1>6 DEF Install

LEMMA RollbackFate == ASSUME TypeInv, FateInv, Rollback PROVE FateInv'
<1> USE DEF FateInv
<1>1. /\ step \in RestoreSteps \cup {"undo"} /\ op # "install"
      /\ cur \in Token /\ mem \in Member
  <2>1. step \in RestoreSteps \cup {"undo"}
    BY DEF Rollback, Undo, Reclassify, Restore, RestoreMove, RestoreConfirm, Restored, RestoreSteps
  <2> QED BY <2>1, TokenType DEF ControlOK, PendingInv, DecidedInv, RestoreSteps, TypeInv, JobOK,
                                 SwapSteps, MarkSteps, CleanSteps
<1>2. CASE MarkFailed
  BY <1>1, <1>2, MarkFailedFate
<1>3. CASE ~MarkFailed
  <2>1. /\ op' = op /\ cur' = cur /\ UNCHANGED <<outcome, done, last>>
        /\ step' \in RestoreSteps \cup {"mark", "clean"}
        /\ step = "undo" => step' = "mark"
        /\ step' = "mark" => step = "undo"
    BY <1>1, <1>3 DEF Rollback, Undo, Reclassify, Restore, RestoreMove, RestoreConfirm, Restored,
       RestoreSteps, Goto, GotoMember, NextMember, AfterRestore, Silent, Kept, history
  <2>2. dir'["commit"] = dir["commit"]
    BY <1>1, <1>3 DEF Rollback, Undo, Reclassify, Restore, RestoreMove, RestoreConfirm, Restored,
       Put, Silent, files, TypeInv, FilesOK, Shared, Marker, Member
  <2>3. cur \notin done \/ op # "undo"
    BY <1>1, <1>3 DEF Rollback, Undo, UndoAllowed, Reclassify, Restore, RestoreMove,
       RestoreConfirm, Restored, ControlOK, DecidedInv
  <2>4. ControlOK'
    BY <1>1, <2>1, <2>2, <2>3 DEF ControlOK, PendingInv, DecidedInv, UncommittedInv, EvidenceInv,
       MarkSteps, SwapSteps, CleanSteps, RestoreSteps, BeforeJournal, AfterJournal
  <2> QED BY <2>1, <2>4, KeepReports
<1> QED BY <1>2, <1>3

LEMMA ConcludeFate ==
  ASSUME TypeInv, FateInv, step \in CleanSteps, NEW c, Conclude(c), UNCHANGED files,
         c => NoEvidence
  PROVE  FateInv'
<1> USE DEF FateInv
<1>1. cur \in 1..last
  BY TokenType DEF CleanSteps
<1>2. CASE op \in {"open", "save"} /\ c
  <2>1. step' = "ready" /\ op' = op /\ UNCHANGED <<outcome, done, last, dir>>
    BY <1>2 DEF Conclude, files
  <2>2. ControlOK'
    BY <1>2, <2>1 DEF NoEvidence, ControlOK, PendingInv, DecidedInv, UncommittedInv, EvidenceInv,
       MarkSteps, SwapSteps, CleanSteps, RestoreSteps, BeforeJournal, AfterJournal
  <2> QED BY <2>1, <2>2, KeepReports
<1>3. CASE op = "install"
  BY <1>1, <1>3, NewReport, IdleControl DEF Conclude, TypeInv, ControlOK, DecidedInv
<1>4. CASE op = "undo"
  BY <1>1, <1>4, NewReport, IdleControl DEF Conclude, TypeInv, ControlOK, DecidedInv, CleanSteps
<1>5. CASE op = "abort"
  BY <1>1, <1>5, NewReport, IdleControl DEF Conclude, TypeInv, ControlOK, DecidedInv
<1>6. CASE ~(op \in {"open", "save"} /\ c) /\ op \notin {"install", "undo", "abort"}
  BY <1>6, KeepReports, IdleControl DEF Conclude
<1> QED BY <1>2, <1>3, <1>4, <1>5, <1>6

LEMMA CleanupFate == ASSUME TypeInv, FateInv, Cleanup PROVE FateInv'
<1> USE DEF FateInv
<1>1. step \in CleanSteps /\ cur \in Token
  <2>1. step \in CleanSteps
    BY DEF Cleanup, Clean, CleanRemoves, CleanDone, CleanSteps
  <2> QED BY <2>1, TokenType DEF CleanSteps
<1>2. ASSUME Conclude(FALSE), UNCHANGED files PROVE FateInv'
  BY <1>1, <1>2, ConcludeFate
<1>3. ASSUME step' = "cleaning", op' = op, cur' = cur, UNCHANGED <<outcome, done, last>>,
             \A n \in Marker : dir'[n] # Absent <=> n \in todo'
      PROVE  FateInv'
  <2>1. ControlOK'
    BY <1>1, <1>3 DEF ControlOK, PendingInv, DecidedInv, UncommittedInv, EvidenceInv,
       MarkSteps, SwapSteps, CleanSteps, RestoreSteps, BeforeJournal, AfterJournal
  <2> QED BY <1>3, <2>1, KeepReports
<1>4. CASE Clean
  <2>1. CASE Conclude(FALSE) /\ UNCHANGED files
    BY <1>2, <2>1
  <2>2. CASE /\ todo' = {n \in CleanNames : At(cur, n) # Absent} /\ step' = "cleaning"
             /\ UNCHANGED <<owner, op, cur, mem, cls, stamps, overwrite>> /\ Silent
    <3>1. \A n \in Marker : dir'[n] # Absent <=> n \in todo'
      BY <2>2 DEF CleanNames, At, Shared, Silent, files, Marker
    <3> QED BY <1>3, <2>2, <3>1 DEF Silent, Kept, history
  <2> QED BY <1>4, <2>1, <2>2 DEF Clean
<1>5. CASE CleanRemoves
  <2>1. CASE Conclude(FALSE) /\ UNCHANGED files
    BY <1>2, <2>1
  <2>2. ASSUME NEW n \in todo, step = "cleaning", Put(cur, n, Absent), todo' = todo \ {n},
               UNCHANGED <<owner, step, op, cur, mem, cls, stamps, overwrite>>,
               Kept
        PROVE  FateInv'
    <3>1. \A k \in Marker : dir'[k] = IF k = n THEN Absent ELSE dir[k]
      BY <2>2 DEF Put, TypeInv, FilesOK, Shared
    <3>2. \A k \in Marker : dir'[k] # Absent <=> k \in todo'
      BY <2>2, <3>1 DEF ControlOK, EvidenceInv
    <3> QED BY <1>3, <2>2, <3>2 DEF Kept, history
  <2> QED BY <1>5, <2>1, <2>2 DEF CleanRemoves
<1>6. CASE CleanDone
  <2>1. NoEvidence
    BY <1>6 DEF CleanDone, ControlOK, EvidenceInv, NoEvidence
  <2> QED BY <1>1, <1>6, <2>1, ConcludeFate DEF CleanDone, files
<1> QED BY <1>4, <1>5, <1>6 DEF Cleanup

LEMMA EnvironmentFate == ASSUME TypeInv, FateInv, Crash \/ External PROVE FateInv'
<1> USE DEF FateInv
<1>1. CASE Crash
  BY <1>1, IdleControl, KeepReports DEF Crash, history
<1>2. CASE External
  <2>1. \A n \in Marker : dir'[n] = dir[n]
    BY <1>2 DEF External, TypeInv, FilesOK, Shared, Marker, Member
  <2>2. UNCHANGED <<step, op, cur, todo, outcome, done, last>>
    BY <1>2 DEF External, job, history
  <2>3. ControlOK'
    BY <2>1, <2>2 DEF ControlOK, PendingInv, DecidedInv, UncommittedInv, EvidenceInv, NoEvidence,
                      Marker
  <2> QED BY <2>2, <2>3, KeepReports
<1> QED BY <1>1, <1>2

\* Nothing has been reported or committed when the pair is first touched.
THEOREM FateInit == Init => FateInv
BY DEF Init, FateInv, ReportsOK, ControlOK, OutcomeTruthful, FreshInv, PendingInv, DecidedInv,
       UncommittedInv, EvidenceInv, MarkSteps, SwapSteps, CleanSteps, RestoreSteps, BeforeJournal,
       AfterJournal, Token

\* Every step keeps the reports true and the decision with the commit marker:
\* a save is pending until install_outcome_inner publishes it, and none of its
\* failure paths passes the marker by.
THEOREM FateNext == TypeInv /\ FateInv /\ [Next]_vars => FateInv'
<1> SUFFICES ASSUME TypeInv, FateInv, [Next]_vars PROVE FateInv'
  OBVIOUS
<1>1. CASE UNCHANGED vars
  BY <1>1 DEF vars, FateInv, ReportsOK, ControlOK, OutcomeTruthful, FreshInv, PendingInv,
       DecidedInv, UncommittedInv, EvidenceInv, NoEvidence
<1> QED BY <1>1, UserFate, RecoveryFate, PrepareFate, BeginInstallFate, MarkingFate, InstallFate,
           RollbackFate, CleanupFate, EnvironmentFate DEF Next, Worker

\* The two layers together are an invariant, whatever other programs do.
THEOREM FateCorrect == Spec => [](TypeInv /\ FateInv)
<1>1. Init => TypeInv /\ FateInv
  BY TypeInit, FateInit
<1>2. TypeInv /\ FateInv /\ [Next]_vars => (TypeInv /\ FateInv)'
  BY TypeNext, FateNext
<1> QED BY <1>1, <1>2, PTL DEF Spec

-----------------------------------------------------------------------------
\* What the program reported of a save stays true, whatever crashes, fails or
\* is changed by other programs afterwards (install_outcome).
THEOREM Truthful == Spec => []OutcomeTruthful
<1>1. TypeInv /\ FateInv => OutcomeTruthful
  BY DEF FateInv, ReportsOK
<1> QED BY <1>1, FateCorrect, PTL

\* recover_pairs_owned succeeds only when it has removed every marker.
THEOREM RecoveryIsComplete == Spec => []RecoveryComplete
<1>1. TypeInv /\ FateInv => RecoveryComplete
  BY DEF FateInv, ControlOK, EvidenceInv, RecoveryComplete
<1> QED BY <1>1, FateCorrect, PTL

\* What moves the members: the swap and the restoration, and other programs.
LEMMA MembersStay ==
  ASSUME TypeInv, [Next]_vars, step \notin SwapSteps \cup RestoreSteps, ext' = ext
  PROVE  \A m \in Member : dir'[m] = dir[m]
<1> USE DEF TypeInv, FilesOK, Shared, Member, Marker
<1>1. ASSUME NEW t, NEW n \in Marker \cup Private, NEW o, Put(t, n, o)
      PROVE  \A m \in Member : dir'[m] = dir[m]
  BY <1>1 DEF Put, Private
<1>2. CASE User \/ Reader
  BY <1>2 DEF User, Reader, BeginOpen, BeginSave, Begin, Close, ReadPair, files
<1>3. MarkFailed => UNCHANGED dir
  BY DEF MarkFailed, RecoveryFailed, files
<1>4. \A c : Conclude(c) /\ UNCHANGED files => UNCHANGED dir
  BY DEF files
<1>5. CASE Recovery
  BY <1>5 DEF Recovery, Look, RecoverClean, RecoverRollBack, RecoverFails, OpenRecovered,
              RecoveryFailed, Silent, files
<1>6. CASE Prepare
  <2>1. CASE ScratchRemoves
    BY <1>1, <2>1 DEF ScratchRemoves, JobOK, files
  <2>2. CASE Stage \/ BackUp
    <3>1. {StageOf(mem), BackupOf(mem)} \subseteq Private
      BY DEF StageOf, BackupOf, Private
    <3> QED BY <1>1, <2>2, <3>1 DEF Stage, BackUp
  <2>3. CASE WriteJournal \/ CreateCommit \/ FillCommit \/ CreateRollback \/ FillRollback
    BY <1>1, <2>3 DEF WriteJournal, CreateCommit, FillCommit, CreateRollback, FillRollback, Write,
                      Private
  <2> QED BY <1>6, <2>1, <2>2, <2>3
          DEF Prepare, PrepareBegins, PrepareRefused, PublishJournal, Seal, PrepareFails,
              ScratchDone, Silent, files
<1>7. CASE InstallBegins \/ PreparedDropped
  BY <1>7 DEF InstallBegins, PreparedDropped, Silent, files
<1>8. CASE Marking
  BY <1>1, <1>3, <1>8 DEF Marking, Mark, MarkMove, MarkConfirm, Silent, files
<1>9. CASE Install
  BY <1>9 DEF Install, InstVerify, InstDelete, InstMove, InstConfirm, Final, CommitMove,
              CommitConfirm, InstFails, SwapSteps, Silent, files
<1>10. CASE Rollback
  BY <1>3, <1>10 DEF Rollback, Undo, Reclassify, Restore, RestoreMove, RestoreConfirm, Restored,
                     RestoreSteps, Silent, files
<1>11. CASE Cleanup
  BY <1>1, <1>4, <1>11 DEF Cleanup, Clean, CleanRemoves, CleanDone, JobOK, Silent, files
<1>12. CASE Crash \/ External
  BY <1>12 DEF Crash, External, files, RestOK
<1>13. CASE UNCHANGED vars
  BY <1>13 DEF vars
<1> QED BY <1>2, <1>5, <1>6, <1>7, <1>8, <1>9, <1>10, <1>11, <1>12, <1>13 DEF Next, Worker

\* No step of the program moves a member while the commit marker is there.
THEOREM CommitIsFinal == Spec => CommitFinal
<1>1. TypeInv /\ FateInv /\ [Next]_vars
        => [dir["commit"] # Absent /\ ext' = ext => Targets' = Targets]_vars
  <2> SUFFICES ASSUME TypeInv, FateInv, [Next]_vars, dir["commit"] # Absent, ext' = ext
               PROVE  Targets' = Targets
    BY DEF Targets, vars
  <2>1. step \notin SwapSteps \cup RestoreSteps
    BY DEF FateInv, ControlOK, UncommittedInv
  <2> QED BY <2>1, MembersStay DEF Targets
<1> QED BY <1>1, FateCorrect, PTL DEF Spec, CommitFinal

-----------------------------------------------------------------------------
(***************************************************************************)
(* Theorems about the pair itself, when no other program touches its two   *)
(* members (MaxExt = 0): an undecided save can always be undone, and       *)
(* PairInstall implements AtomicPair.  The invariant is PairInv on top of  *)
(* TypeInv and FateInv.                                                    *)
(***************************************************************************)

Safe == TypeInv /\ FateInv /\ PairInv

(***************************************************************************)
(* Facts about single files.                                               *)
(***************************************************************************)
LEMMA FileFacts ==
  ASSUME NEW t \in Nat, NEW r \in Object, r.kind \in {"new", "old"} => r.by # t
  PROVE  /\ New(t) # Absent /\ New(t) # r /\ CopyOf(t, r) # New(t)
         /\ CopyOf(t, r) \in Object /\ CopyOf(t, r).val = r.val
         /\ CopyOf(t, r) = Absent <=> r = Absent
BY PairAssumption DEF New, Absent, CopyOf, File, Object, Kind

\* classify, for a record that does not name its own files as originals.
LEMMA ClassifyFacts ==
  ASSUME NEW t \in Nat, NEW o \in Object, NEW r \in Object,
         r.kind \in {"new", "old"} => r.by # t
  PROVE  /\ Classify(t, o, r) = "original" <=> o \in {r, CopyOf(t, r)}
         /\ Classify(t, o, r) = "missing" <=> o = Absent /\ r # Absent
         /\ Classify(t, o, r) = "replacement" <=> o = New(t)
BY FileFacts DEF Classify, CopyOf

LEMMA ClassFacts ==
  ASSUME TypeInv, RecInv, NEW t \in Token, NEW m \in Member
  PROVE  /\ Class(t, m) = "original" <=> dir[m] \in {rec[t][m], Backup(t, m)}
         /\ Class(t, m) = "missing" <=> dir[m] = Absent /\ rec[t][m] # Absent
         /\ Class(t, m) = "replacement" <=> dir[m] = New(t)
         /\ New(t) # Absent /\ New(t) # rec[t][m] /\ Backup(t, m) # New(t)
         /\ Backup(t, m).val = rec[t][m].val
         /\ Backup(t, m) = Absent <=> rec[t][m] = Absent
<1>1. dir[m] \in Object /\ rec[t][m] \in Object /\ t \in Nat
  BY DEF TypeInv, FilesOK, RestOK, Shared, Token
<1>2. rec[t][m].kind \in {"new", "old"} => rec[t][m].by # t
  BY DEF RecInv
<1> QED BY <1>1, <1>2, FileFacts, ClassifyFacts DEF Class, Backup

LEMMA ProofFacts ==
  /\ \A t \in Nat : \A n \in Phase : Proof(t, n) # Absent
  /\ \A t, u \in Nat : \A n \in Phase : Proof(t, n) = Proof(u, n) => t = u
  /\ \A t : Proof(t, "commit") = Committed(t) /\ Proof(t, "journal") = Prepared(t)
            /\ Proof(t, "rollback") = Prepared(t)
BY MarkerFacts DEF Proof, Phase

\* The markers can only be read in one way.
LEMMA OnlyRecord ==
  ASSUME RestOK, DirInv, NEW c \in 1..last, Mine(c), ~NoPhase PROVE Marks(c)
<1>1. PICK t \in 1..last : Marks(t)
  BY DEF DirInv
<1>2. PICK n \in Phase : dir[n] # Absent
  BY DEF NoPhase
<1>3. Proof(t, n) = Proof(c, n)
  BY <1>1, <1>2 DEF Marks, Mine
<1>4. t = c
  BY <1>3, ProofFacts DEF RestOK
<1> QED BY <1>1, <1>4

(***************************************************************************)
(* Steps that leave the members, the phase markers and the backups alone.  *)
(***************************************************************************)
Frame == /\ \A n \in Phase \cup Member : dir'[n] = dir[n]
         /\ UNCHANGED <<rec, last>>
         /\ \A t \in Token : \A m \in Member : priv'[t][BackupOf(m)] = priv[t][BackupOf(m)]

LEMMA FrameRecord ==
  ASSUME Frame, NEW t \in Token
  PROVE  /\ NoPhase' <=> NoPhase
         /\ Mine(t)' <=> Mine(t)
         /\ Original(t)' <=> Original(t)
         /\ Replaced(t)' <=> Replaced(t)
         /\ \A m \in Member : Class(t, m)' = Class(t, m) /\ Backup(t, m)' = Backup(t, m)
         /\ Both(t, "original")' <=> Both(t, "original")
         /\ Undecided(t)' <=> Undecided(t)
         /\ Rolling(t)' <=> Rolling(t)
         /\ Marks(t)' <=> Marks(t)
<1>1. \A n \in Phase : dir'[n] = dir[n] /\ Proof(t, n)' = Proof(t, n)
  BY DEF Frame, Proof, Phase
<1>2. (NoPhase' <=> NoPhase) /\ (Mine(t)' <=> Mine(t))
  BY <1>1 DEF NoPhase, Mine
<1>3. \A m \in Member : Class(t, m)' = Class(t, m) /\ Backup(t, m)' = Backup(t, m)
  BY DEF Frame, Class, Backup
<1>4. (Original(t)' <=> Original(t)) /\ (Replaced(t)' <=> Replaced(t))
      /\ (Both(t, "original")' <=> Both(t, "original"))
  BY <1>3 DEF Frame, Original, Replaced, Both
<1>5. (Undecided(t)' <=> Undecided(t)) /\ (Rolling(t)' <=> Rolling(t))
  BY <1>1, <1>2 DEF Undecided, Rolling, Phase
<1>6. \A m \in Member : Restorable(t, m)' <=> Restorable(t, m)
  BY <1>3 DEF Frame, Restorable
<1>7. Marks(t)' <=> Marks(t)
  BY <1>1, <1>2, <1>4, <1>6 DEF Marks, RollingBack, Phase
<1> QED BY <1>2, <1>3, <1>4, <1>5, <1>7

\* The same for the record of the job in progress.
LEMMA FrameCur ==
  ASSUME Frame, cur \in Token, cur' = cur
  PROVE  /\ NoPhase' <=> NoPhase
         /\ Mine(cur)' <=> Mine(cur)
         /\ Original(cur)' <=> Original(cur)
         /\ Replaced(cur)' <=> Replaced(cur)
         /\ \A m \in Member : Class(cur, m)' = Class(cur, m) /\ Backup(cur, m)' = Backup(cur, m)
         /\ Both(cur, "original")' <=> Both(cur, "original")
         /\ Undecided(cur)' <=> Undecided(cur)
         /\ Rolling(cur)' <=> Rolling(cur)
<1>1. \A n \in Phase : dir'[n] = dir[n] /\ Proof(cur, n)' = Proof(cur, n)
  BY DEF Frame, Proof, Phase
<1>2. (NoPhase' <=> NoPhase) /\ (Mine(cur)' <=> Mine(cur))
  BY <1>1 DEF NoPhase, Mine
<1>3. \A m \in Member : Class(cur, m)' = Class(cur, m) /\ Backup(cur, m)' = Backup(cur, m)
  BY DEF Frame, Class, Backup
<1>4. (Original(cur)' <=> Original(cur)) /\ (Replaced(cur)' <=> Replaced(cur))
      /\ (Both(cur, "original")' <=> Both(cur, "original"))
  BY <1>3 DEF Frame, Original, Replaced, Both
<1>5. (Undecided(cur)' <=> Undecided(cur)) /\ (Rolling(cur)' <=> Rolling(cur))
  BY <1>1, <1>2 DEF Undecided, Rolling, Phase
<1> QED BY <1>2, <1>3, <1>4, <1>5

LEMMA FrameDir == ASSUME RestOK, Frame, DirInv, RecInv PROVE DirInv' /\ RecInv'
<1>1. \A t \in 1..last : t \in Token
  BY PairAssumption DEF RestOK, Token
<1>2. DirInv'
  BY <1>1, FrameRecord DEF DirInv, Frame, NoPhase
<1>3. RecInv'
  BY DEF RecInv, Frame
<1> QED BY <1>2, <1>3

LEMMA UnchangedFrame == ASSUME UNCHANGED files, UNCHANGED <<rec, last>> PROVE Frame
BY DEF files, Frame

\* Where no record is in progress the steps claim nothing.
LEMMA RestInv == ASSUME step' \in {"idle", "look", "ready"} PROVE StepInv'
BY DEF StepInv, PrepareInv, InstallInv, MarkInv, RollbackInv, CleanInv, BeforeJournal,
       AfterJournal, MarkSteps, SwapSteps, RestoreSteps, CleanSteps

LEMMA ToClean ==
  ASSUME step' \in CleanSteps, Mine(cur)',
         dir'["commit"] = Absent => NoPhase' \/ Both(cur, "original")'
  PROVE  StepInv'
BY DEF StepInv, PrepareInv, InstallInv, MarkInv, RollbackInv, CleanInv, BeforeJournal,
       AfterJournal, MarkSteps, SwapSteps, RestoreSteps, CleanSteps

LEMMA ToMark == ASSUME step' = "mark", op' # "install", Undecided(cur)' PROVE StepInv'
BY DEF StepInv, PrepareInv, InstallInv, MarkInv, RollbackInv, CleanInv, BeforeJournal,
       AfterJournal, MarkSteps, SwapSteps, RestoreSteps, CleanSteps

LEMMA ToRecover == ASSUME step' = "recover", Mine(cur)', ~NoPhase' PROVE StepInv'
BY DEF StepInv, PrepareInv, InstallInv, MarkInv, RollbackInv, CleanInv, BeforeJournal,
       AfterJournal, MarkSteps, SwapSteps, RestoreSteps, CleanSteps

LEMMA ToUndo ==
  ASSUME step' = "undo", Mine(cur)', dir'["commit"] = Absent => dir'["rollback"] = Prepared(cur)'
  PROVE  StepInv'
BY DEF StepInv, PrepareInv, InstallInv, MarkInv, RollbackInv, CleanInv, BeforeJournal,
       AfterJournal, MarkSteps, SwapSteps, RestoreSteps, CleanSteps

LEMMA ToBefore ==
  ASSUME step' \in BeforeJournal, NoPhase', Original(cur)',
         step' = "publish" => priv'[cur']["journalNew"] = Prepared(cur')
  PROVE  StepInv'
BY DEF StepInv, PrepareInv, InstallInv, MarkInv, RollbackInv, CleanInv, BeforeJournal,
       AfterJournal, MarkSteps, SwapSteps, RestoreSteps, CleanSteps

LEMMA ToAfter ==
  ASSUME step' \in AfterJournal \cup {"scratch"}, Original(cur)',
         \/ dir'["journal"] = Prepared(cur')
         \/ step' = "scratch" /\ dir'["journal"] = Absent,
         dir'["commit"] = Absent, dir'["rollback"] = Absent
  PROVE  StepInv'
BY DEF StepInv, PrepareInv, InstallInv, MarkInv, RollbackInv, CleanInv, BeforeJournal,
       AfterJournal, MarkSteps, SwapSteps, RestoreSteps, CleanSteps

LEMMA ToMarking ==
  ASSUME step' \in MarkSteps, Undecided(cur)',
         step' = "markMove" => dir'["rollbackNew"] = Prepared(cur'),
         step' = "markConfirm" => dir'["rollback"] = Prepared(cur'),
         op' = "install" => \A m \in Member : priv'[cur'][BackupOf(m)] = Backup(cur, m)'
  PROVE  StepInv'
BY DEF StepInv, PrepareInv, InstallInv, MarkInv, RollbackInv, CleanInv, BeforeJournal,
       AfterJournal, MarkSteps, SwapSteps, RestoreSteps, CleanSteps

LEMMA ToSwap ==
  ASSUME step' \in SwapSteps, Rolling(cur)',
         \A m \in Member : priv'[cur'][BackupOf(m)] = Backup(cur, m)',
         step' \in {"instDelete", "instMove"} => priv'[cur'][StageOf(mem')] = New(cur'),
         step' = "commitMove" => Replaced(cur)'
  PROVE  StepInv'
BY DEF StepInv, PrepareInv, InstallInv, MarkInv, RollbackInv, CleanInv, BeforeJournal,
       AfterJournal, MarkSteps, SwapSteps, RestoreSteps, CleanSteps

LEMMA ToReclassify == ASSUME step' = "reclassify", Rolling(cur)' PROVE StepInv'
BY DEF StepInv, PrepareInv, InstallInv, MarkInv, RollbackInv, CleanInv, BeforeJournal,
       AfterJournal, MarkSteps, SwapSteps, RestoreSteps, CleanSteps

LEMMA ToCommitConfirm == ASSUME step' = "commitConfirm", Mine(cur)' PROVE StepInv'
BY DEF StepInv, PrepareInv, InstallInv, MarkInv, RollbackInv, CleanInv, BeforeJournal,
       AfterJournal, MarkSteps, SwapSteps, RestoreSteps, CleanSteps

LEMMA ToRestoring ==
  ASSUME step' \in RestoreSteps, Rolling(cur)',
         step' = "restore" => cls'[mem'] = Class(cur, mem)',
         step' = "restoreMove" => Class(cur, mem)' = "missing",
         step' \in {"restore", "restoreMove", "restoreConfirm"} =>
           /\ mem' = "native" => cls'["raster"] = Class(cur, "raster")'
           /\ mem' = "raster" => Class(cur, "native")' = "original",
         step' = "restored" => Both(cur, "original")'
  PROVE  StepInv'
BY DEF StepInv, PrepareInv, InstallInv, MarkInv, RollbackInv, CleanInv, BeforeJournal,
       AfterJournal, MarkSteps, SwapSteps, RestoreSteps, CleanSteps

LEMMA ReleaseRestInv == ASSUME Release PROVE StepInv'
BY RestInv DEF Release

(***************************************************************************)
(* The steps, one lemma per group of actions.                              *)
(***************************************************************************)
LEMMA UserPair == ASSUME Safe, User \/ Reader PROVE PairInv'
<1> USE DEF Safe, PairInv
<1>1. Frame
  BY UnchangedFrame DEF User, Reader, BeginOpen, BeginSave, Begin, Close, ReadPair
<1>2. DirInv' /\ RecInv'
  BY <1>1, FrameDir DEF TypeInv
<1>3. ASSUME NEW d \in Doc, BeginOpen(d) \/ BeginSave(d) PROVE StepInv'
  BY <1>3, RestInv DEF BeginOpen, BeginSave, Begin
<1>4. ASSUME NEW d \in Doc, Close(d) \/ ReadPair(d) PROVE StepInv'
  <2>1. UNCHANGED <<dir, priv, rec, step, op, cur, mem, cls>>
    BY <1>4 DEF Close, ReadPair, files, job
  <2>2. PrepareInv' /\ MarkInv'
    BY <2>1 DEF StepInv, PrepareInv, MarkInv, NoPhase, Original, Mine, Proof, Backup, Undecided
  <2>3. InstallInv' /\ CleanInv'
    BY <2>1 DEF StepInv, InstallInv, CleanInv, NoPhase, Mine, Proof, Backup, Rolling, Replaced,
                Both, Class
  <2>4. RollbackInv'
    BY <2>1 DEF StepInv, RollbackInv, NoPhase, Mine, Proof, Backup, Rolling, Both, Class
  <2> QED BY <2>2, <2>3, <2>4 DEF StepInv
<1> QED BY <1>2, <1>3, <1>4 DEF User, Reader

LEMMA RecoveryPair == ASSUME Safe, Recovery PROVE PairInv'
<1> USE DEF Safe, PairInv
<1>1. Frame
  BY UnchangedFrame DEF Recovery, Look, RecoverClean, RecoverRollBack, RecoverFails, OpenRecovered,
                        Goto, RecoveryFailed, Silent, Kept
<1>2. DirInv' /\ RecInv'
  BY <1>1, FrameDir DEF TypeInv
<1>3. CASE step' \in {"idle", "ready"}
  BY <1>2, <1>3, RestInv
<1>4. ASSUME NEW t \in 1..last, Source(t), cur' = t, step' = "recover" PROVE StepInv'
  <2>1. Mine(t) /\ ~NoPhase
    <3>1. ~NoPhase
      BY <1>4, MarkerFacts DEF Source, NoPhase, Phase, TypeInv, RestOK
    <3>2. PICK u \in 1..last : Mine(u)
      BY <3>1 DEF DirInv, Marks
    <3>3. u = t
      BY <1>4, <3>2, MarkerFacts, ProofFacts DEF Source, Mine, Phase, TypeInv, RestOK
    <3> QED BY <3>1, <3>2, <3>3
  <2>2. t \in Token
    BY PairAssumption DEF TypeInv, RestOK, Token
  <2>3. Mine(cur)' /\ ~NoPhase'
    BY <1>1, <1>4, <2>1, <2>2, FrameRecord DEF Mine, Proof
  <2> QED BY <1>4, <2>3, ToRecover
<1>5. CASE step = "recover" /\ step' # "idle"
  <2>1. /\ cur' = cur /\ op' = op /\ op # "install"
        /\ \/ step' = "clean" /\ Recoverable(cur) /\ Settled(cur)
           \/ step' = "mark" /\ Recoverable(cur) /\ ~Settled(cur)
    BY <1>5 DEF Recovery, Look, RecoverClean, RecoverRollBack, RecoverFails, OpenRecovered, Goto,
                RecoveryFailed, Release, FateInv, ControlOK, PendingInv, MarkSteps, SwapSteps,
                CleanSteps
  <2>2. Mine(cur) /\ ~NoPhase /\ cur \in Token
    BY <1>5, TokenType DEF StepInv, RollbackInv
  <2>3. step' = "clean" => (dir["commit"] = Absent => Both(cur, "original"))
    BY <2>1 DEF Settled
  <2>4. step' = "mark" => Undecided(cur)
    BY <2>1, <2>2 DEF Settled, Undecided, NoPhase, Phase
  <2>5. dir'["commit"] = dir["commit"] /\ (NoPhase' <=> NoPhase) /\ (Mine(cur)' <=> Mine(cur))
        /\ (Both(cur, "original")' <=> Both(cur, "original"))
        /\ (Undecided(cur)' <=> Undecided(cur))
    BY <1>1, <2>1, <2>2, FrameCur DEF Frame, Phase
  <2>6. CASE step' = "clean"
    BY <1>2, <2>2, <2>3, <2>5, <2>6, ToClean DEF CleanSteps
  <2>7. CASE step' = "mark"
    BY <1>2, <2>1, <2>4, <2>5, <2>7, ToMark
  <2> QED BY <2>1, <2>6, <2>7
<1>6. CASE Look
  <2>1. step' \in {"idle", "ready"} \/ \E t \in 1..last : Source(t) /\ cur' = t /\ step' = "recover"
    BY <1>6 DEF Look, Goto, RecoveryFailed, Release
  <2> QED BY <1>2, <1>3, <1>4, <2>1
<1>7. CASE OpenRecovered
  BY <1>3, <1>7 DEF OpenRecovered, Release
<1>8. CASE RecoverClean \/ RecoverRollBack \/ RecoverFails
  BY <1>2, <1>3, <1>5, <1>8 DEF RecoverClean, RecoverRollBack, RecoverFails
<1> QED BY <1>6, <1>7, <1>8 DEF Recovery

LEMMA MarkFailedPair ==
  ASSUME Safe, step \in MarkSteps \cup RestoreSteps \cup {"undo"}, MarkFailed PROVE PairInv'
<1> USE DEF Safe, PairInv
<1>1. Frame
  BY UnchangedFrame DEF MarkFailed, RecoveryFailed, Kept
<1>2. DirInv' /\ RecInv'
  BY <1>1, FrameDir DEF TypeInv
<1>3. CASE op = "install"
  <2>1. step \in MarkSteps
    BY <1>3 DEF FateInv, ControlOK, PendingInv, MarkSteps, SwapSteps, RestoreSteps, CleanSteps
  <2>2. Mine(cur) /\ ~NoPhase /\ cur \in Token
    BY <2>1, TokenType DEF StepInv, MarkInv, Undecided, NoPhase, Phase, MarkSteps
  <2>3. cur' = cur /\ step' = "recover"
    BY <1>3 DEF MarkFailed, Recovering
  <2> QED BY <1>1, <1>2, <2>2, <2>3, FrameCur, ToRecover
<1>4. CASE op # "install"
  BY <1>2, <1>4, ReleaseRestInv DEF MarkFailed, RecoveryFailed
<1> QED BY <1>3, <1>4

LEMMA BeginInstallPair == ASSUME Safe, InstallBegins \/ PreparedDropped PROVE PairInv'
<1> USE DEF Safe, PairInv
<1>1. Frame
  BY UnchangedFrame DEF InstallBegins, PreparedDropped, Silent, Kept
<1>2. DirInv' /\ RecInv'
  BY <1>1, FrameDir DEF TypeInv
<1>3. /\ cur \in Token /\ Original(cur)
      /\ dir["journal"] = Prepared(cur) /\ dir["commit"] = Absent /\ dir["rollback"] = Absent
  BY TokenType DEF InstallBegins, PreparedDropped, StepInv, PrepareInv, AfterJournal
<1>4. Mine(cur) /\ Undecided(cur) /\ Both(cur, "original")
  <2>1. Mine(cur)
    BY <1>3, ProofFacts DEF Mine, Phase
  <2>2. dir["journal"] # Absent
    BY <1>3, MarkerFacts DEF Token
  <2>3. Both(cur, "original")
    BY <1>3, ClassFacts DEF Both, Original
  <2> QED BY <1>3, <2>1, <2>2, <2>3 DEF Undecided
<1>5. CASE cur' = cur
  <2>1. Mine(cur)' /\ Undecided(cur)' /\ Both(cur, "original")'
        /\ \A m \in Member : Backup(cur, m)' = Backup(cur, m)
    BY <1>1, <1>3, <1>4, <1>5, FrameCur
  <2>2. CASE InstallBegins
    <3>1. \A m \in Member : priv[cur][BackupOf(m)] = Backup(cur, m)
      BY <2>2 DEF InstallBegins, PreparedExact, Proof, Member, Private, BackupOf
    <3>2. \A m \in Member : priv'[cur][BackupOf(m)] = Backup(cur, m)'
      BY <1>1, <1>3, <2>1, <3>1 DEF Frame
    <3> QED BY <1>2, <1>5, <2>1, <2>2, <3>2
            DEF InstallBegins, StepInv, PrepareInv, InstallInv, MarkInv, RollbackInv, CleanInv,
                BeforeJournal, AfterJournal, MarkSteps, SwapSteps, RestoreSteps, CleanSteps
  <2>3. CASE PreparedDropped /\ step' = "clean"
    BY <1>2, <2>1, <2>3, ToClean DEF CleanSteps
  <2> QED BY <1>2, <2>2, <2>3, ReleaseRestInv DEF PreparedDropped
<1>6. CASE cur' # cur
  BY <1>2, <1>6, ReleaseRestInv DEF InstallBegins, PreparedDropped
<1> QED BY <1>5, <1>6

\* Before its rollback marker is published a save leaves the originals alone.
LEMMA UnmarkedDir ==
  ASSUME cur' \in 1..last', dir'["commit"] = Absent, dir'["rollback"] = Absent,
         dir'["journal"] \in {Absent, Prepared(cur')}, Original(cur)'
  PROVE  DirInv'
<1>1. Mine(cur)'
  BY DEF Mine, Phase, Proof
<1>2. Marks(cur)'
  BY <1>1 DEF Marks, RollingBack
<1> QED BY <1>2 DEF DirInv

LEMMA PreparePair == ASSUME Safe, Prepare PROVE PairInv'
<1> USE DEF Safe, PairInv
<1>1. CASE PrepareBegins
  <2>1. NoPhase /\ last \in Nat /\ last + 1 \in Token /\ dir' = dir
    BY <1>1, PairAssumption
       DEF PrepareBegins, MayReplace, NoEvidence, NoPhase, Phase, Marker, files,
           TypeInv, RestOK, SaveInv, Token, BeforeJournal, AfterJournal
  <2>2. rec'[last + 1] = Targets /\ cur' = last + 1 /\ last' = last + 1 /\ step' = "stage"
    BY <1>1, <2>1 DEF PrepareBegins, TypeInv, RestOK
  <2>3. NoPhase' /\ Original(cur)'
    BY <2>1, <2>2 DEF NoPhase, Original, Targets
  <2>4. RecInv'
    <3>1. \A m \in Member : dir'[m].kind \in {"new", "old"} => dir'[m].by <= last'
      BY <2>1, <2>2 DEF RecInv, TypeInv, FilesOK, Object, Shared
    <3>2. ASSUME NEW t \in Token, NEW m \in Member, rec'[t][m].kind \in {"new", "old"}
          PROVE  rec'[t][m].by # t
      <4>1. CASE t = last + 1
        BY <2>1, <2>2, <3>2, <4>1 DEF RecInv, Targets, TypeInv, FilesOK, Object, Shared
      <4>2. CASE t # last + 1
        BY <1>1, <3>2, <4>2 DEF PrepareBegins, RecInv, TypeInv, RestOK
      <4> QED BY <4>1, <4>2
    <3> QED BY <3>1, <3>2 DEF RecInv
  <2>5. StepInv'
    BY <2>2, <2>3, ToBefore DEF BeforeJournal
  <2> QED BY <2>3, <2>4, <2>5 DEF DirInv
<1>2. CASE PrepareRefused
  <2>1. Frame
    BY <1>2, UnchangedFrame DEF PrepareRefused, Kept
  <2> QED BY <1>2, <2>1, FrameDir, ReleaseRestInv DEF PrepareRefused, TypeInv
<1>3. CASE step \in BeforeJournal \cup AfterJournal \cup {"scratch"}
  <2>1. cur \in Token /\ cur \in 1..last /\ mem \in Member /\ Original(cur)
        /\ dir["commit"] = Absent /\ dir["rollback"] = Absent
        /\ dir["journal"] \in {Absent, Prepared(cur)}
    BY <1>3, TokenType DEF StepInv, PrepareInv, BeforeJournal, AfterJournal, NoPhase, Phase,
                           TypeInv, JobOK
  <2>2. CASE Stage \/ BackUp \/ WriteJournal
    <3>1. \E n \in Private, o \in {New(cur), Backup(cur, mem), Prepared(cur)} :
             /\ Put(cur, n, o)
             /\ step' = "publish" => n = "journalNew" /\ o = Prepared(cur)
      BY <2>1, <2>2 DEF Stage, BackUp, WriteJournal, Write, Goto, GotoMember, StageOf, BackupOf,
                        Private
    <3>2. step' \in BeforeJournal /\ cur' = cur /\ rec' = rec /\ last' = last
      BY <2>2 DEF Stage, BackUp, WriteJournal, Write, Goto, GotoMember, Kept, BeforeJournal
    <3>3. dir' = dir /\ (step' = "publish" => priv'[cur]["journalNew"] = Prepared(cur))
      BY <2>1, <3>1 DEF Put, Private, Shared, Member, Marker, TypeInv, FilesOK
    <3>4. NoPhase /\ step \in BeforeJournal
      BY <2>2 DEF Stage, BackUp, WriteJournal, Write, BeforeJournal, StepInv, PrepareInv
    <3>5. NoPhase' /\ Original(cur)' /\ RecInv'
      BY <2>1, <3>2, <3>3, <3>4 DEF NoPhase, Original, RecInv
    <3> QED BY <3>2, <3>3, <3>5, ToBefore DEF DirInv
  <2>3. CASE PublishJournal
    <3>1. /\ step' = "createCommit" /\ cur' = cur /\ rec' = rec /\ last' = last
          /\ dir' = [dir EXCEPT !["journal"] = priv[cur]["journalNew"]]
          /\ priv[cur]["journalNew"] = Prepared(cur)
      BY <2>3 DEF PublishJournal, Goto, Kept, StepInv, PrepareInv
    <3>2. /\ dir'["journal"] = Prepared(cur) /\ dir'["commit"] = Absent
          /\ dir'["rollback"] = Absent /\ \A m \in Member : dir'[m] = dir[m]
      BY <2>1, <3>1 DEF TypeInv, FilesOK, Shared, Marker, Member
    <3>3. Original(cur)' /\ RecInv'
      BY <2>1, <3>1, <3>2 DEF Original, RecInv
    <3> QED BY <2>1, <3>1, <3>2, <3>3, UnmarkedDir, ToAfter DEF AfterJournal
  <2>4. CASE CreateCommit \/ FillCommit \/ CreateRollback \/ FillRollback
    <3>1. /\ \E n \in {"commitNew", "rollbackNew"} : \E o : dir' = [dir EXCEPT ![n] = o]
          /\ step \in AfterJournal /\ step' \in AfterJournal
          /\ cur' = cur /\ rec' = rec /\ last' = last
      BY <2>4 DEF CreateCommit, FillCommit, CreateRollback, FillRollback, Write, Put, Goto, Kept,
                  AfterJournal, Shared, Marker
    <3>2. \A n \in Phase \cup Member : dir'[n] = dir[n]
      BY <3>1 DEF Phase, Member, TypeInv, FilesOK
    <3>3. dir["journal"] = Prepared(cur)
      BY <3>1 DEF StepInv, PrepareInv
    <3>4. Original(cur)' /\ RecInv'
      BY <2>1, <3>1, <3>2 DEF Original, RecInv
    <3> QED BY <2>1, <3>1, <3>2, <3>3, <3>4, UnmarkedDir, ToAfter DEF Phase
  <2>5. CASE Seal \/ PrepareFails \/ ScratchDone
    <3>1. Frame
      BY <2>5, UnchangedFrame DEF Seal, PrepareFails, ScratchDone, Silent, Kept
    <3>2. DirInv' /\ RecInv'
      BY <3>1, FrameDir DEF TypeInv
    <3>3. CASE ScratchDone
      BY <3>2, <3>3, ReleaseRestInv DEF ScratchDone
    <3>4. CASE Seal \/ PrepareFails
      <4>1. cur' = cur /\ step' \in AfterJournal \cup {"scratch"}
            /\ (step' = "scratch" \/ dir["journal"] = Prepared(cur))
        BY <3>4 DEF Seal, Goto, PrepareFails, AfterJournal, StepInv, PrepareInv
      <4>2. Original(cur)' /\ \A n \in Phase : dir'[n] = dir[n]
        BY <2>1, <3>1, <4>1, FrameCur DEF Frame
      <4>3. dir'["commit"] = Absent /\ dir'["rollback"] = Absent
            /\ \/ dir'["journal"] = Prepared(cur')
               \/ step' = "scratch" /\ dir'["journal"] = Absent
        BY <2>1, <4>1, <4>2 DEF Phase
      <4>4. StepInv'
        BY <4>1, <4>2, <4>3, ToAfter
      <4> QED BY <3>2, <4>4
    <3> QED BY <2>5, <3>3, <3>4
  <2>6. CASE ScratchRemoves
    <3>1. /\ step = "scratch" /\ step' = "scratch" /\ cur' = cur /\ rec' = rec /\ last' = last
          /\ \/ \E n \in Marker \cup Private : Put(cur, n, Absent)
             \/ UNCHANGED files
      BY <2>6 DEF ScratchRemoves, Kept, TypeInv, JobOK
    <3>2. dir' = dir \/ \E n \in Marker : dir' = [dir EXCEPT ![n] = Absent]
      <4>1. ASSUME NEW n \in Marker, Put(cur, n, Absent)
            PROVE  dir' = [dir EXCEPT ![n] = Absent]
        BY <4>1 DEF Put, Shared
      <4>2. ASSUME NEW n \in Private, Put(cur, n, Absent) PROVE dir' = dir
        BY <4>2 DEF Put, Shared, Private, Marker, Member
      <4> QED BY <3>1, <4>1, <4>2 DEF files
    <3>3. /\ dir'["journal"] \in {Absent, dir["journal"]}
          /\ dir'["commit"] \in {Absent, dir["commit"]}
          /\ dir'["rollback"] \in {Absent, dir["rollback"]}
          /\ \A m \in Member : dir'[m] = dir[m]
      BY <3>2 DEF TypeInv, FilesOK, Shared, Marker, Member
    <3>4. Original(cur)' /\ RecInv'
      BY <2>1, <3>1, <3>3 DEF Original, RecInv
    <3>5. DirInv'
      BY <2>1, <3>1, <3>3, <3>4, UnmarkedDir
    <3>6. StepInv'
      BY <2>1, <3>1, <3>3, <3>4, ToAfter
    <3> QED BY <3>4, <3>5, <3>6
  <2> QED BY <1>3, <2>2, <2>3, <2>4, <2>5, <2>6
          DEF Prepare, PrepareBegins, PrepareRefused, BeforeJournal, AfterJournal
<1>4. Prepare => PrepareBegins \/ PrepareRefused
                 \/ step \in BeforeJournal \cup AfterJournal \cup {"scratch"}
  BY DEF Prepare, Stage, BackUp, WriteJournal, Write, PublishJournal, CreateCommit, FillCommit,
         CreateRollback, FillRollback, Seal, PrepareFails, Preparing, ScratchRemoves, ScratchDone,
         BeforeJournal, AfterJournal
<1> QED BY <1>1, <1>2, <1>3, <1>4

LEMMA MarkingPair == ASSUME Safe, Marking PROVE PairInv'
<1> USE DEF Safe, PairInv
<1>1. /\ step \in MarkSteps /\ cur \in Token /\ cur \in 1..last /\ Undecided(cur)
      /\ Mine(cur) /\ ~NoPhase
      /\ op = "install" => \A m \in Member : priv[cur][BackupOf(m)] = Backup(cur, m)
  <2>1. step \in MarkSteps
    BY DEF Marking, Mark, MarkMove, MarkConfirm, MarkSteps
  <2> QED BY <2>1, TokenType DEF MarkSteps, StepInv, MarkInv, InstallInv, Undecided, NoPhase, Phase
<1>2. Marks(cur) /\ dir["commit"] = Absent
  BY <1>1, OnlyRecord DEF TypeInv, Undecided
<1>3. CASE MarkFailed
  BY <1>1, <1>3, MarkFailedPair
<1>4. CASE step' \in MarkSteps /\ Frame /\ cur' = cur /\ op' = op
           /\ (step' = "markMove" => dir'["rollbackNew"] = Prepared(cur))
           /\ (step' = "markConfirm" => dir'["rollback"] = Prepared(cur))
  <2>1. Undecided(cur)' /\ \A m \in Member : Backup(cur, m)' = Backup(cur, m)
    BY <1>1, <1>4, FrameCur
  <2>2. op' = "install" => \A m \in Member : priv'[cur'][BackupOf(m)] = Backup(cur, m)'
    BY <1>1, <1>4, <2>1 DEF Frame
  <2> QED BY <1>4, <2>1, <2>2, FrameDir, ToMarking DEF TypeInv
<1>5. CASE step' = AfterMark /\ Frame /\ cur' = cur /\ op' = op /\ dir["rollback"] = Prepared(cur)
  <2>1. Rolling(cur)
    BY <1>1, <1>2, <1>5 DEF Rolling
  <2>2. Rolling(cur)' /\ \A m \in Member : Backup(cur, m)' = Backup(cur, m)
    BY <1>1, <1>5, <2>1, FrameCur
  <2>3. op = "install" => \A m \in Member : priv'[cur'][BackupOf(m)] = Backup(cur, m)'
    BY <1>1, <1>5, <2>2 DEF Frame
  <2>4. DirInv' /\ RecInv'
    BY <1>5, FrameDir DEF TypeInv
  <2>5. CASE op = "install"
    BY <1>5, <2>2, <2>3, <2>4, <2>5, ToSwap DEF AfterMark, SwapSteps
  <2>6. CASE op # "install"
    BY <1>5, <2>2, <2>4, <2>6, ToReclassify DEF AfterMark
  <2> QED BY <2>5, <2>6
<1>6. CASE Mark /\ ~MarkFailed
  <2>1. MarkAllowed /\ cur' = cur /\ op' = op /\ rec' = rec /\ last' = last
    BY <1>6 DEF Mark, Goto, GotoMember, Kept
  <2>2. CASE dir["rollback"] # Absent
    <3>1. step' = AfterMark /\ UNCHANGED files /\ dir["rollback"] = Prepared(cur)
      BY <1>6, <2>1, <2>2 DEF Mark, GotoMember, MarkAllowed
    <3> QED BY <1>5, <2>1, <3>1, UnchangedFrame
  <2>3. CASE MarkStageExact /\ step' = "markMove" /\ UNCHANGED files
    <3>1. Frame /\ dir'["rollbackNew"] = Prepared(cur)
      BY <2>1, <2>3, UnchangedFrame DEF MarkStageExact, files
    <3> QED BY <1>4, <2>1, <2>3, <3>1 DEF MarkSteps
  <2>4. dir["rollback"] = Absent => MarkStageExact /\ step' = "markMove" /\ UNCHANGED files
    BY <1>6 DEF Mark, Goto
  <2> QED BY <2>2, <2>3, <2>4
<1>7. CASE MarkMove /\ ~MarkFailed
  <2>1. /\ step' = "markConfirm" /\ cur' = cur /\ op' = op /\ rec' = rec /\ last' = last
        /\ dir["rollback"] = Absent /\ priv' = priv
        /\ dir' = [dir EXCEPT !["rollback"] = Prepared(cur), !["rollbackNew"] = Absent]
    BY <1>7 DEF MarkMove, Goto, Kept, StepInv, MarkInv
  <2>2. /\ dir'["rollback"] = Prepared(cur) /\ dir'["journal"] = dir["journal"]
        /\ dir'["commit"] = Absent /\ \A m \in Member : dir'[m] = dir[m]
    BY <1>2, <2>1 DEF Shared, Marker, Member, TypeInv, FilesOK
  <2>3. Mine(cur)' /\ Undecided(cur)' /\ RollingBack'
    BY <1>1, <2>1, <2>2, MarkerFacts DEF Mine, Undecided, RollingBack, Proof, Phase, Token
  <2>4. \A m \in Member : Class(cur, m) = "original"
    BY <1>1, <1>2, <2>1, ClassFacts DEF Marks, RollingBack, Original
  <2>5. \A m \in Member : Class(cur, m)' = "original" /\ Backup(cur, m)' = Backup(cur, m)
    BY <2>1, <2>2, <2>4 DEF Class, Backup
  <2>6. Marks(cur)'
    BY <2>2, <2>3, <2>5 DEF Marks, Restorable
  <2>7. RecInv'
    BY <2>1, <2>2 DEF RecInv
  <2>8. op' = "install" => \A m \in Member : priv'[cur'][BackupOf(m)] = Backup(cur, m)'
    BY <1>1, <2>1, <2>5
  <2>9. StepInv'
    BY <2>1, <2>2, <2>3, <2>8, ToMarking DEF MarkSteps
  <2>10. DirInv'
    BY <1>1, <2>1, <2>6 DEF DirInv
  <2> QED BY <2>7, <2>9, <2>10
<1>8. CASE MarkConfirm /\ ~MarkFailed
  <2>1. step' = AfterMark /\ cur' = cur /\ op' = op /\ dir["rollback"] = Prepared(cur) /\ Frame
    BY <1>8, UnchangedFrame DEF MarkConfirm, GotoMember, Silent, Kept
  <2> QED BY <1>5, <2>1
<1> QED BY <1>3, <1>6, <1>7, <1>8 DEF Marking

\* Under a rollback marker a member may be gone, replaced or brought back, as
\* long as its backup is there whenever it has not come back.
LEMMA MemberMoves ==
  ASSUME Safe, Rolling(cur), cur \in 1..last, cur' = cur, UNCHANGED <<rec, last>>,
         NEW m \in Member,
         dir'[m] \in {Absent, New(cur), Backup(cur, m)},
         \A n \in (Phase \cup Member) \ {m} : dir'[n] = dir[n],
         \A k \in Member \ {m} : priv'[cur][BackupOf(k)] = priv[cur][BackupOf(k)],
         dir'[m] = Backup(cur, m) \/ priv'[cur][BackupOf(m)] = Backup(cur, m)
  PROVE  /\ DirInv' /\ RecInv' /\ Rolling(cur)'
         /\ \A k \in Member : Backup(cur, k)' = Backup(cur, k)
         /\ \A k \in Member \ {m} : Class(cur, k)' = Class(cur, k)
         /\ dir'[m] = Absent /\ rec[cur][m] # Absent => Class(cur, m)' = "missing"
         /\ dir'[m] = Backup(cur, m) => Class(cur, m)' = "original"
<1> USE DEF Safe, PairInv
<1>1. cur \in Token /\ cur \in Nat
  BY PairAssumption DEF TypeInv, RestOK, Token
<1>2. /\ dir[m] \in Object /\ rec[cur][m] \in Object /\ Backup(cur, m) \in Object
      /\ rec[cur][m].kind \in {"new", "old"} => rec[cur][m].by # cur
  BY <1>1, BackupType DEF TypeInv, FilesOK, RestOK, Shared, RecInv
<1>3. \A k \in Member : Backup(cur, k)' = Backup(cur, k)
  BY DEF Backup
<1>4. \A k \in Member \ {m} : Class(cur, k)' = Class(cur, k)
  BY DEF Class
<1>4a. \A k \in Member \ {m} : Restorable(cur, k)' <=> Restorable(cur, k)
  BY <1>3, <1>4 DEF Restorable
<1>5. /\ dir'[m] = Absent /\ rec[cur][m] # Absent => Class(cur, m)' = "missing"
      /\ dir'[m] = Absent /\ rec[cur][m] = Absent => Class(cur, m)' = "original"
      /\ dir'[m] = Backup(cur, m) => Class(cur, m)' = "original"
      /\ dir'[m] = New(cur) => Class(cur, m)' = "replacement"
  <2>1. dir'[m] \in Object
    BY <1>1, <1>2, ObjectType
  <2>2. Class(cur, m)' = Classify(cur, dir'[m], rec[cur][m])
    BY DEF Class
  <2> QED BY <1>1, <1>2, <2>1, <2>2, ClassifyFacts DEF Backup
<1>6. Restorable(cur, m)'
  BY <1>3, <1>5 DEF Restorable
<1>7. Rolling(cur)'
  <2>1. \A n \in Phase : dir'[n] = dir[n]
    BY DEF Phase, Member
  <2> QED BY <2>1 DEF Rolling, Mine, Phase, Proof
<1>8. Marks(cur)'
  <2>1. ~NoPhase /\ Mine(cur)
    BY <1>1, MarkerFacts DEF Rolling, NoPhase, Phase
  <2>2. Marks(cur) /\ RollingBack
    BY <1>1, <2>1, OnlyRecord, MarkerFacts DEF TypeInv, Rolling, RollingBack
  <2>3. \A k \in Member : Restorable(cur, k)'
    BY <1>4a, <1>6, <2>2 DEF Marks, Rolling
  <2>4. RollingBack' /\ Mine(cur)' /\ dir'["commit"] = Absent
    BY <1>1, <1>7, MarkerFacts DEF Rolling, RollingBack
  <2> QED BY <2>3, <2>4 DEF Marks
<1>9. DirInv'
  BY <1>8 DEF DirInv
<1>10. RecInv'
  <2>1. \A k \in Member \ {m} : dir'[k].kind \in {"new", "old"} => dir'[k].by <= last'
    BY DEF RecInv
  <2>2. dir'[m].kind \in {"new", "old"} => dir'[m].by <= last'
    BY <1>1 DEF Absent, New, Backup, CopyOf, File
  <2> QED BY <2>1, <2>2 DEF RecInv
<1> QED BY <1>3, <1>4, <1>5, <1>7, <1>9, <1>10

LEMMA InstFailsPair ==
  ASSUME Safe, cur \in Token, Mine(cur), dir["commit"] = Absent => dir["rollback"] = Prepared(cur),
         NEW c, InstFails(c)
  PROVE  PairInv'
<1> USE DEF Safe, PairInv
<1>1. Frame /\ cur' = cur /\ step' = "undo"
  BY UnchangedFrame DEF InstFails, Kept
<1>2. Mine(cur)' /\ dir'["commit"] = dir["commit"] /\ dir'["rollback"] = dir["rollback"]
  BY <1>1, FrameCur DEF Frame, Phase
<1> QED BY <1>1, <1>2, FrameDir, ToUndo DEF TypeInv

LEMMA InstallPair == ASSUME Safe, Install PROVE PairInv'
<1> USE DEF Safe, PairInv
<1>1. /\ step \in SwapSteps \cup {"commitConfirm"} /\ cur \in Token /\ cur \in 1..last
      /\ mem \in Member /\ op = "install"
  <2>1. step \in SwapSteps \cup {"commitConfirm"}
    BY DEF Install, InstVerify, InstDelete, InstMove, InstConfirm, Final, CommitMove,
           CommitConfirm, SwapSteps
  <2> QED BY <2>1, TokenType
          DEF SwapSteps, TypeInv, JobOK, FateInv, ControlOK, PendingInv, DecidedInv
<1>2. CASE step = "commitConfirm"
  <2>1. Mine(cur) /\ dir["commit"] # Absent
    BY <1>1, <1>2, MarkerFacts
       DEF StepInv, InstallInv, FateInv, ControlOK, DecidedInv, Token
  <2>2. CASE op' = "undo"
    BY <1>1, <1>2, <2>1, <2>2, InstFailsPair
       DEF Install, InstVerify, InstDelete, InstMove, InstConfirm, Final, CommitMove,
           CommitConfirm, Goto
  <2>3. CASE op' # "undo"
    <3>1. step' = "clean" /\ cur' = cur /\ Frame
      BY <1>1, <1>2, <2>3, UnchangedFrame
         DEF Install, InstVerify, InstDelete, InstMove, InstConfirm, Final, CommitMove,
             CommitConfirm, Goto, InstFails, Silent, Kept
    <3>2. Mine(cur)' /\ dir'["commit"] # Absent
      BY <1>1, <2>1, <3>1, FrameCur DEF Frame, Phase
    <3> QED BY <3>1, <3>2, FrameDir, ToClean DEF TypeInv, CleanSteps
  <2> QED BY <2>2, <2>3
<1>3. CASE step \in SwapSteps
  <2>1. Rolling(cur) /\ \A m \in Member : priv[cur][BackupOf(m)] = Backup(cur, m)
    BY <1>1, <1>3 DEF StepInv, InstallInv
  <2>2. Mine(cur) /\ dir["commit"] = Absent /\ dir["rollback"] = Prepared(cur)
    BY <2>1 DEF Rolling
  <2>3. ASSUME NEW c, InstFails(c) PROVE PairInv'
    BY <1>1, <2>2, <2>3, InstFailsPair
  <2>4. CASE (InstVerify \/ InstConfirm \/ Final) /\ op' # "undo"
    <3>1. /\ Frame /\ cur' = cur /\ step' \in SwapSteps
          /\ (step' \in {"instDelete", "instMove"} => mem' = mem /\ priv'[cur][StageOf(mem)] = New(cur))
          /\ (step' = "commitMove" => Replaced(cur))
      BY <1>1, <2>4, UnchangedFrame
         DEF InstVerify, InstConfirm, Final, InstFails, Goto, GotoMember, Silent, Kept, StageReady,
             FinalFence, Replaced, SwapSteps, files
    <3>2. /\ Rolling(cur)' /\ (step' = "commitMove" => Replaced(cur)')
          /\ \A m \in Member : priv'[cur][BackupOf(m)] = Backup(cur, m)'
      BY <1>1, <2>1, <3>1, FrameCur DEF Frame
    <3> QED BY <3>1, <3>2, FrameDir, ToSwap DEF TypeInv
  <2>5. CASE (InstDelete \/ InstMove) /\ op' # "undo"
    <3>1. priv[cur][StageOf(mem)] = New(cur)
      BY <2>5 DEF InstDelete, InstMove, StepInv, InstallInv
    <3>2. /\ cur' = cur /\ mem' = mem /\ UNCHANGED <<rec, last>>
          /\ dir' = [dir EXCEPT ![mem] = IF step = "instDelete" THEN Absent ELSE New(cur)]
          /\ priv' = priv \/ priv' = [priv EXCEPT ![cur][StageOf(mem)] = Absent]
          /\ \/ step' = "instMove" /\ priv' = priv
             \/ step' = "instConfirm"
      BY <1>1, <2>5, <3>1 DEF InstDelete, InstMove, InstFails, Put, Goto, Kept, Shared
    <3>3. /\ dir'[mem] \in {Absent, New(cur)}
          /\ \A n \in (Phase \cup Member) \ {mem} : dir'[n] = dir[n]
      BY <1>1, <3>2 DEF TypeInv, FilesOK, Shared, Marker, Member, Phase
    <3>4. \A m \in Member : priv'[cur][BackupOf(m)] = priv[cur][BackupOf(m)]
      BY <1>1, <3>2 DEF TypeInv, FilesOK, StageOf, BackupOf, Member, Private
    <3>5. DirInv' /\ RecInv' /\ Rolling(cur)' /\ \A m \in Member : Backup(cur, m)' = Backup(cur, m)
      BY <1>1, <2>1, <3>2, <3>3, <3>4, MemberMoves
    <3>6. \A m \in Member : priv'[cur'][BackupOf(m)] = Backup(cur, m)'
      BY <2>1, <3>2, <3>4, <3>5
    <3>7. StepInv'
      BY <3>1, <3>2, <3>5, <3>6, ToSwap DEF SwapSteps
    <3> QED BY <3>5, <3>7
  <2>6. CASE CommitMove /\ op' # "undo"
    <3>1. Replaced(cur) /\ dir["commitNew"] = Committed(cur)
      BY <2>6 DEF CommitMove, StepInv, InstallInv, FateInv, ControlOK, DecidedInv
    <3>2. /\ cur' = cur /\ UNCHANGED <<rec, last>> /\ step' = "commitConfirm"
          /\ dir' = [dir EXCEPT !["commit"] = Committed(cur), !["commitNew"] = Absent]
      BY <2>6, <3>1 DEF CommitMove, InstFails, Goto
    <3>3. /\ dir'["commit"] = Committed(cur) /\ dir'["journal"] = dir["journal"]
          /\ dir'["rollback"] = dir["rollback"] /\ \A m \in Member : dir'[m] = dir[m]
      BY <3>2 DEF TypeInv, FilesOK, Shared, Marker, Member
    <3>4. Mine(cur)' /\ Replaced(cur)' /\ RecInv'
      BY <2>2, <3>1, <3>2, <3>3 DEF Mine, Replaced, RecInv, Phase, Proof
    <3>5. Marks(cur)'
      BY <1>1, <3>3, <3>4, MarkerFacts DEF Marks, Token
    <3>6. DirInv' /\ StepInv'
      BY <1>1, <3>2, <3>4, <3>5, ToCommitConfirm DEF DirInv
    <3> QED BY <3>4, <3>6
  <2>7. CASE op' = "undo"
    BY <1>1, <1>3, <2>3, <2>7
       DEF Install, InstVerify, InstDelete, InstMove, InstConfirm, Final, CommitMove,
           CommitConfirm, Goto, GotoMember
  <2> QED BY <1>3, <2>4, <2>5, <2>6, <2>7 DEF Install, CommitConfirm, SwapSteps
<1> QED BY <1>1, <1>2, <1>3

\* A member has come back: the other one is next, or both have.
LEMMA NextMemberPair ==
  ASSUME Safe, cur \in Token, step \in {"restore", "restoreConfirm"}, NextMember, Rolling(cur)',
         \A m \in Member : m = mem => Class(cur, m)' = "original",
         \A m \in Member \ {mem} : Class(cur, m)' = Class(cur, m)
  PROVE  StepInv'
<1> USE DEF Safe, PairInv
<1>1. CASE mem = "native"
  <2>1. step' = "restore" /\ mem' = "raster" /\ cls' = cls
    BY <1>1 DEF NextMember, GotoMember
  <2>2. cls["raster"] = Class(cur, "raster")
    BY <1>1 DEF StepInv, RollbackInv
  <2>3. cls'["raster"] = Class(cur, "raster")' /\ Class(cur, "native")' = "original"
    BY <1>1, <2>1, <2>2 DEF Member
  <2>4. cls'[mem'] = Class(cur, mem)'
    BY <2>1, <2>3 DEF Class
  <2> QED BY <2>1, <2>3, <2>4, ToRestoring DEF RestoreSteps
<1>2. CASE mem = "raster"
  <2>1. step' = AfterRestore
    BY <1>2 DEF NextMember, GotoMember
  <2>2. Class(cur, "native") = "original"
    BY <1>2 DEF StepInv, RollbackInv
  <2>3. \A m \in Member : Class(cur, m)' = "original"
    BY <1>2, <2>2 DEF Member
  <2>4. Both(cur, "original")' /\ Mine(cur)'
    BY <2>3 DEF Both, Rolling
  <2> QED BY <2>1, <2>4, ToClean, ToRestoring DEF AfterRestore, CleanSteps, RestoreSteps
<1> QED BY <1>1, <1>2 DEF TypeInv, JobOK, Member

LEMMA RollbackPair == ASSUME Safe, Rollback PROVE PairInv'
<1> USE DEF Safe, PairInv
<1>1. /\ step \in RestoreSteps \cup {"undo"} /\ cur \in Token /\ cur \in 1..last
      /\ mem \in Member /\ op # "install"
  <2>1. step \in RestoreSteps \cup {"undo"}
    BY DEF Rollback, Undo, Reclassify, Restore, RestoreMove, RestoreConfirm, Restored, RestoreSteps
  <2> QED BY <2>1, TokenType DEF RestoreSteps, TypeInv, JobOK, FateInv, ControlOK, PendingInv,
                                 MarkSteps, SwapSteps, CleanSteps
<1>2. Mine(cur) /\ (step # "undo" => Rolling(cur))
  BY <1>1 DEF StepInv, RollbackInv, Rolling
<1>3. CASE MarkFailed
  BY <1>1, <1>3, MarkFailedPair
<1>4. CASE Undo /\ ~MarkFailed
  <2>1. /\ Frame /\ step' = "mark" /\ cur' = cur /\ op' = op /\ dir["commit"] = Absent
        /\ dir["rollback"] = Prepared(cur)
    BY <1>4, UnchangedFrame DEF Undo, Goto, Silent, Kept, UndoAllowed, StepInv, RollbackInv
  <2>2. Undecided(cur)
    BY <1>1, <1>2, <2>1, MarkerFacts DEF Undecided, Token
  <2>3. Undecided(cur)'
    BY <1>1, <2>1, <2>2, FrameCur
  <2> QED BY <1>1, <2>1, <2>3, FrameDir, ToMark DEF TypeInv
<1>5. CASE Reclassify /\ ~MarkFailed
  <2>1. Frame /\ step' = "restore" /\ cur' = cur /\ cls' = Classes(cur) /\ mem' = "native"
    BY <1>5, UnchangedFrame DEF Reclassify, Silent, Kept
  <2>2. Rolling(cur)' /\ \A m \in Member : Class(cur, m)' = Class(cur, m)
    BY <1>1, <1>2, <1>5, <2>1, FrameCur DEF Reclassify
  <2>3. cls'["native"] = Class(cur, "native")' /\ cls'["raster"] = Class(cur, "raster")'
    BY <2>1, <2>2 DEF Classes, Member
  <2>4. cls'[mem'] = Class(cur, mem)'
    BY <2>1, <2>3 DEF Class
  <2> QED BY <2>1, <2>2, <2>3, <2>4, FrameDir, ToRestoring DEF TypeInv, RestoreSteps
<1>6. CASE Restore /\ ~MarkFailed
  <2>1. step = "restore" /\ Rolling(cur) /\ cls[mem] = Class(cur, mem)
    BY <1>2, <1>6 DEF Restore, StepInv, RollbackInv
  <2>2. CASE UNCHANGED files
    <3>1. Frame /\ cur' = cur
      BY <1>6, <2>2, UnchangedFrame DEF Restore, NextMember, GotoMember, Goto, Silent, Kept
    <3>2. Rolling(cur)' /\ \A m \in Member : Class(cur, m)' = Class(cur, m)
      BY <1>1, <2>1, <3>1, FrameCur
    <3>3. DirInv' /\ RecInv'
      BY <3>1, FrameDir DEF TypeInv
    <3>4. CASE cls[mem] = "original" /\ NextMember
      BY <1>1, <2>1, <3>2, <3>3, <3>4, NextMemberPair
    <3>5. CASE cls[mem] = "missing" /\ Goto("restoreMove")
      <4>1. step' = "restoreMove" /\ mem' = mem /\ cls' = cls
        BY <3>5 DEF Goto
      <4>2. /\ mem = "native" => cls["raster"] = Class(cur, "raster")
            /\ mem = "raster" => Class(cur, "native") = "original"
        BY <2>1 DEF StepInv, RollbackInv
      <4>3. Class(cur, mem)' = "missing"
        BY <1>1, <2>1, <3>1, <3>5, <4>1 DEF Class, Frame
      <4> QED BY <3>2, <3>3, <4>1, <4>2, <4>3, ToRestoring DEF Member, RestoreSteps
    <3>6. ~(cls[mem] = "replacement" /\ dir[mem] = New(cur) /\ Put(cur, mem, Absent))
      BY <1>1, <2>2, MarkerFacts DEF Put, files, TypeInv, FilesOK, Shared, Token
    <3> QED BY <1>6, <3>4, <3>5, <3>6 DEF Restore
  <2>3. CASE ~UNCHANGED files
    <3>1. /\ cls[mem] = "replacement" /\ cur' = cur /\ UNCHANGED <<rec, last, priv>>
          /\ dir' = [dir EXCEPT ![mem] = Absent]
          /\ IF rec[cur][mem] = Absent THEN NextMember ELSE Goto("restoreMove")
      BY <1>1, <1>6, <2>3 DEF Restore, Put, Shared, Silent, Kept, NextMember, Goto, GotoMember
    <3>2. priv[cur][BackupOf(mem)] = Backup(cur, mem)
      <4>1. ~NoPhase /\ RollingBack
        BY <1>1, <2>1, MarkerFacts DEF Rolling, NoPhase, Phase, RollingBack, Token
      <4>2. Marks(cur)
        BY <1>1, <1>2, <4>1, OnlyRecord DEF TypeInv
      <4> QED BY <1>1, <2>1, <3>1, <4>1, <4>2 DEF Marks, Restorable, Rolling
    <3>3. /\ dir'[mem] = Absent
          /\ \A n \in (Phase \cup Member) \ {mem} : dir'[n] = dir[n]
      BY <1>1, <3>1 DEF TypeInv, FilesOK, Shared, Marker, Member, Phase
    <3>4. rec[cur][mem] = Absent => dir'[mem] = Backup(cur, mem)
      BY <1>1, <3>3 DEF Backup, CopyOf
    <3>5. /\ DirInv' /\ RecInv' /\ Rolling(cur)'
          /\ \A k \in Member \ {mem} : Class(cur, k)' = Class(cur, k)
          /\ \A m \in Member : m = mem =>
               Class(cur, m)' = IF rec[cur][m] = Absent THEN "original" ELSE "missing"
      <4>1. PICK m \in Member : m = mem
        BY <1>1
      <4> QED BY <1>1, <2>1, <3>1, <3>2, <3>3, <3>4, <4>1, MemberMoves
    <3>6. CASE rec[cur][mem] = Absent
      BY <1>1, <2>1, <3>1, <3>5, <3>6, NextMemberPair
    <3>7. CASE rec[cur][mem] # Absent
      <4>1. step' = "restoreMove" /\ mem' = mem /\ cls' = cls
        BY <3>1, <3>7 DEF Goto
      <4>2. /\ mem = "native" => cls["raster"] = Class(cur, "raster")
            /\ mem = "raster" => Class(cur, "native") = "original"
        BY <2>1 DEF StepInv, RollbackInv
      <4>3. Class(cur, mem)' = "missing"
        <5>1. PICK m \in Member : m = mem
          BY <1>1
        <5>2. Class(cur, m)' = "missing"
          BY <3>5, <3>7, <5>1
        <5> QED BY <4>1, <5>1, <5>2 DEF Class
      <4>4. /\ mem = "native" => cls["raster"] = Class(cur, "raster")'
            /\ mem = "raster" => Class(cur, "native")' = "original"
        BY <3>5, <4>2 DEF Member
      <4> QED BY <3>5, <4>1, <4>3, <4>4, ToRestoring DEF RestoreSteps
    <3> QED BY <3>6, <3>7
  <2> QED BY <2>2, <2>3
<1>7. CASE RestoreMove /\ ~MarkFailed
  <2>1. /\ step = "restoreMove" /\ Rolling(cur) /\ step' = "restoreConfirm" /\ cur' = cur
        /\ mem' = mem /\ cls' = cls /\ UNCHANGED <<rec, last>>
        /\ dir' = [dir EXCEPT ![mem] = Backup(cur, mem)]
        /\ priv' = [priv EXCEPT ![cur][BackupOf(mem)] = Absent]
    BY <1>2, <1>7 DEF RestoreMove, BackupReady, Goto, Kept
  <2>2. /\ dir'[mem] = Backup(cur, mem)
        /\ \A n \in (Phase \cup Member) \ {mem} : dir'[n] = dir[n]
    BY <1>1, <2>1 DEF TypeInv, FilesOK, Shared, Marker, Member, Phase
  <2>3. \A k \in Member \ {mem} : priv'[cur][BackupOf(k)] = priv[cur][BackupOf(k)]
    BY <1>1, <2>1 DEF TypeInv, FilesOK, BackupOf, Member, Private
  <2>4. /\ DirInv' /\ RecInv' /\ Rolling(cur)'
        /\ \A k \in Member \ {mem} : Class(cur, k)' = Class(cur, k)
    BY <1>1, <2>1, <2>2, <2>3, MemberMoves
  <2>5. /\ mem = "native" => cls["raster"] = Class(cur, "raster")
        /\ mem = "raster" => Class(cur, "native") = "original"
    BY <2>1 DEF StepInv, RollbackInv
  <2>6. /\ mem = "native" => cls["raster"] = Class(cur, "raster")'
        /\ mem = "raster" => Class(cur, "native")' = "original"
    BY <2>4, <2>5 DEF Member
  <2> QED BY <2>1, <2>4, <2>6, ToRestoring DEF RestoreSteps
<1>8. CASE RestoreConfirm /\ ~MarkFailed
  <2>1. step = "restoreConfirm" /\ NextMember /\ Frame /\ cur' = cur /\ dir[mem] = Backup(cur, mem)
    BY <1>8, UnchangedFrame DEF RestoreConfirm, NextMember, GotoMember, Silent, Kept
  <2>2. Rolling(cur)' /\ \A m \in Member : Class(cur, m)' = Class(cur, m)
    BY <1>1, <1>2, <2>1, FrameCur
  <2>3. Class(cur, mem) = "original"
    BY <1>1, <2>1, ClassFacts
  <2> QED BY <1>1, <2>1, <2>2, <2>3, FrameDir, NextMemberPair DEF TypeInv
<1>9. CASE Restored /\ ~MarkFailed
  <2>1. Frame /\ step' = "clean" /\ cur' = cur /\ Both(cur, "original")
    BY <1>9, UnchangedFrame DEF Restored, Silent, Kept, StepInv, RollbackInv
  <2>2. Mine(cur)' /\ Both(cur, "original")'
    BY <1>1, <1>2, <2>1, FrameCur
  <2> QED BY <2>1, <2>2, FrameDir, ToClean DEF TypeInv, CleanSteps
<1> QED BY <1>3, <1>4, <1>5, <1>6, <1>7, <1>8, <1>9 DEF Rollback

LEMMA ConcludePair == ASSUME NEW c, Conclude(c) PROVE StepInv'
BY RestInv, ReleaseRestInv DEF Conclude

\* Cleaning removes a phase marker only when the others that matter are gone.
LEMMA CleanOrder ==
  ASSUME NEW n \in todo, \A k \in todo : CleanRank(n) <= CleanRank(k)
  PROVE  /\ n = "commit" => "rollback" \notin todo /\ "journal" \notin todo
         /\ n = "rollback" /\ "commit" \notin todo => "journal" \notin todo
<1>1. /\ CleanRank("commit") = 9 /\ CleanRank("journal") = 8
      /\ CleanRank("rollback") = IF "commit" \in todo THEN 1 ELSE 9
  BY DEF CleanRank
<1> QED BY <1>1

LEMMA CleanupPair == ASSUME Safe, Cleanup PROVE PairInv'
<1> USE DEF Safe, PairInv
<1>1. step \in CleanSteps /\ cur \in Token /\ cur \in 1..last
  <2>1. step \in CleanSteps
    BY DEF Cleanup, Clean, CleanRemoves, CleanDone, CleanSteps
  <2> QED BY <2>1, TokenType DEF CleanSteps
<1>2. Mine(cur) /\ (dir["commit"] = Absent => NoPhase \/ Both(cur, "original"))
  BY <1>1 DEF StepInv, CleanInv
<1>3. ASSUME NEW c, Conclude(c), UNCHANGED files PROVE PairInv'
  <2>1. Frame
    BY <1>3, UnchangedFrame DEF Conclude
  <2> QED BY <1>3, <2>1, FrameDir, ConcludePair DEF TypeInv
<1>4. CASE CleanDone
  BY <1>3, <1>4 DEF CleanDone, files
<1>5. CASE Clean
  <2>1. CASE step' = "cleaning" /\ Silent /\ cur' = cur
    <3>1. Frame
      BY <2>1, UnchangedFrame DEF Silent, Kept
    <3>2. Mine(cur)' /\ (dir'["commit"] = Absent => NoPhase' \/ Both(cur, "original")')
      BY <1>1, <1>2, <2>1, <3>1, FrameCur DEF Frame, Phase
    <3> QED BY <2>1, <3>1, <3>2, FrameDir, ToClean DEF TypeInv, CleanSteps
  <2> QED BY <1>3, <1>5, <2>1 DEF Clean
<1>6. ASSUME NEW n \in todo, \A k \in todo : CleanRank(n) <= CleanRank(k),
             step = "cleaning", step' = "cleaning", cur' = cur, UNCHANGED <<rec, last>>,
             Put(cur, n, Absent)
      PROVE  PairInv'
  <2>1. n \in Marker \cup Private
    BY DEF TypeInv, JobOK
  <2>2. \A k \in Phase \cup Member : dir'[k] = IF k = n THEN Absent ELSE dir[k]
    <3>1. CASE n \in Marker
      BY <1>6, <3>1 DEF Put, Shared, Phase, Marker, Member, TypeInv, FilesOK
    <3>2. CASE n \in Private
      BY <1>6, <3>2 DEF Put, Shared, Phase, Marker, Member, Private
    <3> QED BY <2>1, <3>1, <3>2
  <2>3. \A m \in Member : dir'[m] = dir[m]
    BY <2>1, <2>2 DEF Marker, Private, Member
  <2>4. /\ n = "commit" => dir["rollback"] = Absent /\ dir["journal"] = Absent
        /\ n = "rollback" /\ dir["commit"] = Absent => dir["journal"] = Absent
    BY <1>6, CleanOrder DEF FateInv, ControlOK, EvidenceInv, Marker
  <2>5. RecInv' /\ Mine(cur)'
    BY <1>2, <1>6, <2>2, <2>3 DEF RecInv, Mine, Phase, Proof
  <2>6. \A m \in Member : Class(cur, m)' = Class(cur, m)
    BY <1>6, <2>3 DEF Class
  <2>7. CASE NoPhase'
    BY <1>6, <2>5, <2>7, ToClean DEF DirInv, CleanSteps
  <2>8. CASE ~NoPhase'
    <3>1. ~NoPhase
      BY <2>2, <2>8 DEF NoPhase
    <3>2. Marks(cur)
      BY <1>1, <1>2, <3>1, OnlyRecord DEF TypeInv
    <3>3. n # "commit" /\ dir'["commit"] = dir["commit"]
      BY <2>2, <2>4, <2>8 DEF NoPhase, Phase
    <3>4. dir["commit"] = Absent => n # "rollback" /\ dir'["rollback"] = dir["rollback"]
      BY <2>2, <2>4, <2>8 DEF NoPhase, Phase
    <3>5. dir["commit"] = Absent => \A m \in Member : Class(cur, m)' = "original"
      BY <1>2, <2>6, <3>1 DEF Both
    <3>6. Both(cur, "original")' <=> \A m \in Member : Class(cur, m)' = "original"
      BY DEF Both
    <3>7. Marks(cur)'
      <4>1. CASE dir["commit"] # Absent
        BY <1>6, <2>3, <2>5, <3>2, <3>3, <4>1 DEF Marks, Replaced
      <4>2. CASE dir["commit"] = Absent /\ RollingBack
        BY <2>5, <3>3, <3>4, <3>5, <4>2 DEF Marks, RollingBack, Restorable
      <4>3. CASE dir["commit"] = Absent /\ ~RollingBack
        <5>1. ~RollingBack' /\ Original(cur)'
          BY <1>6, <2>3, <3>2, <3>4, <4>3 DEF Marks, RollingBack, Original
        <5> QED BY <2>5, <3>3, <4>3, <5>1 DEF Marks
      <4> QED BY <4>1, <4>2, <4>3
    <3>8. StepInv'
      BY <1>6, <2>5, <3>3, <3>5, <3>6, ToClean DEF CleanSteps
    <3> QED BY <1>1, <1>6, <2>5, <3>7, <3>8 DEF DirInv
  <2> QED BY <2>7, <2>8
<1>7. CASE CleanRemoves
  <2>1. PICK n \in todo :
          /\ step = "cleaning"
          /\ \A k \in todo : CleanRank(n) <= CleanRank(k)
          /\ \/ /\ Put(cur, n, Absent) /\ Kept
                /\ UNCHANGED <<owner, step, op, cur, mem, cls, stamps, overwrite>>
             \/ Conclude(FALSE) /\ UNCHANGED files
    BY <1>7 DEF CleanRemoves
  <2> QED BY <1>3, <1>6, <2>1 DEF Kept
<1> QED BY <1>4, <1>5, <1>7 DEF Cleanup

LEMMA CrashPair == ASSUME Safe, Crash PROVE PairInv'
<1> USE DEF Safe, PairInv
<1>1. Frame
  BY UnchangedFrame DEF Crash
<1> QED BY <1>1, FrameDir, ReleaseRestInv DEF Crash, TypeInv

(***************************************************************************)
(* The invariant, and what it says to a user.                              *)
(***************************************************************************)
\* PairInv holds of an absent and of an existing pair with nothing pending.
THEOREM PairInit == Init => PairInv
BY RestInv DEF Init, PairInv, DirInv, NoPhase, Phase, RecInv, StepInv, PrepareInv, InstallInv,
   MarkInv, RollbackInv, CleanInv, BeforeJournal, AfterJournal, MarkSteps, SwapSteps,
   RestoreSteps, CleanSteps, Base, Absent, Nothing, File, Shared, Marker, Member, Token

\* Every step keeps the markers true to the members, when no other program
\* touches the pair.
THEOREM PairNext ==
  ASSUME MaxExt = 0, Safe, [Next]_vars PROVE PairInv'
<1>1. CASE UNCHANGED vars
  <2>1. Frame
    BY <1>1, UnchangedFrame DEF vars, files
  <2>2. DirInv' /\ RecInv'
    BY <2>1, FrameDir DEF Safe, PairInv, TypeInv
  <2>3. PrepareInv' /\ MarkInv'
    BY <1>1 DEF vars, Safe, PairInv, StepInv, PrepareInv, MarkInv, NoPhase, Original, Mine, Proof,
                Backup, Undecided
  <2>4. InstallInv' /\ CleanInv'
    BY <1>1 DEF vars, Safe, PairInv, StepInv, InstallInv, CleanInv, NoPhase, Mine, Proof, Backup,
                Rolling, Replaced, Both, Class
  <2>5. RollbackInv'
    BY <1>1 DEF vars, Safe, PairInv, StepInv, RollbackInv, NoPhase, Mine, Proof, Backup, Rolling,
                Both, Class
  <2> QED BY <2>2, <2>3, <2>4, <2>5 DEF PairInv, StepInv
<1>2. ~External
  BY DEF External, Safe, TypeInv, RestOK
<1> QED BY <1>1, <1>2, UserPair, RecoveryPair, PreparePair, BeginInstallPair, MarkingPair,
           InstallPair, RollbackPair, CleanupPair, CrashPair DEF Next, Worker

\* The whole invariant.
THEOREM SafeAlways == ASSUME MaxExt = 0 PROVE Spec => []Safe
<1>1. Init => Safe
  BY TypeInit, FateInit, PairInit DEF Safe
<1>2. Safe /\ [Next]_vars => Safe'
  BY PairNext, TypeNext, FateNext DEF Safe
<1> QED BY <1>1, <1>2, PTL DEF Spec

-----------------------------------------------------------------------------
(***************************************************************************)
(* PairInstall implements AtomicPair when no other program touches the     *)
(* pair (MaxExt = 0): the value of the pair only changes when a commit     *)
(* marker is published, and then both members change.  Every other step    *)
(* leaves the value alone, and either refuses a save or stutters.          *)
(***************************************************************************)

\* An undecided save can be undone: its record is the one in doubt, and under
\* its rollback marker it holds the backup of what is not in place
\* (recover_record, rollback_install_record).
THEOREM OldPairIsRecoverable == ASSUME MaxExt = 0 PROVE Spec => []OldPairRecoverable
<1>1. Safe => OldPairRecoverable
  <2> SUFFICES ASSUME Safe, InDoubt, NEW m \in Member
               PROVE  \/ Class(Doubtful, m) = "original"
                      \/ /\ RollingBack /\ Class(Doubtful, m) \in {"missing", "replacement"}
                         /\ rec[Doubtful][m] # Absent =>
                              priv[Doubtful][BackupOf(m)] = Backup(Doubtful, m)
    BY DEF OldPairRecoverable
  <2>1. PICK t \in 1..last : Marks(t)
    BY DEF Safe, PairInv, DirInv, NoPhase, InDoubt, Phase
  <2>2. Doubtful = t
    BY <2>1 DEF InDoubt, Doubtful, Marks, Mine, Phase, Proof, Prepared, File
  <2>3. CASE RollingBack
    BY <2>1, <2>2, <2>3 DEF Marks, InDoubt, Restorable
  <2>4. CASE ~RollingBack
    <3>1. t \in Token /\ Original(t)
      BY <2>1, <2>4, PairAssumption DEF Marks, InDoubt, Safe, TypeInv, RestOK, Token
    <3> QED BY <2>2, <3>1, ClassFacts DEF Original, Safe, PairInv
  <2> QED BY <2>3, <2>4
<1> QED BY <1>1, SafeAlways, PTL

(***************************************************************************)
(* The value of the pair.                                                  *)
(***************************************************************************)
LEMMA ValueKept ==
  ASSUME NEW t \in Token, Mine(t), Mine(t)', rec'[t] = rec[t],
         (InDoubt <=> InDoubt') \/ \A m \in Member : rec[t][m].val = dir[m].val,
         InDoubt' \/ \A m \in Member : dir'[m].val = dir[m].val
  PROVE  PairValue' = PairValue
<1>1. InDoubt => Doubtful = t
  BY DEF InDoubt, Doubtful, Mine, Phase, Proof, Prepared, File
<1>2. InDoubt' => Doubtful' = t
  BY DEF InDoubt, Doubtful, Mine, Phase, Proof, Prepared, File
<1>3. \A m \in Member : /\ PairValue[m] = IF InDoubt THEN rec[t][m].val ELSE dir[m].val
                        /\ PairValue'[m] = IF InDoubt' THEN rec[t][m].val ELSE dir'[m].val
  BY <1>1, <1>2 DEF PairValue
<1>4. \A m \in Member : PairValue'[m] = PairValue[m]
  BY <1>3
<1> QED BY <1>4 DEF PairValue

LEMMA FrameValue == ASSUME Frame PROVE PairValue' = PairValue
<1>1. \A n \in Phase \cup Member : dir'[n] = dir[n]
  BY DEF Frame
<1>2. (InDoubt' <=> InDoubt) /\ Doubtful' = Doubtful
  BY <1>1 DEF InDoubt, Doubtful, Phase
<1> QED BY <1>1, <1>2 DEF PairValue, Frame

\* The steps that do more than Frame allows.
Moves == \/ PrepareBegins \/ BackUp \/ PublishJournal \/ ScratchRemoves \/ MarkMove
         \/ InstDelete \/ InstMove \/ CommitMove \/ Restore \/ RestoreMove \/ CleanRemoves

LEMMA FrameSteps == ASSUME MaxExt = 0, Safe, [Next]_vars, ~Moves PROVE Frame
<1> USE DEF Safe, TypeInv, FilesOK
<1>1. CASE User \/ Reader
  BY <1>1, UnchangedFrame DEF User, Reader, BeginOpen, BeginSave, Begin, Close, ReadPair
<1>2. CASE Recovery
  BY <1>2, UnchangedFrame DEF Recovery, Look, RecoverClean, RecoverRollBack, RecoverFails, OpenRecovered,
                              Goto, RecoveryFailed, Silent, Kept
<1>3. CASE PrepareRefused \/ Seal \/ PrepareFails \/ ScratchDone
  BY <1>3, UnchangedFrame DEF PrepareRefused, Seal, PrepareFails, ScratchDone, Silent, Kept
<1>4. ASSUME NEW n \in {"nativeNew", "rasterNew", "journalNew", "commitNew", "rollbackNew"},
             NEW o, Put(cur, n, o), Kept, cur \in Token
      PROVE  Frame
  <2>1. UNCHANGED <<rec, last>>
    BY <1>4 DEF Kept
  <2>2. \A k \in Phase \cup Member : dir'[k] = dir[k]
    BY <1>4 DEF Put, Shared, Marker, Phase, Member
  <2>3. \A t \in Token : \A m \in Member : priv'[t][BackupOf(m)] = priv[t][BackupOf(m)]
    BY <1>4 DEF Put, Shared, Marker, Member, BackupOf, Private
  <2> QED BY <2>1, <2>2, <2>3 DEF Frame
<1>5. CASE Stage \/ WriteJournal \/ CreateCommit \/ FillCommit \/ CreateRollback \/ FillRollback
  <2>1. cur \in Token
    BY <1>5, TokenType DEF Stage, WriteJournal, CreateCommit, FillCommit, CreateRollback,
                           FillRollback, Write
  <2>2. StageOf(mem) \in {"nativeNew", "rasterNew"}
    BY DEF StageOf
  <2> QED BY <1>4, <1>5, <2>1, <2>2 DEF Stage, WriteJournal, CreateCommit, FillCommit,
                                       CreateRollback, FillRollback, Write
<1>6. CASE InstallBegins \/ PreparedDropped
  BY <1>6, UnchangedFrame DEF InstallBegins, PreparedDropped, Silent, Kept
<1>7. MarkFailed => Frame
  BY UnchangedFrame DEF MarkFailed, RecoveryFailed, Kept
<1>8. CASE Mark \/ MarkConfirm
  <2>1. cur \in Token
    BY <1>8, TokenType DEF Mark, MarkConfirm
  <2> QED BY <1>4, <1>7, <1>8, <2>1, UnchangedFrame DEF Mark, MarkConfirm, Silent, Kept
<1>9. CASE InstVerify \/ InstConfirm \/ Final \/ CommitConfirm
  BY <1>9, UnchangedFrame DEF InstVerify, InstConfirm, Final, CommitConfirm, InstFails, Silent, Kept
<1>10. CASE Undo \/ Reclassify \/ RestoreConfirm \/ Restored
  BY <1>7, <1>10, UnchangedFrame DEF Undo, Reclassify, RestoreConfirm, Restored, Silent, Kept
<1>11. CASE Clean \/ CleanDone
  BY <1>11, UnchangedFrame DEF Clean, CleanDone, Conclude, Silent, Kept, files
<1>12. CASE Crash
  BY <1>12, UnchangedFrame DEF Crash
<1>13. CASE UNCHANGED vars
  BY <1>13, UnchangedFrame DEF vars, files
<1>14. ~External
  BY DEF External, RestOK
<1> QED BY <1>1, <1>2, <1>3, <1>5, <1>6, <1>8, <1>9, <1>10, <1>11, <1>12, <1>13, <1>14
        DEF Next, Worker, Prepare, Marking, Install, Rollback, Cleanup, Moves

\* Every one of them leaves the value alone, except the commit.
LEMMA MovesValue ==
  ASSUME MaxExt = 0, Safe, Safe', Moves, CommitMove => op' = "undo"
  PROVE  PairValue' = PairValue
<1> USE DEF Safe, PairInv
<1>1. CASE UNCHANGED <<dir, priv, rec, last>>
  BY <1>1, FrameValue, UnchangedFrame DEF files
<1>2. CASE PrepareBegins
  <2>1. ~InDoubt /\ dir' = dir
    BY <1>2 DEF PrepareBegins, MayReplace, NoEvidence, Marker, InDoubt, files
  <2> QED BY <2>1 DEF InDoubt, PairValue
<1>3. CASE BackUp
  <2>1. NoPhase /\ mem \in Member
    BY <1>3 DEF BackUp, StepInv, PrepareInv, BeforeJournal, TypeInv, JobOK
  <2>2. dir' = dir
    BY <1>3, <2>1 DEF BackUp, Put, BackupOf, Shared, Marker, Member
  <2>3. ~InDoubt
    BY <2>1 DEF NoPhase, InDoubt, Phase
  <2> QED BY <2>2, <2>3 DEF InDoubt, PairValue
<1>4. CASE PublishJournal \/ ScratchRemoves
  <2>1. /\ cur \in Token /\ Original(cur) /\ cur' = cur /\ rec' = rec
        /\ dir["journal"] \in {Absent, Prepared(cur)}
        /\ dir["commit"] = Absent /\ dir["rollback"] = Absent
    BY <1>4, TokenType DEF PublishJournal, ScratchRemoves, StepInv, PrepareInv, BeforeJournal,
                           AfterJournal, NoPhase, Phase, Kept, Goto
  <2>2. step' \in AfterJournal \cup {"scratch"}
    BY <1>4 DEF PublishJournal, ScratchRemoves, Goto, AfterJournal
  <2>3. /\ Original(cur)' /\ dir'["journal"] \in {Absent, Prepared(cur)}
        /\ dir'["commit"] = Absent /\ dir'["rollback"] = Absent
    BY <2>1, <2>2 DEF StepInv, PrepareInv
  <2>4. Mine(cur) /\ Mine(cur)'
    BY <2>1, <2>3 DEF Mine, Phase, Proof
  <2>5. \A m \in Member : dir[m] = rec[cur][m] /\ dir'[m] = rec[cur][m]
    BY <2>1, <2>3 DEF Original
  <2> QED BY <2>1, <2>4, <2>5, ValueKept
<1>5. CASE MarkMove /\ ~UNCHANGED <<dir, priv, rec, last>>
  <2>1. /\ cur \in Token /\ Undecided(cur) /\ step' = "markConfirm" /\ cur' = cur /\ rec' = rec
    BY <1>5, TokenType DEF MarkMove, MarkFailed, RecoveryFailed, Kept, Goto, files, StepInv, MarkInv,
                           MarkSteps
  <2>2. Undecided(cur)'
    BY <2>1 DEF StepInv, MarkInv, MarkSteps
  <2>3. InDoubt /\ InDoubt' /\ Mine(cur) /\ Mine(cur)'
    BY <2>1, <2>2 DEF Undecided, InDoubt
  <2> QED BY <2>1, <2>3, ValueKept
<1>6. CASE (InstDelete \/ InstMove \/ Restore \/ RestoreMove)
           /\ ~UNCHANGED <<dir, priv, rec, last>>
  <2>1. /\ cur \in Token /\ mem \in Member /\ Rolling(cur)
    BY <1>6, TokenType DEF InstDelete, InstMove, Restore, RestoreMove, StepInv, InstallInv,
                           RollbackInv, SwapSteps, RestoreSteps, TypeInv, JobOK
  <2>2. /\ cur' = cur /\ rec' = rec
        /\ \E o : dir' = [dir EXCEPT ![mem] = o]
    BY <1>6, <2>1 DEF InstDelete, InstMove, Restore, RestoreMove, InstFails, MarkFailed,
                      RecoveryFailed, Put, Shared, Goto, NextMember, GotoMember, Silent, Kept, files
  <2>3. \A n \in Phase : dir'[n] = dir[n]
    BY <2>1, <2>2 DEF TypeInv, FilesOK, Phase, Member
  <2>4. InDoubt /\ InDoubt' /\ Mine(cur) /\ Mine(cur)'
    <3>1. InDoubt
      BY <2>1, MarkerFacts DEF Rolling, InDoubt, Token
    <3> QED BY <2>1, <2>2, <2>3, <3>1 DEF Rolling, InDoubt, Mine, Phase, Proof
  <2> QED BY <2>1, <2>2, <2>4, ValueKept
<1>7. CASE CleanRemoves /\ ~UNCHANGED <<dir, priv, rec, last>>
  <2>1. /\ step = "cleaning" /\ step' = "cleaning" /\ cur' = cur /\ rec' = rec
        /\ \E n \in todo : Put(cur, n, Absent)
    BY <1>7 DEF CleanRemoves, Conclude, files, Kept
  <2>2. cur \in Token /\ Mine(cur) /\ Mine(cur)' /\ cur \in 1..last
    BY <2>1, TokenType DEF StepInv, CleanInv, CleanSteps
  <2>3. \E n \in Marker \cup Private : \A k \in Phase \cup Member :
          dir'[k] = IF k = n THEN Absent ELSE dir[k]
    <3>1. PICK n \in Marker \cup Private : Put(cur, n, Absent)
      BY <2>1 DEF TypeInv, JobOK
    <3>2. CASE n \in Marker
      BY <3>1, <3>2 DEF Put, Shared, Phase, Marker, Member, TypeInv, FilesOK
    <3>3. CASE n \in Private
      BY <3>1, <3>3 DEF Put, Shared, Phase, Marker, Member, Private
    <3> QED BY <3>1, <3>2, <3>3
  <2>4. \A m \in Member : dir'[m] = dir[m]
    BY <2>3 DEF Marker, Private, Member
  <2>5. CASE NoPhase
    <3>1. NoPhase'
      BY <2>3, <2>5 DEF NoPhase
    <3>2. ~InDoubt /\ ~InDoubt'
      BY <2>5, <3>1 DEF NoPhase, InDoubt, Phase
    <3> QED BY <2>1, <2>2, <2>4, <3>2, ValueKept
  <2>6. CASE ~NoPhase /\ dir["commit"] = Absent
    <3>1. \A m \in Member : dir[m].val = rec[cur][m].val
      BY <2>1, <2>2, <2>6, ClassFacts DEF StepInv, CleanInv, CleanSteps, Both
    <3> QED BY <2>1, <2>2, <2>4, <3>1, ValueKept
  <2>7. CASE ~NoPhase /\ dir["commit"] # Absent
    <3>1. Replaced(cur)
      BY <2>2, <2>7, OnlyRecord DEF TypeInv, Marks
    <3>2. ~InDoubt
      BY <2>7 DEF InDoubt
    <3>3. ~InDoubt'
      <4> SUFFICES ASSUME InDoubt' PROVE FALSE
        OBVIOUS
      <4>1. \A m \in Member : Class(cur, m)' = "original"
        BY <2>1 DEF InDoubt, NoPhase, Phase, StepInv, CleanInv, CleanSteps, Both
      <4>2. Class(cur, "native")' = Class(cur, "native")
        BY <2>1, <2>4 DEF Class, Member
      <4>3. dir["native"] \in {rec[cur]["native"], Backup(cur, "native")}
        BY <2>2, <4>1, <4>2, ClassFacts DEF Member
      <4> QED BY <2>2, <3>1, <4>3, ClassFacts DEF Replaced, Member
    <3> QED BY <2>1, <2>2, <2>4, <3>2, <3>3, ValueKept
  <2> QED BY <2>5, <2>6, <2>7
<1>8. CASE CommitMove
  BY <1>1, <1>8 DEF CommitMove, InstFails, Goto, Kept, files, FateInv, ControlOK, PendingInv,
                    SwapSteps
<1> QED BY <1>1, <1>2, <1>3, <1>4, <1>5, <1>6, <1>7, <1>8 DEF Moves

(***************************************************************************)
(* What has become of the saves.                                           *)
(***************************************************************************)
LEMMA FateKept ==
  ASSUME RestOK, done' = done, NEW t \in Token,
         \/ outcome' = outcome
         \/ \E w \in {"error", "rolledBack"} : Report(t, w)
         \/ \E w : Report(t, w) /\ w \notin {"error", "rolledBack"}
                   /\ (t \in done \/ outcome[t] = "none")
  PROVE  \/ PairFate' = PairFate
         \/ PairFate[t] = "open" /\ PairFate' = [PairFate EXCEPT ![t] = "refused"]
<1>1. CASE outcome' = outcome
  BY <1>1 DEF PairFate
<1>2. ASSUME NEW w, Report(t, w) PROVE \A u \in Token : outcome'[u] = IF u = t THEN w ELSE outcome[u]
  BY <1>2 DEF Report, RestOK
<1>3. \A u \in Token : /\ PairFate[u] = IF u \in done THEN "committed"
                           ELSE IF outcome[u] \in {"error", "rolledBack"} THEN "refused" ELSE "open"
                       /\ PairFate'[u] = IF u \in done THEN "committed"
                           ELSE IF outcome'[u] \in {"error", "rolledBack"} THEN "refused" ELSE "open"
  BY DEF PairFate
<1>4. PairFate = [u \in Token |-> PairFate[u]] /\ PairFate' = [u \in Token |-> PairFate'[u]]
  BY DEF PairFate
<1>5. ASSUME NEW w \in {"error", "rolledBack"}, Report(t, w), t \notin done, PairFate[t] = "open"
      PROVE  PairFate' = [PairFate EXCEPT ![t] = "refused"]
  <2>1. \A u \in Token : PairFate'[u] = IF u = t THEN "refused" ELSE PairFate[u]
    BY <1>2, <1>3, <1>5
  <2> QED BY <1>4, <2>1
<1>6. ASSUME NEW w, Report(t, w),
             \/ t \in done
             \/ w \in {"error", "rolledBack"} /\ PairFate[t] # "open"
             \/ w \notin {"error", "rolledBack"} /\ outcome[t] = "none"
      PROVE  PairFate' = PairFate
  <2>1. \A u \in Token : PairFate'[u] = PairFate[u]
    BY <1>2, <1>3, <1>6
  <2> QED BY <1>4, <2>1
<1> QED BY <1>1, <1>3, <1>5, <1>6

\* What a step may report of the save it works on.
Reports == /\ cur \in Token
           /\ \/ \E w \in {"error", "rolledBack"} : Report(cur, w)
              \/ \E w : Report(cur, w) /\ w \notin {"error", "rolledBack"}
                        /\ (cur \in done \/ outcome[cur] = "none")

LEMMA StepReports ==
  ASSUME Safe, [Next]_vars, CommitMove => op' = "undo"
  PROVE  done' = done /\ (outcome' = outcome \/ Reports)
<1> USE DEF Safe
<1>1. CASE User \/ Reader \/ Crash \/ External \/ UNCHANGED vars
  BY <1>1 DEF User, Reader, BeginOpen, BeginSave, Begin, Close, ReadPair, Crash, External, history, vars
<1>2. ASSUME RecoveryFailed, op = "abort" => cur \in Token
      PROVE  done' = done /\ (outcome' = outcome \/ Reports)
  BY <1>2 DEF RecoveryFailed, Reports
<1>3. CASE Recovery
  <2>1. CASE Look
    <3>1. op # "abort"
      BY <2>1 DEF Look, FateInv, ControlOK, PendingInv
    <3> QED BY <1>2, <2>1, <3>1 DEF Look, Silent, Kept, history
  <2>2. CASE RecoverFails
    <3>1. cur \in Token
      BY <2>2, TokenType DEF RecoverFails
    <3> QED BY <1>2, <2>2, <3>1 DEF RecoverFails
  <2>3. CASE RecoverClean \/ RecoverRollBack \/ OpenRecovered
    BY <2>3 DEF RecoverClean, RecoverRollBack, OpenRecovered, Silent, Kept, history
  <2> QED BY <1>3, <2>1, <2>2, <2>3 DEF Recovery
<1>4. CASE PrepareFails \/ PreparedDropped
  <2>1. cur \in Token
    BY <1>4, TokenType DEF PrepareFails, Preparing, PreparedDropped
  <2> QED BY <1>4, <2>1 DEF PrepareFails, PreparedDropped, Reports
<1>5. CASE Prepare /\ ~PrepareFails
  BY <1>5 DEF Prepare, PrepareBegins, PrepareRefused, Stage, BackUp, WriteJournal, PublishJournal,
              CreateCommit, FillCommit, CreateRollback, FillRollback, Write, Seal, ScratchRemoves,
              ScratchDone, Silent, Kept, history
<1>6. CASE InstallBegins
  BY <1>6 DEF InstallBegins, Silent, Kept, history
<1>7. ASSUME MarkFailed, cur \in Token PROVE done' = done /\ (outcome' = outcome \/ Reports)
  <2>1. op = "undo" => outcome[cur] = "none"
    BY DEF FateInv, ControlOK, DecidedInv
  <2>2. CASE op = "undo" /\ Report(cur, "failed") /\ done' = done
    BY <1>7, <2>1, <2>2 DEF Reports
  <2> QED BY <1>2, <1>7, <2>2 DEF MarkFailed, Kept, history
<1>8. CASE Marking
  <2>1. cur \in Token
    BY <1>8, TokenType DEF Marking, Mark, MarkMove, MarkConfirm
  <2> QED BY <1>7, <1>8, <2>1 DEF Marking, Mark, MarkMove, MarkConfirm, Silent, Kept, history
<1>9. CASE Install
  <2>1. CASE CommitMove
    BY <2>1 DEF CommitMove, InstFails, Goto, Kept, history, FateInv, ControlOK, PendingInv, SwapSteps
  <2> QED BY <1>9, <2>1 DEF Install, InstVerify, InstDelete, InstMove, InstConfirm, Final,
                           CommitConfirm, InstFails, Silent, Kept, history
<1>10. CASE Rollback
  <2>1. cur \in Token
    BY <1>10, TokenType DEF Rollback, Undo, Reclassify, Restore, RestoreMove, RestoreConfirm, Restored
  <2> QED BY <1>7, <1>10, <2>1 DEF Rollback, Undo, Reclassify, Restore, RestoreMove, RestoreConfirm,
                                  Restored, Silent, Kept, history
<1>11. CASE Cleanup
  <2>1. cur \in Token /\ step \in CleanSteps
    BY <1>11, TokenType DEF Cleanup, Clean, CleanRemoves, CleanDone, CleanSteps
  <2>2. op = "install" => cur \in done
    BY <2>1 DEF FateInv, ControlOK, DecidedInv
  <2>3. ASSUME NEW c, Conclude(c) PROVE done' = done /\ (outcome' = outcome \/ Reports)
    BY <2>1, <2>2, <2>3 DEF Conclude, Reports
  <2> QED BY <1>11, <2>3 DEF Cleanup, Clean, CleanRemoves, CleanDone, Silent, Kept, history
<1> QED BY <1>1, <1>3, <1>4, <1>5, <1>6, <1>8, <1>9, <1>10, <1>11 DEF Next, Worker

(***************************************************************************)
(* The refinement.                                                         *)
(***************************************************************************)
LEMMA InitRefines == Init => Atomic!Init
<1> SUFFICES ASSUME Init PROVE Atomic!Init
  OBVIOUS
<1>1. PICK there \in SUBSET Member : dir = [n \in Shared |-> IF n \in there THEN Base ELSE Absent]
  BY DEF Init
<1>2. ~InDoubt
  BY <1>1 DEF InDoubt, Shared, Marker, Member, Absent
<1>3. \A m \in Member : dir[m].val \in {0, MaxSaves + 1}
  BY <1>1 DEF Shared, Base, Absent, File
<1>4. PairValue \in [Atomic!Pair -> {0, MaxSaves + 1}]
  BY <1>2, <1>3 DEF PairValue, Atomic!Pair, Member
<1>5. PairFate = [t \in Atomic!Save |-> "open"]
  BY DEF Init, PairFate, Atomic!Save, Token
<1> QED BY <1>4, <1>5 DEF Atomic!Init

LEMMA CommitRefines ==
  ASSUME Safe, Safe', CommitMove, op' # "undo" PROVE Atomic!Commit(cur) /\ cur \in Token
<1> USE DEF Safe, PairInv
<1>1. /\ cur \in Token /\ cur \notin done /\ outcome[cur] = "none" /\ Replaced(cur)
      /\ dir["commitNew"] = Committed(cur) /\ op = "install"
  BY TokenType DEF CommitMove, FateInv, ControlOK, PendingInv, DecidedInv, SwapSteps, StepInv,
                   InstallInv
<1>2. /\ dir' = [dir EXCEPT !["commit"] = Committed(cur), !["commitNew"] = Absent]
      /\ done' = done \cup {cur} /\ outcome' = outcome
  BY <1>1 DEF CommitMove, InstFails
<1>3. dir'["commit"] # Absent /\ \A m \in Member : dir'[m] = New(cur)
  BY <1>1, <1>2, MarkerFacts DEF Replaced, TypeInv, FilesOK, Shared, Marker, Member, Token
<1>4. PairValue' = [m \in Atomic!Pair |-> cur]
  BY <1>3 DEF PairValue, InDoubt, Atomic!Pair, Member, New, File
<1>5. PairFate[cur] = "open"
  BY <1>1 DEF PairFate
<1>6. PairFate' = [PairFate EXCEPT ![cur] = "committed"]
  <2>1. \A u \in Token : PairFate'[u] = IF u = cur THEN "committed" ELSE PairFate[u]
    BY <1>2 DEF PairFate
  <2>2. PairFate = [u \in Token |-> PairFate[u]] /\ PairFate' = [u \in Token |-> PairFate'[u]]
    BY DEF PairFate
  <2> QED BY <2>1, <2>2
<1> QED BY <1>1, <1>4, <1>5, <1>6 DEF Atomic!Commit

LEMMA NextRefines ==
  ASSUME MaxExt = 0, Safe, Safe', [Next]_vars PROVE [Atomic!Next]_Atomic!avars
<1>1. CASE CommitMove /\ op' # "undo"
  BY <1>1, CommitRefines DEF Atomic!Next, Atomic!Save, Token
<1>2. CASE CommitMove => op' = "undo"
  <2>1. PairValue' = PairValue
    BY <1>2, MovesValue, FrameSteps, FrameValue
  <2>2. done' = done /\ (outcome' = outcome \/ Reports)
    BY <1>2, StepReports
  <2>3. PairFate' = PairFate
        \/ \E t \in Token : PairFate[t] = "open" /\ PairFate' = [PairFate EXCEPT ![t] = "refused"]
    <3>1. CASE outcome' = outcome
      BY <2>2, <3>1 DEF PairFate
    <3>2. CASE Reports
      BY <2>2, <3>2, FateKept DEF Reports, Safe, TypeInv
    <3> QED BY <2>2, <3>1, <3>2
  <2> QED BY <2>1, <2>3 DEF Atomic!Next, Atomic!Refuse, Atomic!Save, Atomic!avars, Token
<1> QED BY <1>1, <1>2

\* Through every crash, failed file operation and recovery a save changes both
\* members at once or neither, and a refused save stays refused: what pair.rs
\* does implements AtomicPair, for any number of documents, saves, crashes and
\* failures.
THEOREM Refinement == ASSUME MaxExt = 0 PROVE Spec => ImplementsAtomicPair
<1>1. Safe /\ Safe' /\ [Next]_vars => [Atomic!Next]_Atomic!avars
  BY NextRefines
<1> QED BY <1>1, InitRefines, SafeAlways, PTL DEF Spec, ImplementsAtomicPair, Atomic!Spec

-----------------------------------------------------------------------------
(***************************************************************************)
(* What the program takes out of a member's place, whatever other programs *)
(* put there: the job of a document works for a document that stays open   *)
(* and is not read again meanwhile (PairOwner), so the originals its record*)
(* names remain what the document last saw, or the user has confirmed.     *)
(***************************************************************************)
\* The steps that rest on the comparison of prepare_pair_with_expectation.
Expecting == \/ op = "save" /\ step \in BeforeJournal \cup AfterJournal
             \/ op = "install" /\ step \in MarkSteps \cup SwapSteps

DocInv == /\ opened \cap reading = {}
          /\ op = "open" => owner \notin opened \cup reading
          /\ op \notin {"none", "open"} => owner \in opened
KnownInv == DocInv /\ (Expecting => overwrite \/ rec[cur] = seen[owner])

\* A job that goes on, for the same document and the same record.
LEMMA KnownFrame ==
  ASSUME KnownInv, UNCHANGED <<session, rec, owner, cur, overwrite>>,
         op' = op \/ (op \notin {"none", "open"} /\ op' \notin {"none", "open"}),
         Expecting' => Expecting
  PROVE  KnownInv'
<1>1. DocInv'
  BY DEF KnownInv, DocInv, session
<1> QED BY <1>1 DEF KnownInv, session

\* A job that ends expects nothing.
LEMMA KnownEnds ==
  ASSUME KnownInv, Release, UNCHANGED <<opened, reading>>
  PROVE  KnownInv'
BY DEF KnownInv, DocInv, Release, Expecting

LEMMA RecoveryFailedKnown == ASSUME KnownInv, RecoveryFailed PROVE KnownInv'
BY KnownEnds DEF RecoveryFailed, session

LEMMA GoesOn ==
  ASSUME KnownInv, UNCHANGED <<owner, op, cur, overwrite>>, Kept, Expecting' => Expecting
  PROVE  KnownInv'
BY KnownFrame DEF Kept

LEMMA UserKnown ==
  ASSUME TypeInv, FateInv, KnownInv, User \/ Reader PROVE KnownInv'
<1>1. ASSUME NEW d \in Doc, BeginOpen(d) \/ BeginSave(d) PROVE KnownInv'
  <2>1. /\ op' \in {"open", "save"} /\ owner' = d /\ step' = "look" /\ UNCHANGED <<opened, reading>>
        /\ op' = "open" => d \notin opened \cup reading
        /\ op' = "save" => d \in opened
    BY <1>1 DEF BeginOpen, BeginSave, Begin, session
  <2>2. ~Expecting'
    BY <2>1 DEF Expecting, BeforeJournal, AfterJournal
  <2>3. DocInv'
    BY <2>1 DEF KnownInv, DocInv
  <2> QED BY <2>2, <2>3 DEF KnownInv
<1>2. ASSUME NEW d \in Doc, Close(d) PROVE KnownInv'
  <2>1. /\ opened' = opened \ {d} /\ reading' = reading /\ owner # d
        /\ UNCHANGED <<step, owner, op, cur, overwrite, rec>> /\ seen' = [seen EXCEPT ![d] = Nothing]
    BY <1>2 DEF Close, job
  <2>2. DocInv'
    BY <2>1 DEF KnownInv, DocInv
  <2>3. seen'[owner] = seen[owner] \/ owner \notin Doc
    BY <2>1 DEF TypeInv, RestOK
  <2>4. Expecting => owner \in Doc
    BY DEF Expecting, TypeInv, CurInv, BeforeJournal, AfterJournal, MarkSteps, SwapSteps
  <2> QED BY <2>1, <2>2, <2>3, <2>4 DEF KnownInv, Expecting
<1>3. ASSUME NEW d \in Doc, ReadPair(d) PROVE KnownInv'
  <2>1. /\ d \in reading /\ reading' = reading \ {d} /\ opened' \subseteq opened \cup {d}
        /\ opened \subseteq opened'
        /\ UNCHANGED <<step, owner, op, cur, overwrite, rec>>
        /\ seen' = seen \/ seen' = [seen EXCEPT ![d] = Targets]
    BY <1>3 DEF ReadPair, job
  <2>2. DocInv'
    BY <2>1 DEF KnownInv, DocInv
  <2>3. Expecting => owner \in opened /\ owner # d
    BY <2>1 DEF Expecting, KnownInv, DocInv
  <2>4. Expecting => seen'[owner] = seen[owner]
    BY <2>1, <2>3 DEF TypeInv, RestOK
  <2> QED BY <2>1, <2>2, <2>4 DEF KnownInv, Expecting
<1> QED BY <1>1, <1>2, <1>3 DEF User, Reader

LEMMA PrepareKnown ==
  ASSUME TypeInv, FateInv, KnownInv, Prepare PROVE KnownInv'
<1>1. CASE PrepareBegins
  <2>1. /\ op = "save" /\ UNCHANGED <<owner, op, overwrite, opened, reading, seen>>
        /\ cur' = last + 1 /\ rec' = [rec EXCEPT ![last + 1] = Targets]
        /\ overwrite \/ Targets = seen[owner]
    BY <1>1 DEF PrepareBegins, MayReplace, session
  <2>2. last + 1 \in Token
    BY <1>1, PairAssumption DEF PrepareBegins, TypeInv, SaveInv, RestOK, Token, BeforeJournal, AfterJournal
  <2>3. rec'[cur'] = Targets
    BY <2>1, <2>2 DEF TypeInv, RestOK
  <2>4. DocInv'
    BY <2>1 DEF KnownInv, DocInv
  <2> QED BY <2>1, <2>3, <2>4 DEF KnownInv
<1>2. CASE PrepareRefused \/ ScratchDone
  BY <1>2, KnownEnds DEF PrepareRefused, ScratchDone, Silent, Kept, session
<1>3. CASE Stage \/ BackUp \/ WriteJournal \/ PublishJournal \/ CreateCommit \/ FillCommit
           \/ CreateRollback \/ FillRollback \/ Seal
  <2>1. /\ step \in BeforeJournal \cup AfterJournal
        /\ UNCHANGED <<owner, op, cur, overwrite>> /\ Kept
    BY <1>3 DEF Stage, BackUp, WriteJournal, PublishJournal, CreateCommit, FillCommit, CreateRollback,
                FillRollback, Seal, Write, Goto, GotoMember, Silent, BeforeJournal, AfterJournal
  <2>2. op = "save"
    BY <2>1 DEF FateInv, ControlOK, PendingInv
  <2>3. Expecting
    BY <2>1, <2>2 DEF Expecting
  <2> QED BY <2>1, <2>3, GoesOn
<1>4. CASE PrepareFails \/ ScratchRemoves
  <2>1. step' = "scratch" /\ UNCHANGED <<owner, op, cur, overwrite, rec, session>>
    BY <1>4 DEF PrepareFails, ScratchRemoves, Kept
  <2>2. ~Expecting'
    BY <2>1 DEF Expecting, BeforeJournal, AfterJournal, MarkSteps, SwapSteps
  <2> QED BY <2>1, <2>2, KnownFrame
<1> QED BY <1>1, <1>2, <1>3, <1>4 DEF Prepare

LEMMA BeginInstallKnown ==
  ASSUME TypeInv, FateInv, KnownInv, InstallBegins \/ PreparedDropped PROVE KnownInv'
<1>1. op = "save" /\ step = "prepared"
  BY DEF FateInv, ControlOK, PendingInv, AfterJournal, InstallBegins, PreparedDropped
<1>2. Expecting
  BY <1>1 DEF Expecting, AfterJournal
<1>3. CASE InstallBegins
  BY <1>1, <1>2, <1>3, KnownFrame DEF InstallBegins, Silent, Kept
<1>4. CASE PreparedDropped
  BY <1>1, <1>2, <1>4, KnownFrame, KnownEnds DEF PreparedDropped, session
<1> QED BY <1>3, <1>4

LEMMA MarkFailedKnown ==
  ASSUME KnownInv, MarkFailed PROVE KnownInv'
<1>1. CASE op = "install" /\ op' = "abort" /\ step' = "recover" /\ UNCHANGED <<owner, cur, overwrite>> /\ Kept
  BY <1>1, KnownFrame DEF Expecting, Kept
<1> QED BY <1>1, KnownEnds, RecoveryFailedKnown DEF MarkFailed

LEMMA InstFailsKnown ==
  ASSUME FateInv, KnownInv, step \in SwapSteps \cup {"commitConfirm"}, NEW c, InstFails(c)
  PROVE  KnownInv'
<1>1. op = "install"
  BY DEF FateInv, ControlOK, PendingInv, DecidedInv
<1>2. op' = "undo" /\ UNCHANGED <<owner, cur, overwrite, rec, session>>
  BY DEF InstFails, Kept
<1> QED BY <1>1, <1>2, KnownFrame DEF Expecting

LEMMA MarkingKnown ==
  ASSUME TypeInv, FateInv, KnownInv, Marking PROVE KnownInv'
<1>1. step \in MarkSteps
  BY DEF Marking, Mark, MarkMove, MarkConfirm, MarkSteps
<1>2. ASSUME UNCHANGED <<owner, op, cur, overwrite>>, Kept PROVE KnownInv'
  <2>1. Expecting' => Expecting
    BY <1>1, <1>2 DEF Expecting, BeforeJournal, AfterJournal, MarkSteps, Marking, Mark, MarkMove,
                MarkConfirm, Goto, GotoMember, AfterMark, FateInv, ControlOK, PendingInv, SwapSteps, MarkFailed, RecoveryFailed, Release
  <2> QED BY <1>2, <2>1, GoesOn
<1> QED BY <1>2, MarkFailedKnown DEF Marking, Mark, MarkMove, MarkConfirm, Goto, GotoMember, Silent

LEMMA InstallKnown ==
  ASSUME TypeInv, FateInv, KnownInv, Install PROVE KnownInv'
<1>1. step \in SwapSteps \cup {"commitConfirm"}
  BY DEF Install, InstVerify, InstDelete, InstMove, InstConfirm, Final, CommitMove, CommitConfirm,
         SwapSteps
<1>2. op = "install"
  BY <1>1 DEF FateInv, ControlOK, PendingInv, DecidedInv
<1>3. ASSUME UNCHANGED <<owner, op, cur, overwrite, rec, session>>, ~Expecting' \/ Expecting PROVE KnownInv'
  BY <1>3, KnownFrame
<1>4. CASE CommitConfirm
  <2>1. CASE step' = "clean" /\ UNCHANGED <<owner, op, cur, overwrite, rec, session>>
    BY <1>2, <1>3, <2>1 DEF Expecting, MarkSteps, SwapSteps
  <2> QED BY <1>1, <1>4, <2>1, InstFailsKnown DEF CommitConfirm, Goto, Silent, Kept
<1>5. CASE step \in SwapSteps
  <2>1. Expecting
    BY <1>2, <1>5 DEF Expecting
  <2> QED BY <1>1, <1>3, <2>1, InstFailsKnown
          DEF Install, InstVerify, InstDelete, InstMove, InstConfirm, Final, CommitMove, CommitConfirm,
              Goto, GotoMember, Silent, Kept
<1> QED BY <1>1, <1>4, <1>5 DEF Install, InstVerify, InstDelete, InstMove, InstConfirm, Final, CommitMove,
              SwapSteps

LEMMA RollbackKnown ==
  ASSUME TypeInv, FateInv, KnownInv, Rollback PROVE KnownInv'
<1>1. step \in RestoreSteps \cup {"undo"}
  BY DEF Rollback, Undo, Reclassify, Restore, RestoreMove, RestoreConfirm, Restored, RestoreSteps
<1>2. op # "install" /\ (op = "save" => step \notin BeforeJournal \cup AfterJournal)
  BY <1>1 DEF FateInv, ControlOK, PendingInv, RestoreSteps, MarkSteps, SwapSteps, CleanSteps,
              BeforeJournal, AfterJournal
<1>3. ASSUME UNCHANGED <<owner, op, cur, overwrite>>, Kept,
             step' \in RestoreSteps \cup {"mark", "clean"}
      PROVE  KnownInv'
  <2>1. ~Expecting'
    BY <1>2, <1>3 DEF Expecting, RestoreSteps, BeforeJournal, AfterJournal
  <2> QED BY <1>3, <2>1, GoesOn
<1> QED BY <1>3, MarkFailedKnown
        DEF Rollback, Undo, Reclassify, Restore, RestoreMove, RestoreConfirm, Restored, RestoreSteps,
            NextMember, AfterRestore, Goto, GotoMember, Silent

LEMMA CleanupKnown ==
  ASSUME TypeInv, FateInv, KnownInv, Cleanup PROVE KnownInv'
<1>1. ASSUME NEW c, Conclude(c) PROVE KnownInv'
  <2>1. CASE Release /\ UNCHANGED <<opened, reading>>
    BY <2>1, KnownEnds
  <2>2. CASE step' = "ready" /\ UNCHANGED <<owner, op, overwrite, session>> /\ op \in {"open", "save"}
    <3>1. ~Expecting'
      BY <2>2 DEF Expecting, BeforeJournal, AfterJournal, MarkSteps, SwapSteps
    <3>2. DocInv'
      BY <2>2 DEF KnownInv, DocInv, session
    <3> QED BY <3>1, <3>2 DEF KnownInv
  <2> QED BY <1>1, <2>1, <2>2 DEF Conclude, session
<1>2. ASSUME UNCHANGED <<owner, op, cur, overwrite>>, Kept, step' = "cleaning" PROVE KnownInv'
  <2>1. ~Expecting'
    BY <1>2 DEF Expecting, BeforeJournal, AfterJournal, MarkSteps, SwapSteps
  <2> QED BY <1>2, <2>1, GoesOn
<1> QED BY <1>1, <1>2 DEF Cleanup, Clean, CleanRemoves, CleanDone, Silent

LEMMA RecoveryKnown ==
  ASSUME TypeInv, FateInv, KnownInv, Recovery PROVE KnownInv'
<1>1. ASSUME UNCHANGED <<owner, op, overwrite, rec, session>>,
             step' \in {"recover", "ready", "clean", "mark"}, op # "install"
      PROVE  KnownInv'
  <2>1. ~Expecting'
    BY <1>1 DEF Expecting, BeforeJournal, AfterJournal
  <2>2. DocInv'
    BY <1>1 DEF KnownInv, DocInv, session
  <2> QED BY <2>1, <2>2 DEF KnownInv
<1>2. step \in {"look", "recover", "ready"}
  BY DEF Recovery, Look, RecoverClean, RecoverRollBack, RecoverFails, OpenRecovered
<1>3. op # "install"
  BY <1>2 DEF FateInv, ControlOK, PendingInv, MarkSteps, SwapSteps, CleanSteps
<1>4. CASE OpenRecovered
  <2>1. op = "open" /\ reading' = reading \cup {owner} /\ opened' = opened /\ Release
    BY <1>4 DEF OpenRecovered
  <2> QED BY <2>1 DEF KnownInv, DocInv, Release, Expecting
<1>5. CASE ~OpenRecovered
  BY <1>1, <1>3, <1>5, RecoveryFailedKnown
     DEF Recovery, Look, RecoverClean, RecoverRollBack, RecoverFails, Goto, Silent, Kept
<1> QED BY <1>4, <1>5

LEMMA NextKnown == TypeInv /\ FateInv /\ KnownInv /\ [Next]_vars => KnownInv'
<1> SUFFICES ASSUME TypeInv, FateInv, KnownInv, [Next]_vars PROVE KnownInv'
  OBVIOUS
<1>1. CASE Crash
  BY <1>1 DEF Crash, Release, KnownInv, DocInv, Expecting
<1>2. CASE External \/ UNCHANGED vars
  <2>1. UNCHANGED <<session, rec, owner, cur, overwrite, op, step>>
    BY <1>2 DEF External, vars, job, session
  <2> QED BY <2>1, KnownFrame DEF Expecting
<1> QED BY <1>1, <1>2, UserKnown, RecoveryKnown, PrepareKnown, BeginInstallKnown, MarkingKnown,
           InstallKnown, RollbackKnown, CleanupKnown DEF Next, Worker

(* Whatever other programs put in a member's place survives: the program    *)
(* deletes or moves away only its own replacement, or the very file that    *)
(* the document last saw there, or that the user confirmed to overwrite     *)
(* (prepare_pair_with_expectation, install_member_exact, restore).          *)
THEOREM ForeignFilesSurvive == Spec => OnlyKnownFilesRemoved
<1>1. Init => KnownInv
  BY DEF Init, KnownInv, DocInv, Expecting
<1>2. TypeInv /\ KnownInv /\ FateInv /\ [Next]_vars =>
        [ext' = ext => \A m \in Member :
           dir[m] # Absent /\ dir'[m] # dir[m] =>
             \/ dir[m] = New(cur)
             \/ dir[m] = rec[cur][m] /\ (overwrite \/ owner \notin opened
                                         \/ dir[m] = seen[owner][m])]_vars
  <2> SUFFICES ASSUME TypeInv, FateInv, KnownInv, [Next]_vars, ext' = ext, NEW m \in Member,
                      dir[m] # Absent, dir'[m] # dir[m]
               PROVE  \/ dir[m] = New(cur)
                      \/ dir[m] = rec[cur][m] /\ (overwrite \/ owner \notin opened
                                                  \/ dir[m] = seen[owner][m])
    BY DEF vars
  <2>0. dir \in [Shared -> Object] /\ mem \in Member /\ Member \subseteq Shared
    BY DEF TypeInv, FilesOK, JobOK, Shared
  <2>1. step \in SwapSteps \cup RestoreSteps
    BY MembersStay
  <2>2. CASE InstDelete
    <3>1. dir[mem] = rec[cur][mem] /\ step = "instDelete" /\ m = mem
      BY <2>0, <2>2 DEF InstDelete, Put, InstFails, files
    <3>2. op = "install"
      BY <3>1 DEF FateInv, ControlOK, PendingInv, SwapSteps
    <3>3. overwrite \/ rec[cur] = seen[owner]
      BY <3>1, <3>2 DEF KnownInv, Expecting, SwapSteps
    <3> QED BY <3>1, <3>3
  <2>3. CASE Restore
    <3>1. dir[mem] = New(cur) /\ m = mem
      BY <2>0, <2>3 DEF Restore, Put, Silent, files, MarkFailed, RecoveryFailed
    <3> QED BY <3>1
  <2>4. CASE InstMove \/ RestoreMove
    <3>1. dir[mem] = Absent /\ m = mem
      BY <2>0, <2>4 DEF InstMove, RestoreMove, BackupReady, InstFails, MarkFailed, RecoveryFailed, files
    <3> QED BY <3>1
  <2>5. ASSUME ~InstDelete, ~Restore, ~InstMove, ~RestoreMove PROVE FALSE
    <3>1. CASE Install
      BY <2>0, <2>5, <3>1 DEF Install, InstVerify, InstConfirm, Final, CommitMove, CommitConfirm, InstFails,
                Silent, files, Member
    <3>2. CASE Rollback
      BY <2>5, <3>2 DEF Rollback, Undo, Reclassify, RestoreConfirm, Restored, MarkFailed, RecoveryFailed,
                Silent, files
    <3>3. CASE User \/ Reader \/ Crash \/ UNCHANGED vars
      BY <3>3 DEF User, Reader, BeginOpen, BeginSave, Begin, Close, ReadPair, Crash, files, vars
    <3>4. CASE External
      BY <3>4 DEF External, TypeInv, RestOK
    <3>5. CASE Marking
      BY <2>1, <3>5 DEF Marking, Mark, MarkMove, MarkConfirm, SwapSteps, RestoreSteps
    <3>6. CASE Recovery \/ InstallBegins \/ PreparedDropped \/ Cleanup
      BY <2>1, <3>6 DEF Recovery, Look, RecoverClean, RecoverRollBack, RecoverFails, OpenRecovered,
                InstallBegins, PreparedDropped, Cleanup, Clean, CleanRemoves, CleanDone, SwapSteps, RestoreSteps
    <3>7. CASE Prepare
      BY <2>1, <3>7 DEF Prepare, PrepareBegins, PrepareRefused, Stage, BackUp, WriteJournal, PublishJournal,
                CreateCommit, FillCommit, CreateRollback, FillRollback, Seal, PrepareFails, ScratchRemoves,
                ScratchDone, Write, Preparing, SwapSteps, RestoreSteps
    <3> QED BY <3>1, <3>2, <3>3, <3>4, <3>5, <3>6, <3>7 DEF Next, Worker
  <2> QED BY <2>2, <2>3, <2>4, <2>5
<1> QED BY <1>1, <1>2, NextKnown, FateCorrect, PTL DEF Spec, OnlyKnownFilesRemoved

-----------------------------------------------------------------------------
(***************************************************************************)
(* The deterministic stages of the two later markers always have a record, *)
(* when no other program touches the pair and no removal fails.  (One      *)
(* removal that fails in Scratch is enough to leave one: MaxFaults = 1 is  *)
(* the run pair_scratch.)                                                  *)
(***************************************************************************)
MarkerStage == {"commitNew", "rollbackNew"}
StageInv == /\ NoPhase => \A n \in MarkerStage : dir[n] = Absent
            /\ step = "scratch" => \A n \in MarkerStage : dir[n] # Absent => n \in todo

LEMMA StagesKept ==
  ASSUME StageInv, step' # "scratch", \A n \in Marker : dir'[n] = dir[n]
  PROVE  StageInv'
BY DEF StageInv, NoPhase, Phase, MarkerStage, Marker

\* A step that leaves one of the phase markers there.
LEMMA PhaseThere ==
  ASSUME NEW n \in Phase, dir'[n] # Absent, step' # "scratch" PROVE StageInv'
BY DEF StageInv, NoPhase

LEMMA PrepareStages ==
  ASSUME MaxFaults = 0, Safe, StageInv, Prepare PROVE StageInv'
<1> USE DEF Safe, PairInv, StepInv
<1>0. dir \in [Shared -> Object] /\ cur \in Nat
  BY DEF TypeInv, FilesOK, JobOK
<1>1. CASE PrepareBegins \/ PrepareRefused \/ Seal \/ ScratchDone
  BY <1>1, StagesKept DEF PrepareBegins, PrepareRefused, Seal, ScratchDone, Silent, files, Release, Goto
<1>2. CASE Stage \/ BackUp \/ WriteJournal
  <2>1. dir' = dir /\ step' # "scratch"
    BY <1>2 DEF Stage, BackUp, WriteJournal, Write, Put, StageOf, BackupOf, Shared, Marker, Member,
                Goto, GotoMember
  <2> QED BY <2>1, StagesKept
<1>3. CASE PublishJournal
  <2>1. dir'["journal"] = Prepared(cur) /\ step' # "scratch"
    BY <1>0, <1>3 DEF PublishJournal, PrepareInv, Goto, Shared, Marker
  <2> QED BY <1>0, <2>1, PhaseThere, MarkerFacts DEF Phase
<1>4. CASE CreateCommit \/ FillCommit \/ CreateRollback \/ FillRollback
  <2>1. dir["journal"] = Prepared(cur)
    BY <1>4 DEF CreateCommit, FillCommit, CreateRollback, FillRollback, Write, PrepareInv, AfterJournal
  <2>2. dir'["journal"] = dir["journal"] /\ step' # "scratch"
    BY <1>0, <1>4 DEF CreateCommit, FillCommit, CreateRollback, FillRollback, Write, Put, Shared, Marker, Goto
  <2> QED BY <1>0, <2>1, <2>2, PhaseThere, MarkerFacts DEF Phase
<1>5. CASE PrepareFails
  <2>1. dir' = dir /\ todo' = {n \in ScratchNames : At(cur, n) # Absent}
    BY <1>5 DEF PrepareFails, files
  <2>2. \A n \in MarkerStage : n \in ScratchNames /\ At(cur, n) = dir[n]
    BY DEF MarkerStage, ScratchNames, At, Shared, Marker
  <2>3. \A n \in MarkerStage : dir[n] # Absent => n \in todo'
    BY <2>1, <2>2
  <2> QED BY <2>1, <2>3 DEF StageInv, NoPhase, MarkerStage, Phase
<1>6. CASE ScratchRemoves
  <2>1. PICK n \in todo : /\ \A k \in todo : ScratchRank(k) <= ScratchRank(n)
                          /\ todo' = todo \ {n} /\ Put(cur, n, Absent)
    BY <1>6 DEF ScratchRemoves, IoError, TypeInv, FaultsOK
  <2>2. step = "scratch" /\ step' = "scratch"
    BY <1>6 DEF ScratchRemoves
  <2>3. \A k \in Shared : dir'[k] = IF k = n THEN Absent ELSE dir[k]
    BY <1>0, <2>1 DEF Put
  <2>4. \A k \in MarkerStage : dir'[k] # Absent => k \in todo'
    BY <2>1, <2>2, <2>3 DEF StageInv, MarkerStage, Shared, Marker
  <2>5. ASSUME NoPhase', NEW k \in MarkerStage PROVE dir'[k] = Absent
    <3>1. CASE NoPhase
      BY <2>3, <3>1 DEF StageInv, MarkerStage, Shared, Marker
    <3>2. CASE ~NoPhase
      <4>1. n = "journal"
        BY <2>2, <2>3, <2>5, <3>2 DEF NoPhase, Phase, Shared, Marker, PrepareInv
      <4>2. ScratchRank(n) = 5 /\ ScratchRank("commitNew") = 6 /\ ScratchRank("rollbackNew") = 7
        BY <4>1 DEF ScratchRank
      <4>3. k \notin todo
        BY <2>1, <4>2 DEF MarkerStage
      <4>4. dir[k] = Absent
        BY <2>2, <4>3 DEF StageInv
      <4> QED BY <2>3, <4>4 DEF MarkerStage, Shared, Marker
    <3> QED BY <3>1, <3>2
  <2> QED BY <2>4, <2>5 DEF StageInv
<1> QED BY <1>1, <1>2, <1>3, <1>4, <1>5, <1>6 DEF Prepare

LEMMA CleanupStages ==
  ASSUME Safe, StageInv, Cleanup PROVE StageInv'
<1> USE DEF Safe
<1>0. dir \in [Shared -> Object] /\ cur \in Nat
  BY DEF TypeInv, FilesOK, JobOK
<1>1. ASSUME NEW c, Conclude(c) PROVE step' # "scratch"
  BY <1>1 DEF Conclude, Release
<1>2. CASE UNCHANGED files /\ step' # "scratch"
  BY <1>2, StagesKept DEF files
<1>3. ASSUME NEW n \in todo, \A k \in todo : CleanRank(n) <= CleanRank(k), Put(cur, n, Absent),
             step = "cleaning", step' = "cleaning"
      PROVE  StageInv'
  <2>1. \A k \in Shared : dir'[k] = IF k = n THEN Absent ELSE dir[k]
    BY <1>0, <1>3 DEF Put
  <2>2. \A k \in Marker : dir[k] # Absent <=> k \in todo
    BY <1>3 DEF FateInv, ControlOK, EvidenceInv
  <2>3. ASSUME NoPhase', NEW k \in MarkerStage PROVE dir'[k] = Absent
    <3>1. CASE NoPhase
      BY <2>1, <3>1 DEF StageInv, MarkerStage, Shared, Marker
    <3>2. CASE ~NoPhase
      <4>1. n \in Phase /\ \A p \in Phase : p # n => p \notin todo
        BY <2>1, <2>2, <2>3, <3>2 DEF NoPhase, Phase, Shared, Marker
      <4>2. CleanRank(n) > 3
        BY <4>1 DEF CleanRank, Phase
      <4>3. CleanRank("commitNew") = 2 /\ CleanRank("rollbackNew") = 3
        BY DEF CleanRank
      <4>4. k \notin todo
        BY <1>3, <4>1, <4>2, <4>3 DEF MarkerStage, CleanRank, Phase
      <4> QED BY <2>1, <2>2, <4>4 DEF MarkerStage, Marker, Shared
    <3> QED BY <3>1, <3>2
  <2> QED BY <1>3, <2>3 DEF StageInv
<1> QED BY <1>1, <1>2, <1>3 DEF Cleanup, Clean, CleanRemoves, CleanDone, Silent

LEMMA NextStages ==
  ASSUME MaxExt = 0, MaxFaults = 0, Safe, StageInv, [Next]_vars PROVE StageInv'
<1> USE DEF Safe, PairInv, StepInv
<1>0. dir \in [Shared -> Object] /\ cur \in Nat
  BY DEF TypeInv, FilesOK, JobOK
<1>1. CASE UNCHANGED dir /\ step' # "scratch"
  BY <1>1, StagesKept
<1>2. CASE UNCHANGED vars
  BY <1>2 DEF vars, StageInv, NoPhase
<1>3. ASSUME NEW d \in Doc, Close(d) \/ ReadPair(d) PROVE StageInv'
  BY <1>3 DEF Close, ReadPair, files, job, StageInv, NoPhase
<1>4. CASE User \/ Reader
  BY <1>1, <1>3, <1>4 DEF User, Reader, BeginOpen, BeginSave, Begin, files
<1>5. CASE Recovery
  BY <1>1, <1>5 DEF Recovery, Look, RecoverClean, RecoverRollBack, RecoverFails, OpenRecovered,
                    RecoveryFailed, Release, Goto, Silent, files
<1>6. CASE InstallBegins \/ PreparedDropped
  BY <1>1, <1>6 DEF InstallBegins, PreparedDropped, Release, Silent, files
<1>7. MarkFailed => UNCHANGED dir /\ step' # "scratch"
  BY DEF MarkFailed, RecoveryFailed, Release, files
<1>8. CASE Marking
  <2>1. CASE UNCHANGED dir
    BY <1>1, <1>7, <1>8, <2>1 DEF Marking, Mark, MarkMove, MarkConfirm, Goto, GotoMember, AfterMark
  <2>2. CASE dir' # dir
    <3>1. step = "markMove" /\ step' = "markConfirm"
          /\ dir' = [dir EXCEPT !["rollback"] = dir["rollbackNew"], !["rollbackNew"] = Absent]
      BY <1>7, <1>8, <2>2 DEF Marking, Mark, MarkMove, MarkConfirm, Goto, Silent, files
    <3>2. dir'["rollback"] = Prepared(cur)
      BY <1>0, <3>1 DEF MarkInv, Shared, Marker
    <3> QED BY <1>0, <3>1, <3>2, PhaseThere, MarkerFacts DEF Phase
  <2> QED BY <2>1, <2>2
<1>9. CASE Install
  <2>1. CASE CommitMove
    <3>1. CASE UNCHANGED dir
      BY <1>1, <2>1, <3>1 DEF CommitMove, Goto, InstFails
    <3>2. CASE dir' # dir
      <4>1. /\ dir' = [dir EXCEPT !["commit"] = dir["commitNew"], !["commitNew"] = Absent]
            /\ step = "commitMove" /\ step' = "commitConfirm"
        BY <2>1, <3>2 DEF CommitMove, Goto, InstFails, files
      <4>2. dir["rollback"] = Prepared(cur)
        BY <4>1 DEF InstallInv, SwapSteps, Rolling
      <4>3. dir'["rollback"] # Absent
        BY <1>0, <4>1, <4>2, MarkerFacts DEF Shared, Marker
      <4> QED BY <4>1, <4>3, PhaseThere DEF Phase
    <3> QED BY <3>1, <3>2
  <2>2. CASE ~CommitMove
    <3>1. step' # "scratch" /\ \A n \in Marker : dir'[n] = dir[n]
      BY <1>0, <1>9, <2>2 DEF Install, InstVerify, InstDelete, InstMove, InstConfirm, Final, CommitConfirm,
              InstFails, Put, Goto, GotoMember, Silent, files, TypeInv, JobOK, Member, Marker, Shared
    <3> QED BY <3>1, StagesKept
  <2> QED BY <2>1, <2>2
<1>10. CASE Rollback
  <2>1. step' # "scratch" /\ \A n \in Marker : dir'[n] = dir[n]
    BY <1>0, <1>7, <1>10 DEF Rollback, Undo, Reclassify, Restore, RestoreMove, RestoreConfirm, Restored,
            NextMember, AfterRestore, Put, Goto, GotoMember, Silent, files, TypeInv, JobOK, Member, Marker, Shared
  <2> QED BY <2>1, StagesKept
<1>11. CASE Crash
  BY <1>1, <1>11 DEF Crash, Release, files
<1>12. ~External
  BY DEF External, TypeInv, RestOK
<1> QED BY <1>2, <1>4, <1>5, <1>6, <1>8, <1>9, <1>10, <1>11, <1>12, PrepareStages, CleanupStages
        DEF Next, Worker

(* "A crash can leave a recoverable journal without that stage, never an    *)
(* unowned deterministic stage without its journal" (pair.rs:437): true as  *)
(* long as no removal fails and no other program interferes.                *)
THEOREM CrashesLeaveNoOrphan == ASSUME MaxExt = 0, MaxFaults = 0 PROVE Spec => []StagesOwned
<1>1. Init => StageInv
  BY DEF Init, StageInv, MarkerStage, Absent, Base, File, Shared, Marker, Member
<1>2. Safe /\ StageInv => StagesOwned
  <2> SUFFICES ASSUME Safe, ~NoPhase PROVE \E t \in Token : Source(t)
    BY DEF StageInv, StagesOwned, MarkerStage
  <2>1. PICK t \in 1..last : Marks(t)
    BY DEF Safe, PairInv, DirInv
  <2>2. t \in Token
    BY PairAssumption DEF Safe, TypeInv, RestOK, Token
  <2>3. Source(t)
    BY <2>1 DEF Marks, Mine, Phase, NoPhase, Proof, Source
  <2> QED BY <2>2, <2>3
<1> QED BY <1>1, <1>2, NextStages, SafeAlways, PTL DEF Spec

-----------------------------------------------------------------------------
(***************************************************************************)
(* What documents see of a pair, when no other program touches it and at   *)
(* most one operation fails.  The value of the pair is that of one         *)
(* committed save, or of none (WholeInv).  While a document waits to read  *)
(* the pair it has recovered, the members are the originals or a committed *)
(* replacement (Together), except inside a swap, and inside the undoing of *)
(* one (Torn), both under the locks.  A swap only stops on a failure       *)
(* (ExactInv), and undoing it needs a second one to stop half-way.         *)
(***************************************************************************)
Whole(p) == \A t \in Token : \A m \in Member :
              p[m].val = t => t \in done /\ \A k \in Member : p[k].val = t
WholeValue == \A t \in Token : \A m \in Member :
                PairValue[m] = t => t \in done /\ \A k \in Member : PairValue[k] = t
WholeInv == WholeValue /\ \A t \in Token : Whole(rec[t])

LEMMA ValueMoves ==
  ASSUME MaxExt = 0, Safe, Safe', [Next]_vars
  PROVE  \/ PairValue' = PairValue /\ done' = done
         \/ /\ \A m \in Member : PairValue'[m] = cur
            /\ cur \in done' /\ done \subseteq done'
<1>1. CASE CommitMove /\ op' # "undo"
  <2>1. PairValue' = [m \in Member |-> cur]
    BY <1>1, CommitRefines DEF Atomic!Commit, Atomic!Pair, Member
  <2>2. done' = done \cup {cur}
    BY <1>1 DEF CommitMove, InstFails
  <2> QED BY <2>1, <2>2
<1>2. CASE CommitMove => op' = "undo"
  BY <1>2, MovesValue, FrameSteps, FrameValue, StepReports
<1> QED BY <1>1, <1>2

LEMMA RecKept ==
  ASSUME MaxExt = 0, Safe, [Next]_vars, ~PrepareBegins PROVE rec' = rec
<1>1. CASE ~Moves
  BY <1>1, FrameSteps DEF Frame
<1>2. CASE Moves
  <2>1. MarkFailed \/ (\E c : InstFails(c) \/ Conclude(c)) => rec' = rec
    BY DEF MarkFailed, RecoveryFailed, Kept, InstFails, Conclude
  <2> QED BY <1>2, <2>1 DEF Moves, BackUp, PublishJournal, ScratchRemoves, MarkMove, InstDelete, InstMove, CommitMove,
              Restore, RestoreMove, CleanRemoves, Silent, Kept
<1> QED BY <1>1, <1>2

LEMMA DoneGrows ==
  ASSUME MaxExt = 0, Safe, Safe', [Next]_vars, NEW p, Whole(p) PROVE Whole(p)'
<1>1. done \subseteq done'
  BY ValueMoves
<1>2. Whole(p)' <=> \A t \in Token : \A m \in Member :
              p'[m].val = t => t \in done' /\ \A k \in Member : p'[k].val = t
  BY DEF Whole
<1> QED BY <1>1, <1>2 DEF Whole

(***************************************************************************)
(* Nothing surprises a live installation, and nothing the undoing of one.  *)
(***************************************************************************)
Untouched(m) == dir[m] = rec[cur][m] /\ priv[cur][StageOf(m)] = New(cur)
MemberSteps == {"instVerify", "instDelete", "instMove", "instConfirm"}
MarkedInv == op = "install" /\ step \in MarkSteps =>
               (\A m \in Member : Untouched(m)) /\ dir["commitNew"] = Committed(cur)
SwapInv ==
  /\ step \in SwapSteps => dir["commitNew"] = Committed(cur)
  /\ step \in {"instVerify", "instDelete"} => Untouched(mem)
  /\ step = "instMove" => dir[mem] = Absent
  /\ step = "instConfirm" => dir[mem] = New(cur)
  /\ step \in MemberSteps => IF mem = "native" THEN Untouched("raster")
                                               ELSE dir["native"] = New(cur)
  /\ step = "final" => Replaced(cur)
ExactInv == alias = FALSE /\ MarkedInv /\ SwapInv
UndoInv ==
  /\ op = "undo" => step \in {"undo", "mark"} \cup RestoreSteps \cup CleanSteps
  /\ op = "undo" /\ step = "mark" => Rolling(cur)
  /\ step = "restoreConfirm" => dir[mem] = Backup(cur, mem)

LEMMA AliasStays == ASSUME MaxExt = 0, RestOK, [Next]_vars PROVE alias' = alias
<1>1. MarkFailed \/ (\E c : InstFails(c) \/ Conclude(c)) => alias' = alias
  BY DEF MarkFailed, RecoveryFailed, Kept, InstFails, Conclude
<1>2. CASE User \/ Reader \/ Recovery
  BY <1>2 DEF User, Reader, BeginOpen, BeginSave, Begin, Close, ReadPair, Recovery, Look,
              RecoverClean, RecoverRollBack, RecoverFails, OpenRecovered, RecoveryFailed, Silent, Kept
<1>3. CASE Prepare \/ InstallBegins \/ PreparedDropped
  BY <1>3 DEF Prepare, PrepareBegins, PrepareRefused, Stage, BackUp, WriteJournal, PublishJournal,
              CreateCommit, FillCommit, CreateRollback, FillRollback, Write, Seal, PrepareFails,
              ScratchRemoves, ScratchDone, InstallBegins, PreparedDropped, Silent, Kept
<1>4. CASE Marking
  BY <1>1, <1>4 DEF Marking, Mark, MarkMove, MarkConfirm, Silent, Kept
<1>5. CASE Install
  BY <1>1, <1>5 DEF Install, InstVerify, InstDelete, InstMove, InstConfirm, Final, CommitMove,
                    CommitConfirm, Silent, Kept
<1>6. CASE Rollback
  BY <1>1, <1>6 DEF Rollback, Undo, Reclassify, Restore, RestoreMove, RestoreConfirm, Restored,
                    Silent, Kept
<1>7. CASE Cleanup
  BY <1>1, <1>7 DEF Cleanup, Clean, CleanRemoves, CleanDone, Silent, Kept
<1>8. CASE Crash \/ UNCHANGED vars
  BY <1>8 DEF Crash, vars
<1>9. ~External
  BY DEF External, RestOK
<1> QED BY <1>2, <1>3, <1>4, <1>5, <1>6, <1>7, <1>8, <1>9 DEF Next, Worker

\* Where a job is going when it is not moving the members of an installation.
LEMMA ExactElsewhere ==
  ASSUME step' \notin SwapSteps, step' \in MarkSteps => op' # "install"
  PROVE  MarkedInv' /\ SwapInv'
BY DEF MarkedInv, SwapInv, SwapSteps, MemberSteps

LEMMA MarkedToSwap ==
  ASSUME step' \in {"mark", "markMove", "markConfirm", "instVerify"}, mem \in Member,
         cur' = cur, rec' = rec, priv' = priv, step' = "instVerify" => mem' = "native",
         \A n \in Member \cup {"commitNew"} : dir'[n] = dir[n],
         \A m \in Member : Untouched(m), dir["commitNew"] = Committed(cur)
  PROVE  MarkedInv' /\ SwapInv'
<1>1. dir'["commitNew"] = Committed(cur') /\ \A m \in Member : Untouched(m)'
  BY DEF Untouched
<1> QED BY <1>1 DEF MarkedInv, SwapInv, MemberSteps, Member, MarkSteps

LEMMA InstallExact == ASSUME Safe, MarkedInv, SwapInv, Install PROVE MarkedInv' /\ SwapInv'
<1> USE DEF Safe
<1>1. /\ step \in SwapSteps \cup {"commitConfirm"} /\ cur \in Token /\ mem \in Member
      /\ dir \in [Shared -> Object] /\ op = "install"
      /\ priv \in [Token -> [Private -> Object]]
  <2>1. step \in SwapSteps \cup {"commitConfirm"}
    BY DEF Install, InstVerify, InstDelete, InstMove, InstConfirm, Final, CommitMove,
           CommitConfirm, SwapSteps
  <2> QED BY <2>1, TokenType
          DEF SwapSteps, TypeInv, JobOK, FilesOK, FateInv, ControlOK, PendingInv, DecidedInv
<1>2. CASE \E c : InstFails(c)
  BY <1>2, ExactElsewhere DEF InstFails, SwapSteps, MarkSteps
<1>3. CASE CommitMove \/ CommitConfirm
  BY <1>2, <1>3, ExactElsewhere DEF CommitMove, CommitConfirm, Goto, SwapSteps, MarkSteps
<1>4. CASE (InstVerify \/ InstConfirm \/ Final) /\ ~\E c : InstFails(c)
  <2>1. /\ UNCHANGED files /\ rec' = rec /\ cur' = cur
        /\ \/ /\ step = "instVerify" /\ mem' = mem /\ Untouched(mem)
              /\ step' = IF rec[cur][mem] = Absent THEN "instMove" ELSE "instDelete"
           \/ step = "instConfirm" /\ mem = "native" /\ step' = "instVerify" /\ mem' = "raster"
           \/ step = "instConfirm" /\ mem # "native" /\ step' = "final"
           \/ step = "final" /\ step' = "commitMove"
    BY <1>4 DEF InstVerify, InstConfirm, Final, Goto, GotoMember, Silent, Kept, SwapInv
  <2>2. /\ dir' = dir /\ priv' = priv /\ dir["commitNew"] = Committed(cur)
        /\ \A m \in Member : Untouched(m)' <=> Untouched(m)
    BY <2>1, <1>1 DEF files, Untouched, SwapInv, SwapSteps
  <2>3. CASE step = "instVerify"
    <3>1. /\ step' \in {"instMove", "instDelete"} /\ mem' = mem /\ Untouched(mem)
          /\ step' = "instMove" => rec[cur][mem] = Absent
      BY <2>1, <2>3
    <3>2. step' = "instMove" => dir'[mem'] = Absent
      BY <3>1, <2>2 DEF Untouched
    <3> QED BY <1>1, <2>1, <2>2, <2>3, <3>1, <3>2
            DEF MarkedInv, SwapInv, MemberSteps, SwapSteps, MarkSteps, Member
  <2>4. CASE step = "instConfirm" /\ mem = "native"
    BY <1>1, <2>1, <2>2, <2>4 DEF MarkedInv, SwapInv, MemberSteps, SwapSteps, MarkSteps, Member
  <2>5. CASE step = "instConfirm" /\ mem # "native"
    <3>1. step' = "final" /\ Replaced(cur)'
      BY <1>1, <2>1, <2>2, <2>5 DEF SwapInv, MemberSteps, Member, Replaced
    <3> QED BY <2>1, <2>2, <3>1 DEF MarkedInv, SwapInv, MemberSteps, SwapSteps, MarkSteps
  <2>6. CASE step = "final"
    BY <2>1, <2>2, <2>6 DEF MarkedInv, SwapInv, MemberSteps, SwapSteps, MarkSteps
  <2> QED BY <2>1, <2>3, <2>4, <2>5, <2>6
<1>5. CASE InstDelete /\ ~\E c : InstFails(c)
  <2>1. /\ step = "instDelete" /\ step' = "instMove" /\ rec' = rec /\ cur' = cur /\ mem' = mem
        /\ priv' = priv /\ dir' = [dir EXCEPT ![mem] = Absent]
    BY <1>1, <1>5 DEF InstDelete, Goto, Put, Kept, Shared
  <2>2. /\ dir'[mem] = Absent /\ \A n \in (Member \cup {"commitNew"}) \ {mem} : dir'[n] = dir[n]
    BY <1>1, <2>1 DEF Shared, Marker, Member
  <2>3. dir'["commitNew"] = Committed(cur)
    BY <1>1, <2>1, <2>2 DEF SwapInv, SwapSteps, Member
  <2>4. IF mem = "native" THEN Untouched("raster")' ELSE dir'["native"] = New(cur)
    BY <1>1, <2>1, <2>2 DEF SwapInv, MemberSteps, Member, Untouched
  <2> QED BY <2>1, <2>2, <2>3, <2>4 DEF MarkedInv, SwapInv, MemberSteps, SwapSteps, MarkSteps
<1>6. CASE InstMove /\ ~\E c : InstFails(c)
  <2>1. /\ step = "instMove" /\ step' = "instConfirm" /\ rec' = rec /\ cur' = cur /\ mem' = mem
        /\ priv' = [priv EXCEPT ![cur][StageOf(mem)] = Absent]
        /\ dir' = [dir EXCEPT ![mem] = New(cur)]
    BY <1>1, <1>6 DEF InstMove, Goto, Kept, PairInv, StepInv, InstallInv
  <2>2. /\ dir'[mem] = New(cur) /\ \A n \in (Member \cup {"commitNew"}) \ {mem} : dir'[n] = dir[n]
    BY <1>1, <2>1 DEF Shared, Marker, Member
  <2>3. dir'["commitNew"] = Committed(cur)
    BY <1>1, <2>1, <2>2 DEF SwapInv, SwapSteps, Member
  <2>4. mem = "native" => priv'[cur][StageOf("raster")] = priv[cur][StageOf("raster")]
    BY <1>1, <2>1 DEF StageOf, Private
  <2>5. IF mem = "native" THEN Untouched("raster")' ELSE dir'["native"] = New(cur)
    BY <1>1, <2>1, <2>2, <2>4 DEF SwapInv, MemberSteps, Member, Untouched
  <2> QED BY <2>1, <2>2, <2>3, <2>5 DEF MarkedInv, SwapInv, MemberSteps, SwapSteps, MarkSteps
<1> QED BY <1>2, <1>3, <1>4, <1>5, <1>6 DEF Install

LEMMA MarkExact ==
  ASSUME Safe, MarkedInv, SwapInv, InstallBegins \/ Marking PROVE MarkedInv' /\ SwapInv'
<1> USE DEF Safe
<1>1. /\ step \in MarkSteps \cup {"prepared"} /\ cur \in Token /\ mem \in Member
      /\ dir \in [Shared -> Object]
  <2>1. step \in MarkSteps \cup {"prepared"}
    BY DEF InstallBegins, Marking, Mark, MarkMove, MarkConfirm, MarkSteps
  <2> QED BY <2>1, TokenType DEF MarkSteps, TypeInv, JobOK, FilesOK
<1>2. CASE InstallBegins
  <2>1. /\ step' = "mark" /\ cur' = cur /\ rec' = rec /\ dir' = dir /\ priv' = priv
        /\ PreparedExact(cur)
    BY <1>2 DEF InstallBegins, Silent, Kept, files
  <2>2. /\ dir["commitNew"] = Committed(cur)
        /\ \A m \in Member : dir[m] = rec[cur][m]
        /\ \A n \in {"nativeNew", "rasterNew"} : priv[cur][n] = New(cur)
    BY <2>1 DEF PreparedExact, Proof, Private
  <2>3. \A m \in Member : Untouched(m)
    BY <2>2 DEF Untouched, StageOf
  <2> QED BY <1>1, <2>1, <2>2, <2>3, MarkedToSwap
<1>3. CASE Marking /\ op # "install"
  <2>1. step \in MarkSteps /\ op' # "install" /\ (step' \in MarkSteps \cup {"reclassify", "idle"})
    BY <1>3 DEF Marking, Mark, MarkMove, MarkConfirm, MarkFailed, RecoveryFailed, Release, Goto,
                GotoMember, Silent, AfterMark, MarkSteps
  <2> QED BY <2>1, ExactElsewhere DEF SwapSteps, MarkSteps
<1>4. CASE Marking /\ op = "install" /\ MarkFailed
  BY <1>4, ExactElsewhere DEF MarkFailed, Recovering, SwapSteps, MarkSteps
<1>5. CASE Marking /\ op = "install" /\ ~MarkFailed
  <2>1. (\A m \in Member : Untouched(m)) /\ dir["commitNew"] = Committed(cur)
    BY <1>5 DEF Marking, Mark, MarkMove, MarkConfirm, MarkedInv, MarkSteps
  <2>2. /\ step' \in {"mark", "markMove", "markConfirm", "instVerify"}
        /\ step' = "instVerify" => mem' = "native"
        /\ cur' = cur /\ rec' = rec /\ priv' = priv
        /\ dir' = dir \/ dir' = [dir EXCEPT !["rollback"] = dir["rollbackNew"], !["rollbackNew"] = Absent]
    BY <1>5 DEF Marking, Mark, MarkMove, MarkConfirm, Goto, GotoMember, Silent, Kept, AfterMark, files
  <2>3. \A n \in Member \cup {"commitNew"} : dir'[n] = dir[n]
    BY <1>1, <2>2 DEF Shared, Marker, Member
  <2> QED BY <1>1, <2>1, <2>2, <2>3, MarkedToSwap
<1> QED BY <1>2, <1>3, <1>4, <1>5

LEMMA ExactNext == ASSUME MaxExt = 0, Safe, ExactInv, [Next]_vars PROVE ExactInv'
<1> SUFFICES MarkedInv' /\ SwapInv'
  BY AliasStays DEF ExactInv, Safe, TypeInv
<1> USE DEF ExactInv, Safe
<1>1. CASE UNCHANGED <<files, rec, job>>
  BY <1>1 DEF MarkedInv, SwapInv, Untouched, Replaced, files, job
<1>2. CASE step' \notin MarkSteps \cup SwapSteps
  BY <1>2, ExactElsewhere
<1>3. \A c : Conclude(c) => step' \in {"ready", "idle"}
  BY DEF Conclude, Release
<1>4. MarkFailed => step' \in {"recover", "idle"}
  BY DEF MarkFailed, RecoveryFailed, Release
<1>5. {"idle", "look", "ready", "recover", "clean", "cleaning", "scratch"} \cup BeforeJournal
         \cup AfterJournal \cup RestoreSteps \subseteq Step \ (MarkSteps \cup SwapSteps)
  BY DEF BeforeJournal, AfterJournal, RestoreSteps, MarkSteps, SwapSteps, Step
<1>6. CASE User \/ Reader
  BY <1>1, <1>2, <1>5, <1>6 DEF User, Reader, BeginOpen, BeginSave, Begin, Close, ReadPair
<1>7. CASE Recovery
  <2>1. CASE RecoverRollBack
    <3>1. step' = "mark" /\ op' = op /\ op # "install"
      BY <2>1 DEF RecoverRollBack, Goto, FateInv, ControlOK, PendingInv, MarkSteps, SwapSteps, CleanSteps
    <3> QED BY <3>1, ExactElsewhere DEF SwapSteps
  <2> QED BY <1>2, <1>5, <1>7, <2>1
          DEF Recovery, Look, RecoverClean, RecoverFails, OpenRecovered, RecoveryFailed, Release, Goto
<1>8. CASE Prepare \/ PreparedDropped
  <2>1. step' \in {"idle", "scratch", "clean"} \cup BeforeJournal \cup AfterJournal
    BY <1>8 DEF Prepare, PrepareBegins, PrepareRefused, Stage, BackUp, WriteJournal, PublishJournal,
                CreateCommit, FillCommit, CreateRollback, FillRollback, Write, Seal, PrepareFails,
                ScratchRemoves, ScratchDone, PreparedDropped, Goto, GotoMember, Release,
                BeforeJournal, AfterJournal
  <2> QED BY <1>2, <1>5, <2>1
<1>9. CASE InstallBegins \/ Marking
  BY <1>9, MarkExact
<1>10. CASE Install
  BY <1>10, InstallExact
<1>11. CASE Rollback
  <2>1. CASE Undo
    <3>1. step' \in {"mark", "idle", "recover"} /\ (step' = "mark" => op' = "undo")
      BY <1>4, <2>1 DEF Undo, Goto, FateInv, ControlOK, DecidedInv
    <3> QED BY <1>5, <3>1, ExactElsewhere DEF SwapSteps
  <2>2. CASE ~Undo
    <3>1. step' \in RestoreSteps \cup {"clean", "idle", "recover"}
      BY <1>4, <1>11, <2>2 DEF Rollback, Reclassify, Restore, RestoreMove, RestoreConfirm, Restored, Goto,
              GotoMember, NextMember, AfterRestore, RestoreSteps
    <3> QED BY <1>2, <1>5, <3>1
  <2> QED BY <2>1, <2>2
<1>12. CASE Cleanup
  <2>1. step' \in {"cleaning", "ready", "idle"}
    BY <1>3, <1>12 DEF Cleanup, Clean, CleanRemoves, CleanDone
  <2> QED BY <1>2, <1>5, <2>1
<1>13. CASE Crash
  BY <1>2, <1>5, <1>13 DEF Crash, Release
<1>14. CASE UNCHANGED vars
  BY <1>1, <1>14 DEF vars, files, job
<1>15. ~External
  BY DEF External, TypeInv, RestOK
<1> QED BY <1>6, <1>7, <1>8, <1>9, <1>10, <1>11, <1>12, <1>13, <1>14, <1>15 DEF Next, Worker

LEMMA UndoElsewhere ==
  ASSUME \/ op' # "undo" /\ step' # "restoreConfirm"
         \/ step' \in {"undo"} \cup (RestoreSteps \ {"restoreConfirm"}) \cup CleanSteps
  PROVE  UndoInv'
BY DEF UndoInv, RestoreSteps, CleanSteps

LEMMA RollbackUndo == ASSUME Safe, UndoInv, Rollback PROVE UndoInv'
<1> USE DEF Safe
<1>1. MarkFailed => op' # "undo" /\ step' # "restoreConfirm"
  BY DEF MarkFailed, RecoveryFailed, Release
<1>2. CASE MarkFailed
  BY <1>1, <1>2, UndoElsewhere
<1>3. CASE Undo /\ ~MarkFailed
  <2>1. UndoAllowed /\ step' = "mark" /\ cur' = cur /\ UNCHANGED files /\ rec' = rec /\ cur \in Token
    BY <1>3, TokenType DEF Undo, Goto, Silent, Kept
  <2>2. Rolling(cur)
    BY <1>3, <2>1 DEF Undo, UndoAllowed, PairInv, StepInv, RollbackInv, Rolling
  <2>3. Rolling(cur)'
    BY <2>1, <2>2 DEF files, Rolling, Mine, Proof, Phase
  <2> QED BY <2>1, <2>3 DEF UndoInv
<1>4. CASE (Reclassify \/ Restore \/ RestoreConfirm \/ Restored) /\ ~MarkFailed
  <2>1. op' = op /\ step' \in {"restore", "restoreMove", "restored", "clean"}
    BY <1>4 DEF Reclassify, Restore, RestoreConfirm, Restored, Goto, GotoMember, NextMember, AfterRestore
  <2> QED BY <2>1, UndoElsewhere DEF RestoreSteps, CleanSteps
<1>5. CASE RestoreMove /\ ~MarkFailed
  <2>1. /\ step' = "restoreConfirm" /\ BackupReady /\ cur' = cur /\ mem' = mem /\ rec' = rec
        /\ dir' = [dir EXCEPT ![mem] = priv[cur][BackupOf(mem)]] /\ mem \in Member
        /\ dir \in [Shared -> Object]
    BY <1>5 DEF RestoreMove, Goto, Kept, TypeInv, JobOK, FilesOK
  <2>2. dir'[mem] = Backup(cur, mem)
    BY <2>1 DEF BackupReady, Shared
  <2>3. Backup(cur, mem)' = Backup(cur, mem)
    BY <2>1 DEF Backup
  <2> QED BY <2>1, <2>2, <2>3 DEF UndoInv, RestoreSteps, CleanSteps
<1> QED BY <1>2, <1>3, <1>4, <1>5 DEF Rollback

LEMMA UndoNext == ASSUME MaxExt = 0, Safe, UndoInv, [Next]_vars PROVE UndoInv'
<1> USE DEF Safe
<1>1. CASE UNCHANGED <<files, rec, job>>
  BY <1>1 DEF UndoInv, Rolling, Mine, Proof, Backup, files, job
<1>2. op = "undo" => step \in {"undo", "mark"} \cup RestoreSteps \cup CleanSteps
  BY DEF UndoInv
<1>3. step \in {"idle", "look", "ready", "recover", "scratch", "prepared", "commitConfirm"}
             \cup BeforeJournal \cup AfterJournal \cup SwapSteps => op # "undo"
  BY <1>2 DEF RestoreSteps, CleanSteps, BeforeJournal, AfterJournal, SwapSteps
<1>4. CASE User \/ Reader
  BY <1>1, <1>4, UndoElsewhere DEF User, Reader, BeginOpen, BeginSave, Begin, Close, ReadPair
<1>5. CASE Recovery
  BY <1>3, <1>5, UndoElsewhere DEF Recovery, Look, RecoverClean, RecoverRollBack, RecoverFails, OpenRecovered,
              RecoveryFailed, Release, Goto
<1>6. CASE Prepare
  <2>1. step \in {"ready", "scratch"} \cup BeforeJournal \cup AfterJournal /\ step' # "restoreConfirm"
        /\ op' \in {op, "none"}
    BY <1>6 DEF Prepare, PrepareBegins, PrepareRefused, Stage, BackUp, WriteJournal, PublishJournal,
                CreateCommit, FillCommit, CreateRollback, FillRollback, Write, Seal, PrepareFails,
                ScratchRemoves, ScratchDone, Goto, GotoMember, Release, Preparing,
                BeforeJournal, AfterJournal
  <2> QED BY <1>3, <2>1, UndoElsewhere
<1>7. CASE InstallBegins \/ PreparedDropped
  BY <1>7, UndoElsewhere DEF InstallBegins, PreparedDropped, Release
<1>8. CASE Marking
  <2>1. CASE op = "undo"
    <3>1. step = "mark" /\ Rolling(cur) /\ cur \in Nat
      BY <1>8, <2>1, <1>2 DEF Marking, Mark, MarkMove, MarkConfirm, UndoInv, RestoreSteps, CleanSteps,
                             TypeInv, JobOK
    <3>2. dir["rollback"] # Absent
      BY <3>1, MarkerFacts DEF Rolling
    <3>3. step' \in {"reclassify", "idle"} /\ (step' = "reclassify" \/ op' # "undo")
      BY <1>8, <2>1, <3>1, <3>2 DEF Marking, Mark, MarkMove, MarkConfirm, MarkFailed, RecoveryFailed,
              Release, GotoMember, AfterMark, Recovering
    <3> QED BY <3>3, UndoElsewhere DEF RestoreSteps
  <2>2. CASE op # "undo"
    <3>1. op' # "undo" /\ step' # "restoreConfirm"
      BY <1>8, <2>2 DEF Marking, Mark, MarkMove, MarkConfirm, MarkFailed, RecoveryFailed, Release, Goto,
              GotoMember, AfterMark, Silent
    <3> QED BY <3>1, UndoElsewhere
  <2> QED BY <2>1, <2>2
<1>9. CASE Install
  <2>1. CASE \E c : InstFails(c)
    BY <2>1, UndoElsewhere DEF InstFails
  <2>2. step \in SwapSteps \cup {"commitConfirm"}
    BY <1>9 DEF Install, InstVerify, InstDelete, InstMove, InstConfirm, Final, CommitMove,
                CommitConfirm, SwapSteps
  <2>3. CASE ~\E c : InstFails(c)
    <3>1. step' # "restoreConfirm" /\ (op' = op \/ CommitMove)
      BY <1>9, <2>3 DEF Install, InstVerify, InstDelete, InstMove, InstConfirm, Final, CommitMove,
                CommitConfirm, Goto, GotoMember
    <3>2. CommitMove => op' = op
      BY <2>3 DEF CommitMove, Goto
    <3> QED BY <1>3, <2>2, <3>1, <3>2, UndoElsewhere
  <2> QED BY <2>1, <2>3
<1>10. CASE Rollback
  BY <1>10, RollbackUndo
<1>11. CASE Cleanup
  <2>1. (\E c : Conclude(c)) =>
          \/ step' = "idle" /\ op' = "none"
          \/ step' = "ready" /\ op \in {"open", "save"} /\ op' = op
    BY DEF Conclude, Release
  <2>2. \/ step' \in CleanSteps
        \/ step' = "idle" /\ op' = "none"
        \/ step' = "ready" /\ op \in {"open", "save"} /\ op' = op
    BY <1>11, <2>1 DEF Cleanup, Clean, CleanRemoves, CleanDone, CleanSteps
  <2> QED BY <2>2, UndoElsewhere
<1>12. CASE Crash
  BY <1>12, UndoElsewhere DEF Crash, Release
<1>13. CASE UNCHANGED vars
  BY <1>1, <1>13 DEF vars, files, job
<1>14. ~External
  BY DEF External, TypeInv, RestOK
<1> QED BY <1>4, <1>5, <1>6, <1>7, <1>8, <1>9, <1>10, <1>11, <1>12, <1>13, <1>14 DEF Next, Worker

(***************************************************************************)
(* What a document that has recovered the pair may find there.             *)
(***************************************************************************)
Together == \A t \in 1..last :
              Mine(t) /\ ~NoPhase /\ dir["commit"] = Absent => Both(t, "original")
HalfDone == \/ step \in SwapSteps
            \/ /\ op = "undo" /\ step \in {"undo", "mark"} \cup RestoreSteps
               /\ faults = MaxFaults
ReadInv == reading # {} => Together \/ HalfDone

\* The record the markers belong to is the only one to look at.
LEMMA TogetherFor ==
  TypeInv /\ DirInv =>
    \A c \in 1..last : Mine(c) /\ (dir["commit"] = Absent /\ ~NoPhase => Both(c, "original"))
                     => Together
<1> SUFFICES ASSUME TypeInv, DirInv, NEW c \in 1..last, Mine(c),
                    dir["commit"] = Absent /\ ~NoPhase => Both(c, "original"),
                    NEW t \in 1..last, Mine(t), ~NoPhase, dir["commit"] = Absent
             PROVE  Both(t, "original")
  BY DEF Together
<1>1. PICK n \in Phase : dir[n] # Absent
  BY DEF NoPhase
<1>2. Proof(t, n) = Proof(c, n)
  BY <1>1 DEF Mine
<1>3. t = c
  BY <1>2, ProofFacts DEF TypeInv, RestOK
<1> QED BY <1>3

LEMMA TogetherForNext ==
  (TypeInv /\ DirInv =>
    \A c \in 1..last : Mine(c) /\ (dir["commit"] = Absent /\ ~NoPhase => Both(c, "original"))
                     => Together)'
BY TogetherFor, PTL

LEMMA TogetherFrame == ASSUME TypeInv, Frame, Together PROVE Together'
<1>1. \A t \in 1..last : t \in Token
  BY PairAssumption DEF TypeInv, RestOK, Token
<1>2. last' = last /\ dir'["commit"] = dir["commit"]
  BY DEF Frame, Phase
<1> QED BY <1>1, <1>2, FrameRecord DEF Together

\* Where the job in progress itself shows that the members belong together.
Settling == \/ step \in BeforeJournal \cup AfterJournal \cup CleanSteps
            \/ step \in {"scratch", "commitConfirm", "ready"}
            \/ step \in MarkSteps /\ op = "install"
            \/ dir["commit"] # Absent
LEMMA TogetherNow == Safe /\ MarkedInv /\ Settling => Together
<1> SUFFICES ASSUME Safe, MarkedInv, Settling PROVE Together
  OBVIOUS
<1> USE DEF Safe, PairInv, StepInv
<1>0. CASE dir["commit"] # Absent
  BY <1>0 DEF Together
<1>1. CASE NoPhase
  BY <1>1 DEF Together
<1>2. CASE step \in BeforeJournal \cup {"ready"}
  <2>1. NoPhase
    BY <1>2 DEF PrepareInv, FateInv, ControlOK, EvidenceInv, NoEvidence, NoPhase, Phase, Marker
  <2> QED BY <1>1, <2>1
<1>3. CASE step \in CleanSteps
  <2>1. cur \in 1..last /\ Mine(cur) /\ (dir["commit"] = Absent /\ ~NoPhase => Both(cur, "original"))
    BY <1>3, TokenType DEF CleanInv, CleanSteps
  <2> QED BY <2>1, TogetherFor
<1>4. CASE step = "commitConfirm"
  <2>1. cur \in Nat /\ dir["commit"] = Committed(cur)
    BY <1>4 DEF TypeInv, JobOK, FateInv, ControlOK, DecidedInv
  <2> QED BY <1>0, <2>1, MarkerFacts
<1>5. CASE step \in AfterJournal \cup {"scratch"} \/ (step \in MarkSteps /\ op = "install")
  <2>1. cur \in 1..last /\ cur \in Token
    BY <1>5, TokenType DEF AfterJournal, MarkSteps
  <2>2. Mine(cur) /\ Original(cur)
    BY <1>5 DEF AfterJournal, MarkSteps, PrepareInv, MarkInv, Undecided, Mine, Phase, Proof,
                Original, MarkedInv, Untouched
  <2>3. Both(cur, "original")
    BY <2>1, <2>2, ClassFacts DEF Original, Both
  <2> QED BY <2>1, <2>2, <2>3, TogetherFor
<1> QED BY <1>0, <1>2, <1>3, <1>4, <1>5 DEF Settling

LEMMA TogetherNowNext == (Safe /\ MarkedInv /\ Settling => Together)'
BY TogetherNow, PTL

\* A pair whose members belong together is only taken apart by a swap.
LEMMA TogetherMoves ==
  ASSUME Safe, Safe', UndoInv, MarkedInv', Moves, Together, step \notin SwapSteps
  PROVE  Together'
<1> USE DEF Safe, PairInv, StepInv
<1>1. CASE UNCHANGED <<dir, priv, rec, last>>
  BY <1>1, TogetherFrame, UnchangedFrame DEF files
<1>2. CASE PrepareBegins \/ BackUp \/ PublishJournal \/ ScratchRemoves
  <2>1. step' \in BeforeJournal \cup AfterJournal \cup {"scratch"}
    BY <1>2 DEF PrepareBegins, BackUp, PublishJournal, ScratchRemoves, Goto, GotoMember,
                BeforeJournal, AfterJournal
  <2> QED BY <2>1, TogetherNowNext DEF Settling
<1>3. CASE MarkMove /\ ~UNCHANGED <<dir, priv, rec, last>>
  <2>1. /\ step = "markMove" /\ step' = "markConfirm" /\ op' = op /\ cur' = cur /\ rec' = rec /\ last' = last
        /\ dir' = [dir EXCEPT !["rollback"] = dir["rollbackNew"], !["rollbackNew"] = Absent]
        /\ cur \in 1..last
    BY <1>3, TokenType DEF MarkMove, MarkFailed, RecoveryFailed, Kept, Goto, files
  <2>2. Undecided(cur) /\ Mine(cur)'
    BY <2>1 DEF MarkInv, MarkSteps, Undecided
  <2>3. ~NoPhase
    BY <2>1, <2>2, MarkerFacts DEF Undecided, NoPhase, Phase
  <2>4. Both(cur, "original")
    BY <2>1, <2>2, <2>3 DEF Together, Undecided
  <2>5. \A m \in Member : dir'[m] = dir[m]
    BY <2>1 DEF TypeInv, FilesOK, Shared, Marker, Member
  <2>6. Both(cur, "original")'
    BY <2>1, <2>4, <2>5 DEF Both, Class
  <2>7. cur' \in (1..last)' /\ Mine(cur)' /\ Both(cur, "original")'
    BY <2>1, <2>2, <2>6
  <2> QED BY <2>7, TogetherForNext
<1>4. CASE (Restore \/ RestoreMove) /\ ~UNCHANGED <<dir, priv, rec, last>>
  <2>1. step \in {"restore", "restoreMove"} /\ cur \in 1..last /\ mem \in Member /\ Rolling(cur)
        /\ cur \in Nat
    BY <1>4, TokenType DEF Restore, RestoreMove, RollbackInv, RestoreSteps, TypeInv, JobOK
  <2>2. Both(cur, "original")
    BY <2>1, MarkerFacts DEF Together, Rolling, NoPhase, Phase
  <2>3. step = "restore" => cls[mem] = "original"
    BY <2>1, <2>2 DEF RollbackInv, Both
  <2>4. step # "restoreMove"
    BY <2>1, <2>2 DEF RollbackInv, Both, RestoreSteps
  <2>5. MarkFailed => UNCHANGED <<dir, priv, rec, last>>
    BY DEF MarkFailed, RecoveryFailed, Kept, files
  <2> QED BY <1>4, <2>1, <2>3, <2>4, <2>5 DEF Restore, RestoreMove, Silent, Kept, files
<1>5. CASE CleanRemoves /\ ~UNCHANGED <<dir, priv, rec, last>>
  <2>1. step' = "cleaning"
    BY <1>5 DEF CleanRemoves, Conclude, files
  <2> QED BY <2>1, TogetherNowNext DEF CleanSteps, Settling
<1>6. CASE InstDelete \/ InstMove \/ CommitMove
  BY <1>6 DEF InstDelete, InstMove, CommitMove, SwapSteps
<1> QED BY <1>1, <1>2, <1>3, <1>4, <1>5, <1>6 DEF Moves

\* With the failures used up the members of an undone installation all come back.
LEMMA UndoGoesOn ==
  ASSUME Safe, Safe', UndoInv, Rollback, op = "undo", dir["commit"] = Absent, faults = MaxFaults
  PROVE  step' \in {"mark", "clean"} \cup RestoreSteps /\ op' = "undo" /\ faults' = faults
<1> USE DEF Safe, PairInv, StepInv
<1>0. \A c : Refused(c) => ~c
  <2>1. ~IoError
    BY PairAssumption DEF IoError
  <2> QED BY <2>1 DEF Refused
<1>1. /\ step \in {"undo"} \cup RestoreSteps /\ cur \in 1..last /\ cur \in Token /\ cur \in Nat
      /\ mem \in Member
  <2>1. step \in {"undo"} \cup RestoreSteps
    BY DEF Rollback, Undo, Reclassify, Restore, RestoreMove, RestoreConfirm, Restored, RestoreSteps
  <2> QED BY <2>1, TokenType DEF RestoreSteps, TypeInv, JobOK
<1>2. Rolling(cur)
  BY <1>1 DEF RollbackInv, Rolling
<1>3. Marks(cur) /\ RollingBack
  <2>1. ~NoPhase /\ Mine(cur) /\ RollingBack
    BY <1>1, <1>2, MarkerFacts DEF Rolling, NoPhase, Phase, RollingBack
  <2> QED BY <1>1, <2>1, OnlyRecord DEF TypeInv
<1>4. \A m \in Member : Restorable(cur, m)
  BY <1>2, <1>3 DEF Marks, Rolling
<1>5. NoConflict(cur) /\ BackupsSound(cur)
  BY <1>4 DEF NoConflict, BackupsSound, Restorable
<1>6. CASE Undo
  <2>1. UndoAllowed
    BY <1>2, <1>3, <1>5 DEF UndoAllowed, Rolling
  <2> QED BY <1>0, <1>6, <2>1 DEF Undo, Goto, Silent
<1>7. CASE Reclassify
  BY <1>0, <1>5, <1>7 DEF Reclassify, Silent, RestoreSteps
<1>8. CASE Restore
  <2>1. cls[mem] = Class(cur, mem)
    BY <1>8 DEF Restore, RollbackInv
  <2>2. cls[mem] = "replacement" => dir[mem] = New(cur)
    BY <1>1, <2>1, ClassFacts
  <2> QED BY <1>0, <1>8, <2>2 DEF Restore, NextMember, Goto, GotoMember, AfterRestore, Silent, RestoreSteps
<1>9. CASE RestoreMove
  <2>1. Class(cur, mem) = "missing"
    BY <1>9 DEF RestoreMove, RollbackInv
  <2>2. dir[mem] = Absent /\ priv[cur][BackupOf(mem)] = Backup(cur, mem)
    BY <1>1, <1>4, <2>1, ClassFacts DEF Restorable
  <2> QED BY <1>0, <1>9, <2>2 DEF RestoreMove, BackupReady, Goto, RestoreSteps
<1>10. CASE RestoreConfirm
  <2>1. dir[mem] = Backup(cur, mem)
    BY <1>10 DEF RestoreConfirm, UndoInv
  <2> QED BY <1>0, <1>10, <2>1 DEF RestoreConfirm, NextMember, GotoMember, AfterRestore, Silent, RestoreSteps
<1>11. CASE Restored
  <2>1. Both(cur, "original")
    BY <1>11 DEF Restored, RollbackInv
  <2>2. \A m \in Member : dir[m] \in {rec[cur][m], Backup(cur, m)}
    BY <1>1, <2>1, ClassFacts DEF Both
  <2>3. OldBytesBack
    BY <1>1, <2>2, ClassFacts DEF OldBytesBack
  <2> QED BY <1>0, <1>11, <2>3 DEF Restored, Silent
<1> QED BY <1>6, <1>7, <1>8, <1>9, <1>10, <1>11 DEF Rollback

\* Nothing but a failing operation stops a swap.
LEMMA SwapGoesOn ==
  ASSUME MaxFaults \in {0, 1}, Safe, Safe', ExactInv, Install, step \in SwapSteps
  PROVE  \/ step' \in SwapSteps \cup {"commitConfirm"}
         \/ step' = "undo" /\ op' = "undo" /\ faults' = MaxFaults
<1> USE DEF Safe, PairInv, StepInv, ExactInv
<1>1. cur \in Token /\ mem \in Member /\ faults \in Nat /\ faults <= MaxFaults
      /\ dir["commit"] = Absent /\ dir["commitNew"] = Committed(cur)
  BY TokenType DEF SwapSteps, TypeInv, JobOK, FaultsOK, FateInv, ControlOK, UncommittedInv, SwapInv
<1>2. ASSUME NEW c, c, InstFails(c)
      PROVE  step' = "undo" /\ op' = "undo" /\ faults' = MaxFaults
  <2>1. faults < MaxFaults /\ faults' = faults + 1
    BY <1>2 DEF InstFails, Refused, IoError
  <2> QED BY <1>1, <1>2, <2>1 DEF InstFails
<1>3. CASE InstVerify
  <2>1. StageReady
    BY <1>3 DEF InstVerify, SwapInv, Untouched, StageReady
  <2> QED BY <1>2, <1>3, <2>1 DEF InstVerify, Goto, SwapSteps
<1>4. CASE InstDelete
  <2>1. dir[mem] = rec[cur][mem]
    BY <1>4 DEF InstDelete, SwapInv, Untouched
  <2> QED BY <1>2, <1>4, <2>1 DEF InstDelete, Goto, SwapSteps
<1>5. CASE InstMove
  <2>1. dir[mem] = Absent
    BY <1>5 DEF InstMove, SwapInv
  <2> QED BY <1>2, <1>5, <2>1 DEF InstMove, Goto, SwapSteps
<1>6. CASE InstConfirm
  <2>1. dir[mem] = New(cur)
    BY <1>6 DEF InstConfirm, SwapInv
  <2>2. mem = "native" => HalfAliasFree
    BY <1>6 DEF InstConfirm, SwapInv, MemberSteps, Untouched, HalfAliasFree
  <2>3. InstConfirmed
    BY <2>1, <2>2 DEF InstConfirmed
  <2> QED BY <1>2, <1>6, <2>3 DEF InstConfirm, GotoMember, SwapSteps
<1>7. CASE Final
  <2>1. FinalFence
    BY <1>1, <1>7 DEF Final, SwapInv, Replaced, FinalFence
  <2> QED BY <1>2, <1>7, <2>1 DEF Final, Goto, SwapSteps
<1>8. CASE CommitMove
  BY <1>1, <1>2, <1>8 DEF CommitMove, Goto, SwapSteps
<1> QED BY <1>3, <1>4, <1>5, <1>6, <1>7, <1>8 DEF Install, CommitConfirm, SwapSteps

LEMMA OnlyOpensRead ==
  ASSUME MaxExt = 0, RestOK, [Next]_vars PROVE reading' \subseteq reading \/ OpenRecovered
<1>1. MarkFailed \/ (\E c : InstFails(c) \/ Conclude(c)) => reading' = reading
  BY DEF MarkFailed, RecoveryFailed, Kept, InstFails, Conclude, session
<1>2. CASE User \/ Reader \/ Recovery
  BY <1>2 DEF User, Reader, BeginOpen, BeginSave, Begin, Close, ReadPair, Recovery, Look, session,
              RecoverClean, RecoverRollBack, RecoverFails, RecoveryFailed, Silent, Kept
<1>3. CASE Prepare \/ InstallBegins \/ PreparedDropped
  BY <1>3 DEF Prepare, PrepareBegins, PrepareRefused, Stage, BackUp, WriteJournal, PublishJournal, session,
              CreateCommit, FillCommit, CreateRollback, FillRollback, Write, Seal, PrepareFails,
              ScratchRemoves, ScratchDone, InstallBegins, PreparedDropped, Silent, Kept
<1>4. CASE Marking \/ Install
  BY <1>1, <1>4 DEF Marking, Mark, MarkMove, MarkConfirm, Silent, Kept, session,
                    Install, InstVerify, InstDelete, InstMove, InstConfirm, Final, CommitMove, CommitConfirm
<1>5. CASE Rollback \/ Cleanup
  BY <1>1, <1>5 DEF Rollback, Undo, Reclassify, Restore, RestoreMove, RestoreConfirm, Restored,
                    Silent, Kept, session, Cleanup, Clean, CleanRemoves, CleanDone
<1>6. CASE Crash \/ UNCHANGED vars
  BY <1>6 DEF Crash, vars, session
<1>7. ~External
  BY DEF External, RestOK
<1> QED BY <1>2, <1>3, <1>4, <1>5, <1>6, <1>7 DEF Next, Worker

\* An undone installation that may not fail again stays under its locks
\* until the members are back.
LEMMA HalfDoneGoesOn ==
  ASSUME MaxExt = 0, MaxFaults \in {0, 1}, Safe, Safe', ExactInv, ExactInv', UndoInv, HalfDone,
         dir["commit"] = Absent, [Next]_vars, ~Crash
  PROVE  Together' \/ HalfDone'
<1> USE DEF Safe
<1>1. /\ step \in SwapSteps \cup {"undo", "mark"} \cup RestoreSteps
      /\ owner \in Doc /\ owner # Nobody /\ cur \in Nat
  <2>1. step \in SwapSteps \cup {"undo", "mark"} \cup RestoreSteps
    BY DEF HalfDone
  <2> QED BY <2>1, TokenType, PairAssumption DEF SwapSteps, RestoreSteps, Token
<1>2. CASE UNCHANGED <<job, faults>>
  BY <1>2 DEF HalfDone, job
<1>3. CASE User \/ Reader
  <2>1. ASSUME NEW d \in Doc, ReadPair(d) PROVE FALSE
    BY <1>1, <2>1 DEF ReadPair, Unlocked, SwapSteps, RestoreSteps
  <2>2. ASSUME NEW d \in Doc, BeginOpen(d) \/ BeginSave(d) PROVE FALSE
    BY <1>1, <2>2 DEF BeginOpen, BeginSave, Begin
  <2> QED BY <1>2, <1>3, <2>1, <2>2 DEF User, Reader, Close
<1>4. CASE Install
  <2>1. step \in SwapSteps
    BY <1>1, <1>4 DEF Install, InstVerify, InstDelete, InstMove, InstConfirm, Final, CommitMove,
                CommitConfirm, SwapSteps, RestoreSteps
  <2>2. CASE step' = "commitConfirm"
    BY <2>2, TogetherNowNext DEF Settling, ExactInv
  <2> QED BY <1>4, <2>1, <2>2, SwapGoesOn DEF HalfDone
<1>5. CASE Rollback
  <2>1. op = "undo" /\ faults = MaxFaults
    BY <1>1, <1>5 DEF HalfDone, SwapSteps, Rollback, Undo, Reclassify, Restore, RestoreMove, RestoreConfirm,
                Restored
  <2>2. CASE step' = "clean"
    BY <2>2, TogetherNowNext DEF Settling, ExactInv, CleanSteps
  <2> QED BY <1>5, <2>1, <2>2, UndoGoesOn DEF HalfDone
<1>6. CASE Marking
  <2>1. step = "mark" /\ op = "undo" /\ faults = MaxFaults
    BY <1>1, <1>6 DEF HalfDone, SwapSteps, RestoreSteps, Marking, Mark, MarkMove, MarkConfirm
  <2>2. Rolling(cur)
    BY <2>1 DEF UndoInv
  <2>3. MarkAllowed /\ dir["rollback"] # Absent
    BY <1>1, <2>2, MarkerFacts DEF Rolling, MarkAllowed
  <2>4. ~IoError
    BY <2>1, PairAssumption DEF IoError
  <2>5. step' = "reclassify" /\ op' = op /\ faults' = faults
    BY <1>6, <2>1, <2>3, <2>4 DEF Marking, Mark, MarkMove, MarkConfirm, GotoMember, AfterMark, Refused
  <2> QED BY <2>1, <2>5 DEF HalfDone, RestoreSteps
<1>7. ~Recovery
  BY <1>1 DEF Recovery, Look, RecoverClean, RecoverRollBack, RecoverFails, OpenRecovered, SwapSteps, RestoreSteps
<1>8. ~(Prepare \/ InstallBegins \/ PreparedDropped)
  BY <1>1 DEF Prepare, PrepareBegins, PrepareRefused, Stage, BackUp, WriteJournal, PublishJournal,
              CreateCommit, FillCommit, CreateRollback, FillRollback, Write, Seal, PrepareFails, Preparing,
              ScratchRemoves, ScratchDone, InstallBegins, PreparedDropped, SwapSteps, RestoreSteps
<1>9. ~Cleanup
  BY <1>1 DEF Cleanup, Clean, CleanRemoves, CleanDone, SwapSteps, RestoreSteps
<1>10. ~External
  BY DEF External, TypeInv, RestOK
<1>11. CASE UNCHANGED vars
  BY <1>2, <1>11 DEF vars, job
<1> QED BY <1>3, <1>4, <1>5, <1>6, <1>7, <1>8, <1>9, <1>10, <1>11 DEF Next, Worker

LEMMA ReadNext ==
  ASSUME MaxExt = 0, MaxFaults \in {0, 1}, Safe, Safe', ExactInv, ExactInv', UndoInv, ReadInv,
         [Next]_vars
  PROVE  ReadInv'
<1> SUFFICES ASSUME reading' # {} PROVE Together' \/ HalfDone'
  BY DEF ReadInv
<1>1. ~Crash
  BY DEF Crash
<1>2. Together \/ HalfDone
  <2>1. OpenRecovered => Together
    BY TogetherNow DEF OpenRecovered, Settling, ExactInv
  <2> QED BY <2>1, OnlyOpensRead DEF ReadInv, Safe, TypeInv
<1>3. CASE dir["commit"] = Absent /\ HalfDone
  BY <1>1, <1>3, HalfDoneGoesOn
<1>4. CASE Together /\ ~HalfDone
  <2>1. CASE Moves
    <3>1. step \notin SwapSteps
      BY <1>4 DEF HalfDone
    <3> QED BY <1>4, <2>1, <3>1, TogetherMoves DEF ExactInv
  <2>2. CASE ~Moves
    BY <1>4, <2>2, FrameSteps, TogetherFrame DEF Safe
  <2> QED BY <2>1, <2>2
<1>5. CASE dir["commit"] # Absent /\ HalfDone
  <2>1. Together /\ step \notin SwapSteps
    BY <1>5, TogetherNow DEF Settling, ExactInv, Safe, FateInv, ControlOK, UncommittedInv
  <2>2. CASE Moves
    BY <2>1, <2>2, TogetherMoves DEF ExactInv
  <2>3. CASE ~Moves
    BY <2>1, <2>3, FrameSteps, TogetherFrame DEF Safe
  <2> QED BY <2>2, <2>3
<1> QED BY <1>2, <1>3, <1>4, <1>5

(***************************************************************************)
(* What documents have seen.                                               *)
(***************************************************************************)
SeenInv == Whole(stamps) /\ \A d \in Doc : Whole(seen[d])

LEMMA NothingWhole == Whole(Nothing)
BY DEF Whole, Nothing, Absent, File, Token, Member

\* Only the values of two files decide whether they belong to whole saves.
LEMMA SameValues ==
  ASSUME NEW p, NEW q, \A m \in Member : q[m].val = p[m].val, Whole(p) PROVE Whole(q)
BY DEF Whole

LEMMA TargetsWhole ==
  ASSUME Safe, WholeInv, Together PROVE Whole(Targets)
<1> USE DEF Safe, PairInv
<1>1. \A m \in Member : PairValue[m] = dir[m].val
  <2>1. CASE ~InDoubt
    BY <2>1 DEF PairValue
  <2>2. CASE InDoubt
    <3>1. ~NoPhase /\ dir["commit"] = Absent
      BY <2>2 DEF InDoubt, NoPhase, Phase
    <3>2. PICK t \in 1..last : Marks(t)
      BY <3>1 DEF DirInv
    <3>3. t \in Token /\ Mine(t) /\ Both(t, "original")
      BY <3>1, <3>2, PairAssumption DEF Together, Marks, TypeInv, RestOK, Token
    <3>4. Doubtful = t
      BY <2>2, <3>3 DEF InDoubt, Doubtful, Mine, Phase, Proof, Prepared, File
    <3>5. \A m \in Member : dir[m].val = rec[t][m].val
      BY <3>3, ClassFacts DEF Both
    <3> QED BY <2>2, <3>4, <3>5 DEF PairValue
  <2> QED BY <2>1, <2>2
<1>2. \A m \in Member : Targets[m].val = PairValue[m]
  BY <1>1 DEF Targets
<1> QED BY <1>2 DEF Whole, WholeInv, WholeValue

LEMMA WholeNext ==
  ASSUME MaxExt = 0, Safe, Safe', WholeInv, [Next]_vars PROVE WholeInv'
<1>1. WholeValue'
  BY ValueMoves DEF WholeInv, WholeValue
<1>2. ASSUME NEW t \in Token PROVE Whole(rec[t])'
  <2>1. Whole(rec[t])
    BY DEF WholeInv
  <2>2. CASE ~PrepareBegins
    <3>1. rec'[t] = rec[t]
      BY <2>2, RecKept
    <3>2. \A p : Whole(p) => \A u \in Token : \A m \in Member :
                 p[m].val = u => u \in done' /\ \A k \in Member : p[k].val = u
      BY ValueMoves DEF Whole
    <3> QED BY <2>1, <3>1, <3>2 DEF Whole
  <2>3. CASE PrepareBegins
    <3>1. done' = done /\ rec' = [rec EXCEPT ![last + 1] = Targets]
      BY <2>3 DEF PrepareBegins, history
    <3>2. Together
      BY <2>3 DEF PrepareBegins, MayReplace, NoEvidence, Marker, Together, NoPhase, Phase
    <3>3. Whole(Targets)
      BY <3>2, TargetsWhole
    <3>4. rec'[t] = rec[t] \/ rec'[t] = Targets
      BY <3>1 DEF Safe, TypeInv, RestOK
    <3> QED BY <2>1, <3>1, <3>3, <3>4 DEF Whole
  <2> QED BY <2>2, <2>3
<1> QED BY <1>1, <1>2 DEF WholeInv

\* What a step can change in what documents have seen and will be told.
SeenStep(d) ==
  \/ seen'[d] = seen[d]
  \/ seen'[d] = Nothing
  \/ seen'[d] = Targets /\ ReadPair(d)
  \/ seen'[d] = stamps
  \/ seen'[d] = [m \in Member |-> New(cur)] /\ op = "install" /\ step \in CleanSteps
StampStep == \/ stamps' \in {stamps, Nothing}
             \/ Restored /\ stamps' = Targets /\ OldBytesBack

LEMMA SeenMoves ==
  ASSUME MaxExt = 0, Safe, [Next]_vars PROVE StampStep /\ \A d \in Doc : SeenStep(d)
<1> USE DEF SeenStep, StampStep
<1>0. seen \in [Doc -> [Member -> Object]]
  BY DEF Safe, TypeInv, RestOK
<1>1. MarkFailed \/ (\E c : InstFails(c)) => 
        (\A d \in Doc : seen'[d] \in {seen[d], Nothing}) /\ stamps' \in {stamps, Nothing}
  BY <1>0 DEF MarkFailed, RecoveryFailed, Kept, InstFails, session, Release
<1>2. CASE User \/ Reader
  BY <1>0, <1>2 DEF User, Reader, BeginOpen, BeginSave, Begin, Close, ReadPair, session, job
<1>3. CASE Recovery
  BY <1>3 DEF Recovery, Look, RecoverClean, RecoverRollBack, RecoverFails, OpenRecovered, RecoveryFailed,
              Silent, Kept, session, Goto, Release
<1>4. CASE Prepare \/ InstallBegins \/ PreparedDropped
  BY <1>4 DEF Prepare, PrepareBegins, PrepareRefused, Stage, BackUp, WriteJournal, PublishJournal, session,
              CreateCommit, FillCommit, CreateRollback, FillRollback, Write, Seal, PrepareFails, Release,
              ScratchRemoves, ScratchDone, InstallBegins, PreparedDropped, Silent, Kept, Goto, GotoMember
<1>5. CASE Marking
  BY <1>1, <1>5 DEF Marking, Mark, MarkMove, MarkConfirm, Silent, Kept, session, Goto, GotoMember
<1>6. CASE Install
  BY <1>1, <1>6 DEF Install, InstVerify, InstDelete, InstMove, InstConfirm, Final, CommitMove, CommitConfirm,
                    Silent, Kept, session, Goto, GotoMember
<1>7. CASE Rollback
  BY <1>1, <1>7 DEF Rollback, Undo, Reclassify, Restore, RestoreMove, RestoreConfirm, Restored,
                    Silent, Kept, session, Goto, GotoMember, NextMember
<1>8. CASE Cleanup
  <2>1. step \in CleanSteps
    BY <1>8 DEF Cleanup, Clean, CleanRemoves, CleanDone, CleanSteps
  <2>2. CASE \E c : Conclude(c)
    <3>1. stamps' \in {stamps, Nothing}
      BY <2>2 DEF Conclude, Release
    <3>2. \/ seen' = seen
          \/ op = "install" /\ seen' = [seen EXCEPT ![owner] = [m \in Member |-> New(cur)]]
          \/ seen' = [seen EXCEPT ![owner] = stamps]
          \/ seen' = [seen EXCEPT ![owner] = Nothing]
      BY <2>2 DEF Conclude, session
    <3> QED BY <1>0, <2>1, <3>1, <3>2
  <2>3. CASE ~\E c : Conclude(c)
    BY <1>8, <2>3 DEF Cleanup, Clean, CleanRemoves, CleanDone, Silent, Kept, session
  <2> QED BY <2>2, <2>3
<1>9. CASE Crash \/ UNCHANGED vars
  BY <1>9 DEF Crash, vars, Release
<1>10. ~External
  BY DEF External, Safe, TypeInv, RestOK
<1> QED BY <1>2, <1>3, <1>4, <1>5, <1>6, <1>7, <1>8, <1>9, <1>10 DEF Next, Worker

LEMMA SeenNext ==
  ASSUME MaxExt = 0, Safe, Safe', WholeInv, ReadInv, SeenInv, [Next]_vars PROVE SeenInv'
<1> DEFINE W(p) == \A t \in Token : \A m \in Member :
                     p[m].val = t => t \in done' /\ \A k \in Member : p[k].val = t
<1>1. \A p : Whole(p) => W(p)
  BY ValueMoves DEF Whole
<1>2. ASSUME NEW d \in Doc PROVE W(seen'[d])
  <2>1. CASE ReadPair(d) /\ seen'[d] = Targets
    <3>1. ~HalfDone
      BY <2>1 DEF ReadPair, Unlocked, HalfDone, SwapSteps, RestoreSteps
    <3>2. Together
      BY <2>1, <3>1 DEF ReadPair, ReadInv
    <3> QED BY <1>1, <2>1, <3>2, TargetsWhole
  <2>2. CASE seen'[d] = [m \in Member |-> New(cur)] /\ op = "install" /\ step \in CleanSteps
    <3>1. cur \in done
      BY <2>2 DEF Safe, FateInv, ControlOK, DecidedInv
    <3>2. \A m \in Member : seen'[d][m].val = cur
      BY <2>2 DEF New, File
    <3>3. Whole(seen'[d])
      BY <3>1, <3>2 DEF Whole
    <3> QED BY <1>1, <3>3
  <2>3. Whole(seen[d]) /\ Whole(stamps) /\ Whole(Nothing)
    BY NothingWhole DEF SeenInv
  <2> QED BY <1>1, <2>1, <2>2, <2>3, SeenMoves DEF SeenStep
<1>3. W(stamps')
  <2>1. CASE Restored /\ stamps' = Targets /\ OldBytesBack
    <3>1. cur \in Token
      BY <2>1, TokenType DEF Restored, Safe
    <3>2. Whole(rec[cur])
      BY <3>1 DEF WholeInv
    <3>3. \A m \in Member : stamps'[m].val = rec[cur][m].val
      BY <2>1 DEF OldBytesBack, Targets
    <3>4. Whole(stamps')
      BY <3>2, <3>3, SameValues
    <3> QED BY <1>1, <3>4
  <2>2. Whole(stamps) /\ Whole(Nothing)
    BY NothingWhole DEF SeenInv
  <2> QED BY <1>1, <2>1, <2>2, SeenMoves DEF StampStep
<1> QED BY <1>2, <1>3 DEF SeenInv, Whole

SightInv == ExactInv /\ UndoInv /\ ReadInv /\ WholeInv /\ SeenInv

LEMMA SightInit == Init => SightInv
<1> SUFFICES ASSUME Init PROVE SightInv
  OBVIOUS
<1> USE DEF Init
<1>1. ExactInv /\ UndoInv
  BY DEF ExactInv, MarkedInv, SwapInv, UndoInv, SwapSteps, MemberSteps, MarkSteps, RestoreSteps, CleanSteps
<1>2. ReadInv
  BY DEF ReadInv
<1>3. SeenInv
  BY NothingWhole DEF SeenInv
<1>4. WholeValue
  <2>1. ~InDoubt /\ \A m \in Member : dir[m].val \in {0, MaxSaves + 1}
    BY DEF InDoubt, Absent, Base, File, Shared, Member, Marker
  <2>2. \A m \in Member : PairValue[m] \in {0, MaxSaves + 1}
    BY <2>1 DEF PairValue
  <2>3. 0 \notin Token /\ MaxSaves + 1 \notin Token
    BY PairAssumption DEF Token
  <2> QED BY <2>2, <2>3 DEF WholeValue
<1>5. \A t \in Token : Whole(rec[t])
  BY NothingWhole
<1> QED BY <1>1, <1>2, <1>3, <1>4, <1>5 DEF SightInv, WholeInv

\* With one failing operation and no other program at work, whatever a document
\* has read, or was left with by a save that failed or was undone, consists of
\* the two members of one committed save (open_document, install_prepared).
THEOREM WholeSavesSeen ==
  ASSUME MaxExt = 0, MaxFaults \in {0, 1} PROVE Spec => []DocumentsSeeWholeSaves
<1>1. Safe /\ Safe' /\ SightInv /\ [Next]_vars => SightInv'
  BY ExactNext, UndoNext, ReadNext, WholeNext, SeenNext DEF SightInv
<1>2. TypeInv /\ SightInv => DocumentsSeeWholeSaves
  BY DEF SightInv, SeenInv, Whole, DocumentsSeeWholeSaves, TypeInv, RestOK
<1>3. Safe => TypeInv
  BY DEF Safe
<1> QED BY <1>1, <1>2, <1>3, SightInit, SafeAlways, PTL DEF Spec
=============================================================================
