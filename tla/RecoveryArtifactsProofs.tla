------------------------ MODULE RecoveryArtifactsProofs ------------------------
(***************************************************************************)
(* Theorems about RecoveryArtifacts for any sequence of cells, any number  *)
(* of commands and of failures: recorded work stays recorded, artifacts    *)
(* are associated with their own document, reservations match the jobs.    *)
(*                                                                         *)
(* The argument.  Foreground jobs exclude each other, and a reservation    *)
(* keeps the binding of its cell as its job found it (Queue), so the       *)
(* attempt of a job that ends is always published.  Versions grow from the *)
(* savepoint over what is recorded to what is in memory, and a job that    *)
(* will replace an artifact has captured at least what is recorded         *)
(* (Versions).  Attempts are nobody's before they are published (Names).   *)
(* So there is always a complete attempt, new enough, that no discard is   *)
(* waiting for and no job will give up (Keep).                             *)
(***************************************************************************)
EXTENDS RecoveryArtifacts, SequenceTheorems, TLAPS

Status == {"nothing", "native", "both", "gone"}
Kind == {"autosave", "resident", "switch", "save", "revert", "import"}
Association == [art : Nat, gen : Nat]
Attempt == [cell : Cell, ver : Nat, at : Status]
Pending == [kind : Kind, cell : Cell, to : Cell, art : Nat, ver : Nat,
            shell : Association, bound : Association,
            current : BOOLEAN, fenced : BOOLEAN]

TypeOK ==
    /\ active \in Cell /\ resident \subseteq Cell
    /\ ver \in [Cell -> Nat] /\ saved \in [Cell -> Nat]
    /\ shell \in Association
    /\ retained \in [Cell -> Association] /\ binding \in [Cell -> Association]
    /\ reserved \subseteq [cell : Cell, expected : Nat]
    /\ jobs \subseteq Pending
    /\ art \in Seq(Attempt) /\ cleanup \subseteq Nat
    /\ owed \in [Cell -> Nat] /\ imported \subseteq Cell
    /\ ops \in Nat /\ failures \in Nat /\ open \in BOOLEAN

(* What the jobs that are under way have to do with each other. *)
Alone(js) == \A j \in js : j.kind \in {"save", "revert", "import"} => js = {j}
OneOf(kind, js) == \A j, k \in js : j.kind = kind /\ k.kind = kind => j = k
Shape(js) == \A j \in js :
    /\ j.kind \in Background => j.art # None
    /\ j.kind \in {"save", "revert", "import"} => j.art = None
    /\ j.fenced => j.kind \in {"switch", "save"}
Matched(js, rs) ==
    /\ rs = {Reservation(j) : j \in {k \in js : Reserves(k)}}
    /\ \A j, k \in js : Reserves(j) /\ Reserves(k) /\ j # k => j.cell # k.cell
BoundKept(js, bd) == \A j \in js : Reserves(j) => bd[j.cell].gen = j.bound.gen

QueueOf(js, rs, bd) ==
    /\ Alone(js) /\ OneOf("switch", js) /\ OneOf("autosave", js) /\ Shape(js)
    /\ Matched(js, rs) /\ BoundKept(js, bd)

Queue == QueueOf(jobs, reserved, binding)

(* How the versions of a cell lie. *)
CellVersions == \A c \in Cell :
    /\ saved[c] <= ver[c] /\ ver[c] <= ops
    /\ c \notin imported /\ owed[c] > 0 => saved[c] < owed[c] /\ owed[c] <= ver[c]
JobVersions == \A j \in jobs :
    /\ saved[j.cell] <= j.ver /\ j.ver <= ver[j.cell]
    /\ j.fenced => active = j.cell /\ ver[j.cell] = j.ver
    /\ j.kind = "switch" /\ j.art = None => j.ver = saved[j.cell]
    /\ Reserves(j) /\ j.cell \notin imported => owed[j.cell] <= j.ver
AutosavesFirst == \A i, j \in jobs :
    i.kind = "autosave" /\ Reserves(j) /\ i.cell = j.cell => i.ver <= j.ver

Versions == CellVersions /\ JobVersions /\ AutosavesFirst

(* An attempt that is named for a cell was written completely, by none of  *)
(* the jobs js; those write attempts of their own.                         *)
Settled(a, c, js) == a # None => /\ a \in DOMAIN art
                                 /\ Sound(a, c)
                                 /\ \A j \in js : j.art # a
Clear(js) ==
    /\ Settled(shell.art, active, js)
    /\ \A c \in Cell : Settled(binding[c].art, c, js) /\ Settled(retained[c].art, c, js)
    /\ \A j \in jobs : Settled(j.shell.art, j.cell, js) /\ Settled(j.bound.art, j.cell, js)
    /\ \A a \in cleanup : a # None /\ Settled(a, art[a].cell, js)
OneArt(js) == \A j, k \in js : j.art = k.art /\ j.art # None => j = k
Own(j) == j.art # None => /\ j.art \in DOMAIN art
                          /\ art[j.art].cell = j.cell /\ art[j.art].ver = j.ver
                          /\ art[j.art].at # "gone"

Names == Clear(jobs) /\ OneArt(jobs) /\ \A j \in jobs : Own(j)

(* A complete attempt of the cell that is new enough and stays. *)
Keeper(a, c) == /\ a \in DOMAIN art
                /\ art[a].cell = c /\ art[a].at = "both" /\ art[a].ver >= owed[c]
                /\ a \notin cleanup
                /\ \A j \in jobs : j.art # a
KeptEach == \A c \in Cell \ imported : owed[c] > 0 => \E a \in DOMAIN art : Keeper(a, c)
KeptBeside == \A j \in jobs :
    /\ j.kind = "autosave" /\ j.current
    /\ j.cell \notin imported /\ owed[j.cell] > j.ver
    => \E a \in DOMAIN art : Keeper(a, j.cell) /\ a # j.shell.art

Keep == KeptEach /\ KeptBeside

IInv == TypeOK /\ Queue /\ Versions /\ Names /\ Keep

-----------------------------------------------------------------------------
(* What appending an attempt and changing its place on disk do. *)
LEMMA Appended ==
  ASSUME TypeOK, NewAttempt
  PROVE  /\ art' \in Seq(Attempt)
         /\ Fresh \in Nat /\ Fresh # None /\ Fresh \notin DOMAIN art
         /\ DOMAIN art' = DOMAIN art \union {Fresh}
         /\ \A a \in DOMAIN art : art'[a] = art[a]
         /\ art'[Fresh].cell = active /\ art'[Fresh].ver = ver[active]
         /\ art'[Fresh].at = "nothing"
<1> DEFINE new == [cell |-> active, ver |-> ver[active], at |-> "nothing"]
<1>1. new \in Attempt /\ art \in Seq(Attempt) /\ art' = Append(art, new)
  BY DEF TypeOK, Attempt, Status, NewAttempt
<1>2. /\ art' \in Seq(Attempt) /\ Len(art') = Len(art) + 1
      /\ \A a \in 1 .. Len(art) : art'[a] = art[a]
      /\ art'[Len(art) + 1] = new
  BY <1>1, AppendProperties
<1>3. Len(art) \in Nat /\ DOMAIN art = 1 .. Len(art) /\ DOMAIN art' = 1 .. Len(art')
  BY <1>1, <1>2, LenProperties
<1> QED BY <1>1, <1>2, <1>3 DEF Fresh, None

Turned(a, s) ==
    /\ art' \in Seq(Attempt) /\ DOMAIN art' = DOMAIN art
    /\ \A b \in DOMAIN art : /\ art'[b].cell = art[b].cell
                             /\ art'[b].ver = art[b].ver
                             /\ b # a => art'[b] = art[b]
    /\ a \in DOMAIN art => art'[a].at = s

LEMMA Turns ==
  ASSUME TypeOK, NEW a, NEW s \in Status, art' = [art EXCEPT ![a].at = s]
  PROVE  Turned(a, s)
<1>1. /\ art \in Seq(Attempt) /\ Len(art) \in Nat /\ DOMAIN art = 1 .. Len(art)
      /\ \A b \in 1 .. Len(art) : art[b] \in Attempt
  BY LenProperties, ElementOfSeq DEF TypeOK
<1>2. DOMAIN art' = 1 .. Len(art) /\ art' = [b \in 1 .. Len(art) |-> art'[b]]
  BY <1>1
<1>3. \A b \in 1 .. Len(art) : art'[b] \in Attempt
  BY <1>1 DEF Attempt
<1>4. art' \in [1 .. Len(art) -> Attempt]
  BY <1>2, <1>3
<1>5. art' \in Seq(Attempt)
  BY <1>1, <1>4
<1> QED BY <1>1, <1>2, <1>5 DEF Turned, Attempt

(* A job takes its fields from the state in which it is asked for. *)
LEMMA JobFields ==
  ASSUME TypeOK, NEW kind \in Kind, NEW to \in Cell, NEW a \in Nat
  PROVE  LET j == Job(kind, to, a)
         IN  /\ j \in Pending
             /\ j.kind = kind /\ j.cell = active /\ j.art = a
             /\ j.ver = ver[active] /\ j.shell = shell /\ j.bound = binding[active]
             /\ j.current /\ ~j.fenced
BY DEF TypeOK, Job, Pending, Association

-----------------------------------------------------------------------------
(* Types. *)

LEMMA TypeInit == Init => TypeOK
<1> SUFFICES ASSUME Init PROVE TypeOK
  OBVIOUS
<1>1. Unbound \in Association
  BY DEF Unbound, None, Association
<1>2. art \in Seq(Attempt)
  BY DEF Init
<1> QED BY <1>1, <1>2 DEF Init, TypeOK

LEMMA RecordTypes ==
  ASSUME TypeOK, NEW j \in Pending, Record(j)
  PROVE  owed' \in [Cell -> Nat] /\ imported' \subseteq Cell
<1>1. j.cell \in Cell /\ j.ver \in Nat
  BY DEF Pending
<1>2. \A n \in Nat : Larger(n, j.ver) \in Nat
  BY <1>1 DEF Larger
<1>3. CASE j.cell \in imported
  BY <1>1, <1>3 DEF Record, aims, TypeOK
<1>4. CASE j.cell \notin imported
  <2>1. owed[j.cell] \in Nat /\ Larger(owed[j.cell], j.ver) \in Nat
    BY <1>1, <1>2 DEF TypeOK
  <2> QED BY <1>1, <1>4, <2>1 DEF Record, aims, TypeOK
<1> QED BY <1>3, <1>4

LEMMA PublishTypes ==
  ASSUME TypeOK, NEW j \in Pending, Publish(j)
  PROVE  /\ binding' \in [Cell -> Association]
         /\ reserved' \subseteq [cell : Cell, expected : Nat]
<1>1. /\ j.cell \in Cell /\ j.art \in Nat /\ j.bound.gen \in Nat
      /\ [art |-> j.art, gen |-> j.bound.gen + 1] \in Association
  BY DEF Pending, Association
<1> QED BY <1>1 DEF Publish, TypeOK

LEMMA OutdatedTypes ==
  ASSUME NEW js, js \subseteq Pending PROVE Outdated(js) \subseteq Pending
BY DEF Outdated, Pending

LEMMA GenTypes == /\ TypeOK => shell.gen \in Nat /\ shell.art \in Nat
                  /\ Unbound \in Association
                  /\ \A n, m \in Nat : [art |-> n, gen |-> m] \in Association
                  /\ None \in Nat
BY DEF TypeOK, Association, Unbound, None

LEMMA QueueTypes ==
  ASSUME TypeOK, NEW js, js \subseteq Pending, QueueResidentAutosave(js)
  PROVE  /\ jobs' \subseteq Pending /\ art' \in Seq(Attempt)
         /\ reserved' \subseteq [cell : Cell, expected : Nat]
<1>1. CASE Required
  <2> DEFINE j == Job("resident", active, Fresh)
  <2>1. /\ NewAttempt /\ jobs' = js \union {j}
        /\ reserved' = reserved \union {Reservation(j)}
    BY <1>1 DEF QueueResidentAutosave
  <2>2. art' \in Seq(Attempt) /\ Fresh \in Nat
    BY <2>1, Appended
  <2>3. j \in Pending
    BY <2>2, JobFields DEF Kind, TypeOK
  <2>4. Reservation(j) \in [cell : Cell, expected : Nat]
    BY <2>3 DEF Reservation, Pending, Association
  <2> QED BY <2>1, <2>2, <2>3, <2>4 DEF TypeOK
<1>2. CASE ~Required
  BY <1>2 DEF QueueResidentAutosave, TypeOK
<1> QED BY <1>1, <1>2

LEMMA CommandTypes == TypeOK /\ Commands => TypeOK'
<1> SUFFICES ASSUME TypeOK, Commands PROVE TypeOK'
  OBVIOUS
<1> USE GenTypes
<1>1. CASE Edit
  BY <1>1 DEF Edit, Asks, User, names, disk, aims, TypeOK
<1>2. CASE Autosave
  <2>1. art' \in Seq(Attempt) /\ Fresh \in Nat
    BY <1>2, Appended DEF Autosave
  <2>2. Job("autosave", active, Fresh) \in Pending
    BY <2>1, JobFields DEF Kind, TypeOK
  <2> QED BY <1>2, <2>1, <2>2 DEF Autosave, Asks, User, docs, names, aims, TypeOK
<1>3. CASE Save \/ Revert \/ Import
  <2>1. PICK k \in Kind : jobs' = {Job(k, active, None)}
    BY <1>3 DEF Kind, Save, Revert, Import
  <2>2. Job(k, active, None) \in Pending
    BY JobFields DEF TypeOK
  <2>3. ops' \in Nat /\ UNCHANGED <<docs, names, disk, aims, failures, open>>
    BY <1>3 DEF Save, Revert, Import, Asks, User, TypeOK
  <2> QED BY <2>1, <2>2, <2>3 DEF docs, names, disk, aims, TypeOK
<1>4. CASE Close
  <2>1. art' \in Seq(Attempt)
    BY <1>4, Turns DEF Close, Gone, Status, Turned, TypeOK
  <2>2. shell' \in Association /\ owed' \in [Cell -> Nat]
    BY <1>4 DEF Close, Safe, TypeOK
  <2>3. ops' \in Nat
    BY <1>4 DEF Close, User, TypeOK
  <2>4. open' \in BOOLEAN
    BY <1>4, Zenon DEF Close
  <2> QED BY <1>4, <2>1, <2>2, <2>3, <2>4 DEF Close, docs, TypeOK
<1>5. ASSUME NEW to \in Cell, ResidentSwitch(to) PROVE TypeOK'
  <2>1. Outdated(jobs) \subseteq Pending /\ QueueResidentAutosave(Outdated(jobs))
    BY <1>5, OutdatedTypes DEF ResidentSwitch, TypeOK
  <2>2. /\ jobs' \subseteq Pending /\ art' \in Seq(Attempt)
        /\ reserved' \subseteq [cell : Cell, expected : Nat]
    BY <2>1, QueueTypes
  <2>3. ShellOf(to) \in Association
    BY DEF ShellOf, TypeOK
  <2> QED BY <1>5, <2>2, <2>3 DEF ResidentSwitch, Asks, User, aims, TypeOK
<1>6. ASSUME NEW to \in Cell, RefusedSwitch(to) PROVE TypeOK'
  <2>1. /\ jobs' \subseteq Pending /\ art' \in Seq(Attempt)
        /\ reserved' \subseteq [cell : Cell, expected : Nat]
    BY <1>6, QueueTypes DEF RefusedSwitch, TypeOK
  <2>2. retained' \in [Cell -> Association] /\ ops' \in Nat /\ failures' \in Nat
    BY <1>6 DEF RefusedSwitch, User, TypeOK
  <2> QED BY <1>6, <2>1, <2>2 DEF RefusedSwitch, docs, aims, TypeOK
<1>7. ASSUME NEW to \in Cell, Switch(to) PROVE TypeOK'
  <2>1. /\ jobs' \subseteq Pending /\ art' \in Seq(Attempt)
        /\ reserved' \subseteq [cell : Cell, expected : Nat]
    <3>1. CASE Required
      <4> DEFINE j == Job("switch", to, Fresh)
      <4>1. /\ NewAttempt /\ jobs' = jobs \union {j}
            /\ reserved' = reserved \union {Reservation(j)}
        BY <1>7, <3>1 DEF Switch
      <4>2. art' \in Seq(Attempt) /\ Fresh \in Nat
        BY <4>1, Appended
      <4>3. j \in Pending
        BY <4>2, <1>7, JobFields DEF Kind
      <4>4. Reservation(j) \in [cell : Cell, expected : Nat]
        BY <4>3 DEF Reservation, Pending, Association
      <4> QED BY <4>1, <4>2, <4>3, <4>4 DEF TypeOK
    <3>2. CASE ~Required
      <4>1. Job("switch", to, None) \in Pending
        BY <1>7, JobFields DEF Kind
      <4> QED BY <3>2, <4>1, <1>7 DEF Switch, TypeOK
    <3> QED BY <3>1, <3>2
  <2> QED BY <1>7, <2>1 DEF Switch, Asks, User, docs, aims, TypeOK
<1> QED BY <1>1, <1>2, <1>3, <1>4, <1>5, <1>6, <1>7 DEF Commands

LEMMA JobTypes == ASSUME TypeOK, NEW j \in jobs, JobStep(j) PROVE TypeOK'
<1> USE GenTypes
<1>0. /\ j \in Pending /\ j.cell \in Cell /\ j.to \in Cell /\ j.ver \in Nat
      /\ j.art \in Nat /\ j.bound.art \in Nat /\ j.shell.art \in Nat
      /\ Outdated(jobs \ {j}) \subseteq Pending
  BY OutdatedTypes DEF TypeOK, Pending, Association
<1>1. CASE Write(j)
  <2>1. art' \in Seq(Attempt)
    BY <1>1, Turns DEF Write, Written, Turned, Status
  <2> QED BY <1>1, <2>1 DEF Write, docs, names, aims, run, TypeOK
<1>2. CASE Fence(j)
  <2>1. [j EXCEPT !.fenced = TRUE] \in Pending
    BY <1>0 DEF Pending
  <2> QED BY <1>2, <2>1 DEF Fence, docs, names, disk, aims, run, TypeOK
<1>3. CASE Fail(j)
  <2>1. failures' \in Nat
    BY <1>3 DEF Fail, TypeOK
  <2>2. cleanup' \subseteq cleanup \union {j.art}
    BY <1>3 DEF Fail
  <2> QED BY <1>0, <1>3, <2>1, <2>2 DEF Fail, docs, aims, TypeOK
<1>4. CASE AutosaveDone(j)
  <2>1. owed' \in [Cell -> Nat] /\ imported' \subseteq Cell
    BY <1>0, <1>4, RecordTypes DEF AutosaveDone, aims, TypeOK
  <2>2. cleanup' \subseteq cleanup \union {j.art, j.shell.art}
    BY <1>4 DEF AutosaveDone, Proven
  <2>3. shell' \in Association
    <3>1. CASE shell' = shell
      BY <3>1 DEF TypeOK
    <3>2. CASE shell' = [art |-> j.art, gen |-> shell.gen + 1]
      BY <1>0, <3>2
    <3> QED BY <1>4, <3>1, <3>2 DEF AutosaveDone
  <2> QED BY <1>0, <1>4, <2>1, <2>2, <2>3 DEF AutosaveDone, docs, run, TypeOK
<1>5. CASE ResidentDone(j)
  <2>1. /\ owed' \in [Cell -> Nat] /\ imported' \subseteq Cell
        /\ binding' \in [Cell -> Association]
        /\ reserved' \subseteq [cell : Cell, expected : Nat]
    BY <1>0, <1>5, RecordTypes, PublishTypes DEF ResidentDone, aims, TypeOK
  <2> QED BY <1>0, <1>5, <2>1 DEF ResidentDone, Proven, docs, run, TypeOK
<1>6. CASE SwitchDone(j)
  <2>1. /\ owed' \in [Cell -> Nat] /\ imported' \subseteq Cell
        /\ binding' \in [Cell -> Association]
        /\ reserved' \subseteq [cell : Cell, expected : Nat]
    BY <1>0, <1>6, RecordTypes, PublishTypes DEF SwitchDone, aims, TypeOK
  <2>2. shell' \in Association
    BY <1>6 DEF SwitchDone
  <2> QED BY <1>0, <1>6, <2>1, <2>2 DEF SwitchDone, Proven, run, TypeOK
<1>7. CASE SaveDone(j)
  <2>1. /\ saved' = [saved EXCEPT ![j.cell] = j.ver] /\ owed' = [owed EXCEPT ![j.cell] = 0]
        /\ shell' = [art |-> None, gen |-> shell.gen + 1]
    BY <1>7 DEF SaveDone, Safe
  <2>3. saved' \in [Cell -> Nat] /\ owed' \in [Cell -> Nat]
    BY <1>0, <2>1 DEF TypeOK
  <2>4. shell' \in Association
    BY <2>1
  <2>2. binding' \in [Cell -> Association] /\ cleanup' \subseteq Nat
    BY <1>0, <1>7 DEF SaveDone, Proven, TypeOK
  <2> QED BY <1>0, <1>7, <2>2, <2>3, <2>4 DEF SaveDone, run, TypeOK
<1>8. CASE RevertDone(j)
  <2>1. binding[active].art \in Nat
    BY DEF TypeOK, Association
  <2>2. ver' \in [Cell -> Nat] /\ owed' \in [Cell -> Nat] /\ shell' \in Association
    BY <1>8 DEF RevertDone, Safe, TypeOK
  <2>3. binding' \in [Cell -> Association] /\ cleanup' \subseteq Nat
    BY <1>8, <2>1 DEF RevertDone, Proven, TypeOK
  <2> QED BY <1>0, <1>8, <2>2, <2>3 DEF RevertDone, run, TypeOK
<1>9. CASE ImportDone(j)
  <2>1. \A c \in Cell : binding[c].art \in Nat
    BY DEF TypeOK, Association
  <2>2. imported' \subseteq Cell
    BY <1>9 DEF ImportDone, Taken, TypeOK
  <2> QED BY <1>0, <1>9, <2>1, <2>2 DEF ImportDone, Proven, run, TypeOK
<1> QED BY <1>1, <1>2, <1>3, <1>4, <1>5, <1>6, <1>7, <1>8, <1>9 DEF JobStep

LEMMA TypeNext == TypeOK /\ [Next]_vars => TypeOK'
<1> SUFFICES ASSUME TypeOK, [Next]_vars PROVE TypeOK'
  OBVIOUS
<1>1. ASSUME NEW a \in cleanup, Discard(a) PROVE TypeOK'
  <2>1. art' \in Seq(Attempt)
    BY <1>1, Turns DEF Discard, Gone, Status, Turned, TypeOK
  <2> QED BY <1>1, <2>1 DEF Discard, docs, names, aims, TypeOK
<1>2. CASE UNCHANGED vars
  BY <1>2 DEF vars, docs, names, disk, aims, run, TypeOK
<1> QED BY <1>1, <1>2, CommandTypes, JobTypes DEF Next

-----------------------------------------------------------------------------
(* The queue of jobs. *)

(* What no step changes of a job. *)
Alike(k, j) == /\ k.kind = j.kind /\ k.cell = j.cell /\ k.art = j.art
               /\ k.ver = j.ver /\ k.shell = j.shell /\ k.bound = j.bound

Fences(k) == k.fenced => k.kind \in {"switch", "save"}

(* The jobs S go on as f says, and the others end. *)
GoOn(S, f, new) == /\ new = {f[k] : k \in S}
                   /\ \A k \in S : Alike(f[k], k) /\ Fences(f[k])
Release(js, S, rs, left) ==
    left = rs \ {Reservation(k) : k \in {i \in js \ S : Reserves(i)}}
Stay(S, bd, bd2) == \A k \in S : Reserves(k) => bd2[k.cell].gen = bd[k.cell].gen

LEMMA AlikeReserves ==
  ASSUME NEW j, NEW k, Alike(k, j)
  PROVE  (Reserves(k) <=> Reserves(j)) /\ Reservation(k) = Reservation(j)
BY DEF Alike, Reserves, Reservation

LEMMA QueueEmpty == ASSUME NEW bd PROVE QueueOf({}, {}, bd)
BY DEF QueueOf, Alone, OneOf, Shape, Matched, BoundKept

LEMMA QueueNone ==
  ASSUME NEW js, NEW rs, NEW bd, QueueOf(js, rs, bd), \A k \in js : ~Reserves(k)
  PROVE  rs = {}
BY DEF QueueOf, Matched

(* Jobs end, and others go on. *)
LEMMA QueueCarried ==
  ASSUME NEW js, NEW rs, NEW bd, QueueOf(js, rs, bd), NEW S, S \subseteq js,
         NEW f, NEW new, GoOn(S, f, new), NEW bd2, Stay(S, bd, bd2),
         NEW left, Release(js, S, rs, left)
  PROVE  QueueOf(new, left, bd2)
<1> USE DEF GoOn
<1>1. Alone(new)
  <2> SUFFICES ASSUME NEW k \in S, f[k].kind \in {"save", "revert", "import"}
               PROVE  new = {f[k]}
    BY DEF Alone
  <2>1. js = {k}
    BY DEF Alike, QueueOf, Alone
  <2> QED BY <2>1
<1>2. ASSUME NEW kind, OneOf(kind, js) PROVE OneOf(kind, new)
  BY <1>2 DEF OneOf, Alike
<1>3. Shape(new)
  BY DEF QueueOf, Shape, Alike, Fences
<1>4. Matched(new, left)
  <2>1. \A k, i \in js : Reserves(i) /\ Reserves(k) /\ Reservation(i) = Reservation(k) => i = k
    BY DEF QueueOf, Matched, Reservation
  <2>2. \A k \in S : (Reserves(f[k]) <=> Reserves(k)) /\ Reservation(f[k]) = Reservation(k)
    BY AlikeReserves
  <2>3. left = {Reservation(k) : k \in {i \in S : Reserves(i)}}
    BY <2>1 DEF QueueOf, Matched, Release
  <2>4. {Reservation(k) : k \in {i \in S : Reserves(i)}}
        = {Reservation(k) : k \in {i \in new : Reserves(i)}}
    BY <2>2
  <2>5. \A j, k \in new : Reserves(j) /\ Reserves(k) /\ j # k => j.cell # k.cell
    BY <2>2 DEF QueueOf, Matched, Alike
  <2> QED BY <2>3, <2>4, <2>5 DEF Matched
<1>5. BoundKept(new, bd2)
  BY AlikeReserves DEF QueueOf, BoundKept, Alike, Stay
<1> QED BY <1>1, <1>2, <1>3, <1>4, <1>5 DEF QueueOf

LEMMA ReleaseOne ==
  ASSUME NEW js, NEW j \in js, NEW rs, NEW left,
         left = rs \ (IF Reserves(j) THEN {Reservation(j)} ELSE {})
  PROVE  Release(js, js \ {j}, rs, left)
BY DEF Release

LEMMA GoOnRemoved ==
  ASSUME NEW js, Shape(js), NEW j \in js
  PROVE  \E f : GoOn(js \ {j}, f, js \ {j})
<1>1. PICK f : f = [k \in js |-> k]
  OBVIOUS
<1> QED BY <1>1 DEF GoOn, Shape, Alike, Fences

LEMMA GoOnOutdated ==
  ASSUME NEW js, js \subseteq Pending, Shape(js)
  PROVE  \E f : GoOn(js, f, Outdated(js))
<1>1. PICK f : f = [k \in js |-> [k EXCEPT !.current = FALSE]]
  OBVIOUS
<1>2. Outdated(js) = {f[k] : k \in js}
  BY <1>1 DEF Outdated
<1>3. \A k \in js : Alike(f[k], k) /\ f[k].fenced = k.fenced
  BY <1>1 DEF Alike, Pending
<1>4. \A k \in js : Fences(f[k])
  BY <1>3 DEF Shape, Alike, Fences
<1> QED BY <1>2, <1>3, <1>4 DEF GoOn

LEMMA QueueOutdated ==
  ASSUME NEW js, js \subseteq Pending, NEW rs, NEW bd, QueueOf(js, rs, bd)
  PROVE  QueueOf(Outdated(js), rs, bd)
<1>1. PICK f : GoOn(js, f, Outdated(js))
  BY GoOnOutdated DEF QueueOf
<1>2. js \subseteq js /\ Release(js, js, rs, rs) /\ Stay(js, bd, bd)
  BY DEF Release, Stay
<1> QED BY <1>1, <1>2, QueueCarried

LEMMA QueueRemoved ==
  ASSUME NEW js, NEW rs, NEW bd, QueueOf(js, rs, bd), NEW j \in js,
         NEW bd2, Stay(js \ {j}, bd, bd2),
         NEW left, left = rs \ (IF Reserves(j) THEN {Reservation(j)} ELSE {})
  PROVE  QueueOf(js \ {j}, left, bd2)
<1>1. PICK f : GoOn(js \ {j}, f, js \ {j})
  BY GoOnRemoved DEF QueueOf
<1>2. js \ {j} \subseteq js /\ Release(js, js \ {j}, rs, left)
  BY ReleaseOne
<1> QED BY <1>1, <1>2, QueueCarried

(* A job begins. *)
LEMMA QueueJoined ==
  ASSUME NEW js, NEW rs, NEW bd, QueueOf(js, rs, bd), NEW j, ~j.fenced,
         \/ js = {}
         \/ /\ j.kind \in {"resident", "switch"}
            /\ \A k \in js : k.kind \in Background,
         j.kind \in Background => j.art # None,
         j.kind \in {"save", "revert", "import"} => j.art = None,
         Reserves(j) => bd[j.cell].gen = j.bound.gen /\ \A r \in rs : r.cell # j.cell
  PROVE  QueueOf(js \union {j},
                 rs \union (IF Reserves(j) THEN {Reservation(j)} ELSE {}), bd)
<1> DEFINE new == js \union {j}
           more == rs \union (IF Reserves(j) THEN {Reservation(j)} ELSE {})
<1>1. Alone(new)
  BY DEF Alone, Background
<1>2. OneOf("switch", new) /\ OneOf("autosave", new)
  BY DEF QueueOf, OneOf, Background
<1>3. Shape(new)
  BY DEF QueueOf, Shape
<1>4. Matched(new, more)
  <2>1. ASSUME NEW k \in js, Reserves(k), Reserves(j) PROVE k.cell # j.cell
    <3>1. Reservation(k) \in rs
      BY <2>1 DEF QueueOf, Matched
    <3> QED BY <2>1, <3>1 DEF Reservation
  <2>2. more = {Reservation(k) : k \in {i \in new : Reserves(i)}}
    BY DEF QueueOf, Matched
  <2> QED BY <2>1, <2>2 DEF QueueOf, Matched
<1>5. BoundKept(new, bd)
  BY DEF QueueOf, BoundKept
<1> QED BY <1>1, <1>2, <1>3, <1>4, <1>5 DEF QueueOf

LEMMA QueueInit == Init => Queue
BY QueueEmpty DEF Init, Queue

(* A foreground job is alone, so that the reservations are its own. *)
LEMMA AloneJob ==
  ASSUME Queue, NEW j \in jobs, j.kind \in {"save", "revert", "import"}
  PROVE  jobs = {j} /\ ~Reserves(j) /\ reserved = {}
<1>1. jobs = {j} /\ ~Reserves(j)
  BY DEF Queue, QueueOf, Alone, Reserves
<1> QED BY <1>1, QueueNone DEF Queue

(* An attempt whose job ends is published. *)
LEMMA MayPublish ==
  ASSUME Queue, NEW j \in jobs, Reserves(j) PROVE Publishable(j)
BY DEF Queue, QueueOf, Matched, BoundKept, Publishable

LEMMA PublishStays ==
  ASSUME TypeOK, Queue, NEW j \in jobs, Reserves(j), Publish(j)
  PROVE  /\ Stay(jobs \ {j}, binding, binding')
         /\ reserved' = reserved \ {Reservation(j)}
<1>1. \A k \in jobs \ {j} : Reserves(k) => k.cell # j.cell
  BY DEF Queue, QueueOf, Matched
<1> QED BY <1>1 DEF Publish, Stay, TypeOK

LEMMA Outdating ==
  ASSUME NEW js, js \subseteq Pending
  PROVE  /\ \A k \in Outdated(js) : \E i \in js : Alike(k, i) /\ ~k.current /\ k.fenced = i.fenced
         /\ js = {} => Outdated(js) = {}
BY DEF Outdated, Pending, Alike

LEMMA QueueQueued ==
  ASSUME TypeOK, NEW js, QueueOf(js, reserved, binding), QueueResidentAutosave(js),
         \A k \in js : k.kind \in Background
  PROVE  QueueOf(jobs', reserved', binding)
<1>1. CASE Required
  <2> DEFINE j == Job("resident", active, Fresh)
  <2>1. /\ NewAttempt /\ jobs' = js \union {j} /\ MayReserve
        /\ reserved' = reserved \union {Reservation(j)}
    BY <1>1 DEF QueueResidentAutosave
  <2>2. /\ j.kind = "resident" /\ j.art # None /\ ~j.fenced
        /\ j.cell = active /\ j.bound = binding[active]
    BY <2>1, Appended, JobFields DEF Kind, TypeOK
  <2>3. Reserves(j)
    BY <2>2 DEF Reserves
  <2> HIDE DEF j
  <2> QED BY <2>1, <2>2, <2>3, QueueJoined DEF MayReserve
<1>2. CASE ~Required
  BY <1>2 DEF QueueResidentAutosave
<1> QED BY <1>1, <1>2

LEMMA QueueCommands == TypeOK /\ Queue /\ Commands => Queue'
<1> SUFFICES ASSUME TypeOK, Queue, Commands PROVE QueueOf(jobs', reserved', binding')
  BY DEF Queue
<1>0. QueueOf(jobs, reserved, binding) /\ jobs \subseteq Pending
  BY DEF Queue, TypeOK
<1>1. CASE Edit \/ Close
  <2>1. jobs' = jobs /\ reserved' = reserved /\ binding' = binding
    BY <1>1 DEF Edit, Close, names
  <2> QED BY <1>0, <2>1
<1>2. CASE Autosave
  <2> DEFINE j == Job("autosave", active, Fresh)
  <2>1. /\ jobs = {} /\ jobs' = jobs \union {j} /\ NewAttempt
        /\ reserved' = reserved /\ binding' = binding
    BY <1>2 DEF Autosave, Idle, names
  <2>2. j.kind = "autosave" /\ j.art # None /\ ~j.fenced /\ ~Reserves(j)
    BY <2>1, Appended, JobFields DEF Kind, TypeOK, Reserves
  <2>3. reserved = reserved \union {}
    OBVIOUS
  <2> HIDE DEF j
  <2> QED BY <1>0, <2>1, <2>2, <2>3, QueueJoined
<1>3. CASE Save \/ Revert \/ Import
  <2>1. PICK k \in {"save", "revert", "import"} :
          jobs' = jobs \union {Job(k, active, None)}
    BY <1>3 DEF Save, Revert, Import, Idle
  <2>2. jobs = {} /\ reserved' = reserved /\ binding' = binding
    BY <1>3 DEF Save, Revert, Import, Idle, names
  <2> DEFINE j == Job(k, active, None)
  <2>3. j.kind = k /\ j.art = None /\ ~j.fenced /\ ~Reserves(j)
    BY <2>1, JobFields DEF Kind, TypeOK, Reserves, None
  <2>4. k \notin Background
    BY DEF Background
  <2> HIDE DEF j
  <2> QED BY <1>0, <2>1, <2>2, <2>3, <2>4, QueueJoined DEF j
<1>4. ASSUME NEW to \in Cell, ResidentSwitch(to)
      PROVE  QueueOf(jobs', reserved', binding')
  <2>1. QueueOf(Outdated(jobs), reserved, binding)
    BY <1>0, QueueOutdated
  <2>2. \A k \in Outdated(jobs) : k.kind \in Background
    BY <1>0, <1>4, Outdating DEF ResidentSwitch, OnlyBackground, Alike
  <2> QED BY <1>4, <2>1, <2>2, QueueQueued DEF ResidentSwitch
<1>5. ASSUME NEW to \in Cell, RefusedSwitch(to)
      PROVE  QueueOf(jobs', reserved', binding')
  BY <1>0, <1>5, QueueQueued DEF RefusedSwitch, OnlyBackground
<1>6. ASSUME NEW to \in Cell, Switch(to)
      PROVE  QueueOf(jobs', reserved', binding')
  <2> DEFINE j == Job("switch", to, Fresh)
             i == Job("switch", to, None)
  <2>1. OnlyBackground /\ binding' = binding
    BY <1>6 DEF Switch
  <2>2. CASE Required
    <3>1. /\ NewAttempt /\ jobs' = jobs \union {j} /\ MayReserve
          /\ reserved' = reserved \union {Reservation(j)}
      BY <1>6, <2>2 DEF Switch
    <3>2. /\ j.kind = "switch" /\ j.art # None /\ ~j.fenced
          /\ j.cell = active /\ j.bound = binding[active]
      BY <3>1, Appended, JobFields DEF Kind, TypeOK
    <3>3. Reserves(j)
      BY <3>2 DEF Reserves
    <3>4. j.kind \notin Background
      BY <3>2 DEF Background
    <3> HIDE DEF j
    <3> QED BY <1>0, <2>1, <3>1, <3>2, <3>3, <3>4, QueueJoined
            DEF MayReserve, OnlyBackground
  <2>3. CASE ~Required
    <3>1. jobs' = jobs \union {i} /\ reserved' = reserved
      BY <1>6, <2>3 DEF Switch
    <3>2. i.kind = "switch" /\ i.art = None /\ ~i.fenced /\ ~Reserves(i)
      BY JobFields DEF Kind, TypeOK, Reserves, None
    <3>3. i.kind \notin Background /\ reserved = reserved \union {}
      BY <3>2 DEF Background
    <3> HIDE DEF i
    <3> QED BY <1>0, <2>1, <3>1, <3>2, <3>3, QueueJoined DEF OnlyBackground
  <2> QED BY <2>2, <2>3
<1> QED BY <1>1, <1>2, <1>3, <1>4, <1>5, <1>6 DEF Commands

LEMMA QueueJobs == ASSUME TypeOK, Queue, NEW j \in jobs, JobStep(j) PROVE Queue'
<1> SUFFICES QueueOf(jobs', reserved', binding')
  BY DEF Queue
<1>0. QueueOf(jobs, reserved, binding) /\ jobs \subseteq Pending
  BY DEF Queue, TypeOK
<1>1. CASE Write(j)
  <2>1. jobs' = jobs /\ reserved' = reserved /\ binding' = binding
    BY <1>1 DEF Write, names
  <2> QED BY <1>0, <2>1
<1>2. CASE Fence(j)
  <2>1. /\ jobs' = (jobs \ {j}) \union {[j EXCEPT !.fenced = TRUE]}
        /\ j.kind \in {"switch", "save"}
        /\ reserved' = reserved /\ binding' = binding
    BY <1>2 DEF Fence, names
  <2>2. PICK f : f = [k \in jobs |-> IF k = j THEN [j EXCEPT !.fenced = TRUE] ELSE k]
    OBVIOUS
  <2>3. jobs' = {f[k] : k \in jobs}
    BY <2>1, <2>2
  <2>4. Alike(f[j], j) /\ Fences(f[j])
    BY <1>0, <2>1, <2>2 DEF Alike, Fences, Pending
  <2>5. \A k \in jobs \ {j} : f[k] = k
    BY <2>2
  <2>6. \A k \in jobs : Alike(f[k], k) /\ Fences(f[k])
    BY <1>0, <2>4, <2>5 DEF Alike, Fences, QueueOf, Shape
  <2>7. GoOn(jobs, f, jobs')
    BY <2>3, <2>6 DEF GoOn
  <2>8. jobs \subseteq jobs /\ Release(jobs, jobs, reserved, reserved) /\ Stay(jobs, binding, binding)
    BY DEF Release, Stay
  <2> QED BY <1>0, <2>1, <2>7, <2>8, QueueCarried
<1>3. CASE Fail(j)
  <2>1. /\ jobs' = jobs \ {j} /\ binding' = binding
        /\ reserved' = reserved \ (IF Reserves(j) THEN {Reservation(j)} ELSE {})
    BY <1>3 DEF Fail
  <2>2. Stay(jobs \ {j}, binding, binding')
    BY <2>1 DEF Stay
  <2> QED BY <1>0, <2>1, <2>2, QueueRemoved
<1>4. CASE AutosaveDone(j)
  <2>1. jobs' = jobs \ {j} /\ binding' = binding /\ reserved' = reserved /\ ~Reserves(j)
    BY <1>4 DEF AutosaveDone, Reserves
  <2>2. Stay(jobs \ {j}, binding, binding')
    BY <2>1 DEF Stay
  <2>3. reserved' = reserved \ (IF Reserves(j) THEN {Reservation(j)} ELSE {})
    BY <2>1
  <2> QED BY <1>0, <2>1, <2>2, <2>3, QueueRemoved
<1>5. CASE ResidentDone(j)
  <2>1. Reserves(j)
    BY <1>0, <1>5 DEF ResidentDone, Reserves, QueueOf, Shape, Background
  <2>2. Publish(j) /\ jobs' = jobs \ {j}
    BY <1>5, <2>1, MayPublish DEF ResidentDone
  <2>3. /\ Stay(jobs \ {j}, binding, binding')
        /\ reserved' = reserved \ (IF Reserves(j) THEN {Reservation(j)} ELSE {})
    BY <2>1, <2>2, PublishStays
  <2> QED BY <1>0, <2>2, <2>3, QueueRemoved
<1>6. CASE SwitchDone(j)
  <2>1. /\ Stay(jobs \ {j}, binding, binding')
        /\ reserved' = reserved \ (IF Reserves(j) THEN {Reservation(j)} ELSE {})
    <3>1. CASE j.art = None
      BY <1>6, <3>1 DEF SwitchDone, Reserves, Stay
    <3>2. CASE j.art # None
      <4>1. Reserves(j) /\ Publish(j)
        BY <1>6, <3>2 DEF SwitchDone, Reserves
      <4> QED BY <4>1, PublishStays
    <3> QED BY <3>1, <3>2
  <2>2. QueueOf(jobs \ {j}, reserved', binding')
    BY <1>0, <2>1, QueueRemoved
  <2>3. jobs \ {j} \subseteq Pending /\ jobs' = Outdated(jobs \ {j})
    BY <1>0, <1>6 DEF SwitchDone
  <2> QED BY <2>2, <2>3, QueueOutdated
<1>7. CASE SaveDone(j) \/ RevertDone(j) \/ ImportDone(j)
  <2>1. jobs = {j} /\ reserved = {}
    BY <1>7, AloneJob DEF SaveDone, RevertDone, ImportDone
  <2>2. jobs \ {j} = {} /\ {} \subseteq Pending
    BY <2>1
  <2>3. jobs' \in {{}, Outdated({})} /\ reserved' = {}
    BY <1>7, <2>1, <2>2 DEF SaveDone, RevertDone, ImportDone
  <2>4. jobs' = {}
    BY <2>2, <2>3, Outdating
  <2> QED BY <2>3, <2>4, QueueEmpty
<1> QED BY <1>1, <1>2, <1>3, <1>4, <1>5, <1>6, <1>7 DEF JobStep

LEMMA QueueNext == TypeOK /\ Queue /\ [Next]_vars => Queue'
<1> SUFFICES ASSUME TypeOK, Queue, [Next]_vars PROVE Queue'
  OBVIOUS
<1>1. CASE (\E a \in cleanup : Discard(a)) \/ UNCHANGED vars
  <2>1. jobs' = jobs /\ reserved' = reserved /\ binding' = binding
    BY <1>1 DEF Discard, names, vars
  <2> QED BY <2>1 DEF Queue
<1> QED BY <1>1, QueueCommands, QueueJobs DEF Next

-----------------------------------------------------------------------------
(* Versions. *)

LEMMA VersionsInit == Init => Versions
<1> SUFFICES ASSUME Init PROVE Versions
  OBVIOUS
<1>1. jobs = {} /\ \A c \in Cell : ver[c] = 0 /\ saved[c] = 0 /\ owed[c] = 0 /\ ops = 0
  BY DEF Init
<1> QED BY <1>1 DEF Versions, CellVersions, JobVersions, AutosavesFirst

LEMMA Numbers ==
  ASSUME TypeOK
  PROVE  /\ \A c \in Cell : ver[c] \in Nat /\ saved[c] \in Nat /\ owed[c] \in Nat
         /\ ops \in Nat /\ active \in Cell
         /\ \A j \in jobs : j \in Pending /\ j.cell \in Cell /\ j.ver \in Nat
BY DEF TypeOK, Pending

FenceHolds(k) == k.fenced => active = k.cell /\ ver[k.cell] = k.ver

(* Jobs end or go on, and no version changes. *)
LEMMA VersionsCarried ==
  ASSUME TypeOK, Versions, TypeOK', ver' = ver, saved' = saved, aims' = aims,
         ops' >= ops,
         \A k \in jobs' : (\E i \in jobs : Alike(k, i)) /\ FenceHolds(k)'
  PROVE  Versions'
<1> USE Numbers DEF aims
<1>1. CellVersions'
  <2>1. ops' \in Nat
    BY DEF TypeOK
  <2> QED BY <2>1 DEF Versions, CellVersions
<1>2. ASSUME NEW k \in jobs', NEW i \in jobs, Alike(k, i)
      PROVE  /\ saved'[k.cell] <= k.ver /\ k.ver <= ver'[k.cell]
             /\ k.kind = "switch" /\ k.art = None => k.ver = saved'[k.cell]
             /\ Reserves(k) /\ k.cell \notin imported' => owed'[k.cell] <= k.ver
  BY <1>2, AlikeReserves DEF Versions, JobVersions, Alike
<1>3. JobVersions'
  BY <1>2 DEF JobVersions, FenceHolds
<1>4. ASSUME NEW k \in jobs', NEW m \in jobs',
             k.kind = "autosave", Reserves(m), k.cell = m.cell
      PROVE  k.ver <= m.ver
  <2>1. PICK i \in jobs, l \in jobs : Alike(k, i) /\ Alike(m, l)
    OBVIOUS
  <2> QED BY <1>4, <2>1, AlikeReserves DEF Versions, AutosavesFirst, Alike
<1>5. AutosavesFirst'
  BY <1>4 DEF AutosavesFirst
<1> QED BY <1>1, <1>3, <1>5 DEF Versions

(* A job begins that captures the open document. *)
LEMMA VersionsJoined ==
  ASSUME TypeOK, Versions, TypeOK', ver' = ver, saved' = saved, aims' = aims,
         ops' >= ops,
         NEW j \in jobs', j.cell = active, j.ver = ver[active], ~j.fenced,
         j.kind = "switch" /\ j.art = None => ver[active] = saved[active],
         j.kind = "autosave" => jobs' = {j},
         \A k \in jobs' \ {j} : (\E i \in jobs : Alike(k, i)) /\ ~k.fenced
  PROVE  Versions'
<1> USE Numbers DEF aims
<1>1. CellVersions'
  <2>1. ops' \in Nat
    BY DEF TypeOK
  <2> QED BY <2>1 DEF Versions, CellVersions
<1>2. ASSUME NEW k \in jobs' \ {j}, NEW i \in jobs, Alike(k, i)
      PROVE  /\ saved'[k.cell] <= k.ver /\ k.ver <= ver'[k.cell]
             /\ k.kind = "switch" /\ k.art = None => k.ver = saved'[k.cell]
             /\ Reserves(k) /\ k.cell \notin imported' => owed'[k.cell] <= k.ver
  BY <1>2, AlikeReserves DEF Versions, JobVersions, Alike
<1>3. /\ saved[j.cell] <= j.ver /\ j.ver <= ver[j.cell]
      /\ j.cell \notin imported => owed[j.cell] <= j.ver
  BY DEF Versions, CellVersions
<1>4. JobVersions'
  BY <1>2, <1>3 DEF JobVersions
<1>5. ASSUME NEW k \in jobs', NEW m \in jobs',
             k.kind = "autosave", Reserves(m), k.cell = m.cell
      PROVE  k.ver <= m.ver
  <2>1. CASE m = j
    <3>1. k.ver <= ver'[k.cell]
      BY <1>4 DEF JobVersions
    <3> QED BY <1>5, <2>1, <3>1
  <2>2. CASE m # j
    <3>1. k # j
      BY <1>5, <2>2
    <3>2. PICK i \in jobs, l \in jobs : Alike(k, i) /\ Alike(m, l)
      BY <2>2, <3>1
    <3> QED BY <1>5, <3>2, AlikeReserves DEF Versions, AutosavesFirst, Alike
  <2> QED BY <2>1, <2>2
<1>6. AutosavesFirst'
  BY <1>5 DEF AutosavesFirst
<1> QED BY <1>1, <1>4, <1>6 DEF Versions

LEMMA RecordOwed ==
  ASSUME TypeOK, NEW j \in Pending, Record(j)
  PROVE  \/ j.ver = saved[j.cell] /\ owed' = owed /\ imported' = imported
         \/ /\ j.ver # saved[j.cell]
            /\ imported' = imported \ {j.cell}
            /\ owed'[j.cell] \in Nat /\ owed'[j.cell] >= j.ver
            /\ owed'[j.cell] \in {j.ver, owed[j.cell]}
            /\ j.cell \in imported => owed'[j.cell] = j.ver
            /\ j.cell \notin imported => owed'[j.cell] >= owed[j.cell]
            /\ \A c \in Cell \ {j.cell} : owed'[c] = owed[c]
<1> USE DEF Pending
<1>1. owed[j.cell] \in Nat /\ j.ver \in Nat /\ j.cell \in Cell
  BY DEF TypeOK
<1>2. CASE j.ver = saved[j.cell]
  BY <1>2 DEF Record, aims
<1>3. CASE j.ver # saved[j.cell]
  <2>1. /\ imported' = imported \ {j.cell}
        /\ owed'[j.cell] = IF j.cell \in imported THEN j.ver ELSE Larger(owed[j.cell], j.ver)
        /\ \A c \in Cell \ {j.cell} : owed'[c] = owed[c]
    BY <1>1, <1>3 DEF Record, TypeOK
  <2>2. /\ Larger(owed[j.cell], j.ver) \in {j.ver, owed[j.cell]}
        /\ Larger(owed[j.cell], j.ver) >= j.ver
        /\ Larger(owed[j.cell], j.ver) >= owed[j.cell]
    BY <1>1 DEF Larger
  <2>3. CASE j.cell \in imported
    BY <1>1, <1>3, <2>1, <2>3
  <2>4. CASE j.cell \notin imported
    BY <1>1, <1>3, <2>1, <2>2, <2>4
  <2> QED BY <2>3, <2>4
<1> QED BY <1>2, <1>3

(* A job has recorded its attempt. *)
LEMMA VersionsRecorded ==
  ASSUME TypeOK, Versions, TypeOK', ver' = ver, saved' = saved, ops' = ops,
         NEW j \in jobs, Record(j),
         \A k \in jobs : k # j /\ Reserves(k) /\ k.cell = j.cell => j.ver <= k.ver,
         \A k \in jobs' : (\E i \in jobs \ {j} : Alike(k, i)) /\ FenceHolds(k)'
  PROVE  Versions'
<1> USE Numbers
<1>0. j \in Pending
  OBVIOUS
<1>1. CASE j.ver = saved[j.cell]
  <2>1. aims' = aims
    BY <1>1 DEF Record
  <2>2. ops' >= ops
    OBVIOUS
  <2> QED BY <2>1, <2>2, VersionsCarried
<1>2. CASE j.ver # saved[j.cell]
  <2>1. /\ imported' = imported \ {j.cell}
        /\ owed'[j.cell] \in Nat /\ owed'[j.cell] >= j.ver
        /\ owed'[j.cell] \in {j.ver, owed[j.cell]}
        /\ j.cell \in imported => owed'[j.cell] = j.ver
        /\ \A c \in Cell \ {j.cell} : owed'[c] = owed[c]
    BY <1>0, <1>2, RecordOwed
  <2>2. saved[j.cell] < j.ver /\ j.ver <= ver[j.cell]
    BY <1>2 DEF Versions, JobVersions
  <2>3. saved[j.cell] < owed'[j.cell] /\ owed'[j.cell] <= ver[j.cell]
    <3>1. CASE owed'[j.cell] = j.ver
      BY <2>2, <3>1
    <3>2. CASE owed'[j.cell] # j.ver
      BY <2>1, <2>2, <3>2 DEF Versions, CellVersions
    <3> QED BY <3>1, <3>2
  <2>4. CellVersions'
    BY <2>1, <2>3 DEF Versions, CellVersions
  <2>5. ASSUME NEW k \in jobs'
        PROVE  /\ saved'[k.cell] <= k.ver /\ k.ver <= ver'[k.cell]
               /\ k.kind = "switch" /\ k.art = None => k.ver = saved'[k.cell]
               /\ Reserves(k) /\ k.cell \notin imported' => owed'[k.cell] <= k.ver
    <3>1. PICK i \in jobs \ {j} : Alike(k, i)
      BY <2>5
    <3>2. /\ saved'[k.cell] <= k.ver /\ k.ver <= ver'[k.cell]
          /\ k.kind = "switch" /\ k.art = None => k.ver = saved'[k.cell]
          /\ k.cell \in Cell /\ k.ver \in Nat
      BY <3>1 DEF Versions, JobVersions, Alike
    <3>3. ASSUME Reserves(k), k.cell \notin imported' PROVE owed'[k.cell] <= k.ver
      <4>1. Reserves(i) /\ i.cell = k.cell /\ i.ver = k.ver
        BY <3>1, <3>3, AlikeReserves DEF Alike
      <4>2. CASE k.cell # j.cell
        BY <2>1, <3>2, <3>3, <4>1, <4>2 DEF Versions, JobVersions
      <4>3. CASE k.cell = j.cell
        <5>1. j.ver <= k.ver
          BY <3>1, <4>1, <4>3
        <5>2. CASE owed'[j.cell] = j.ver
          BY <4>3, <5>1, <5>2
        <5>3. CASE owed'[j.cell] # j.ver
          <6>1. owed'[j.cell] = owed[j.cell] /\ j.cell \notin imported
            BY <2>1, <5>3
          <6> QED BY <4>1, <4>3, <6>1 DEF Versions, JobVersions
        <5> QED BY <5>2, <5>3
      <4> QED BY <4>2, <4>3
    <3> QED BY <3>2, <3>3
  <2>6. JobVersions'
    BY <2>5 DEF JobVersions, FenceHolds
  <2>7. ASSUME NEW k \in jobs', NEW m \in jobs',
               k.kind = "autosave", Reserves(m), k.cell = m.cell
        PROVE  k.ver <= m.ver
    <3>1. PICK i \in jobs, l \in jobs : Alike(k, i) /\ Alike(m, l)
      OBVIOUS
    <3>2. Reserves(l) /\ i.kind = "autosave" /\ i.cell = l.cell
      BY <2>7, <3>1, AlikeReserves DEF Alike
    <3>3. i.ver <= l.ver
      BY <3>2 DEF Versions, AutosavesFirst
    <3> QED BY <3>1, <3>3 DEF Alike
  <2>8. AutosavesFirst'
    BY <2>7 DEF AutosavesFirst
  <2> QED BY <2>4, <2>6, <2>8 DEF Versions
<1> QED BY <1>1, <1>2

LEMMA NoneFenced ==
  ASSUME Queue, OnlyBackground PROVE \A k \in jobs : ~k.fenced
BY DEF Queue, QueueOf, Shape, OnlyBackground, Background

LEMMA OneFence ==
  ASSUME Queue, NEW j \in jobs, j.fenced PROVE \A k \in jobs \ {j} : ~k.fenced
BY DEF Queue, QueueOf, Shape, Alone, OneOf

LEMMA SelfAlike == \A k : Alike(k, k)
BY DEF Alike

(* Leaving a cell: the jobs js go on, and its autosave may be queued. *)
LEMMA VersionsQueued ==
  ASSUME TypeOK, Versions, TypeOK', ver' = ver, saved' = saved, aims' = aims,
         ops' >= ops, NEW js, QueueResidentAutosave(js),
         \A k \in js : (\E i \in jobs : Alike(k, i)) /\ ~k.fenced
  PROVE  Versions'
<1>1. CASE Required
  <2> DEFINE j == Job("resident", active, Fresh)
  <2>1. NewAttempt /\ jobs' = js \union {j}
    BY <1>1 DEF QueueResidentAutosave
  <2>2. j.kind = "resident" /\ ~j.fenced /\ j.cell = active /\ j.ver = ver[active]
    <3>1. Fresh \in Nat /\ active \in Cell
      BY <2>1, Appended DEF TypeOK
    <3> QED BY <3>1, JobFields DEF Kind
  <2> HIDE DEF j
  <2>3. j \in jobs' /\ \A k \in jobs' \ {j} : (\E i \in jobs : Alike(k, i)) /\ ~k.fenced
    BY <2>1
  <2> QED BY <2>2, <2>3, VersionsJoined
<1>2. CASE ~Required
  <2>1. jobs' = js
    BY <1>2 DEF QueueResidentAutosave
  <2>2. \A k \in jobs' : (\E i \in jobs : Alike(k, i)) /\ FenceHolds(k)'
    BY <2>1 DEF FenceHolds
  <2> QED BY <2>2, VersionsCarried
<1> QED BY <1>1, <1>2

LEMMA VersionsCommands ==
  TypeOK /\ Queue /\ Versions /\ Commands /\ TypeOK' => Versions'
<1> SUFFICES ASSUME TypeOK, Queue, Versions, Commands, TypeOK' PROVE Versions'
  OBVIOUS
<1>0. ops' = ops + 1 /\ ops' >= ops /\ saved' = saved
  <2>1. ops' = ops + 1 /\ saved' = saved
    BY DEF Commands, Edit, Autosave, Save, Revert, Import, Close, ResidentSwitch,
           RefusedSwitch, Switch, Asks, User, docs
  <2> QED BY <2>1, Numbers
<1>1. CASE Edit
  <2> USE Numbers
  <2>1. /\ \A k \in jobs : ~k.fenced
        /\ ver'[active] = ops + 1 /\ \A c \in Cell \ {active} : ver'[c] = ver[c]
        /\ jobs' = jobs /\ owed' = owed /\ imported' = imported
    BY <1>1 DEF Edit, TypeOK, aims
  <2>2. \A c \in Cell : ver[c] <= ver'[c] /\ ver'[c] <= ops'
    BY <1>0, <2>1 DEF Versions, CellVersions
  <2>3. \A c \in Cell : ver'[c] \in Nat
    BY DEF TypeOK
  <2>4. CellVersions'
    BY <1>0, <2>1, <2>2, <2>3 DEF Versions, CellVersions
  <2>5. JobVersions'
    BY <1>0, <2>1, <2>2, <2>3 DEF Versions, JobVersions
  <2>6. AutosavesFirst'
    BY <2>1 DEF Versions, AutosavesFirst
  <2> QED BY <2>4, <2>5, <2>6 DEF Versions
<1>2. CASE Autosave
  <2> DEFINE j == Job("autosave", active, Fresh)
  <2>1. NewAttempt /\ jobs' = {j} /\ ver' = ver /\ aims' = aims
    BY <1>2 DEF Autosave, docs, aims
  <2>2. j.kind = "autosave" /\ ~j.fenced /\ j.cell = active /\ j.ver = ver[active]
    <3>1. Fresh \in Nat /\ active \in Cell
      BY <2>1, Appended DEF TypeOK
    <3> QED BY <3>1, JobFields DEF Kind
  <2> HIDE DEF j
  <2>3. j \in jobs' /\ jobs' \ {j} = {}
    BY <2>1
  <2> QED BY <1>0, <2>1, <2>2, <2>3, VersionsJoined
<1>3. CASE Save \/ Revert \/ Import
  <2>1. PICK k \in {"save", "revert", "import"} : jobs' = {Job(k, active, None)}
    BY <1>3 DEF Save, Revert, Import
  <2> DEFINE j == Job(k, active, None)
  <2>2. j.kind = k /\ ~j.fenced /\ j.cell = active /\ j.ver = ver[active]
    <3>1. None \in Nat /\ active \in Cell
      BY DEF TypeOK, None
    <3> QED BY <3>1, JobFields DEF Kind
  <2>3. ver' = ver /\ aims' = aims
    BY <1>3 DEF Save, Revert, Import, docs, aims
  <2> HIDE DEF j
  <2>4. j \in jobs' /\ jobs' \ {j} = {} /\ j.kind # "switch"
    BY <2>1, <2>2 DEF j
  <2> QED BY <1>0, <2>1, <2>2, <2>3, <2>4, VersionsJoined DEF j
<1>4. CASE Close
  <2> USE Numbers
  <2>1. /\ jobs = {} /\ jobs' = {} /\ ver' = ver /\ imported' = imported
        /\ \A c \in Cell : owed'[c] \in {0, owed[c]}
    BY <1>4 DEF Close, Idle, docs, Safe, TypeOK
  <2>2. CellVersions'
    BY <1>0, <2>1 DEF Versions, CellVersions
  <2> QED BY <2>1, <2>2 DEF Versions, JobVersions, AutosavesFirst
<1>5. ASSUME NEW to \in Cell, ResidentSwitch(to) \/ RefusedSwitch(to)
      PROVE  Versions'
  <2>1. OnlyBackground /\ ver' = ver /\ aims' = aims
    BY <1>5 DEF ResidentSwitch, RefusedSwitch, docs, aims
  <2>2. PICK js \in {jobs, Outdated(jobs)} : QueueResidentAutosave(js)
    BY <1>5 DEF ResidentSwitch, RefusedSwitch
  <2>3. \A k \in js : (\E i \in jobs : Alike(k, i)) /\ ~k.fenced
    <3>1. jobs \subseteq Pending
      BY DEF TypeOK
    <3> QED BY <2>1, <2>2, <3>1, NoneFenced, SelfAlike, Outdating
  <2> QED BY <1>0, <2>1, <2>2, <2>3, VersionsQueued
<1>6. ASSUME NEW to \in Cell, Switch(to) PROVE Versions'
  <2> DEFINE j == Job("switch", to, IF Required THEN Fresh ELSE None)
  <2>1. OnlyBackground /\ ver' = ver /\ aims' = aims /\ jobs' = jobs \union {j}
    BY <1>6 DEF Switch, docs, aims
  <2>2. /\ (IF Required THEN Fresh ELSE None) \in Nat
        /\ Required => Fresh # None
    BY <1>6, Appended DEF Switch, None
  <2>3. /\ j.kind = "switch" /\ ~j.fenced /\ j.cell = active /\ j.ver = ver[active]
        /\ j.art = IF Required THEN Fresh ELSE None
    BY <1>6, <2>2, JobFields DEF Kind
  <2>4. j.art = None => ver[active] = saved[active]
    BY <2>2, <2>3 DEF Required
  <2> HIDE DEF j
  <2>5. j \in jobs' /\ \A k \in jobs' \ {j} : (\E i \in jobs : Alike(k, i)) /\ ~k.fenced
    BY <2>1, NoneFenced, SelfAlike
  <2> QED BY <1>0, <2>1, <2>3, <2>4, <2>5, VersionsJoined
<1> QED BY <1>1, <1>2, <1>3, <1>4, <1>5, <1>6 DEF Commands

LEMMA VersionsJobs ==
  ASSUME TypeOK, Queue, Versions, TypeOK', NEW j \in jobs, JobStep(j) PROVE Versions'
<1> USE Numbers
<1>0. ops >= ops /\ jobs \subseteq Pending
  BY DEF TypeOK
<1>1. CASE Write(j) \/ Fail(j)
  <2>1. /\ ver' = ver /\ saved' = saved /\ aims' = aims /\ ops' = ops /\ active' = active
        /\ jobs' \subseteq jobs
    BY <1>1 DEF Write, Fail, docs, run
  <2>2. \A k \in jobs' : (\E i \in jobs : Alike(k, i)) /\ FenceHolds(k)'
    BY <2>1, SelfAlike DEF Versions, JobVersions, FenceHolds
  <2> QED BY <1>0, <2>1, <2>2, VersionsCarried
<1>2. CASE Fence(j)
  <2>1. /\ ver' = ver /\ saved' = saved /\ aims' = aims /\ ops' = ops /\ active' = active
        /\ jobs' = (jobs \ {j}) \union {[j EXCEPT !.fenced = TRUE]}
        /\ active = j.cell /\ ver[active] = j.ver
    BY <1>2 DEF Fence, docs, run, Unchanged
  <2>2. Alike([j EXCEPT !.fenced = TRUE], j)
    BY DEF Alike, Pending
  <2>3. \A k \in jobs' : (\E i \in jobs : Alike(k, i)) /\ FenceHolds(k)'
    BY <2>1, <2>2, SelfAlike DEF Versions, JobVersions, FenceHolds, Alike
  <2> QED BY <1>0, <2>1, <2>3, VersionsCarried
<1>3. CASE AutosaveDone(j)
  <2>1. /\ ver' = ver /\ saved' = saved /\ ops' = ops /\ active' = active
        /\ jobs' = jobs \ {j} /\ j.kind = "autosave"
    BY <1>3 DEF AutosaveDone, docs, run
  <2>2. \A k \in jobs' : (\E i \in jobs \ {j} : Alike(k, i)) /\ FenceHolds(k)'
    BY <2>1, SelfAlike DEF Versions, JobVersions, FenceHolds
  <2>3. CASE StillCurrent(j)
    <3>1. Record(j)
      BY <1>3, <2>3 DEF AutosaveDone
    <3>2. \A k \in jobs : k # j /\ Reserves(k) /\ k.cell = j.cell => j.ver <= k.ver
      BY <2>1 DEF Versions, AutosavesFirst
    <3> QED BY <2>1, <2>2, <3>1, <3>2, VersionsRecorded
  <2>4. CASE ~StillCurrent(j)
    <3>1. aims' = aims
      BY <1>3, <2>4 DEF AutosaveDone
    <3> QED BY <1>0, <2>1, <2>2, <3>1, VersionsCarried
  <2> QED BY <2>3, <2>4
<1>4. CASE ResidentDone(j)
  <2>1. Reserves(j)
    BY <1>4 DEF ResidentDone, Reserves, Queue, QueueOf, Shape, Background
  <2>2. /\ ver' = ver /\ saved' = saved /\ ops' = ops /\ active' = active
        /\ jobs' = jobs \ {j} /\ Record(j)
    BY <1>4, <2>1, MayPublish DEF ResidentDone, docs, run
  <2>3. \A k \in jobs' : (\E i \in jobs \ {j} : Alike(k, i)) /\ FenceHolds(k)'
    BY <2>2, SelfAlike DEF Versions, JobVersions, FenceHolds
  <2>4. \A k \in jobs : k # j /\ Reserves(k) /\ k.cell = j.cell => j.ver <= k.ver
    BY <2>1 DEF Queue, QueueOf, Matched
  <2> QED BY <2>2, <2>3, <2>4, VersionsRecorded
<1>5. CASE SwitchDone(j)
  <2>1. /\ ver' = ver /\ saved' = saved /\ ops' = ops
        /\ jobs' = Outdated(jobs \ {j}) /\ j.kind = "switch" /\ j.fenced
    BY <1>5 DEF SwitchDone, run
  <2>2. jobs \ {j} \subseteq Pending /\ \A k \in jobs \ {j} : ~k.fenced
    BY <1>0, <2>1, OneFence
  <2>3. \A k \in jobs' : (\E i \in jobs \ {j} : Alike(k, i)) /\ FenceHolds(k)'
    BY <2>1, <2>2, Outdating DEF FenceHolds
  <2>4. CASE j.art = None
    <3>1. aims' = aims
      BY <1>5, <2>4 DEF SwitchDone
    <3> QED BY <1>0, <2>1, <2>3, <3>1, VersionsCarried
  <2>5. CASE j.art # None
    <3>1. Reserves(j) /\ Record(j)
      BY <1>5, <2>1, <2>5 DEF SwitchDone, Reserves
    <3>2. \A k \in jobs : k # j /\ Reserves(k) /\ k.cell = j.cell => j.ver <= k.ver
      BY <3>1 DEF Queue, QueueOf, Matched
    <3> QED BY <2>1, <2>3, <3>1, <3>2, VersionsRecorded
  <2> QED BY <2>4, <2>5
<1>6. CASE SaveDone(j) \/ RevertDone(j) \/ ImportDone(j)
  <2>1. jobs = {j}
    BY <1>6, AloneJob DEF SaveDone, RevertDone, ImportDone
  <2>2. jobs \ {j} = {} /\ {} \subseteq Pending
    BY <2>1
  <2>3. jobs' \in {{}, Outdated({})} /\ ops' = ops
    BY <1>6, <2>2 DEF SaveDone, RevertDone, ImportDone, run
  <2>4. jobs' = {}
    BY <2>2, <2>3, Outdating
  <2>5. CASE SaveDone(j)
    <3>1. /\ ver' = ver /\ imported' = imported
          /\ saved' = [saved EXCEPT ![j.cell] = j.ver]
          /\ owed' = [owed EXCEPT ![j.cell] = 0]
      BY <2>5 DEF SaveDone, Safe
    <3>2. j.ver <= ver[j.cell]
      BY DEF Versions, JobVersions
    <3>3. saved'[j.cell] = j.ver /\ owed'[j.cell] = 0
      BY <3>1 DEF TypeOK
    <3>4. \A c \in Cell \ {j.cell} : saved'[c] = saved[c] /\ owed'[c] = owed[c]
      BY <3>1 DEF TypeOK
    <3> QED BY <2>3, <2>4, <3>1, <3>2, <3>3, <3>4 DEF Versions, CellVersions, JobVersions, AutosavesFirst
  <2>6. CASE RevertDone(j)
    <3>1. /\ saved' = saved /\ imported' = imported
          /\ ver' = [ver EXCEPT ![active] = saved[active]]
          /\ owed' = [owed EXCEPT ![active] = 0]
      BY <2>6 DEF RevertDone, Safe
    <3>2. ver'[active] = saved[active] /\ owed'[active] = 0
      BY <3>1 DEF TypeOK
    <3>3. \A c \in Cell \ {active} : ver'[c] = ver[c] /\ owed'[c] = owed[c]
      BY <3>1 DEF TypeOK
    <3> QED BY <2>3, <2>4, <3>1, <3>2, <3>3 DEF Versions, CellVersions, JobVersions, AutosavesFirst
  <2>7. CASE ImportDone(j)
    <3>1. /\ saved' = saved /\ owed' = owed
          /\ \A c \in Cell : ver'[c] \in {ver[c], saved[c]}
          /\ active \in Cell /\ ver'[active] = ver[active]
      BY <2>7 DEF ImportDone, TypeOK
    <3>2. \A c \in Cell : saved[c] <= ver'[c] /\ ver'[c] <= ops
      BY <3>1 DEF Versions, CellVersions
    <3>3. \A c \in Cell : c \notin imported' => c = active /\ c \notin imported
      BY <2>7 DEF ImportDone, Taken
    <3> QED BY <2>3, <2>4, <3>1, <3>2, <3>3 DEF Versions, CellVersions, JobVersions, AutosavesFirst
  <2> QED BY <1>6, <2>5, <2>6, <2>7
<1> QED BY <1>1, <1>2, <1>3, <1>4, <1>5, <1>6 DEF JobStep

LEMMA VersionsNext == TypeOK /\ Queue /\ Versions /\ TypeOK' /\ [Next]_vars => Versions'
<1> SUFFICES ASSUME TypeOK, Queue, Versions, TypeOK', [Next]_vars PROVE Versions'
  OBVIOUS
<1>1. CASE (\E a \in cleanup : Discard(a)) \/ UNCHANGED vars
  <2>1. /\ jobs' = jobs /\ ver' = ver /\ saved' = saved /\ aims' = aims /\ ops' = ops
        /\ active' = active
    BY <1>1 DEF Discard, docs, aims, run, vars
  <2>2. \A k \in jobs' : (\E i \in jobs : Alike(k, i)) /\ FenceHolds(k)'
    BY <2>1, SelfAlike DEF Versions, JobVersions, FenceHolds
  <2>3. ops' >= ops
    BY <2>1, Numbers
  <2> QED BY <2>1, <2>2, <2>3, VersionsCarried
<1> QED BY <1>1, VersionsCommands, VersionsJobs DEF Next

-----------------------------------------------------------------------------
(* Names. *)

LEMMA NamesInit == Init => Names
<1> SUFFICES ASSUME Init PROVE Names
  OBVIOUS
<1>1. /\ jobs = {} /\ cleanup = {} /\ shell.art = None
      /\ \A c \in Cell : binding[c].art = None /\ retained[c].art = None
  BY DEF Init, Unbound
<1> QED BY <1>1 DEF Names, Clear, Settled, OneArt

(* What no step changes of an attempt; those of the jobs js are not gone. *)
Onward(js) ==
    /\ \A a \in DOMAIN art :
           /\ a \in DOMAIN art'
           /\ art'[a].cell = art[a].cell /\ art'[a].ver = art[a].ver
           /\ art[a].at \in {"both", "gone"} => art'[a].at \in {"both", "gone"}
    /\ \A j \in js : j.art # None => art'[j.art].at # "gone"

LEMMA ClearPart ==
  ASSUME NEW js, NEW ks, ks \subseteq js, Clear(js) PROVE Clear(ks)
<1>1. \A a, c : Settled(a, c, js) => Settled(a, c, ks)
  BY DEF Settled
<1> QED BY <1>1 DEF Clear

LEMMA OneArtOutdated ==
  ASSUME NEW js, js \subseteq Pending, OneArt(js) PROVE OneArt(Outdated(js))
<1>1. PICK f : f = [k \in js |-> [k EXCEPT !.current = FALSE]]
  OBVIOUS
<1>2. Outdated(js) = {f[k] : k \in js} /\ \A k \in js : f[k].art = k.art
  BY <1>1 DEF Outdated, Pending
<1> QED BY <1>2 DEF OneArt

(* The jobs js go on, with attempts of their own, or begin with a new one, *)
(* and what is named belongs to none of them.                              *)
LEMMA NamesGoOn ==
  ASSUME Names, NEW js, js \subseteq jobs, Onward(js),
         Settled(shell'.art, active', js),
         \A c \in Cell : Settled(binding'[c].art, c, js) /\ Settled(retained'[c].art, c, js),
         \A k \in jobs' : Settled(k.shell.art, k.cell, js) /\ Settled(k.bound.art, k.cell, js),
         \A a \in cleanup' : a # None /\ \E c : Settled(a, c, js),
         OneArt(jobs'),
         \A k \in jobs' : \/ k.art = None
                          \/ \E i \in js : Alike(k, i)
                          \/ k.art \notin DOMAIN art /\ Own(k)'
  PROVE  Names'
<1>1. ASSUME NEW a, NEW c, Settled(a, c, js) PROVE Settled(a, c, jobs)'
  <2> SUFFICES ASSUME a # None PROVE a \in DOMAIN art' /\ Sound(a, c)' /\ \A k \in jobs' : k.art # a
    BY DEF Settled
  <2>1. a \in DOMAIN art /\ Sound(a, c) /\ \A i \in js : i.art # a
    BY <1>1 DEF Settled
  <2>2. a \in DOMAIN art' /\ Sound(a, c)'
    BY <2>1 DEF Onward, Sound
  <2>3. \A k \in jobs' : k.art # a
    BY <2>1 DEF Alike
  <2> QED BY <2>2, <2>3
<1>2. ASSUME NEW a \in cleanup' PROVE a # None /\ Settled(a, art[a].cell, jobs)'
  <2>1. PICK c : a # None /\ Settled(a, c, js)
    OBVIOUS
  <2>2. Settled(a, c, jobs)' /\ art'[a].cell = c
    BY <1>1, <2>1 DEF Settled, Onward, Sound
  <2> QED BY <2>1, <2>2
<1>3. Clear(jobs)'
  BY <1>1, <1>2 DEF Clear
<1>4. ASSUME NEW k \in jobs' PROVE Own(k)'
  <2>1. CASE k.art = None
    BY <2>1 DEF Own
  <2>2. ASSUME NEW i \in js, Alike(k, i), k.art # None PROVE Own(k)'
    BY <2>2 DEF Names, Own, Onward, Alike
  <2> QED BY <2>1, <2>2
<1> QED BY <1>3, <1>4 DEF Names

LEMMA OnwardSame ==
  ASSUME Names, art' = art PROVE Onward(jobs)
BY DEF Onward, Names, Own

LEMMA OnwardNew ==
  ASSUME TypeOK, Names, NewAttempt PROVE Onward(jobs)
BY Appended DEF Onward, Names, Own

LEMMA OnwardGone ==
  ASSUME TypeOK, Names, NEW a, art' = Gone(a),
         NEW js, js \subseteq jobs, \A j \in js : j.art # a
  PROVE  Onward(js)
<1>1. Turned(a, "gone")
  BY Turns DEF Gone, Status
<1>2. \A b \in DOMAIN art : art'[b].at = art[b].at \/ art'[b].at = "gone"
  BY <1>1 DEF Turned
<1>3. \A j \in js : j.art # None => art'[j.art] = art[j.art]
  BY <1>1 DEF Turned, Names, Own
<1> QED BY <1>1, <1>2, <1>3 DEF Onward, Turned, Names, Own

(* The attempt of a job that ends, when it is complete. *)
LEMMA OwnSettles ==
  ASSUME Names, NEW j \in jobs, j.art # None, Complete(j)
  PROVE  Settled(j.art, j.cell, jobs \ {j})
BY DEF Names, Own, OneArt, Settled, Sound, Complete

LEMMA NamesQueued ==
  ASSUME TypeOK, Names, NEW js, QueueResidentAutosave(js),
         js \subseteq Pending, OneArt(js), \A k \in js : \E i \in jobs : Alike(k, i)
  PROVE  /\ Onward(jobs) /\ OneArt(jobs')
         /\ \A k \in jobs' : Settled(k.shell.art, k.cell, jobs) /\ Settled(k.bound.art, k.cell, jobs)
         /\ \A k \in jobs' : \/ k.art = None
                             \/ \E i \in jobs : Alike(k, i)
                             \/ k.art \notin DOMAIN art /\ Own(k)'
<1>0. \A k \in js : Settled(k.shell.art, k.cell, jobs) /\ Settled(k.bound.art, k.cell, jobs)
  BY DEF Names, Clear, Alike
<1>1. CASE Required
  <2>0. PICK j : j = Job("resident", active, Fresh)
    OBVIOUS
  <2>1. NewAttempt /\ jobs' = js \union {j}
    BY <1>1, <2>0 DEF QueueResidentAutosave
  <2>2. Fresh \in Nat /\ active \in Cell
    BY <2>1, Appended DEF TypeOK
  <2>3. /\ j.art = Fresh /\ j.cell = active /\ j.ver = ver[active]
        /\ j.shell = shell /\ j.bound = binding[active]
    BY <2>0, <2>2, JobFields DEF Kind
  <2>4. Settled(j.shell.art, j.cell, jobs) /\ Settled(j.bound.art, j.cell, jobs)
    BY <2>2, <2>3 DEF Names, Clear
  <2>5. j.art \notin DOMAIN art /\ Own(j)'
    <3>1. /\ Fresh \notin DOMAIN art /\ Fresh \in DOMAIN art'
          /\ art'[Fresh].cell = active /\ art'[Fresh].ver = ver[active]
          /\ art'[Fresh].at = "nothing"
      BY <2>1, Appended
    <3> QED BY <2>3, <3>1 DEF Own
  <2>6. \A k \in js : k.art # None => k.art # j.art
    BY <2>5 DEF Alike, Names, Own
  <2>7. OneArt(jobs')
    BY <2>1, <2>6 DEF OneArt
  <2>8. Onward(jobs)
    BY <2>1, OnwardNew
  <2>9. \A k \in jobs' : k \in js \/ k = j
    BY <2>1
  <2> QED BY <1>0, <2>4, <2>5, <2>7, <2>8, <2>9
<1>2. CASE ~Required
  <2>1. jobs' = js /\ art' = art
    BY <1>2 DEF QueueResidentAutosave
  <2> QED BY <1>0, <2>1, OnwardSame
<1> QED BY <1>1, <1>2

LEMMA NamesAreSettled ==
  ASSUME TypeOK, Names, NEW js, js \subseteq jobs
  PROVE  /\ Settled(shell.art, active, js)
         /\ \A c \in Cell : Settled(binding[c].art, c, js) /\ Settled(retained[c].art, c, js)
         /\ \A j \in jobs : Settled(j.shell.art, j.cell, js) /\ Settled(j.bound.art, j.cell, js)
         /\ \A a \in cleanup : a # None /\ \E c : Settled(a, c, js)
         /\ \A c : Settled(None, c, js)
<1>1. Clear(js)
  BY ClearPart DEF Names
<1> QED BY <1>1 DEF Clear, Settled

(* No name, no job, and nothing on disk changes. *)
LEMMA NamesSame ==
  ASSUME Names, active' = active, UNCHANGED names, jobs' = jobs, UNCHANGED disk
  PROVE  Names'
BY DEF Names, Clear, Settled, Sound, Own, OneArt, names, disk

LEMMA ProvenNames == \A A, a : a \in Proven(A) => a \in A /\ a # None
BY DEF Proven

LEMMA NamesCommands == TypeOK /\ Names /\ Commands => Names'
<1> SUFFICES ASSUME TypeOK, Names, Commands PROVE Names'
  OBVIOUS
<1>0. /\ jobs \subseteq Pending /\ jobs \subseteq jobs /\ active \in Cell
      /\ Settled(shell.art, active, jobs)
      /\ \A c \in Cell : Settled(binding[c].art, c, jobs) /\ Settled(retained[c].art, c, jobs)
      /\ \A j \in jobs : Settled(j.shell.art, j.cell, jobs) /\ Settled(j.bound.art, j.cell, jobs)
      /\ \A a \in cleanup : a # None /\ \E c : Settled(a, c, jobs)
      /\ \A c : Settled(None, c, jobs)
  BY NamesAreSettled DEF TypeOK
<1>1. CASE Edit
  BY <1>1, NamesSame DEF Edit
<1>2. CASE Autosave
  <2>0. PICK j : j = Job("autosave", active, Fresh)
    OBVIOUS
  <2>1. /\ NewAttempt /\ jobs' = {j} /\ jobs = {} /\ active' = active
        /\ shell' = shell /\ retained' = retained /\ binding' = binding
        /\ cleanup' = cleanup
    BY <1>2, <2>0 DEF Autosave, Idle, docs, names
  <2>2. /\ Fresh \in Nat /\ Fresh \notin DOMAIN art /\ Fresh \in DOMAIN art'
        /\ art'[Fresh].cell = active /\ art'[Fresh].ver = ver[active]
        /\ art'[Fresh].at = "nothing"
    BY <2>1, Appended
  <2>3. /\ j.art = Fresh /\ j.cell = active /\ j.ver = ver[active]
        /\ j.shell = shell /\ j.bound = binding[active]
    BY <1>0, <2>0, <2>2, JobFields DEF Kind
  <2>4. j.art \notin DOMAIN art /\ Own(j)'
    BY <2>2, <2>3 DEF Own
  <2>5. OneArt(jobs')
    BY <2>1 DEF OneArt
  <2>6. Onward(jobs)
    BY <2>1, OnwardNew
  <2>7. Settled(j.shell.art, j.cell, jobs) /\ Settled(j.bound.art, j.cell, jobs)
    BY <1>0, <2>3
  <2> QED BY <1>0, <2>1, <2>4, <2>5, <2>6, <2>7, NamesGoOn
<1>3. CASE Save \/ Revert \/ Import
  <2>k. PICK k \in {"save", "revert", "import"} : jobs' = {Job(k, active, None)}
    BY <1>3 DEF Save, Revert, Import
  <2>0. PICK j : j = Job(k, active, None) /\ jobs' = {j}
    BY <2>k
  <2>1. /\ art' = art /\ jobs = {} /\ active' = active
        /\ shell' = shell /\ retained' = retained /\ binding' = binding
        /\ cleanup' = cleanup
    BY <1>3 DEF Save, Revert, Import, Idle, docs, names, disk
  <2>2. None \in Nat
    BY DEF None
  <2>3. j.art = None /\ j.cell = active /\ j.shell = shell /\ j.bound = binding[active]
    BY <1>0, <2>0, <2>2, JobFields DEF Kind
  <2>4. OneArt(jobs')
    BY <2>0 DEF OneArt
  <2>5. Onward(jobs)
    BY <2>1, OnwardSame
  <2>6. Settled(j.shell.art, j.cell, jobs) /\ Settled(j.bound.art, j.cell, jobs)
    BY <1>0, <2>3
  <2> QED BY <1>0, <2>0, <2>1, <2>3, <2>4, <2>5, <2>6, NamesGoOn
<1>4. CASE Close
  <2>1. /\ jobs = {} /\ jobs' = {} /\ active' = active
        /\ retained' = retained /\ binding' = binding /\ cleanup' = cleanup
        /\ shell'.art \in {None, shell.art}
    BY <1>4 DEF Close, Idle, docs
  <2>2. Onward(jobs)
    <3>1. \A j \in jobs : j.art # shell.art
      BY <2>1
    <3>2. art' = art \/ art' = Gone(shell.art)
      BY <1>4 DEF Close
    <3> QED BY <1>0, <3>1, <3>2, OnwardSame, OnwardGone
  <2>3. OneArt(jobs')
    BY <2>1 DEF OneArt
  <2> QED BY <1>0, <2>1, <2>2, <2>3, NamesGoOn
<1>5. ASSUME NEW to \in Cell, ResidentSwitch(to) \/ RefusedSwitch(to)
      PROVE  Names'
  <2>1. PICK js \in {jobs, Outdated(jobs)} : QueueResidentAutosave(js)
    BY <1>5 DEF ResidentSwitch, RefusedSwitch
  <2>2. /\ js \subseteq Pending /\ OneArt(js)
        /\ \A k \in js : \E i \in jobs : Alike(k, i)
    BY <1>0, <2>1, OutdatedTypes, OneArtOutdated, Outdating, SelfAlike DEF Names
  <2>3. /\ Onward(jobs) /\ OneArt(jobs')
        /\ \A k \in jobs' : Settled(k.shell.art, k.cell, jobs) /\ Settled(k.bound.art, k.cell, jobs)
        /\ \A k \in jobs' : \/ k.art = None
                            \/ \E i \in jobs : Alike(k, i)
                            \/ k.art \notin DOMAIN art /\ Own(k)'
    BY <2>1, <2>2, NamesQueued
  <2>4. /\ cleanup' = cleanup /\ binding' = binding
        /\ retained' = [retained EXCEPT ![active] = shell]
    BY <1>5 DEF ResidentSwitch, RefusedSwitch
  <2>5. \A c \in Cell : Settled(retained'[c].art, c, jobs)
    BY <1>0, <2>4 DEF TypeOK
  <2>6. Settled(shell'.art, active', jobs)
    <3>1. CASE ResidentSwitch(to)
      <4>1. active' = to /\ (shell' = binding[to] \/ shell' = retained[to])
        BY <3>1 DEF ResidentSwitch, ShellOf
      <4> QED BY <1>0, <1>5, <4>1
    <3>2. CASE RefusedSwitch(to)
      BY <1>0, <3>2 DEF RefusedSwitch, docs
    <3> QED BY <1>5, <3>1, <3>2
  <2> QED BY <1>0, <2>3, <2>4, <2>5, <2>6, NamesGoOn
<1>6. ASSUME NEW to \in Cell, Switch(to) PROVE Names'
  <2>1. /\ active' = active /\ shell' = shell /\ cleanup' = cleanup /\ binding' = binding
        /\ retained' = [retained EXCEPT ![active] = shell]
    BY <1>6 DEF Switch, docs
  <2>2. \A c \in Cell : Settled(retained'[c].art, c, jobs)
    BY <1>0, <2>1 DEF TypeOK
  <2>3. /\ Onward(jobs) /\ OneArt(jobs')
        /\ \A k \in jobs' : Settled(k.shell.art, k.cell, jobs) /\ Settled(k.bound.art, k.cell, jobs)
        /\ \A k \in jobs' : \/ k.art = None
                            \/ \E i \in jobs : Alike(k, i)
                            \/ k.art \notin DOMAIN art /\ Own(k)'
    <3>1. CASE Required
      <4>0. PICK j : j = Job("switch", to, Fresh)
        OBVIOUS
      <4>1. NewAttempt /\ jobs' = jobs \union {j}
        BY <1>6, <3>1, <4>0 DEF Switch
      <4>2. /\ Fresh \in Nat /\ Fresh \notin DOMAIN art /\ Fresh \in DOMAIN art'
            /\ art'[Fresh].cell = active /\ art'[Fresh].ver = ver[active]
            /\ art'[Fresh].at = "nothing"
        BY <4>1, Appended
      <4>3. /\ j.art = Fresh /\ j.cell = active /\ j.ver = ver[active]
            /\ j.shell = shell /\ j.bound = binding[active]
        BY <1>6, <4>0, <4>2, JobFields DEF Kind
      <4>4. j.art \notin DOMAIN art /\ Own(j)'
        BY <4>2, <4>3 DEF Own
      <4>5. \A k \in jobs : k.art # None => k.art # j.art
        BY <4>4 DEF Names, Own
      <4>6. OneArt(jobs')
        BY <4>1, <4>5 DEF OneArt, Names
      <4>7. Onward(jobs)
        BY <4>1, OnwardNew
      <4>8. Settled(j.shell.art, j.cell, jobs) /\ Settled(j.bound.art, j.cell, jobs)
        BY <1>0, <4>3
      <4>9. \A k \in jobs' : k \in jobs \/ k = j
        BY <4>1
      <4> QED BY <1>0, <4>4, <4>6, <4>7, <4>8, <4>9, SelfAlike
    <3>2. CASE ~Required
      <4>0. PICK j : j = Job("switch", to, None)
        OBVIOUS
      <4>1. art' = art /\ jobs' = jobs \union {j}
        BY <1>6, <3>2, <4>0 DEF Switch
      <4>2. None \in Nat
        BY DEF None
      <4>3. j.art = None /\ j.cell = active /\ j.shell = shell /\ j.bound = binding[active]
        BY <1>6, <4>0, <4>2, JobFields DEF Kind
      <4>4. OneArt(jobs')
        BY <4>1, <4>3 DEF OneArt, Names
      <4>5. Onward(jobs)
        BY <4>1, OnwardSame
      <4>6. Settled(j.shell.art, j.cell, jobs) /\ Settled(j.bound.art, j.cell, jobs)
        BY <1>0, <4>3
      <4>7. \A k \in jobs' : k \in jobs \/ k = j
        BY <4>1
      <4> QED BY <1>0, <4>3, <4>4, <4>5, <4>6, <4>7, SelfAlike
    <3> QED BY <3>1, <3>2
  <2> QED BY <1>0, <2>1, <2>2, <2>3, NamesGoOn
<1> QED BY <1>1, <1>2, <1>3, <1>4, <1>5, <1>6 DEF Commands

LEMMA NamesJobs ==
  ASSUME TypeOK, Queue, Names, NEW j \in jobs, JobStep(j) PROVE Names'
<1> DEFINE rest == jobs \ {j}
<1>0. /\ jobs \subseteq Pending /\ rest \subseteq jobs /\ rest \subseteq Pending
      /\ active \in Cell /\ j.cell \in Cell
      /\ Settled(shell.art, active, rest)
      /\ \A c \in Cell : Settled(binding[c].art, c, rest) /\ Settled(retained[c].art, c, rest)
      /\ \A i \in jobs : Settled(i.shell.art, i.cell, rest) /\ Settled(i.bound.art, i.cell, rest)
      /\ \A a \in cleanup : a # None /\ \E c : Settled(a, c, rest)
      /\ \A c : Settled(None, c, rest)
  <2>1. rest \subseteq jobs /\ jobs \subseteq Pending
    BY DEF TypeOK
  <2> QED BY <2>1, NamesAreSettled DEF TypeOK, Pending
<1>a. OneArt(rest) /\ OneArt(Outdated(rest))
  <2>1. OneArt(rest)
    BY DEF Names, OneArt
  <2> QED BY <1>0, <2>1, OneArtOutdated
<1>b. ASSUME art' = art PROVE Onward(rest)
  BY <1>b, OnwardSame DEF Onward
<1>c. \A k \in Outdated(rest) : \E i \in rest : Alike(k, i)
  BY <1>0, Outdating
<1>d. \A k \in rest \union Outdated(rest) :
        Settled(k.shell.art, k.cell, rest) /\ Settled(k.bound.art, k.cell, rest)
  BY <1>0, <1>c DEF Alike
<1>e. j.art # None /\ Complete(j) => Settled(j.art, j.cell, rest)
  BY OwnSettles
<1>f. ASSUME jobs' \in {rest, Outdated(rest)}
      PROVE  /\ OneArt(jobs')
             /\ \A k \in jobs' : \E i \in rest : Alike(k, i)
             /\ \A k \in jobs' : Settled(k.shell.art, k.cell, rest) /\ Settled(k.bound.art, k.cell, rest)
  BY <1>a, <1>c, <1>d, <1>f, SelfAlike
<1> HIDE DEF rest
<1>1. CASE Write(j)
  <2>1. /\ active' = active /\ shell' = shell /\ retained' = retained /\ binding' = binding
        /\ jobs' = jobs /\ cleanup' = cleanup /\ j.art # None
    BY <1>1 DEF Write, docs, names
  <2>2. Onward(jobs)
    <3>1. PICK s \in {"native", "both"} :
            /\ art[j.art].at \notin {"both", "gone"}
            /\ art' = [art EXCEPT ![j.art].at = s]
      BY <1>1 DEF Write, Written
    <3>2. Turned(j.art, s)
      BY <3>1, Turns DEF Status
    <3> QED BY <3>1, <3>2 DEF Turned, Onward, Names, Own
  <2>3. /\ Settled(shell.art, active, jobs)
        /\ \A c \in Cell : Settled(binding[c].art, c, jobs) /\ Settled(retained[c].art, c, jobs)
        /\ \A i \in jobs : Settled(i.shell.art, i.cell, jobs) /\ Settled(i.bound.art, i.cell, jobs)
        /\ \A a \in cleanup : a # None /\ \E c : Settled(a, c, jobs)
    BY NamesAreSettled
  <2> QED BY <2>1, <2>2, <2>3, SelfAlike, NamesGoOn DEF Names
<1>2. CASE Fence(j)
  <2>0. PICK i : i = [j EXCEPT !.fenced = TRUE]
    OBVIOUS
  <2>1. /\ active' = active /\ shell' = shell /\ retained' = retained /\ binding' = binding
        /\ jobs' = rest \union {i} /\ cleanup' = cleanup /\ art' = art
    BY <1>2, <2>0 DEF Fence, docs, names, disk, rest
  <2>2. Alike(i, j) /\ i.art = j.art
    BY <1>0, <2>0 DEF Alike, Pending
  <2>3. OneArt(jobs')
    BY <2>1, <2>2 DEF OneArt, Names, rest
  <2>4. \A k \in jobs' : \E m \in jobs : Alike(k, m)
    BY <2>1, <2>2, SelfAlike DEF rest
  <2>5. /\ Settled(shell.art, active, jobs)
        /\ \A c \in Cell : Settled(binding[c].art, c, jobs) /\ Settled(retained[c].art, c, jobs)
        /\ \A m \in jobs : Settled(m.shell.art, m.cell, jobs) /\ Settled(m.bound.art, m.cell, jobs)
        /\ \A a \in cleanup : a # None /\ \E c : Settled(a, c, jobs)
    BY NamesAreSettled
  <2>6. \A k \in jobs' : Settled(k.shell.art, k.cell, jobs) /\ Settled(k.bound.art, k.cell, jobs)
    BY <2>4, <2>5 DEF Alike
  <2>7. Onward(jobs)
    BY <2>1, OnwardSame
  <2> QED BY <2>1, <2>3, <2>4, <2>5, <2>6, <2>7, NamesGoOn
<1>3. CASE Fail(j)
  <2>1. /\ active' = active /\ shell' = shell /\ retained' = retained /\ binding' = binding
        /\ jobs' = rest /\ art' = art
        /\ \/ cleanup' = cleanup
           \/ cleanup' = cleanup \union {j.art} /\ j.art # None /\ Complete(j)
    BY <1>3 DEF Fail, docs, rest
  <2>2. \A a \in cleanup' : a # None /\ \E c : Settled(a, c, rest)
    BY <1>0, <1>e, <2>1
  <2> QED BY <1>0, <1>b, <1>f, <2>1, <2>2, NamesGoOn
<1>4. CASE AutosaveDone(j)
  <2>1. /\ active' = active /\ retained' = retained /\ binding' = binding
        /\ jobs' = rest /\ art' = art /\ Complete(j)
    BY <1>4 DEF AutosaveDone, docs, rest
  <2>2. j.art # None
    BY <1>4 DEF AutosaveDone, Queue, QueueOf, Shape, Background
  <2>3. CASE StillCurrent(j)
    <3>1. /\ shell'.art = j.art /\ active = j.cell
          /\ cleanup' = cleanup \union Proven({j.shell.art})
      BY <1>4, <2>3 DEF AutosaveDone, StillCurrent
    <3>2. \A a \in cleanup' : a # None /\ \E c : Settled(a, c, rest)
      BY <1>0, <3>1, ProvenNames
    <3> QED BY <1>0, <1>b, <1>e, <1>f, <2>1, <2>2, <3>1, <3>2, NamesGoOn
  <2>4. CASE ~StillCurrent(j)
    <3>1. shell' = shell /\ cleanup' = cleanup \union {j.art}
      BY <1>4, <2>4 DEF AutosaveDone
    <3>2. \A a \in cleanup' : a # None /\ \E c : Settled(a, c, rest)
      BY <1>0, <1>e, <2>1, <2>2, <3>1
    <3> QED BY <1>0, <1>b, <1>f, <2>1, <3>1, <3>2, NamesGoOn
  <2> QED BY <2>3, <2>4
<1>5. CASE ResidentDone(j)
  <2>1. j.art # None /\ Reserves(j)
    BY <1>5 DEF ResidentDone, Queue, QueueOf, Shape, Background, Reserves
  <2>2. /\ active' = active /\ shell' = shell /\ retained' = retained
        /\ jobs' = rest /\ art' = art /\ Complete(j)
        /\ binding' = [binding EXCEPT ![j.cell] = [art |-> j.art, gen |-> j.bound.gen + 1]]
        /\ cleanup' = cleanup \union Proven({j.bound.art})
    BY <1>5, <2>1, MayPublish DEF ResidentDone, Publish, docs, rest
  <2>3. \A c \in Cell : Settled(binding'[c].art, c, rest)
    <3>1. binding'[j.cell].art = j.art /\ \A c \in Cell \ {j.cell} : binding'[c] = binding[c]
      BY <1>0, <2>2 DEF TypeOK
    <3> QED BY <1>0, <1>e, <2>1, <2>2, <3>1
  <2>4. \A a \in cleanup' : a # None /\ \E c : Settled(a, c, rest)
    BY <1>0, <2>2, ProvenNames
  <2> QED BY <1>0, <1>b, <1>f, <2>2, <2>3, <2>4, NamesGoOn
<1>6. CASE SwitchDone(j)
  <2>1. /\ shell'.art = None /\ retained' = retained /\ jobs' = Outdated(rest) /\ art' = art
    BY <1>6 DEF SwitchDone, rest
  <2>2. \A a \in cleanup' : a \in cleanup \/ (a # None /\ a \in {j.bound.art, j.shell.art, shell.art})
    <3>1. \/ cleanup' = cleanup \union Proven({shell.art} \ {j.shell.art})
          \/ cleanup' = cleanup \union Proven({j.bound.art, j.shell.art, shell.art})
      BY <1>6 DEF SwitchDone
    <3> QED BY <3>1 DEF Proven
  <2>3. \A a \in cleanup' : a # None /\ \E c : Settled(a, c, rest)
    BY <1>0, <2>2
  <2>4. \A c \in Cell : Settled(binding'[c].art, c, rest)
    <3>1. CASE j.art = None
      BY <1>0, <1>6, <3>1 DEF SwitchDone
    <3>2. CASE j.art # None
      <4>1. Complete(j) /\ binding' = [binding EXCEPT ![j.cell] = [art |-> j.art, gen |-> j.bound.gen + 1]]
        BY <1>6, <3>2 DEF SwitchDone, Publish
      <4>2. binding'[j.cell].art = j.art /\ \A c \in Cell \ {j.cell} : binding'[c] = binding[c]
        BY <1>0, <4>1 DEF TypeOK
      <4> QED BY <1>0, <1>e, <3>2, <4>1, <4>2
    <3> QED BY <3>1, <3>2
  <2> QED BY <1>0, <1>b, <1>f, <2>1, <2>3, <2>4, NamesGoOn
<1>7. CASE SaveDone(j)
  <2>1. /\ active' = active /\ shell'.art = None /\ retained' = retained
        /\ jobs' = Outdated(rest) /\ art' = art
        /\ \/ binding' = binding \/ binding' = [binding EXCEPT ![j.cell] = Unbound]
    BY <1>7 DEF SaveDone, rest
  <2>2. \A a \in cleanup' : a \in cleanup \/ (a # None /\ a \in {j.bound.art, j.shell.art, shell.art})
    BY <1>7 DEF SaveDone, Proven
  <2>3. \A a \in cleanup' : a # None /\ \E c : Settled(a, c, rest)
    BY <1>0, <2>2
  <2>4. \A c \in Cell : binding'[c] = binding[c] \/ binding'[c].art = None
    BY <2>1 DEF TypeOK, Unbound
  <2>5. \A c \in Cell : Settled(binding'[c].art, c, rest)
    BY <1>0, <2>4
  <2> QED BY <1>0, <1>b, <1>f, <2>1, <2>3, <2>5, NamesGoOn
<1>8. CASE RevertDone(j)
  <2>1. /\ active' = active /\ shell'.art = None /\ retained' = retained
        /\ jobs' = Outdated(rest) /\ art' = art
        /\ binding' = [binding EXCEPT ![active] = Unbound]
    BY <1>8 DEF RevertDone, rest
  <2>2. \A a \in cleanup' : a \in cleanup \/ (a # None /\ a \in {shell.art, binding[active].art})
    BY <1>8 DEF RevertDone, Proven
  <2>3. \A a \in cleanup' : a # None /\ \E c : Settled(a, c, rest)
    BY <1>0, <2>2
  <2>4. \A c \in Cell : binding'[c] = binding[c] \/ binding'[c].art = None
    BY <2>1 DEF TypeOK, Unbound
  <2>5. \A c \in Cell : Settled(binding'[c].art, c, rest)
    BY <1>0, <2>4
  <2> QED BY <1>0, <1>b, <1>f, <2>1, <2>3, <2>5, NamesGoOn
<1>9. CASE ImportDone(j)
  <2>1. /\ active' = active /\ shell' = shell /\ jobs' = rest /\ art' = art
        /\ \A c \in Cell : binding'[c].art = None /\ retained'[c].art = None
    BY <1>9 DEF ImportDone, rest, Unbound
  <2>2. \A a \in cleanup' : a \in cleanup \/ (a # None /\ \E c \in Cell : a = binding[c].art)
    BY <1>9 DEF ImportDone, Proven
  <2>3. \A a \in cleanup' : a # None /\ \E c : Settled(a, c, rest)
    BY <1>0, <2>2
  <2> QED BY <1>0, <1>b, <1>f, <2>1, <2>3, NamesGoOn
<1> QED BY <1>1, <1>2, <1>3, <1>4, <1>5, <1>6, <1>7, <1>8, <1>9 DEF JobStep

LEMMA NamesNext == TypeOK /\ Queue /\ Names /\ [Next]_vars => Names'
<1> SUFFICES ASSUME TypeOK, Queue, Names, [Next]_vars PROVE Names'
  OBVIOUS
<1>1. ASSUME NEW a \in cleanup, Discard(a) PROVE Names'
  <2>1. /\ Settled(shell.art, active, jobs)
        /\ \A c \in Cell : Settled(binding[c].art, c, jobs) /\ Settled(retained[c].art, c, jobs)
        /\ \A m \in jobs : Settled(m.shell.art, m.cell, jobs) /\ Settled(m.bound.art, m.cell, jobs)
        /\ \A b \in cleanup : b # None /\ \E c : Settled(b, c, jobs)
    BY NamesAreSettled
  <2>2. /\ active' = active /\ shell' = shell /\ retained' = retained /\ binding' = binding
        /\ jobs' = jobs /\ cleanup' = cleanup \ {a} /\ (art' = Gone(a) \/ art' = art)
    BY <1>1 DEF Discard, docs, names
  <2>3. \A k \in jobs : k.art # a
    BY <2>1 DEF Settled
  <2>4. Onward(jobs)
    BY <2>2, <2>3, OnwardGone, OnwardSame
  <2> QED BY <2>1, <2>2, <2>4, SelfAlike, NamesGoOn DEF Names
<1>2. CASE UNCHANGED vars
  BY <1>2, NamesSame DEF vars, docs
<1> QED BY <1>1, <1>2, NamesCommands, NamesJobs DEF Next

-----------------------------------------------------------------------------
(* Keepers. *)

LEMMA KeepInit == Init => Keep
<1> SUFFICES ASSUME Init PROVE Keep
  OBVIOUS
<1>1. jobs = {} /\ \A c \in Cell : owed[c] = 0
  BY DEF Init
<1> QED BY <1>1 DEF Keep, KeptEach, KeptBeside

(* Keepers of the cells that a step is not about remain. *)
LEMMA KeepersStay ==
  ASSUME NEW cells,
         \A b \in DOMAIN art :
             /\ art[b].cell \notin cells /\ art[b].at = "both" /\ b \notin cleanup
             /\ \A j \in jobs : j.art # b
             => b \in DOMAIN art' /\ art'[b] = art[b],
         \A b \in cleanup' : \/ b \in cleanup
                             \/ b \in DOMAIN art => art[b].cell \in cells
                             \/ \E j \in jobs : b = j.art,
         \A k \in jobs' : k.art \in DOMAIN art => \E i \in jobs : i.art = k.art,
         \A c \in Cell \ cells : owed'[c] = owed[c],
         NEW c \in Cell \ cells, NEW a, Keeper(a, c)
  PROVE  Keeper(a, c)'
<1>1. a \in DOMAIN art' /\ art'[a] = art[a]
  BY DEF Keeper
<1>2. a \notin cleanup' /\ \A k \in jobs' : k.art # a
  BY DEF Keeper
<1> QED BY <1>1, <1>2 DEF Keeper

LEMMA KeepOthers ==
  ASSUME Keep, NEW cells,
         \A b \in DOMAIN art :
             /\ art[b].cell \notin cells /\ art[b].at = "both" /\ b \notin cleanup
             /\ \A j \in jobs : j.art # b
             => b \in DOMAIN art' /\ art'[b] = art[b],
         \A b \in cleanup' : \/ b \in cleanup
                             \/ b \in DOMAIN art => art[b].cell \in cells
                             \/ \E j \in jobs : b = j.art,
         \A k \in jobs' : k.art \in DOMAIN art => \E i \in jobs : i.art = k.art,
         \A c \in Cell \ cells : owed'[c] = owed[c],
         imported \subseteq imported' \union cells,
         \A k \in jobs' :
             k.cell \in Cell /\
             (k.kind = "autosave" /\ k.current /\ k.cell \notin cells =>
                 \/ \E i \in jobs : Alike(k, i) /\ i.current
                 \/ k.cell \notin imported' => ~(owed'[k.cell] > k.ver))
  PROVE  /\ \A c \in Cell \ cells : c \notin imported' /\ owed'[c] > 0
                                    => \E a \in DOMAIN art' : Keeper(a, c)'
         /\ \A k \in jobs' :
                /\ k.kind = "autosave" /\ k.current /\ k.cell \notin cells
                /\ k.cell \notin imported' /\ owed'[k.cell] > k.ver
                => \E a \in DOMAIN art' : Keeper(a, k.cell)' /\ a # k.shell.art
<1>1. ASSUME NEW c \in Cell \ cells, NEW a, Keeper(a, c)
      PROVE  Keeper(a, c)' /\ a \in DOMAIN art'
  <2>1. Keeper(a, c)'
    BY <1>1, KeepersStay
  <2> QED BY <2>1 DEF Keeper
<1>2. ASSUME NEW c \in Cell \ cells, c \notin imported', owed'[c] > 0
      PROVE  \E a \in DOMAIN art' : Keeper(a, c)'
  <2>1. c \in Cell \ imported /\ owed[c] > 0
    BY <1>2
  <2>2. PICK a \in DOMAIN art : Keeper(a, c)
    BY <2>1 DEF Keep, KeptEach
  <2> QED BY <1>1, <2>2
<1>3. ASSUME NEW k \in jobs', k.kind = "autosave", k.current, k.cell \notin cells,
             k.cell \notin imported', owed'[k.cell] > k.ver
      PROVE  \E a \in DOMAIN art' : Keeper(a, k.cell)' /\ a # k.shell.art
  <2>1. k.cell \in Cell /\ k.cell \notin imported /\ owed[k.cell] > k.ver
    BY <1>3
  <2>2. PICK i \in jobs : Alike(k, i) /\ i.current
    BY <1>3
  <2>3. i.kind = "autosave" /\ i.cell = k.cell /\ i.ver = k.ver /\ i.shell = k.shell
    BY <1>3, <2>2 DEF Alike
  <2>4. PICK a \in DOMAIN art : Keeper(a, i.cell) /\ a # i.shell.art
    BY <2>1, <2>2, <2>3 DEF Keep, KeptBeside
  <2> QED BY <1>1, <1>3, <2>1, <2>3, <2>4
<1> QED BY <1>2, <1>3

(* A step that is about no cell. *)
LEMMA KeepAll ==
  ASSUME Keep,
         \A b \in DOMAIN art :
             /\ art[b].at = "both" /\ b \notin cleanup
             /\ \A j \in jobs : j.art # b
             => b \in DOMAIN art' /\ art'[b] = art[b],
         \A b \in cleanup' : b \in cleanup \/ \E j \in jobs : b = j.art,
         \A k \in jobs' : k.art \in DOMAIN art => \E i \in jobs : i.art = k.art,
         aims' = aims,
         \A k \in jobs' :
             k.cell \in Cell /\
             (k.kind = "autosave" /\ k.current =>
                 \/ \E i \in jobs : Alike(k, i) /\ i.current
                 \/ k.cell \notin imported' => ~(owed'[k.cell] > k.ver))
  PROVE  Keep'
<1> DEFINE cells == {}
<1>1. /\ \A b \in DOMAIN art :
             /\ art[b].cell \notin cells /\ art[b].at = "both" /\ b \notin cleanup
             /\ \A j \in jobs : j.art # b
             => b \in DOMAIN art' /\ art'[b] = art[b]
      /\ \A b \in cleanup' : \/ b \in cleanup
                             \/ b \in DOMAIN art => art[b].cell \in cells
                             \/ \E j \in jobs : b = j.art
      /\ \A c \in Cell \ cells : owed'[c] = owed[c]
      /\ imported \subseteq imported' \union cells
  BY DEF aims
<1>2. \A k \in jobs' :
             k.cell \in Cell /\
             (k.kind = "autosave" /\ k.current /\ k.cell \notin cells =>
                 \/ \E i \in jobs : Alike(k, i) /\ i.current
                 \/ k.cell \notin imported' => ~(owed'[k.cell] > k.ver))
  OBVIOUS
<1>3. \A c : c \notin cells
  OBVIOUS
<1> HIDE DEF cells
<1>4. /\ \A c \in Cell \ cells : c \notin imported' /\ owed'[c] > 0
                                    => \E a \in DOMAIN art' : Keeper(a, c)'
      /\ \A k \in jobs' :
                /\ k.kind = "autosave" /\ k.current /\ k.cell \notin cells
                /\ k.cell \notin imported' /\ owed'[k.cell] > k.ver
                => \E a \in DOMAIN art' : Keeper(a, k.cell)' /\ a # k.shell.art
  BY <1>1, <1>2, KeepOthers
<1> QED BY <1>3, <1>4 DEF Keep, KeptEach, KeptBeside

LEMMA NoneNowhere == ASSUME TypeOK PROVE None \notin DOMAIN art
<1>1. Len(art) \in Nat /\ DOMAIN art = 1 .. Len(art)
  BY LenProperties DEF TypeOK
<1> QED BY <1>1 DEF None

LEMMA QueuedAttempt ==
  ASSUME TypeOK, NEW js, QueueResidentAutosave(js)
  PROVE  /\ \A b \in DOMAIN art : b \in DOMAIN art' /\ art'[b] = art[b]
         /\ \A k \in jobs' : k \in js \/ (k.kind = "resident" /\ k.art \notin DOMAIN art)
<1>1. CASE Required
  <2>0. PICK j : j = Job("resident", active, Fresh)
    OBVIOUS
  <2>1. NewAttempt /\ jobs' = js \union {j}
    BY <1>1, <2>0 DEF QueueResidentAutosave
  <2>2. /\ Fresh \in Nat /\ Fresh \notin DOMAIN art /\ active \in Cell
        /\ \A b \in DOMAIN art : b \in DOMAIN art' /\ art'[b] = art[b]
    BY <2>1, Appended DEF TypeOK
  <2>3. j.kind = "resident" /\ j.art = Fresh
    BY <2>0, <2>2, JobFields DEF Kind
  <2> QED BY <2>1, <2>2, <2>3
<1>2. CASE ~Required
  BY <1>2 DEF QueueResidentAutosave
<1> QED BY <1>1, <1>2

(* Nothing on disk changes but for what is appended; jobs go on or begin.  *)
LEMMA KeepBegun ==
  ASSUME Keep, TypeOK',
         \A b \in DOMAIN art : b \in DOMAIN art' /\ art'[b] = art[b],
         cleanup' = cleanup, aims' = aims,
         \A k \in jobs' : /\ k.art \in DOMAIN art => \E i \in jobs : i.art = k.art
                          /\ k.kind = "autosave" /\ k.current
                             => \/ \E i \in jobs : Alike(k, i) /\ i.current
                                \/ k.cell \notin imported' => ~(owed'[k.cell] > k.ver)
  PROVE  Keep'
<1>1. \A k \in jobs' : k.cell \in Cell
  BY DEF TypeOK, Pending
<1> QED BY <1>1, KeepAll

LEMMA KeepCommands ==
  TypeOK /\ Versions /\ Names /\ Keep /\ Commands /\ TypeOK' => Keep'
<1> SUFFICES ASSUME TypeOK, Versions, Names, Keep, Commands, TypeOK' PROVE Keep'
  OBVIOUS
<1>1. CASE Edit
  <2>1. jobs' = jobs /\ art' = art /\ cleanup' = cleanup /\ aims' = aims
    BY <1>1 DEF Edit, disk, aims
  <2> QED BY <2>1, SelfAlike, KeepBegun
<1>2. CASE Autosave
  <2>0. PICK j : j = Job("autosave", active, Fresh)
    OBVIOUS
  <2>1. NewAttempt /\ jobs' = {j} /\ cleanup' = cleanup /\ aims' = aims
    BY <1>2, <2>0 DEF Autosave, aims
  <2>2. /\ Fresh \in Nat /\ Fresh \notin DOMAIN art /\ active \in Cell
        /\ \A b \in DOMAIN art : b \in DOMAIN art' /\ art'[b] = art[b]
    BY <2>1, Appended DEF TypeOK
  <2>3. j.art = Fresh /\ j.cell = active /\ j.ver = ver[active]
    BY <2>0, <2>2, JobFields DEF Kind
  <2>4. j.cell \notin imported' => ~(owed'[j.cell] > j.ver)
    BY <2>1, <2>2, <2>3, Numbers DEF aims, Versions, CellVersions
  <2> QED BY <2>1, <2>2, <2>3, <2>4, KeepBegun
<1>3. CASE Save \/ Revert \/ Import
  <2>k. PICK k \in {"save", "revert", "import"} : jobs' = {Job(k, active, None)}
    BY <1>3 DEF Save, Revert, Import
  <2>0. PICK j : j = Job(k, active, None) /\ jobs' = {j}
    BY <2>k
  <2>1. art' = art /\ cleanup' = cleanup /\ aims' = aims
    BY <1>3 DEF Save, Revert, Import, disk, aims
  <2>2. None \in Nat /\ active \in Cell
    BY DEF TypeOK, None
  <2>3. j.kind # "autosave" /\ j.art = None
    BY <2>0, <2>2, JobFields DEF Kind
  <2> QED BY <2>0, <2>1, <2>3, NoneNowhere, KeepBegun
<1>4. CASE Close
  <2>1. /\ jobs = {} /\ jobs' = {} /\ cleanup' = cleanup /\ imported' = imported
    BY <1>4 DEF Close, Idle
  <2>2. CASE Required
    <3>1. /\ shell.art # None => art' = Gone(shell.art)
          /\ shell.art = None => art' = art
          /\ \A c \in Cell \ {active} : owed'[c] = owed[c]
          /\ owed'[active] = 0
      BY <1>4, <2>2 DEF Close, Safe, TypeOK
    <3>2. shell.art # None => art[shell.art].cell = active
      BY DEF Names, Clear, Settled, Sound
    <3>3. \A b \in DOMAIN art : art[b].cell # active => b \in DOMAIN art' /\ art'[b] = art[b]
      <4>1. CASE shell.art = None
        BY <3>1, <4>1
      <4>2. CASE shell.art # None
        <5>1. Turned(shell.art, "gone")
          BY <3>1, <4>2, Turns DEF Gone, Status
        <5> QED BY <3>2, <4>2, <5>1 DEF Turned
      <4> QED BY <4>1, <4>2
    <3>4. PICK cells : cells = {active}
      OBVIOUS
    <3>5. /\ \A b \in DOMAIN art :
             /\ art[b].cell \notin cells /\ art[b].at = "both" /\ b \notin cleanup
             /\ \A j \in jobs : j.art # b
             => b \in DOMAIN art' /\ art'[b] = art[b]
          /\ \A c \in Cell \ cells : owed'[c] = owed[c]
          /\ imported \subseteq imported' \union cells
      BY <2>1, <3>1, <3>3, <3>4
    <3>6. \A c \in Cell \ cells : c \notin imported' /\ owed'[c] > 0
                                    => \E a \in DOMAIN art' : Keeper(a, c)'
      BY <2>1, <3>5, KeepOthers
    <3> QED BY <2>1, <3>1, <3>4, <3>6 DEF Keep, KeptEach, KeptBeside
  <2>3. CASE ~Required
    <3>1. art' = art /\ aims' = aims
      BY <1>4, <2>1, <2>3 DEF Close, aims
    <3> QED BY <2>1, <3>1, KeepBegun
  <2> QED BY <2>2, <2>3
<1>5. ASSUME NEW to \in Cell, ResidentSwitch(to) \/ RefusedSwitch(to)
      PROVE  Keep'
  <2>1. PICK js \in {jobs, Outdated(jobs)} : QueueResidentAutosave(js)
    BY <1>5 DEF ResidentSwitch, RefusedSwitch
  <2>2. cleanup' = cleanup /\ aims' = aims
    BY <1>5 DEF ResidentSwitch, RefusedSwitch, aims
  <2>3. \A k \in js : \E i \in jobs : Alike(k, i) /\ (k.current => i.current)
    <3>1. jobs \subseteq Pending
      BY DEF TypeOK
    <3> QED BY <2>1, <3>1, SelfAlike, Outdating
  <2>4. /\ \A b \in DOMAIN art : b \in DOMAIN art' /\ art'[b] = art[b]
        /\ \A k \in jobs' : k \in js \/ (k.kind = "resident" /\ k.art \notin DOMAIN art)
    BY <2>1, QueuedAttempt
  <2>5. \A k \in jobs' : /\ k.art \in DOMAIN art => \E i \in jobs : i.art = k.art
                         /\ k.kind = "autosave" /\ k.current
                            => \E i \in jobs : Alike(k, i) /\ i.current
    BY <2>3, <2>4 DEF Alike
  <2> QED BY <2>2, <2>4, <2>5, KeepBegun
<1>6. ASSUME NEW to \in Cell, Switch(to) PROVE Keep'
  <2>1. cleanup' = cleanup /\ aims' = aims
    BY <1>6 DEF Switch, aims
  <2>2. PICK j : j = Job("switch", to, IF Required THEN Fresh ELSE None)
    OBVIOUS
  <2>3. /\ jobs' = jobs \union {j}
        /\ \A b \in DOMAIN art : b \in DOMAIN art' /\ art'[b] = art[b]
        /\ j.kind = "switch" /\ j.art \notin DOMAIN art
    <3>1. CASE Required
      <4>1. NewAttempt /\ jobs' = jobs \union {j}
        BY <1>6, <2>2, <3>1 DEF Switch
      <4>2. /\ Fresh \in Nat /\ Fresh \notin DOMAIN art
            /\ \A b \in DOMAIN art : b \in DOMAIN art' /\ art'[b] = art[b]
        BY <4>1, Appended
      <4>3. j.kind = "switch" /\ j.art = Fresh
        BY <1>6, <2>2, <3>1, <4>2, JobFields DEF Kind
      <4> QED BY <4>1, <4>2, <4>3
    <3>2. CASE ~Required
      <4>1. art' = art /\ jobs' = jobs \union {j}
        BY <1>6, <2>2, <3>2 DEF Switch
      <4>2. None \in Nat
        BY DEF None
      <4>3. j.kind = "switch" /\ j.art = None
        BY <1>6, <2>2, <3>2, <4>2, JobFields DEF Kind
      <4> QED BY <4>1, <4>3, NoneNowhere
    <3> QED BY <3>1, <3>2
  <2>4. \A k \in jobs' : /\ k.art \in DOMAIN art => \E i \in jobs : i.art = k.art
                         /\ k.kind = "autosave" /\ k.current
                            => \E i \in jobs : Alike(k, i) /\ i.current
    BY <2>3, SelfAlike
  <2> QED BY <2>1, <2>3, <2>4, KeepBegun
<1> QED BY <1>1, <1>2, <1>3, <1>4, <1>5, <1>6 DEF Commands

(* The attempt of a job that ends becomes a keeper. *)
LEMMA OwnKeeps ==
  ASSUME Names, NEW j \in jobs, j.art # None, Complete(j), art' = art,
         j.art \notin cleanup', \A k \in jobs' : \E i \in jobs \ {j} : Alike(k, i),
         j.ver >= owed'[j.cell]
  PROVE  j.art \in DOMAIN art' /\ Keeper(j.art, j.cell)'
<1>1. /\ j.art \in DOMAIN art /\ art[j.art].cell = j.cell /\ art[j.art].ver = j.ver
      /\ art[j.art].at = "both"
  BY DEF Names, Own, Complete
<1>2. \A k \in jobs' : k.art # j.art
  BY DEF Names, OneArt, Alike
<1> QED BY <1>1, <1>2 DEF Keeper

LEMMA OwnUnnamed ==
  ASSUME Names, NEW j \in jobs, j.art # None
  PROVE  /\ j.art \notin cleanup /\ j.art # shell.art
         /\ \A i \in jobs : j.art # i.shell.art /\ j.art # i.bound.art
BY DEF Names, Clear, Settled

LEMMA OfTheCell ==
  ASSUME TypeOK, Names
  PROVE  /\ shell.art # None => shell.art \in DOMAIN art /\ art[shell.art].cell = active
         /\ binding[active].art # None
            => binding[active].art \in DOMAIN art /\ art[binding[active].art].cell = active
         /\ \A j \in jobs :
              /\ j.shell.art # None => art[j.shell.art].cell = j.cell
              /\ j.bound.art # None => art[j.bound.art].cell = j.cell
BY DEF Names, Clear, Settled, Sound, TypeOK

(* A job ends that was about the cell c. *)
LEMMA KeepEnded ==
  ASSUME Keep, TypeOK', NEW c \in Cell, NEW j \in jobs, art' = art,
         \A b \in cleanup' : b \in cleanup \/ art[b].cell = c,
         \A d \in Cell \ {c} : owed'[d] = owed[d],
         imported \subseteq imported' \union {c},
         \A k \in jobs' : \E i \in jobs \ {j} : Alike(k, i) /\ (k.current => i.current),
         c \notin imported' /\ owed'[c] > 0 => \E a \in DOMAIN art' : Keeper(a, c)',
         \A k \in jobs' : /\ k.kind = "autosave" /\ k.current /\ k.cell = c
                          /\ c \notin imported' /\ owed'[c] > k.ver
                          => \E a \in DOMAIN art' : Keeper(a, c)' /\ a # k.shell.art
  PROVE  Keep'
<1>0. PICK cells : cells = {c}
  OBVIOUS
<1>1. /\ \A b \in DOMAIN art :
             /\ art[b].cell \notin cells /\ art[b].at = "both" /\ b \notin cleanup
             /\ \A i \in jobs : i.art # b
             => b \in DOMAIN art' /\ art'[b] = art[b]
      /\ \A b \in cleanup' : \/ b \in cleanup
                             \/ b \in DOMAIN art => art[b].cell \in cells
                             \/ \E i \in jobs : b = i.art
      /\ \A k \in jobs' : k.art \in DOMAIN art => \E i \in jobs : i.art = k.art
      /\ \A d \in Cell \ cells : owed'[d] = owed[d]
      /\ imported \subseteq imported' \union cells
  BY <1>0 DEF Alike
<1>2. \A k \in jobs' :
             k.cell \in Cell /\
             (k.kind = "autosave" /\ k.current /\ k.cell \notin cells =>
                 \/ \E i \in jobs : Alike(k, i) /\ i.current
                 \/ k.cell \notin imported' => ~(owed'[k.cell] > k.ver))
  BY DEF TypeOK, Pending
<1>3. /\ \A d \in Cell \ cells : d \notin imported' /\ owed'[d] > 0
                                    => \E a \in DOMAIN art' : Keeper(a, d)'
      /\ \A k \in jobs' :
                /\ k.kind = "autosave" /\ k.current /\ k.cell \notin cells
                /\ k.cell \notin imported' /\ owed'[k.cell] > k.ver
                => \E a \in DOMAIN art' : Keeper(a, k.cell)' /\ a # k.shell.art
  BY <1>1, <1>2, KeepOthers
<1>4. KeptEach'
  BY <1>0, <1>3 DEF KeptEach
<1>5. KeptBeside'
  BY <1>0, <1>3 DEF KeptBeside
<1> QED BY <1>4, <1>5 DEF Keep

(* A job that had reserved its cell has recorded its attempt. *)
LEMMA KeepReserved ==
  ASSUME TypeOK, Versions, Names, Keep, TypeOK', NEW j \in jobs, Reserves(j),
         Complete(j), Record(j), art' = art,
         \A b \in cleanup' : b \in cleanup \/ (art[b].cell = j.cell /\ b # j.art),
         \A k \in jobs' : \E i \in jobs \ {j} : Alike(k, i) /\ (k.current => i.current)
  PROVE  Keep'
<1> USE Numbers
<1>0. j \in Pending /\ j.art # None
  BY DEF Reserves
<1>1. /\ \A c \in Cell \ {j.cell} : owed'[c] = owed[c]
      /\ imported \subseteq imported' \union {j.cell}
  BY <1>0, RecordOwed
<1>2. CASE j.ver = saved[j.cell]
  <2>1. aims' = aims
    BY <1>2 DEF Record
  <2>2. j.cell \notin imported' => owed'[j.cell] = 0
    BY <1>2, <2>1 DEF aims, Versions, CellVersions, JobVersions
  <2>3. \A k \in jobs' : k.ver \in Nat
    BY DEF TypeOK, Pending
  <2>4. \A k \in jobs' : j.cell \notin imported' => ~(owed'[j.cell] > k.ver)
    BY <2>2, <2>3
  <2> QED BY <1>0, <1>1, <2>2, <2>4, KeepEnded
<1>3. CASE j.ver # saved[j.cell]
  <2>1. j.ver >= owed'[j.cell]
    <3>1. /\ owed'[j.cell] \in {j.ver, owed[j.cell]}
          /\ j.cell \in imported => owed'[j.cell] = j.ver
      BY <1>0, <1>3, RecordOwed
    <3>2. j.cell \notin imported => owed[j.cell] <= j.ver
      BY DEF Versions, JobVersions
    <3> QED BY <3>1, <3>2
  <2>2. j.art \notin cleanup' /\ \A i \in jobs : j.art # i.shell.art
    BY <1>0, OwnUnnamed
  <2>3. j.art \in DOMAIN art' /\ Keeper(j.art, j.cell)'
    BY <1>0, <2>1, <2>2, OwnKeeps
  <2>4. \A k \in jobs' : j.art # k.shell.art
    BY <2>2 DEF Alike
  <2> QED BY <1>0, <1>1, <2>3, <2>4, KeepEnded
<1> QED BY <1>2, <1>3

LEMMA KeepJobs ==
  ASSUME TypeOK, Queue, Versions, Names, Keep, TypeOK', NEW j \in jobs, JobStep(j)
  PROVE  Keep'
<1> USE Numbers
<1>0. jobs \subseteq Pending /\ jobs \ {j} \subseteq Pending /\ j.cell \in Cell
  BY DEF TypeOK
<1>a. /\ \A k \in jobs : \E i \in jobs : Alike(k, i) /\ (k.current => i.current)
      /\ \A k \in jobs \ {j} : \E i \in jobs \ {j} : Alike(k, i) /\ (k.current => i.current)
      /\ \A k \in Outdated(jobs \ {j}) :
              ~k.current /\ \E i \in jobs \ {j} : Alike(k, i) /\ (k.current => i.current)
  BY <1>0, SelfAlike, Outdating
<1>b. \A k \in jobs' : k.cell \in Cell
  BY DEF TypeOK, Pending
<1>1. CASE Write(j)
  <2>1. jobs' = jobs /\ cleanup' = cleanup /\ aims' = aims
    BY <1>1 DEF Write
  <2>2. PICK s \in Status : art' = [art EXCEPT ![j.art].at = s]
    BY <1>1 DEF Write, Written, Status
  <2>3. Turned(j.art, s)
    BY <2>2, Turns
  <2>4. \A b \in DOMAIN art : b # j.art => b \in DOMAIN art' /\ art'[b] = art[b]
    BY <2>3 DEF Turned
  <2> QED BY <1>a, <1>b, <2>1, <2>4, KeepAll
<1>2. CASE Fence(j)
  <2>0. PICK i : i = [j EXCEPT !.fenced = TRUE]
    OBVIOUS
  <2>1. /\ jobs' = (jobs \ {j}) \union {i}
        /\ art' = art /\ cleanup' = cleanup /\ aims' = aims
    BY <1>2, <2>0 DEF Fence, disk
  <2>2. Alike(i, j) /\ i.current = j.current /\ i.art = j.art
    BY <1>0, <2>0 DEF Alike, Pending
  <2>3. \A k \in jobs' : /\ k.art \in DOMAIN art => \E m \in jobs : m.art = k.art
                         /\ k.kind = "autosave" /\ k.current
                             => \E m \in jobs : Alike(k, m) /\ m.current
    BY <2>1, <2>2, SelfAlike
  <2> QED BY <1>b, <2>1, <2>3, KeepAll
<1>3. CASE Fail(j)
  <2>1. /\ jobs' = jobs \ {j} /\ art' = art /\ aims' = aims
        /\ \A b \in cleanup' : b \in cleanup \/ b = j.art
    BY <1>3 DEF Fail
  <2> QED BY <1>b, <2>1, SelfAlike, KeepAll
<1>4. CASE AutosaveDone(j)
  <2>1. jobs' = jobs \ {j} /\ art' = art /\ j.kind = "autosave" /\ Complete(j)
    BY <1>4 DEF AutosaveDone
  <2>2. j.art # None
    BY <2>1 DEF Queue, QueueOf, Shape, Background
  <2>3. \A k \in jobs' : k.kind # "autosave"
    BY <2>1 DEF Queue, QueueOf, OneOf
  <2>4. CASE ~StillCurrent(j)
    <3>1. aims' = aims /\ cleanup' = cleanup \union {j.art}
      BY <1>4, <2>4 DEF AutosaveDone
    <3> QED BY <1>b, <2>1, <2>3, <3>1, KeepAll
  <2>5. CASE StillCurrent(j)
    <3>1. Record(j) /\ j.current /\ cleanup' = cleanup \union Proven({j.shell.art})
      BY <1>4, <2>5 DEF AutosaveDone, StillCurrent
    <3>2. /\ \A b \in cleanup' : b \in cleanup \/ (b = j.shell.art /\ art[b].cell = j.cell)
          /\ j.art \notin cleanup'
      BY <2>2, <3>1, OfTheCell, OwnUnnamed DEF Proven
    <3>3. /\ \A c \in Cell \ {j.cell} : owed'[c] = owed[c]
          /\ imported \subseteq imported' \union {j.cell}
      BY <1>0, <3>1, RecordOwed
    <3>4. ASSUME j.cell \notin imported', owed'[j.cell] > 0
          PROVE  \E a \in DOMAIN art' : Keeper(a, j.cell)'
      <4>1. CASE j.ver >= owed'[j.cell]
        BY <1>a, <2>1, <2>2, <3>2, <4>1, OwnKeeps
      <4>2. CASE ~(j.ver >= owed'[j.cell])
        <5>1. /\ j.cell \notin imported /\ owed[j.cell] > j.ver
              /\ owed'[j.cell] = owed[j.cell]
          <6>1. CASE j.ver = saved[j.cell]
            <7>1. aims' = aims
              BY <3>1, <6>1 DEF Record
            <7> QED BY <3>4, <4>2, <6>1, <7>1 DEF aims, Versions, CellVersions
          <6>2. CASE j.ver # saved[j.cell]
            BY <1>0, <3>1, <4>2, <6>2, RecordOwed
          <6> QED BY <6>1, <6>2
        <5>2. PICK a \in DOMAIN art : Keeper(a, j.cell) /\ a # j.shell.art
          BY <2>1, <3>1, <5>1 DEF Keep, KeptBeside
        <5>3. Keeper(a, j.cell)'
          BY <2>1, <3>2, <5>1, <5>2 DEF Keeper
        <5> QED BY <2>1, <5>2, <5>3
      <4> QED BY <4>1, <4>2
    <3>5. \A k \in jobs' : \E i \in jobs \ {j} : Alike(k, i) /\ (k.current => i.current)
      BY <1>a, <2>1
    <3>6. \A b \in cleanup' : b \in cleanup \/ art[b].cell = j.cell
      BY <3>2
    <3> QED BY <1>0, <2>1, <2>3, <3>3, <3>4, <3>5, <3>6, KeepEnded
  <2> QED BY <2>4, <2>5
<1>5. CASE ResidentDone(j)
  <2>1. Reserves(j) /\ j.art # None
    BY <1>5 DEF ResidentDone, Reserves, Queue, QueueOf, Shape, Background
  <2>2. /\ jobs' = jobs \ {j} /\ art' = art /\ Complete(j) /\ Record(j)
        /\ cleanup' = cleanup \union Proven({j.bound.art})
    BY <1>5, <2>1, MayPublish DEF ResidentDone
  <2>3. \A b \in cleanup' : b \in cleanup \/ (art[b].cell = j.cell /\ b # j.art)
    BY <2>1, <2>2, OfTheCell, OwnUnnamed DEF Proven
  <2> QED BY <1>a, <2>1, <2>2, <2>3, KeepReserved
<1>6. CASE SwitchDone(j)
  <2>1. jobs' = Outdated(jobs \ {j}) /\ art' = art /\ j.kind = "switch" /\ j.fenced
    BY <1>6 DEF SwitchDone
  <2>2. active = j.cell /\ ver[j.cell] = j.ver
    BY <2>1 DEF Versions, JobVersions
  <2>3. CASE j.art = None
    <3>1. aims' = aims /\ cleanup' = cleanup \union Proven({shell.art} \ {j.shell.art})
      BY <1>6, <2>3 DEF SwitchDone
    <3>2. \A b \in cleanup' : b \in cleanup \/ art[b].cell = j.cell
      BY <2>2, <3>1, OfTheCell DEF Proven
    <3>3. j.cell \notin imported' => owed'[j.cell] = 0
      BY <1>0, <2>1, <2>2, <2>3, <3>1 DEF aims, Versions, CellVersions, JobVersions
    <3>4. /\ \A c \in Cell \ {j.cell} : owed'[c] = owed[c]
          /\ imported \subseteq imported' \union {j.cell}
      BY <3>1 DEF aims
    <3>5. \A k \in jobs' :
            ~k.current /\ \E i \in jobs \ {j} : Alike(k, i) /\ (k.current => i.current)
      BY <1>a, <2>1
    <3>6. ~(j.cell \notin imported' /\ owed'[j.cell] > 0)
      BY <3>3
    <3> QED BY <1>0, <2>1, <3>2, <3>4, <3>5, <3>6, KeepEnded
  <2>4. CASE j.art # None
    <3>1. /\ Complete(j) /\ Record(j) /\ Reserves(j)
          /\ cleanup' = cleanup \union Proven({j.bound.art, j.shell.art, shell.art})
      BY <1>6, <2>1, <2>4 DEF SwitchDone, Reserves
    <3>2. \A b \in cleanup' : b \in cleanup \/ (art[b].cell = j.cell /\ b # j.art)
      BY <2>2, <2>4, <3>1, OfTheCell, OwnUnnamed DEF Proven
    <3> QED BY <1>a, <2>1, <3>1, <3>2, KeepReserved
  <2> QED BY <2>3, <2>4
<1>7. CASE SaveDone(j)
  <2>1. /\ jobs' = Outdated(jobs \ {j}) /\ art' = art /\ j.fenced /\ imported' = imported
        /\ owed' = [owed EXCEPT ![j.cell] = 0]
    BY <1>7 DEF SaveDone, Safe
  <2>2. active = j.cell
    BY <2>1 DEF Versions, JobVersions
  <2>3. \A b \in cleanup' : b \in cleanup \/ (b # None /\ b \in {j.bound.art, j.shell.art, shell.art})
    BY <1>7 DEF SaveDone, Proven
  <2>4. \A b \in cleanup' : b \in cleanup \/ art[b].cell = j.cell
    BY <2>2, <2>3, OfTheCell
  <2>5. owed'[j.cell] = 0 /\ \A c \in Cell \ {j.cell} : owed'[c] = owed[c]
    BY <2>1 DEF TypeOK
  <2>6. \A k \in jobs' :
          ~k.current /\ \E i \in jobs \ {j} : Alike(k, i) /\ (k.current => i.current)
    BY <1>a, <2>1
  <2>7. ~(owed'[j.cell] > 0) /\ imported \subseteq imported' \union {j.cell}
    BY <2>1, <2>5
  <2> QED BY <1>0, <2>1, <2>4, <2>5, <2>6, <2>7, KeepEnded
<1>8. CASE RevertDone(j)
  <2>1. /\ jobs' = Outdated(jobs \ {j}) /\ art' = art /\ imported' = imported
        /\ owed' = [owed EXCEPT ![active] = 0]
    BY <1>8 DEF RevertDone, Safe
  <2>2. \A b \in cleanup' : b \in cleanup \/ (b # None /\ b \in {shell.art, binding[active].art})
    BY <1>8 DEF RevertDone, Proven
  <2>3. \A b \in cleanup' : b \in cleanup \/ art[b].cell = active
    BY <2>2, OfTheCell
  <2>4. owed'[active] = 0 /\ \A c \in Cell \ {active} : owed'[c] = owed[c]
    BY <2>1 DEF TypeOK
  <2>5. \A k \in jobs' :
          ~k.current /\ \E i \in jobs \ {j} : Alike(k, i) /\ (k.current => i.current)
    BY <1>a, <2>1
  <2>6. ~(owed'[active] > 0) /\ imported \subseteq imported' \union {active}
    BY <2>1, <2>4
  <2> QED BY <2>1, <2>3, <2>4, <2>5, <2>6, KeepEnded
<1>9. CASE ImportDone(j)
  <2>1. jobs = {j}
    BY <1>9, AloneJob DEF ImportDone
  <2>2. /\ jobs' = {} /\ imported' = imported \union Taken
        /\ art' = art /\ owed' = owed /\ active' = active /\ active \in Cell
        /\ cleanup' = cleanup \union Proven({binding[c].art : c \in Cell})
    BY <1>9, <2>1 DEF ImportDone, TypeOK
  <2>3. \A c \in Cell : c \notin imported' =>
          c = active /\ c \notin imported /\ (binding[c].art = None \/ ShellHolds)
    BY <2>2 DEF Taken
  <2>4. \A c \in Cell : binding[c].art # None => art[binding[c].art].cell = c
    BY DEF Names, Clear, Settled, Sound
  <2>5. ASSUME NEW a, art[a].cell = active, a \notin cleanup,
               a # binding[active].art \/ binding[active].art = None
        PROVE  a \notin cleanup'
    BY <2>2, <2>4, <2>5 DEF Proven
  <2>6. ASSUME active \notin imported', owed[active] > 0
        PROVE  \E a \in DOMAIN art' : Keeper(a, active)'
    <3>1. CASE binding[active].art = None
      <4>1. PICK a \in DOMAIN art : Keeper(a, active)
        BY <2>2, <2>3, <2>6 DEF Keep, KeptEach
      <4> QED BY <2>2, <2>5, <3>1, <4>1 DEF Keeper
    <3>2. CASE ShellHolds
      <4>1. shell.art \in DOMAIN art /\ art[shell.art].cell = active
        BY <3>2 DEF ShellHolds, Names, Clear, Settled, Sound
      <4>2. shell.art \notin cleanup /\ shell.art # binding[active].art
        BY <3>2 DEF ShellHolds
      <4>3. shell.art \notin cleanup'
        BY <2>5, <4>1, <4>2
      <4> QED BY <2>2, <3>2, <4>1, <4>3 DEF Keeper, ShellHolds
    <3> QED BY <2>2, <2>3, <2>6, <3>1, <3>2
  <2> QED BY <2>2, <2>3, <2>6 DEF Keep, KeptEach, KeptBeside
<1> QED BY <1>1, <1>2, <1>3, <1>4, <1>5, <1>6, <1>7, <1>8, <1>9 DEF JobStep

LEMMA KeepNext ==
  TypeOK /\ Queue /\ Versions /\ Names /\ Keep /\ TypeOK' /\ [Next]_vars => Keep'
<1> SUFFICES ASSUME TypeOK, Queue, Versions, Names, Keep, TypeOK', [Next]_vars PROVE Keep'
  OBVIOUS
<1>1. ASSUME NEW a \in cleanup, Discard(a) PROVE Keep'
  <2>1. /\ jobs' = jobs /\ aims' = aims /\ cleanup' = cleanup \ {a}
        /\ (art' = art \/ art' = Gone(a))
    BY <1>1 DEF Discard
  <2>2. \A b \in DOMAIN art : b # a => b \in DOMAIN art' /\ art'[b] = art[b]
    <3>1. CASE art' = art
      BY <3>1
    <3>2. CASE art' = Gone(a)
      BY <3>2, Turns DEF Gone, Status, Turned
    <3> QED BY <2>1, <3>1, <3>2
  <2>3. \A k \in jobs' : k.cell \in Cell
    BY DEF TypeOK, Pending
  <2> QED BY <2>1, <2>2, <2>3, SelfAlike, KeepAll
<1>2. CASE UNCHANGED vars
  BY <1>2, SelfAlike, KeepBegun DEF vars, disk, aims
<1> QED BY <1>1, <1>2, KeepCommands, KeepJobs DEF Next

-----------------------------------------------------------------------------
(* Theorems. *)

LEMMA InvInit == Init => IInv
BY TypeInit, QueueInit, VersionsInit, NamesInit, KeepInit DEF IInv

LEMMA InvNext == IInv /\ [Next]_vars => IInv'
BY TypeNext, QueueNext, VersionsNext, NamesNext, KeepNext DEF IInv

(* Everything above holds in every reachable state, for any sequence of    *)
(* cells and any number of commands and failures.                          *)
THEOREM RecoveryInvariant == Spec => []IInv
<1>1. Init => IInv
  BY InvInit
<1>2. IInv /\ [Next]_vars => IInv'
  BY InvNext
<1> QED BY <1>1, <1>2, PTL DEF Spec

(* A cell is reserved exactly as long as one job is going to publish its   *)
(* artifact, so that a reservation never keeps the user from leaving a     *)
(* cell for good.                                                          *)
THEOREM ReservationsAreOfJobs == Spec => []ReservationsMatchJobs
<1>1. IInv => ReservationsMatchJobs
  BY DEF IInv, Queue, QueueOf, Matched, ReservationsMatchJobs
<1> QED BY <1>1, RecoveryInvariant, PTL

(* Whatever the open document, a cell, a job or the cleanup names is an    *)
(* artifact of that document that was written completely.                  *)
THEOREM AssociationsAreSound == Spec => []AssociationsSound
<1>1. IInv => AssociationsSound
  BY DEF IInv, Names, Clear, Settled, AssociationsSound, Sound
<1> QED BY <1>1, RecoveryInvariant, PTL

(* Unsaved work that was once recorded stays recorded, in that version or  *)
(* a later one, until its cell is saved, reverted or given up.             *)
THEOREM RecordedWorkIsKept == Spec => []PublishedKept
<1>1. IInv => PublishedKept
  BY DEF IInv, Keep, KeptEach, Keeper, PublishedKept, Kept, Held
<1> QED BY <1>1, RecoveryInvariant, PTL
================================================================================
