--------------------------- MODULE CoreHostProofs ---------------------------
(***************************************************************************)
(* What the engine thread and the save fence promise, for any sessions,    *)
(* generations and limits.                                                 *)
(*                                                                         *)
(* The invariant has three layers, each proved of a step with the ones     *)
(* before it.                                                              *)
(*                                                                         *)
(* HostInv: the UI waits in at most one call, and the item of that call is *)
(* the last of the queue.  What the engine has bound is what is published, *)
(* except between the answer of the engine and the return of the call, and *)
(* then nothing of the session waits: the engine answers only when every   *)
(* edit before the item, which it could have taken first, and every file   *)
(* job of the binding are gone.                                            *)
(*                                                                         *)
(* Files: a job that installs holds the fence of its session, its stamp is *)
(* that of the Core, and the Core waits.  So its last apply finds what it  *)
(* captured, and a session without an installation has its savepoint in    *)
(* its file.                                                               *)
(*                                                                         *)
(* CountInv: the pending operations of a session are the sum of what its   *)
(* edits and strokes in the queue count (FiniteSums), and its jobs.        *)
(*                                                                         *)
(* On top of it, that nobody waits for nobody: the fence of a session is   *)
(* that of one installation still to be applied, and nobody draws under it *)
(* (Pended, FenceStops); every job is in the queue or polled, and the call *)
(* the UI waits in has its item (QueueInv).                                *)
(***************************************************************************)
EXTENDS CoreHost, FiniteSums, SequenceTheorems, TLAPS

Controls == {"create", "rebind", "close"}
Writes == Stroke \cup {"edit"}
Statuses == {"waits", "ok", "failed", "done"}
Stages == {"new", "preparing", "prepared", "asking", "agreed", "failed", "installing",
           "installed", "undone", "repaired", "revoked"}

(* The stages of a job that has installed nothing yet. *)
Unapplied == {"new", "preparing", "prepared", "asking", "agreed", "failed"}

Published_ == [gen : Generation \cup {None}, accepting : BOOLEAN, pending : Nat]
Bound_ == [gen : Generation \cup {None}, stroke : BOOLEAN, fence : 0..MaxJobs]
Core_ == [rev : Nat, saved : Nat, authority : Nat, pending : BOOLEAN]
Work_ == [kind : Controls \cup Writes \cup {"io"}, session : Session,
          gen : Generation \cup {None}, units : Nat \ {0}, token : 0..MaxJobs,
          defer : BOOLEAN, to : Generation \cup {None}]
Input_ == [session : Session, gen : Generation, kind : {"save", "open"}, units : {1},
           active : BOOLEAN, cancelled : BOOLEAN, stage : Stages,
           stamp : (Nat \X Nat \X Nat) \cup {<<>>}]

TypeOK ==
    /\ published \in [Session -> Published_]
    /\ entries \in [Session -> Bound_]
    /\ cores \in [Session -> Core_]
    /\ disk \in [Session -> Nat]
    /\ work \in Seq(Work_)
    /\ Tokens \subseteq 1..MaxJobs /\ inputs \in [Tokens -> Input_]
    /\ stopping \in BOOLEAN /\ engine \in {"running", "gone"}
    /\ ui \in [op : Controls \cup {"none", "stop"}, session : Session \cup {None},
               to : Generation \cup {None}, status : Statuses]
    /\ requests \in Nat

(* The one call the UI waits in, and the item it queued: the last one.     *)
CallInv ==
    /\ ui.status \in {"waits", "ok", "failed"} => ui # Free /\ ui.op # "none"
    /\ ui.op \in Controls => ui.session \in Session /\ ui.status \in {"waits", "ok", "failed"}
    /\ ui.op \in {"create", "rebind"} => ui.to \in Generation
    /\ ui.op = "close" => ui.to = None
    /\ ui.op = "stop" => ui.status \notin {"ok", "failed"}
    /\ stopping => ui.op = "stop"
    /\ engine = "gone" => stopping /\ work = <<>> /\ Tokens = {}

ItemInv ==
    \A i \in 1..Len(work) : work[i].kind \in Controls =>
        /\ i = Len(work)
        /\ ui.status = "waits" /\ ui.op = work[i].kind
        /\ ui.session = work[i].session /\ ui.to = work[i].to
        /\ work[i].gen = published[work[i].session].gen
        /\ work[i].kind = "create" => work[i].gen = None

(* The engine's binding is the published one, until the call returns; a    *)
(* session that takes work, or may take it again when the call that stops  *)
(* it has failed, is bound.                                                *)
Changing(s) == ui.op \in {"rebind", "close"} /\ ui.session = s

BindingInv ==
    /\ \A s \in Session :
          published[s].accepting \/ Changing(s) => published[s].gen # None
    /\ engine = "running" =>
          \A s \in Session :
             entries[s].gen = IF ui.status = "ok" /\ ui.session = s THEN ui.to
                              ELSE published[s].gen

(* Edits and file jobs are of the published binding, and a session whose   *)
(* binding changes has none.                                               *)
OwnInv ==
    /\ \A i \in 1..Len(work) : work[i].kind \in Writes =>
          /\ work[i].gen = published[work[i].session].gen /\ work[i].gen # None
          /\ ~(ui.status = "ok" /\ ui.session = work[i].session)
    /\ \A t \in Tokens :
          /\ inputs[t].gen = published[inputs[t].session].gen
          /\ ~(ui.status = "ok" /\ ui.session = inputs[t].session)

HostInv == TypeOK /\ CallInv /\ ItemInv /\ BindingInv /\ OwnInv

(* An installation holds the fence of its session, and nothing of the Core *)
(* changes until it is applied.                                            *)
Installing(t) == inputs[t].stage \in {"installing", "installed", "undone", "repaired", "revoked"}
Held(t) ==
    LET s == inputs[t].session
    IN  /\ entries[s].fence = t
        /\ inputs[t].stamp = Stamp(s)
        /\ inputs[t].stage = "installed" => disk[s] = cores[s].rev
        /\ inputs[t].stage = "revoked" => disk[s] = None
        /\ cores[s].pending
FenceInv(s) ==
    /\ \A t \in Jobs(s) : Installing(t) => Held(t)
    /\ entries[s].fence # None => entries[s].fence \in Jobs(s) /\ Installing(entries[s].fence)
SavedInv(s) ==
    \/ cores[s].saved = disk[s]
    \/ \E t \in Jobs(s) : inputs[t].stage \in {"installed", "revoked"}
Files == \A s \in Session : FenceInv(s) /\ SavedInv(s)

Pending(s) == Units(work, s) + Cardinality(Jobs(s))
CountInv == \A s \in Session : published[s].pending = Pending(s)

IInv == HostInv /\ Files /\ CountInv

-----------------------------------------------------------------------------
(* Queues. *)
(* What is left of a queue when item i is taken. *)
LEMMA TakeIs ==
  ASSUME NEW S, NEW q \in Seq(S), NEW i \in 1..Len(q)
  PROVE  /\ RemoveAt(q, i) \in Seq(S)
         /\ Len(q) \in Nat /\ Len(RemoveAt(q, i)) = Len(q) - 1
         /\ \A k \in 1..Len(q) - 1 : RemoveAt(q, i)[k] = q[IF k < i THEN k ELSE k + 1]
<1>0. Len(q) \in Nat /\ i \in Nat /\ i >= 1 /\ i <= Len(q)
  BY LenProperties
<1>1. /\ SubSeq(q, 1, i - 1) \in Seq(S)
      /\ Len(SubSeq(q, 1, i - 1)) = i - 1
      /\ \A k \in 1..i - 1 : SubSeq(q, 1, i - 1)[k] = q[k]
  <2>1. \A k \in 1..i - 1 : q[k] \in S
    BY <1>0
  <2> QED BY <1>0, <2>1, SubSeqProperties
<1>2. /\ SubSeq(q, i + 1, Len(q)) \in Seq(S)
      /\ Len(SubSeq(q, i + 1, Len(q))) = Len(q) - i
      /\ \A k \in 1..Len(q) - i : SubSeq(q, i + 1, Len(q))[k] = q[i + k]
  <2>1. \A k \in i + 1..Len(q) : q[k] \in S
    BY <1>0
  <2>2. /\ SubSeq(q, i + 1, Len(q)) \in Seq(S)
        /\ Len(SubSeq(q, i + 1, Len(q))) =
             IF i + 1 <= Len(q) THEN Len(q) - (i + 1) + 1 ELSE 0
        /\ \A k \in 1..Len(q) - (i + 1) + 1 : SubSeq(q, i + 1, Len(q))[k] = q[i + 1 + k - 1]
    BY <1>0, <2>1, SubSeqProperties
  <2> QED BY <1>0, <2>2
<1> DEFINE a == SubSeq(q, 1, i - 1)
           b == SubSeq(q, i + 1, Len(q))
<1>3. RemoveAt(q, i) = a \o b
  BY DEF RemoveAt
<1> HIDE DEF a, b
<1>4. /\ a \o b \in Seq(S) /\ Len(a \o b) = Len(a) + Len(b)
      /\ \A k \in 1..Len(a) + Len(b) :
            (a \o b)[k] = IF k <= Len(a) THEN a[k] ELSE b[k - Len(a)]
  BY <1>1, <1>2, ConcatProperties DEF a, b
<1>5. Len(a) = i - 1 /\ Len(b) = Len(q) - i
  BY <1>1, <1>2 DEF a, b
<1>6. ASSUME NEW k \in 1..Len(q) - 1
      PROVE  (a \o b)[k] = q[IF k < i THEN k ELSE k + 1]
  <2>1. CASE k < i
    <3>1. (a \o b)[k] = a[k] /\ k \in 1..i - 1
      BY <1>0, <1>4, <1>5, <2>1
    <3> QED BY <1>1, <2>1, <3>1 DEF a
  <2>2. CASE ~(k < i)
    <3>1. (a \o b)[k] = b[k - (i - 1)] /\ k - (i - 1) \in 1..Len(q) - i
      BY <1>0, <1>4, <1>5, <2>2
    <3>2. b[k - (i - 1)] = q[i + (k - (i - 1))]
      BY <1>2, <3>1 DEF b
    <3>3. i + (k - (i - 1)) = k + 1
      BY <1>0
    <3> QED BY <2>2, <3>1, <3>2, <3>3
  <2> QED BY <2>1, <2>2
<1> QED BY <1>0, <1>3, <1>4, <1>5, <1>6

(* An item counts for a session. *)
Counts(w, s) == w.session = s /\ w.kind \in Writes
UnitsIn(w, s) == IF Counts(w, s) THEN w.units ELSE 0
Sizes(q) == [i \in DOMAIN q |-> q[i].units]

(* The edits of a queue, and what each counts. *)
LEMMA EditsAre ==
  ASSUME NEW q \in Seq(Work_), NEW s
  PROVE  /\ Len(q) \in Nat /\ DOMAIN q = 1..Len(q)
         /\ Edits(q, s) = {i \in 1..Len(q) : Counts(q[i], s)}
         /\ IsFiniteSet(Edits(q, s))
         /\ Units(q, s) = SumFunctionOnSet(Sizes(q), Edits(q, s))
         /\ \A i \in 1..Len(q) : Sizes(q)[i] = q[i].units /\ q[i].units \in Nat \ {0}
<1>1. Len(q) \in Nat /\ DOMAIN q = 1..Len(q)
  BY LenProperties
<1>2. Edits(q, s) = {i \in 1..Len(q) : Counts(q[i], s)}
  BY <1>1 DEF Edits, Counts, Writes
<1>3. IsFiniteSet(Edits(q, s))
  <2>1. IsFiniteSet(1..Len(q))
    BY <1>1, FS_Interval
  <2> QED BY <1>2, <2>1, FS_Subset
<1>4. Units(q, s) = SumFunctionOnSet(Sizes(q), Edits(q, s))
  BY DEF Units, Sizes
<1>5. ASSUME NEW i \in 1..Len(q) PROVE Sizes(q)[i] = q[i].units /\ q[i].units \in Nat \ {0}
  <2>1. q[i] \in Work_
    BY <1>1
  <2>2. q[i].units \in Nat \ {0}
    BY <2>1 DEF Work_
  <2> QED BY <1>1, <2>2 DEF Sizes
<1> QED BY <1>1, <1>2, <1>3, <1>4, <1>5

(* A queue counts a number, and no item counts more. *)
LEMMA UnitsTyped ==
  ASSUME NEW q \in Seq(Work_), NEW s
  PROVE  /\ Units(q, s) \in Nat
         /\ \A i \in 1..Len(q) : UnitsIn(q[i], s) <= Units(q, s) /\ UnitsIn(q[i], s) \in Nat
<1> DEFINE E == Edits(q, s)
           f == Sizes(q)
<1>0. /\ IsFiniteSet(E) /\ E = {i \in 1..Len(q) : Counts(q[i], s)}
      /\ Units(q, s) = SumFunctionOnSet(f, E)
      /\ \A i \in 1..Len(q) : f[i] = q[i].units /\ q[i].units \in Nat
  BY EditsAre
<1> HIDE DEF E, f
<1>1. \A i \in E : f[i] \in Nat
  BY <1>0
<1>2. \A T \in SUBSET E : SumFunctionOnSet(f, T) \in Nat
  BY <1>0, <1>1, SumOfPart
<1>3. Units(q, s) \in Nat
  BY <1>0, <1>2
<1>4. ASSUME NEW i \in 1..Len(q)
      PROVE  UnitsIn(q[i], s) <= Units(q, s) /\ UnitsIn(q[i], s) \in Nat
  <2>1. CASE i \in E
    <3>1. SumFunctionOnSet(f, E) = f[i] + SumFunctionOnSet(f, E \ {i})
      <4>1. \A x \in E : f[x] \in Int
        BY <1>1
      <4> QED BY <1>0, <2>1, <4>1, SumRemove
    <3>2. SumFunctionOnSet(f, E \ {i}) \in Nat
      BY <1>2
    <3>3. UnitsIn(q[i], s) = f[i] /\ f[i] \in Nat
      BY <1>0, <2>1 DEF UnitsIn
    <3> QED BY <1>0, <1>3, <3>1, <3>2, <3>3
  <2>2. CASE i \notin E
    BY <1>0, <1>3, <2>2 DEF UnitsIn
  <2> QED BY <2>1, <2>2
<1> QED BY <1>3, <1>4

(* What Append adds is what the item counts. *)
LEMMA UnitsAppended ==
  ASSUME NEW q \in Seq(Work_), NEW w \in Work_, NEW s
  PROVE  Units(Append(q, w), s) = Units(q, s) + UnitsIn(w, s)
<1> DEFINE r == Append(q, w)
           n == Len(q) + 1
<1>1. /\ r \in Seq(Work_) /\ Len(q) \in Nat /\ Len(r) = n
      /\ \A i \in 1..Len(q) : r[i] = q[i]
      /\ r[n] = w
  BY LenProperties
<1> HIDE DEF r
<1>2. /\ IsFiniteSet(Edits(q, s)) /\ Edits(q, s) = {i \in 1..Len(q) : Counts(q[i], s)}
      /\ Units(q, s) = SumFunctionOnSet(Sizes(q), Edits(q, s))
      /\ \A i \in 1..Len(q) : Sizes(q)[i] = q[i].units /\ q[i].units \in Nat \ {0}
  BY EditsAre
<1>3. /\ IsFiniteSet(Edits(r, s)) /\ Edits(r, s) = {i \in 1..Len(r) : Counts(r[i], s)}
      /\ Units(r, s) = SumFunctionOnSet(Sizes(r), Edits(r, s))
      /\ \A i \in 1..Len(r) : Sizes(r)[i] = r[i].units /\ r[i].units \in Nat \ {0}
  BY <1>1, EditsAre
<1>4. SumFunctionOnSet(Sizes(q), Edits(q, s)) = SumFunctionOnSet(Sizes(r), Edits(q, s))
  <2>1. \A i \in Edits(q, s) : Sizes(q)[i] = Sizes(r)[i]
    BY <1>1, <1>2, <1>3
  <2> QED BY <2>1, SumAgree
<1>5. CASE Counts(w, s)
  <2>1. Edits(r, s) = Edits(q, s) \cup {n} /\ n \notin Edits(q, s)
    BY <1>1, <1>2, <1>3, <1>5
  <2>2. \A i \in Edits(r, s) : Sizes(r)[i] \in Int
    BY <1>3
  <2>3. SumFunctionOnSet(Sizes(r), Edits(q, s) \cup {n}) =
            Sizes(r)[n] + SumFunctionOnSet(Sizes(r), Edits(q, s))
    BY <1>2, <2>1, <2>2, SumInsert
  <2>4. Sizes(r)[n] = UnitsIn(w, s) /\ Sizes(r)[n] \in Int
    BY <1>1, <1>3, <1>5 DEF UnitsIn
  <2>5. Units(q, s) \in Nat
    BY UnitsTyped
  <2>6. Units(r, s) = Sizes(r)[n] + Units(q, s)
    BY <1>2, <1>3, <1>4, <2>1, <2>3
  <2> HIDE DEF n
  <2> QED BY <2>4, <2>5, <2>6 DEF r
<1>6. CASE ~Counts(w, s)
  <2>1. Edits(r, s) = Edits(q, s)
    BY <1>1, <1>2, <1>3, <1>6
  <2>2. Units(r, s) = Units(q, s) /\ UnitsIn(w, s) = 0
    BY <1>2, <1>3, <1>4, <1>6, <2>1 DEF UnitsIn
  <2>3. Units(q, s) \in Nat
    BY UnitsTyped
  <2> QED BY <2>2, <2>3 DEF r
<1> QED BY <1>5, <1>6

(* What is taken from a queue counts what the item counted. *)
LEMMA UnitsTaken ==
  ASSUME NEW q \in Seq(Work_), NEW i \in 1..Len(q), NEW s
  PROVE  Units(q, s) = Units(RemoveAt(q, i), s) + UnitsIn(q[i], s)
<1> DEFINE r == RemoveAt(q, i)
           p == [k \in 1..Len(q) |-> IF k < i THEN k ELSE k + 1]
<1>1. /\ r \in Seq(Work_) /\ Len(q) \in Nat /\ Len(r) = Len(q) - 1
      /\ \A k \in 1..Len(q) - 1 : r[k] = q[IF k < i THEN k ELSE k + 1]
  BY TakeIs
<1> HIDE DEF r
<1>2. /\ IsFiniteSet(Edits(q, s)) /\ Edits(q, s) = {k \in 1..Len(q) : Counts(q[k], s)}
      /\ Units(q, s) = SumFunctionOnSet(Sizes(q), Edits(q, s))
      /\ \A k \in 1..Len(q) : Sizes(q)[k] = q[k].units /\ q[k].units \in Nat \ {0}
  BY EditsAre
<1>3. /\ IsFiniteSet(Edits(r, s)) /\ Edits(r, s) = {k \in 1..Len(r) : Counts(r[k], s)}
      /\ Units(r, s) = SumFunctionOnSet(Sizes(r), Edits(r, s))
      /\ \A k \in 1..Len(r) : Sizes(r)[k] = r[k].units /\ r[k].units \in Nat \ {0}
  BY <1>1, EditsAre
<1>4. /\ i \in Nat
      /\ \A k \in 1..Len(r) : p[k] \in 1..Len(q) /\ p[k] # i /\ r[k] = q[p[k]]
      /\ \A k, l \in 1..Len(r) : p[k] = p[l] => k = l
      /\ \A m \in 1..Len(q) : m # i => \E k \in 1..Len(r) : p[k] = m
  <2>1. i \in Nat /\ \A k \in 1..Len(r) : k \in 1..Len(q) /\ k \in Nat
    BY <1>1
  <2>2. \A k \in 1..Len(r) : p[k] \in 1..Len(q) /\ p[k] # i /\ r[k] = q[p[k]]
    BY <1>1, <2>1
  <2>3. \A k, l \in 1..Len(r) : p[k] = p[l] => k = l
    BY <1>1, <2>1
  <2>4. ASSUME NEW m \in 1..Len(q), m # i PROVE \E k \in 1..Len(r) : p[k] = m
    <3>1. CASE m < i
      <4>1. m \in 1..Len(r) /\ p[m] = m
        BY <1>1, <3>1
      <4> QED BY <4>1
    <3>2. CASE ~(m < i)
      <4>1. m - 1 \in 1..Len(r) /\ p[m - 1] = m
        BY <1>1, <2>4, <3>2
      <4> QED BY <4>1
    <3> QED BY <3>1, <3>2
  <2> QED BY <2>1, <2>2, <2>3, <2>4
<1> HIDE DEF p
<1>5. {p[k] : k \in Edits(r, s)} = Edits(q, s) \ {i}
  BY <1>2, <1>3, <1>4
<1>6. SumFunctionOnSet(Sizes(r), Edits(r, s)) =
          SumFunctionOnSet(Sizes(q), {p[k] : k \in Edits(r, s)})
  <2>1. \A k \in Edits(r, s) : Sizes(r)[k] \in Int /\ Sizes(q)[p[k]] = Sizes(r)[k]
    BY <1>2, <1>3, <1>4
  <2>2. \A k, l \in Edits(r, s) : p[k] = p[l] => k = l
    BY <1>3, <1>4
  <2> QED BY <1>3, <2>1, <2>2, SumMoved
<1>7. Units(r, s) = SumFunctionOnSet(Sizes(q), Edits(q, s) \ {i}) /\ Units(r, s) \in Nat
  BY <1>1, <1>3, <1>5, <1>6, UnitsTyped
<1>8. CASE Counts(q[i], s)
  <2>1. i \in Edits(q, s) /\ \A k \in Edits(q, s) : Sizes(q)[k] \in Int
    BY <1>2, <1>8
  <2>2. Units(q, s) = Sizes(q)[i] + SumFunctionOnSet(Sizes(q), Edits(q, s) \ {i})
    BY <1>2, <2>1, SumRemove
  <2>3. Sizes(q)[i] = UnitsIn(q[i], s) /\ Sizes(q)[i] \in Nat
    BY <1>2, <1>8 DEF UnitsIn
  <2> QED BY <1>7, <2>2, <2>3 DEF r
<1>9. CASE ~Counts(q[i], s)
  <2>1. i \notin Edits(q, s) /\ UnitsIn(q[i], s) = 0
    BY <1>2, <1>9 DEF UnitsIn
  <2>2. Edits(q, s) \ {i} = Edits(q, s)
    BY <2>1
  <2>3. Units(q, s) = Units(r, s)
    BY <1>2, <1>7, <2>2
  <2> QED BY <1>7, <2>1, <2>3 DEF r
<1> QED BY <1>8, <1>9

(* An item takes one more unit. *)
LEMMA UnitsJoined ==
  ASSUME NEW q \in Seq(Work_), NEW n \in 1..Len(q), NEW r \in Seq(Work_), Len(r) = Len(q),
         \A i \in 1..Len(q) : i # n => r[i] = q[i],
         r[n].session = q[n].session, r[n].kind = q[n].kind, r[n].units = q[n].units + 1,
         NEW s
  PROVE  Units(r, s) = Units(q, s) + IF Counts(q[n], s) THEN 1 ELSE 0
<1>1. /\ IsFiniteSet(Edits(q, s)) /\ Edits(q, s) = {i \in 1..Len(q) : Counts(q[i], s)}
      /\ Units(q, s) = SumFunctionOnSet(Sizes(q), Edits(q, s))
      /\ \A i \in 1..Len(q) : Sizes(q)[i] = q[i].units /\ q[i].units \in Nat \ {0}
  BY EditsAre
<1>2. /\ Edits(r, s) = {i \in 1..Len(r) : Counts(r[i], s)}
      /\ Units(r, s) = SumFunctionOnSet(Sizes(r), Edits(r, s))
      /\ \A i \in 1..Len(r) : Sizes(r)[i] = r[i].units /\ r[i].units \in Nat \ {0}
  BY EditsAre
<1>3. \A i \in 1..Len(q) : Counts(r[i], s) <=> Counts(q[i], s)
  BY DEF Counts
<1>4. Edits(r, s) = Edits(q, s)
  BY <1>1, <1>2, <1>3
<1>5. Units(q, s) \in Nat
  BY UnitsTyped
<1>6. \A i \in Edits(q, s) : Sizes(q)[i] \in Int /\ Sizes(r)[i] \in Int
  BY <1>1, <1>2
<1>7. \A i \in Edits(q, s) \ {n} : Sizes(q)[i] = Sizes(r)[i]
  BY <1>1, <1>2
<1>8. CASE Counts(q[n], s)
  <2>1. n \in Edits(q, s)
    BY <1>1, <1>8
  <2>0. SumFunctionOnSet(Sizes(r), Edits(q, s)) =
            SumFunctionOnSet(Sizes(q), Edits(q, s)) - Sizes(q)[n] + Sizes(r)[n]
    <3> DEFINE f == Sizes(q)
               g == Sizes(r)
               E == Edits(q, s)
    <3>1. IsFiniteSet(E) /\ n \in E
      BY <1>1, <2>1
    <3>2. \A y \in E : f[y] \in Int /\ g[y] \in Int
      BY <1>6
    <3>3. \A y \in E \ {n} : f[y] = g[y]
      BY <1>7
    <3> HIDE DEF f, g, E
    <3>4. SumFunctionOnSet(g, E) = SumFunctionOnSet(f, E) - f[n] + g[n]
      <4>1. SumFunctionOnSet(f, E) = f[n] + SumFunctionOnSet(f, E \ {n})
        BY <3>1, <3>2, SumRemove
      <4>2. SumFunctionOnSet(g, E) = g[n] + SumFunctionOnSet(g, E \ {n})
        BY <3>1, <3>2, SumRemove
      <4>3. SumFunctionOnSet(f, E \ {n}) = SumFunctionOnSet(g, E \ {n})
        BY <3>3, SumAgree
      <4>5. SumFunctionOnSet(f, E \ {n}) \in Int
        BY <3>1, <3>2, FS_Subset, SumSome
      <4> QED BY <3>1, <3>2, <4>1, <4>2, <4>3, <4>5
    <3> QED BY <3>4 DEF f, g, E
  <2>2. Units(r, s) = Units(q, s) - Sizes(q)[n] + Sizes(r)[n]
    BY <1>1, <1>2, <1>4, <2>0
  <2>3. Sizes(r)[n] = Sizes(q)[n] + 1 /\ Sizes(q)[n] \in Nat
    BY <1>1, <1>2
  <2> QED BY <1>5, <1>8, <2>2, <2>3
<1>9. CASE ~Counts(q[n], s)
  <2>1. n \notin Edits(q, s)
    BY <1>1, <1>9
  <2>2. SumFunctionOnSet(Sizes(q), Edits(q, s)) = SumFunctionOnSet(Sizes(r), Edits(q, s))
    BY <1>7, <2>1, SumAgree
  <2>3. Units(r, s) = Units(q, s)
    BY <1>1, <1>2, <1>4, <2>2
  <2> QED BY <1>5, <1>9, <2>3
<1> QED BY <1>8, <1>9

-----------------------------------------------------------------------------
(* What the actions do to the variables. *)

(* The elements of the state. *)
LEMMA Shapes ==
  ASSUME TypeOK
  PROVE  /\ Len(work) \in Nat /\ DOMAIN work = 1..Len(work)
         /\ \A i \in 1..Len(work) : work[i] \in Work_
         /\ \A t \in Tokens : inputs[t] \in Input_ /\ inputs[t].session \in Session
                              /\ t \in 1..MaxJobs /\ t # None
         /\ \A s \in Session : published[s] \in Published_ /\ entries[s] \in Bound_
                               /\ cores[s] \in Core_
<1>1. Len(work) \in Nat /\ DOMAIN work = 1..Len(work)
  BY LenProperties DEF TypeOK
<1>2. \A i \in 1..Len(work) : work[i] \in Work_
  BY DEF TypeOK
<1>3. \A t \in Tokens : inputs[t] \in Input_ /\ t \in 1..MaxJobs
  BY DEF TypeOK
<1>4. \A t \in Tokens : inputs[t].session \in Session /\ t # None
  <2>1. \A j \in Input_ : j.session \in Session
    BY DEF Input_
  <2>2. MaxJobs \in Nat
    BY HostAssumption
  <2> QED BY <1>3, <2>1, <2>2 DEF None
<1>5. \A s \in Session : published[s] \in Published_ /\ entries[s] \in Bound_
                               /\ cores[s] \in Core_
  BY DEF TypeOK
<1> QED BY <1>1, <1>2, <1>3, <1>4, <1>5

(* The queue loses an item, or none. *)
Takes == /\ engine = "running"
         /\ \/ work' = work
            \/ \E i \in 1..Len(work) : work' = RemoveAt(work, i)

(* What Turn gives: an item that can be processed, and none before it. *)
LEMMA TurnIs ==
  ASSUME TypeOK, NEW i \in DOMAIN work, Turn(i)
  PROVE  /\ engine = "running" /\ i \in 1..Len(work) /\ CanProcess(work[i])
         /\ \A j \in 1..i - 1 : ~CanProcess(work[j])
         /\ work' = RemoveAt(work, i) /\ Takes
<1>1. i \in 1..Len(work)
  BY Shapes
<1> QED BY <1>1 DEF Turn, Takes

(* A turn of a job takes its item, or nothing when it is polled. *)
LEMMA IoTurnIs ==
  ASSUME TypeOK, NEW t, IoTurn(t)
  PROVE  /\ Takes
         /\ \/ work' = work
            \/ \E i \in 1..Len(work) : work[i].kind = "io" /\ work' = RemoveAt(work, i)
<1>1. CASE \E i \in DOMAIN work : work[i].kind = "io" /\ work[i].token = t /\ Turn(i)
  BY <1>1, TurnIs
<1>2. CASE engine = "running" /\ inputs[t].active /\ UNCHANGED work
  BY <1>2 DEF Takes
<1> QED BY <1>1, <1>2 DEF IoTurn

(* A queue that lost an item is a queue. *)
LEMMA TakesTyped ==
  ASSUME TypeOK, Takes
  PROVE  work' \in Seq(Work_)
<1>1. work \in Seq(Work_)
  BY DEF TypeOK
<1> QED BY <1>1, TakeIs DEF Takes

(* CompletePending writes one count, of the published binding. *)
LEMMA CompleteIs ==
  ASSUME TypeOK, NEW w, w.session \in Session, w.units \in Nat, Complete(w)
  PROVE  /\ published' \in [Session -> Published_]
         /\ \A s \in Session : /\ published'[s].gen = published[s].gen
                               /\ published'[s].accepting = published[s].accepting
         /\ \A s \in Session : s # w.session => published'[s] = published[s]
         /\ published[w.session].gen = w.gen =>
               published'[w.session].pending =
                   IF published[w.session].pending > w.units
                   THEN published[w.session].pending - w.units ELSE 0
<1>0. published \in [Session -> Published_]
  BY DEF TypeOK
<1>1. CASE published[w.session].gen # w.gen
  BY <1>0, <1>1 DEF Complete
<1>2. CASE published[w.session].gen = w.gen
  <2> DEFINE n == IF published[w.session].pending > w.units
                  THEN published[w.session].pending - w.units ELSE 0
  <2>1. published' = [published EXCEPT ![w.session].pending = n]
    BY <1>2 DEF Complete
  <2>2. published[w.session] \in Published_ /\ n \in Nat
    BY <1>0 DEF Published_
  <2> HIDE DEF n
  <2>3. [published[w.session] EXCEPT !.pending = n] \in Published_
    BY <2>2 DEF Published_
  <2>4. \A s \in Session : published'[s] = IF s = w.session
                                           THEN [published[s] EXCEPT !.pending = n]
                                           ELSE published[s]
    BY <1>0, <2>1
  <2>5. published' \in [Session -> Published_]
    BY <1>0, <2>1, <2>3
  <2>6. [published[w.session] EXCEPT !.pending = n].pending = n
    BY <2>2 DEF Published_
  <2>7. \A s \in Session : /\ published'[s].gen = published[s].gen
                           /\ published'[s].accepting = published[s].accepting
                           /\ s # w.session => published'[s] = published[s]
    <3>1. \A p \in Published_ : /\ [p EXCEPT !.pending = n].gen = p.gen
                                /\ [p EXCEPT !.pending = n].accepting = p.accepting
      BY DEF Published_
    <3> QED BY <1>0, <2>4, <3>1
  <2>8. published'[w.session].pending = n
    BY <2>4, <2>6
  <2> QED BY <2>5, <2>7, <2>8 DEF n
<1> QED BY <1>1, <1>2

Same(t, j) == /\ j.session = inputs[t].session /\ j.gen = inputs[t].gen
              /\ j.kind = inputs[t].kind /\ j.units = inputs[t].units

(* A job that has ended. *)
LEMMA EndsIs ==
  ASSUME TypeOK, NEW t \in Tokens, Ends(t)
  PROVE  /\ Tokens' = Tokens \ {t} /\ inputs' \in [Tokens' -> Input_]
         /\ \A u \in Tokens' : inputs'[u] = inputs[u]
         /\ published' \in [Session -> Published_]
         /\ \A s \in Session : /\ published'[s].gen = published[s].gen
                               /\ published'[s].accepting = published[s].accepting
                               /\ s # inputs[t].session => published'[s] = published[s]
         /\ published[inputs[t].session].gen = inputs[t].gen =>
               published'[inputs[t].session].pending =
                   IF published[inputs[t].session].pending > 1
                   THEN published[inputs[t].session].pending - 1 ELSE 0
<1>0. inputs \in [Tokens -> Input_] /\ inputs[t] \in Input_
  BY DEF TypeOK
<1>1. inputs' = [u \in Tokens \ {t} |-> inputs[u]]
  BY DEF Ends, Restrict
<1>2. Tokens' = Tokens \ {t}
  BY <1>1 DEF Tokens
<1>3. inputs' \in [Tokens' -> Input_] /\ \A u \in Tokens' : inputs'[u] = inputs[u]
  BY <1>0, <1>1, <1>2
<1>4. inputs[t].session \in Session /\ inputs[t].units = 1 /\ inputs[t].units \in Nat
  BY <1>0 DEF Input_
<1>5. Complete(inputs[t])
  BY DEF Ends
<1> QED BY <1>2, <1>3, <1>4, <1>5, CompleteIs

(* A job of which some fields are written. *)
LEMMA JobIs ==
  ASSUME TypeOK, NEW t \in Tokens, NEW j \in Input_, inputs' = [inputs EXCEPT ![t] = j]
  PROVE  /\ Tokens' = Tokens /\ inputs' \in [Tokens' -> Input_]
         /\ inputs'[t] = j
         /\ \A u \in Tokens : u # t => inputs'[u] = inputs[u]
<1>0. inputs \in [Tokens -> Input_]
  BY DEF TypeOK
<1>1. Tokens' = Tokens
  BY DEF Tokens
<1>2. \A u \in Tokens : inputs'[u] = IF u = t THEN j ELSE inputs[u]
  BY <1>0
<1>3. inputs' \in [Tokens -> Input_]
  BY <1>0
<1> QED BY <1>1, <1>2, <1>3

(* Pends writes one job, and neither its session nor its binding. *)
LEMMA PendsIs ==
  ASSUME TypeOK, NEW t \in Tokens, NEW stage \in Stages,
         NEW stamp \in (Nat \X Nat \X Nat) \cup {<<>>}, Pends(t, stage, stamp)
  PROVE  /\ published' = published
         /\ Tokens' = Tokens /\ inputs' \in [Tokens' -> Input_]
         /\ Same(t, inputs'[t]) /\ inputs'[t].stage = stage /\ inputs'[t].stamp = stamp
         /\ \A u \in Tokens : u # t => inputs'[u] = inputs[u]
<1> DEFINE c == inputs[t].cancelled \/ HostCancels(t)
           j == [inputs[t] EXCEPT !.active = TRUE, !.stage = stage, !.stamp = stamp,
                                  !.cancelled = c]
<1>0. inputs \in [Tokens -> Input_] /\ inputs[t] \in Input_
  BY DEF TypeOK
<1>1. inputs' = [inputs EXCEPT ![t] = j] /\ published' = published
  BY DEF Pends
<1>2. c \in BOOLEAN
  <2>1. inputs[t].cancelled \in BOOLEAN
    BY <1>0 DEF Input_
  <2>2. HostCancels(t) \in BOOLEAN
    BY DEF HostCancels, Transition, TypeOK
  <2> QED BY <2>1, <2>2
<1> HIDE DEF c
<1>3. j \in Input_
  BY <1>0, <1>2 DEF Input_
<1>4. Same(t, j) /\ j.stage = stage /\ j.stamp = stamp
  BY <1>0 DEF Same, Input_
<1> HIDE DEF j
<1> QED BY <1>1, <1>3, <1>4, JobIs

(* A job whose stage is written. *)
LEMMA StageIs ==
  ASSUME TypeOK, NEW t \in Tokens, NEW to \in Stages, inputs' = [inputs EXCEPT ![t].stage = to]
  PROVE  /\ Tokens' = Tokens /\ inputs' \in [Tokens' -> Input_]
         /\ Same(t, inputs'[t]) /\ inputs'[t].stage = to /\ inputs'[t].stamp = inputs[t].stamp
         /\ \A u \in Tokens : u # t => inputs'[u] = inputs[u]
<1> DEFINE j == [inputs[t] EXCEPT !.stage = to]
<1>0. inputs \in [Tokens -> Input_] /\ inputs[t] \in Input_
  BY DEF TypeOK
<1>1. inputs' = [inputs EXCEPT ![t] = j]
  BY <1>0
<1>2. j \in Input_ /\ Same(t, j) /\ j.stage = to /\ j.stamp = inputs[t].stamp
  BY <1>0 DEF Same, Input_
<1> HIDE DEF j
<1> QED BY <1>1, <1>2, JobIs

(* The flags of a job. *)
LEMMA FlagIs ==
  ASSUME TypeOK, NEW t \in Tokens,
         \/ inputs' = [inputs EXCEPT ![t].active = TRUE]
         \/ inputs' = [inputs EXCEPT ![t].cancelled = TRUE]
  PROVE  /\ Tokens' = Tokens /\ inputs' \in [Tokens' -> Input_]
         /\ Same(t, inputs'[t])
         /\ inputs'[t].stage = inputs[t].stage /\ inputs'[t].stamp = inputs[t].stamp
         /\ \A u \in Tokens : u # t => inputs'[u] = inputs[u]
<1>0. inputs \in [Tokens -> Input_] /\ inputs[t] \in Input_
  BY DEF TypeOK
<1>1. PICK j : /\ j = [inputs[t] EXCEPT !.active = TRUE] \/ j = [inputs[t] EXCEPT !.cancelled = TRUE]
               /\ inputs' = [inputs EXCEPT ![t] = j]
  BY <1>0
<1>2. j \in Input_ /\ Same(t, j) /\ j.stage = inputs[t].stage /\ j.stamp = inputs[t].stamp
  BY <1>0, <1>1 DEF Same, Input_
<1> QED BY <1>1, <1>2, JobIs

(* The entry of a session in which a job had its turn. *)
LEMMA FenceIs ==
  ASSUME TypeOK, NEW t \in Tokens, NEW f \in 0..MaxJobs, FenceWith(t, f)
  PROVE  /\ entries' \in [Session -> Bound_]
         /\ \A s \in Session : /\ entries'[s].gen = entries[s].gen
                               /\ s # inputs[t].session => entries'[s] = entries[s]
         /\ Bound(inputs[t]) => entries'[inputs[t].session].fence = f
         /\ ~Bound(inputs[t]) => entries' = entries
<1> DEFINE x == inputs[t].session
           b == StrokeAfter(t)
<1>0. entries \in [Session -> Bound_] /\ x \in Session
  BY Shapes DEF TypeOK
<1>1. CASE ~Bound(inputs[t])
  BY <1>0, <1>1 DEF FenceWith
<1>2. CASE Bound(inputs[t])
  <2>1. entries' = [entries EXCEPT ![x].stroke = b, ![x].fence = f]
    BY <1>2 DEF FenceWith
  <2>2. b \in BOOLEAN
    BY DEF StrokeAfter, Stroking
  <2>3. entries[x] \in Bound_
    BY <1>0
  <2> HIDE DEF b, x
  <2> DEFINE e == [entries[x] EXCEPT !.stroke = b, !.fence = f]
  <2>4. e \in Bound_ /\ e.gen = entries[x].gen /\ e.fence = f
    BY <2>2, <2>3 DEF Bound_
  <2>5. entries' = [entries EXCEPT ![x] = e]
    BY <1>0, <2>1
  <2> HIDE DEF e
  <2>6. \A s \in Session : entries'[s] = IF s = x THEN e ELSE entries[s]
    BY <1>0, <2>5
  <2>7. entries' \in [Session -> Bound_]
    BY <1>0, <2>4, <2>5
  <2> QED BY <1>0, <1>2, <2>4, <2>6, <2>7 DEF x
<1> QED BY <1>1, <1>2

(* Fences are tokens, or none. *)
LEMMA FencesTyped ==
  ASSUME TypeOK, NEW t \in Tokens
  PROVE  FenceOf(t) \in 0..MaxJobs /\ Unfenced(t) \in 0..MaxJobs /\ t \in 0..MaxJobs
<1>1. entries[inputs[t].session] \in Bound_ /\ t \in 1..MaxJobs /\ MaxJobs \in Nat
  BY Shapes, HostAssumption
<1>2. FenceOf(t) \in 0..MaxJobs
  BY <1>1 DEF FenceOf, Bound_
<1> QED BY <1>1, <1>2 DEF Unfenced, None

-----------------------------------------------------------------------------
(* Steps that leave the bindings and the calls alone. *)

Quiet ==
    /\ work' = work \/ (engine = "running" /\ \E i \in 1..Len(work) : work' = RemoveAt(work, i))
    /\ Tokens' \subseteq Tokens
    /\ \A t \in Tokens' : inputs'[t].session = inputs[t].session /\ inputs'[t].gen = inputs[t].gen
    /\ \A s \in Session : /\ published'[s].gen = published[s].gen
                          /\ published'[s].accepting = published[s].accepting
                          /\ entries'[s].gen = entries[s].gen
    /\ UNCHANGED <<ui, stopping, engine>>

(* The items that are left are items that were there, and the last one    *)
(* stays last.                                                            *)
LEMMA QueueLess ==
  ASSUME TypeOK, \/ work' = work
                 \/ \E i \in 1..Len(work) : work' = RemoveAt(work, i)
  PROVE  \E p \in [1..Len(work') -> 1..Len(work)] :
            /\ \A k \in 1..Len(work') : work'[k] = work[p[k]] /\ work[p[k]] \in Work_
            /\ \A k \in 1..Len(work') : p[k] = Len(work) => k = Len(work')
<1>0. work \in Seq(Work_) /\ Len(work) \in Nat /\ \A i \in 1..Len(work) : work[i] \in Work_
  BY Shapes DEF TypeOK
<1>1. CASE work' = work
  <2> DEFINE p == [k \in 1..Len(work) |-> k]
  <2>1. p \in [1..Len(work') -> 1..Len(work)] /\ \A k \in 1..Len(work') : p[k] = k
    BY <1>1
  <2> HIDE DEF p
  <2> QED BY <1>0, <1>1, <2>1
<1>2. ASSUME NEW i \in 1..Len(work), work' = RemoveAt(work, i)
      PROVE  \E p \in [1..Len(work') -> 1..Len(work)] :
                /\ \A k \in 1..Len(work') : work'[k] = work[p[k]] /\ work[p[k]] \in Work_
                /\ \A k \in 1..Len(work') : p[k] = Len(work) => k = Len(work')
  <2>0. /\ Len(work') = Len(work) - 1 /\ i \in Nat
        /\ \A k \in 1..Len(work) - 1 : work'[k] = work[IF k < i THEN k ELSE k + 1]
    <3>1. /\ Len(RemoveAt(work, i)) = Len(work) - 1
          /\ \A k \in 1..Len(work) - 1 : RemoveAt(work, i)[k] = work[IF k < i THEN k ELSE k + 1]
      BY <1>0, TakeIs
    <3> QED BY <1>2, <3>1
  <2> DEFINE p == [k \in 1..Len(work') |-> IF k < i THEN k ELSE k + 1]
  <2>1. \A k \in 1..Len(work') : /\ k \in Nat /\ k \in 1..Len(work) - 1
                                 /\ (IF k < i THEN k ELSE k + 1) \in 1..Len(work)
    BY <1>0, <2>0
  <2>2. p \in [1..Len(work') -> 1..Len(work)]
    BY <2>1
  <2>3. \A k \in 1..Len(work') : work'[k] = work[p[k]] /\ work[p[k]] \in Work_
    BY <1>0, <2>0, <2>1
  <2>4. \A k \in 1..Len(work') : p[k] = Len(work) => k = Len(work')
    BY <1>0, <2>0, <2>1
  <2> HIDE DEF p
  <2> QED BY <2>2, <2>3, <2>4
<1> QED BY <1>1, <1>2

(* Quiet steps keep the invariant of calls, items and bindings. *)
LEMMA QuietKeeps ==
  ASSUME HostInv, Quiet, TypeOK'
  PROVE  HostInv'
<1> USE DEF HostInv
<1>0. TypeOK
  OBVIOUS
<1>1. PICK p \in [1..Len(work') -> 1..Len(work)] :
            /\ \A k \in 1..Len(work') : work'[k] = work[p[k]] /\ work[p[k]] \in Work_
            /\ \A k \in 1..Len(work') : p[k] = Len(work) => k = Len(work')
  BY QueueLess DEF Quiet
<1>2. CallInv'
  BY DEF Quiet, CallInv
<1>3. \A w \in Work_ : w.session \in Session
  BY DEF Work_
<1>4. ItemInv'
  BY <1>1, <1>3 DEF Quiet, ItemInv
<1>5. BindingInv'
  BY DEF Quiet, BindingInv, Changing
<1>6. OwnInv'
  <2>1. \A t \in Tokens : inputs[t].session \in Session
    BY Shapes
  <2>2. ASSUME NEW k \in 1..Len(work'), work'[k].kind \in Writes
        PROVE  /\ work'[k].gen = published'[work'[k].session].gen /\ work'[k].gen # None
               /\ ~(ui'.status = "ok" /\ ui'.session = work'[k].session)
    <3>1. work'[k] = work[p[k]] /\ p[k] \in 1..Len(work) /\ work'[k].session \in Session
      BY <1>1, <1>3
    <3>2. published'[work'[k].session].gen = published[work'[k].session].gen /\ ui' = ui
      BY <3>1 DEF Quiet
    <3>3. /\ work[p[k]].gen = published[work[p[k]].session].gen /\ work[p[k]].gen # None
          /\ ~(ui.status = "ok" /\ ui.session = work[p[k]].session)
      BY <2>2, <3>1 DEF OwnInv
    <3> QED BY <3>1, <3>2, <3>3
  <2>3. ASSUME NEW t \in Tokens'
        PROVE  /\ inputs'[t].gen = published'[inputs'[t].session].gen
               /\ ~(ui'.status = "ok" /\ ui'.session = inputs'[t].session)
    <3>1. t \in Tokens /\ inputs'[t].session = inputs[t].session /\ inputs'[t].gen = inputs[t].gen
      BY DEF Quiet
    <3>2. /\ inputs[t].gen = published[inputs[t].session].gen
          /\ ~(ui.status = "ok" /\ ui.session = inputs[t].session)
      BY <3>1 DEF OwnInv
    <3>3. inputs[t].session \in Session
      BY <2>1, <3>1
    <3>4. published'[inputs[t].session].gen = published[inputs[t].session].gen /\ ui' = ui
      BY <3>3 DEF Quiet
    <3> QED BY <3>1, <3>2, <3>4
  <2> QED BY <2>2, <2>3 DEF OwnInv
<1> QED BY <1>2, <1>4, <1>5, <1>6

-----------------------------------------------------------------------------
(* The file jobs: types, and that they are quiet. *)

(* Types, when every variable that is written has its own. *)
LEMMA TypeFrame ==
  ASSUME TypeOK, published' \in [Session -> Published_], entries' \in [Session -> Bound_],
         cores' \in [Session -> Core_], disk' \in [Session -> Nat],
         Tokens' \subseteq Tokens, inputs' \in [Tokens' -> Input_],
         work' = work \/ Takes, UNCHANGED <<stopping, engine, ui>>, requests' \in Nat
  PROVE  TypeOK'
<1>1. work' \in Seq(Work_)
  <2>1. CASE work' = work
    BY <2>1 DEF TypeOK
  <2>2. CASE Takes
    BY <2>2, TakesTyped
  <2> QED BY <2>1, <2>2
<1>2. Tokens' \subseteq 1..MaxJobs
  BY DEF TypeOK
<1> QED BY <1>1, <1>2 DEF TypeOK

(* Variables that are not written have their types. *)
LEMMA SameTyped ==
  ASSUME TypeOK
  PROVE  /\ published' = published => published' \in [Session -> Published_]
         /\ entries' = entries => entries' \in [Session -> Bound_]
         /\ cores' = cores => cores' \in [Session -> Core_]
         /\ disk' = disk => disk' \in [Session -> Nat]
         /\ requests' = requests => requests' \in Nat
         /\ inputs' = inputs => Tokens' = Tokens /\ inputs' \in [Tokens' -> Input_]
<1>1. inputs' = inputs => Tokens' = Tokens
  BY DEF Tokens
<1> QED BY <1>1 DEF TypeOK

(* A Core that is written; the others stay. *)
LEMMA CoreIs ==
  ASSUME TypeOK, NEW s \in Session, NEW c \in Core_, cores' = [cores EXCEPT ![s] = c]
  PROVE  /\ cores' \in [Session -> Core_] /\ cores'[s] = c
         /\ \A r \in Session : r # s => cores'[r] = cores[r]
<1>1. cores \in [Session -> Core_]
  BY DEF TypeOK
<1> QED BY <1>1

(* A file that is written; the others stay. *)
LEMMA DiskIs ==
  ASSUME TypeOK, NEW s \in Session, NEW n \in Nat, disk' = [disk EXCEPT ![s] = n]
  PROVE  /\ disk' \in [Session -> Nat] /\ disk'[s] = n
         /\ \A r \in Session : r # s => disk'[r] = disk[r]
<1>1. disk \in [Session -> Nat]
  BY DEF TypeOK
<1> QED BY <1>1

(* A job of a running engine is bound. *)
LEMMA JobBound ==
  ASSUME HostInv, NEW t \in Tokens, engine = "running"
  PROVE  Bound(inputs[t]) /\ inputs[t].session \in Session /\ t \in Jobs(inputs[t].session)
<1>1. TypeOK /\ inputs[t].session \in Session
  BY Shapes DEF HostInv
<1>2. /\ inputs[t].gen = published[inputs[t].session].gen
      /\ ~(ui.status = "ok" /\ ui.session = inputs[t].session)
  BY DEF HostInv, OwnInv
<1>3. entries[inputs[t].session].gen = published[inputs[t].session].gen
  BY <1>1, <1>2 DEF HostInv, BindingInv
<1> QED BY <1>1, <1>2, <1>3 DEF Bound, Jobs

(* What a stamp is made of. *)
LEMMA StampIs ==
  ASSUME TypeOK, NEW s \in Session
  PROVE  /\ Stamp(s) \in (Nat \X Nat \X Nat) \cup {<<>>}
         /\ Stamp(s)[1] = cores[s].rev /\ cores[s].rev \in Nat
<1>1. cores[s] \in Core_
  BY DEF TypeOK
<1>2. cores[s].rev \in Nat /\ cores[s].saved \in Nat /\ cores[s].authority \in Nat
  BY <1>1 DEF Core_
<1> QED BY <1>2 DEF Stamp

(* What a turn of a job leaves alone, besides its own session. *)
Turned(t, fence) ==
    /\ Takes
    /\ work' = work \/ \E i \in 1..Len(work) : work[i].kind = "io" /\ work' = RemoveAt(work, i)
    /\ entries' \in [Session -> Bound_]
    /\ \A s \in Session : /\ entries'[s].gen = entries[s].gen
                          /\ s # inputs[t].session => entries'[s] = entries[s]
    /\ entries'[inputs[t].session].fence = fence

(* Every turn of a job is one of these. *)
LEMMA TurnedIs ==
  ASSUME HostInv, NEW t \in Tokens, IoTurn(t), NEW f \in 0..MaxJobs, FenceWith(t, f)
  PROVE  Turned(t, f)
<1>1. TypeOK
  BY DEF HostInv
<1>2. Takes /\ engine = "running"
  BY <1>1, IoTurnIs DEF Takes
<1>3. Bound(inputs[t])
  BY <1>2, JobBound
<1>4. work' = work \/ \E i \in 1..Len(work) : work[i].kind = "io" /\ work' = RemoveAt(work, i)
  BY <1>1, IoTurnIs
<1> QED BY <1>1, <1>2, <1>3, <1>4, FenceIs DEF Turned

(* The jobs after a turn of t: t has ended, or it is there in some stage.  *)
Gone(t) ==
    /\ Tokens' = Tokens \ {t} /\ inputs' \in [Tokens' -> Input_]
    /\ \A u \in Tokens' : inputs'[u] = inputs[u]
    /\ published' \in [Session -> Published_]
    /\ \A s \in Session : /\ published'[s].gen = published[s].gen
                          /\ published'[s].accepting = published[s].accepting
                          /\ s # inputs[t].session => published'[s] = published[s]
    /\ published'[inputs[t].session].pending =
           IF published[inputs[t].session].pending > 1
           THEN published[inputs[t].session].pending - 1 ELSE 0

Stays(t, stage, stamp) ==
    /\ published' = published
    /\ Tokens' = Tokens /\ inputs' \in [Tokens' -> Input_]
    /\ Same(t, inputs'[t]) /\ inputs'[t].stage = stage /\ inputs'[t].stamp = stamp
    /\ \A u \in Tokens : u # t => inputs'[u] = inputs[u]

(* Ends drops the job and counts it once. *)
LEMMA GoneIs ==
  ASSUME HostInv, NEW t \in Tokens, Ends(t)
  PROVE  Gone(t)
<1>1. TypeOK
  BY DEF HostInv
<1>2. published[inputs[t].session].gen = inputs[t].gen
  BY DEF HostInv, OwnInv
<1>3. /\ Tokens' = Tokens \ {t} /\ inputs' \in [Tokens' -> Input_]
      /\ \A u \in Tokens' : inputs'[u] = inputs[u]
  BY <1>1, EndsIs
<1>4. /\ published' \in [Session -> Published_]
      /\ \A s \in Session : /\ published'[s].gen = published[s].gen
                            /\ published'[s].accepting = published[s].accepting
                            /\ s # inputs[t].session => published'[s] = published[s]
  BY <1>1, EndsIs
<1>5. published'[inputs[t].session].pending =
           IF published[inputs[t].session].pending > 1
           THEN published[inputs[t].session].pending - 1 ELSE 0
  BY <1>1, <1>2, EndsIs
<1> QED BY <1>3, <1>4, <1>5 DEF Gone

(* The turn of a job is quiet. *)
LEMMA TurnQuiet ==
  ASSUME HostInv, NEW t \in Tokens, NEW f, Turned(t, f),
         Gone(t) \/ \E stage, stamp : Stays(t, stage, stamp),
         cores' \in [Session -> Core_], disk' \in [Session -> Nat],
         UNCHANGED <<stopping, engine, ui, requests>>
  PROVE  HostInv' /\ Quiet
<1>0. TypeOK
  BY DEF HostInv
<1>1. /\ Tokens' \subseteq Tokens /\ inputs' \in [Tokens' -> Input_]
      /\ published' \in [Session -> Published_]
      /\ \A u \in Tokens' : inputs'[u].session = inputs[u].session /\ inputs'[u].gen = inputs[u].gen
      /\ \A s \in Session : /\ published'[s].gen = published[s].gen
                            /\ published'[s].accepting = published[s].accepting
  <2>1. CASE Gone(t)
    BY <2>1 DEF Gone
  <2>2. ASSUME NEW stage, NEW stamp, Stays(t, stage, stamp)
        PROVE  /\ Tokens' \subseteq Tokens /\ inputs' \in [Tokens' -> Input_]
               /\ published' \in [Session -> Published_]
               /\ \A u \in Tokens' : inputs'[u].session = inputs[u].session /\ inputs'[u].gen = inputs[u].gen
               /\ \A s \in Session : /\ published'[s].gen = published[s].gen
                                     /\ published'[s].accepting = published[s].accepting
    <3>1. published' \in [Session -> Published_]
      BY <1>0, <2>2 DEF Stays, TypeOK
    <3>2. \A u \in Tokens' : inputs'[u].session = inputs[u].session /\ inputs'[u].gen = inputs[u].gen
      BY <2>2 DEF Stays, Same
    <3> QED BY <2>2, <3>1, <3>2 DEF Stays
  <2> QED BY <2>1, <2>2
<1>2. TypeOK'
  <2>1. requests' \in Nat
    BY <1>0 DEF TypeOK
  <2> QED BY <1>0, <1>1, <2>1, TypeFrame DEF Turned
<1>3. Quiet
  <2>1. \A s \in Session : entries'[s].gen = entries[s].gen
    BY DEF Turned
  <2>2. work' = work \/ (engine = "running" /\ \E i \in 1..Len(work) : work' = RemoveAt(work, i))
    BY DEF Turned, Takes
  <2> QED BY <1>1, <2>1, <2>2 DEF Quiet
<1> QED BY <1>2, <1>3, QuietKeeps

-----------------------------------------------------------------------------
(* Fences and files, session by session. *)

(* Nothing of a session changes that its fence depends on; what is new or  *)
(* what changes is not an installation.                                    *)
Steady(s) ==
    /\ entries'[s].fence = entries[s].fence /\ cores'[s] = cores[s] /\ disk'[s] = disk[s]
    /\ \A t \in Jobs(s) : t \in Jobs(s)'
    /\ \A t \in Jobs(s)' :
          \/ /\ t \in Jobs(s)
             /\ inputs'[t].stage = inputs[t].stage /\ inputs'[t].stamp = inputs[t].stamp
          \/ ~Installing(t)' /\ (t \in Jobs(s) => ~Installing(t))

(* The jobs of a session, by token. *)
LEMMA JobsAre ==
  ASSUME NEW s, NEW t
  PROVE  /\ t \in Jobs(s) <=> t \in Tokens /\ inputs[t].session = s
         /\ t \in Jobs(s)' <=> t \in Tokens' /\ inputs'[t].session = s
  BY DEF Jobs

(* Where all is steady the fence and the file keep their invariant. *)
LEMMA SteadyKeeps ==
  ASSUME NEW s \in Session, FenceInv(s), SavedInv(s), Steady(s)
  PROVE  FenceInv(s)' /\ SavedInv(s)'
<1>0. Stamp(s)' = Stamp(s)
  BY DEF Steady, Stamp
<1>1. \A t \in Jobs(s) : Installing(t) =>
         /\ t \in Jobs(s)' /\ Installing(t)'
         /\ inputs'[t].stage = inputs[t].stage /\ inputs'[t].stamp = inputs[t].stamp
  BY DEF Steady, Installing
<1>2. \A t \in Jobs(s)' : Installing(t)' =>
         /\ t \in Jobs(s) /\ Installing(t) /\ inputs[t].session = s /\ inputs'[t].session = s
  BY JobsAre DEF Steady, Installing
<1>3. ASSUME NEW t \in Jobs(s)', Installing(t)' PROVE Held(t)'
  <2>1. t \in Jobs(s) /\ Installing(t) /\ inputs[t].session = s /\ inputs'[t].session = s
    BY <1>2, <1>3
  <2>2. Held(t) /\ inputs'[t].stage = inputs[t].stage /\ inputs'[t].stamp = inputs[t].stamp
    BY <1>1, <2>1 DEF FenceInv
  <2> QED BY <1>0, <2>1, <2>2 DEF Steady, Held
<1>4. entries'[s].fence = entries[s].fence
  BY DEF Steady
<1>5. entries'[s].fence # None => entries'[s].fence \in Jobs(s)' /\ Installing(entries[s].fence)'
  <2>1. entries[s].fence # None => entries[s].fence \in Jobs(s) /\ Installing(entries[s].fence)
    BY DEF FenceInv
  <2>2. PICK f : f = entries[s].fence
    OBVIOUS
  <2>3. entries'[s].fence # None => f \in Jobs(s)' /\ inputs'[f].stage = inputs[f].stage
                                    /\ inputs[f].stage \in {"installing", "installed", "undone", "repaired", "revoked"}
    BY <1>1, <1>4, <2>1, <2>2 DEF Installing
  <2> QED BY <1>4, <2>2, <2>3 DEF Installing
<1>6. FenceInv(s)'
  BY <1>3, <1>5 DEF FenceInv
<1>7. SavedInv(s)'
  <2>1. CASE cores[s].saved = disk[s]
    BY <2>1 DEF SavedInv, Steady
  <2>2. ASSUME NEW t \in Jobs(s), inputs[t].stage \in {"installed", "revoked"}
        PROVE SavedInv(s)'
    <3>1. Installing(t)
      BY <2>2 DEF Installing
    <3>2. t \in Jobs(s)' /\ inputs'[t].stage \in {"installed", "revoked"}
      BY <1>1, <2>2, <3>1
    <3> QED BY <3>2 DEF SavedInv
  <2> QED BY <2>1, <2>2 DEF SavedInv
<1> QED BY <1>6, <1>7

(* Nothing is being installed after the step. *)
LEMMA ClearKeeps ==
  ASSUME NEW s \in Session, entries'[s].fence = None, \A t \in Jobs(s)' : ~Installing(t)',
         cores'[s].saved = disk'[s]
  PROVE  FenceInv(s)' /\ SavedInv(s)'
BY DEF FenceInv, SavedInv

(* A job that has its turn and installs nothing is alone with nobody's     *)
(* installation.                                                           *)
Clear(s) ==
    /\ entries[s].fence = None
    /\ \A t \in Jobs(s) : ~Installing(t)
    /\ cores[s].saved = disk[s]

(* A session without a fence has no installation, and its savepoint is in *)
(* its file.                                                              *)
LEMMA Unheld ==
  ASSUME NEW s \in Session, FenceInv(s), SavedInv(s), entries[s].fence = None,
         \A t \in Jobs(s) : t # None
  PROVE  Clear(s)
<1>1. \A t \in Jobs(s) : inputs[t].session = s
  BY JobsAre
<1>2. \A t \in Jobs(s) : ~Installing(t)
  BY <1>1 DEF FenceInv, Held
<1>3. cores[s].saved = disk[s]
  BY <1>2 DEF SavedInv, Installing
<1> QED BY <1>2, <1>3 DEF Clear

(* No job has the token that means no fence. *)
LEMMA JobsTyped ==
  ASSUME TypeOK, NEW s
  PROVE  \A t \in Jobs(s) : t # None /\ t \in Tokens /\ inputs[t].session = s
<1>1. \A t \in Tokens : t # None
  BY Shapes
<1> QED BY <1>1, JobsAre

(* A job that is served and installs nothing finds its session without    *)
(* any installation.                                                      *)
LEMMA AloneClear ==
  ASSUME HostInv, Files, NEW t \in Tokens, engine = "running", Served(t), ~Installing(t)
  PROVE  Clear(inputs[t].session) /\ FenceOf(t) = None /\ Unfenced(t) = None
<1> DEFINE s == inputs[t].session
<1>0. TypeOK /\ Bound(inputs[t]) /\ s \in Session /\ t \in Jobs(s)
  BY JobBound DEF HostInv
<1>1. FenceInv(s) /\ SavedInv(s)
  BY <1>0 DEF Files
<1>2. entries[s].fence \in {None, t}
  BY <1>0 DEF Served
<1>3. entries[s].fence # t
  BY <1>0, <1>1 DEF FenceInv, HostInv, TypeOK, None
<1>4. entries[s].fence = None
  BY <1>2, <1>3
<1>5. Clear(s)
  <2>1. \A u \in Jobs(s) : u # None
    BY <1>0, JobsTyped
  <2> HIDE DEF s
  <2> QED BY <1>0, <1>1, <1>4, <2>1, Unheld
<1>6. FenceOf(t) = None
  BY <1>4 DEF FenceOf
<1> QED BY <1>5, <1>6 DEF Unfenced

(* While t installs, it is the only one of its session that does. *)
LEMMA AloneHeld ==
  ASSUME HostInv, Files, NEW t \in Tokens, Installing(t)
  PROVE  /\ Held(t) /\ inputs[t].session \in Session /\ t \in Jobs(inputs[t].session)
         /\ entries[inputs[t].session].fence = t
         /\ \A u \in Jobs(inputs[t].session) : u # t => ~Installing(u)
         /\ inputs[t].stage \in {"installing", "undone", "repaired"} =>
               cores[inputs[t].session].saved = disk[inputs[t].session]
<1> DEFINE s == inputs[t].session
<1>0. TypeOK /\ s \in Session /\ t \in Jobs(s)
  BY Shapes, JobsAre DEF HostInv
<1>1. FenceInv(s) /\ SavedInv(s)
  BY <1>0 DEF Files
<1>2. Held(t) /\ entries[s].fence = t
  BY <1>0, <1>1 DEF FenceInv, Held
<1>3. \A u \in Jobs(s) : inputs[u].session = s
  BY JobsAre
<1>4. \A u \in Jobs(s) : u # t => ~Installing(u)
  BY <1>1, <1>2, <1>3 DEF FenceInv, Held
<1>5. inputs[t].stage \in {"installing", "undone", "repaired"} => cores[s].saved = disk[s]
  BY <1>1, <1>4 DEF SavedInv, Installing
<1> QED BY <1>0, <1>2, <1>4, <1>5

(* The other sessions in a turn of job t. *)
LEMMA OthersSteady ==
  ASSUME HostInv, NEW t \in Tokens, NEW f, Turned(t, f),
         Gone(t) \/ \E stage, stamp : Stays(t, stage, stamp),
         NEW s \in Session, s # inputs[t].session, cores'[s] = cores[s], disk'[s] = disk[s]
  PROVE  Steady(s)
<1>1. entries'[s] = entries[s]
  BY DEF Turned
<1>2. ASSUME NEW u PROVE /\ u \in Jobs(s)' <=> u \in Jobs(s)
                         /\ u \in Jobs(s) => inputs'[u].stage = inputs[u].stage /\ inputs'[u].stamp = inputs[u].stamp
  <2>1. CASE Gone(t)
    BY <2>1, JobsAre DEF Gone
  <2>2. ASSUME NEW stage, NEW stamp, Stays(t, stage, stamp)
        PROVE /\ u \in Jobs(s)' <=> u \in Jobs(s)
              /\ u \in Jobs(s) => inputs'[u].stage = inputs[u].stage /\ inputs'[u].stamp = inputs[u].stamp
    <3>1. inputs'[t].session = inputs[t].session
      BY <2>2 DEF Stays, Same
    <3> QED BY <2>2, <3>1, JobsAre DEF Stays
  <2> QED BY <2>1, <2>2
<1>3. Jobs(s)' = Jobs(s)
  BY <1>2
<1> QED BY <1>1, <1>2, <1>3 DEF Steady

(* A turn keeps the files if it does for the session of the job. *)
LEMMA TurnFiles ==
  ASSUME HostInv, Files, NEW t \in Tokens, NEW f, Turned(t, f),
         Gone(t) \/ \E stage, stamp : Stays(t, stage, stamp),
         \A s \in Session : s # inputs[t].session => cores'[s] = cores[s] /\ disk'[s] = disk[s],
         NEW x \in Session, x = inputs[t].session, FenceInv(x)', SavedInv(x)'
  PROVE  Files'
<1> SUFFICES ASSUME NEW s \in Session PROVE FenceInv(s)' /\ SavedInv(s)'
  BY DEF Files
<1>1. CASE s # inputs[t].session
  <2>1. Steady(s)
    BY <1>1, OthersSteady
  <2>2. FenceInv(s) /\ SavedInv(s)
    BY DEF Files
  <2> QED BY <2>1, <2>2, SteadyKeeps
<1>2. CASE s = x
  BY <1>2
<1> QED BY <1>1, <1>2

-----------------------------------------------------------------------------
(* The turns of the file jobs. *)

(* What a turn has to show. *)
TurnDone(t) == HostInv' /\ Files' /\ Takes /\ Quiet /\ (Gone(t) \/ \E stage, stamp : Stays(t, stage, stamp))
               /\ (work' = work \/ \E i \in 1..Len(work) : work[i].kind = "io" /\ work' = RemoveAt(work, i))

(* The turn is done when its own session is. *)
LEMMA TurnIsDone ==
  ASSUME HostInv, Files, NEW t \in Tokens, NEW f, Turned(t, f),
         Gone(t) \/ \E stage, stamp : Stays(t, stage, stamp),
         cores' \in [Session -> Core_], disk' \in [Session -> Nat],
         \A s \in Session : s # inputs[t].session => cores'[s] = cores[s] /\ disk'[s] = disk[s],
         UNCHANGED <<stopping, engine, ui, requests>>,
         NEW x \in Session, x = inputs[t].session, FenceInv(x)', SavedInv(x)'
  PROVE  TurnDone(t)
<1>1. HostInv' /\ Quiet
  BY TurnQuiet
<1>2. Files'
  BY TurnFiles
<1>3. Takes /\ (work' = work \/ \E i \in 1..Len(work) : work[i].kind = "io" /\ work' = RemoveAt(work, i))
  BY DEF Turned
<1> QED BY <1>1, <1>2, <1>3 DEF TurnDone

(* Cores and files that nobody writes. *)
LEMMA UnchangedFiles ==
  ASSUME TypeOK, cores' = cores, disk' = disk
  PROVE  /\ cores' \in [Session -> Core_] /\ disk' \in [Session -> Nat]
         /\ \A s \in Session : cores'[s] = cores[s] /\ disk'[s] = disk[s]
BY DEF TypeOK

(* A turn in which the job only stays as it is. *)
LEMMA SteadyTurn ==
  ASSUME HostInv, Files, NEW t \in Tokens, Turned(t, FenceOf(t)),
         Stays(t, inputs[t].stage, inputs[t].stamp),
         cores' = cores, disk' = disk, UNCHANGED <<stopping, engine, ui, requests>>
  PROVE  TurnDone(t)
<1>0. TypeOK
  BY DEF HostInv
<1>1. PICK x \in Session : x = inputs[t].session
  BY <1>0, Shapes
<1>2. FenceInv(x) /\ SavedInv(x)
  BY DEF Files
<1>3. Steady(x)
  <2>1. entries'[x].fence = entries[x].fence
    BY <1>1 DEF Turned, FenceOf
  <2>2. ASSUME NEW u
        PROVE /\ u \in Jobs(x)' <=> u \in Jobs(x)
              /\ u \in Jobs(x) => inputs'[u].stage = inputs[u].stage /\ inputs'[u].stamp = inputs[u].stamp
    BY JobsAre DEF Stays, Same
  <2>3. Jobs(x)' = Jobs(x)
    BY <2>2
  <2> QED BY <2>1, <2>2, <2>3 DEF Steady
<1>4. FenceInv(x)' /\ SavedInv(x)'
  BY <1>2, <1>3, SteadyKeeps
<1>5. /\ cores' \in [Session -> Core_] /\ disk' \in [Session -> Nat]
      /\ \A s \in Session : cores'[s] = cores[s] /\ disk'[s] = disk[s]
  BY <1>0, UnchangedFiles
<1> QED BY <1>1, <1>4, <1>5, TurnIsDone

(* A turn after which its session has no installation. *)
LEMMA ClearTurn ==
  ASSUME HostInv, Files, NEW t \in Tokens, Turned(t, None),
         \/ Gone(t)
         \/ \E stage \in Unapplied : \E stamp : Stays(t, stage, stamp),
         \A u \in Jobs(inputs[t].session) : u # t => ~Installing(u),
         cores' \in [Session -> Core_], disk' \in [Session -> Nat],
         \A s \in Session : s # inputs[t].session => cores'[s] = cores[s] /\ disk'[s] = disk[s],
         cores'[inputs[t].session].saved = disk'[inputs[t].session],
         UNCHANGED <<stopping, engine, ui, requests>>
  PROVE  TurnDone(t)
<1>0. TypeOK
  BY DEF HostInv
<1>1. PICK x \in Session : x = inputs[t].session
  BY <1>0, Shapes
<1>2. ASSUME NEW u \in Jobs(x)' PROVE ~Installing(u)'
  <2>0. u \in Tokens' /\ inputs'[u].session = x
    BY JobsAre
  <2>1. CASE Gone(t)
    <3>1. u \in Jobs(x) /\ u # t /\ inputs'[u] = inputs[u]
      BY <2>0, <2>1, JobsAre DEF Gone
    <3> QED BY <1>1, <3>1 DEF Installing
  <2>2. ASSUME NEW stage \in Unapplied, NEW stamp, Stays(t, stage, stamp)
        PROVE ~Installing(u)'
    <3>1. CASE u = t
      BY <2>2, <3>1 DEF Stays, Installing, Unapplied
    <3>2. CASE u # t
      <4>1. u \in Jobs(x) /\ inputs'[u] = inputs[u]
        BY <2>0, <2>2, <3>2, JobsAre DEF Stays
      <4> QED BY <1>1, <3>2, <4>1 DEF Installing
    <3> QED BY <3>1, <3>2
  <2> QED BY <2>1, <2>2
<1>3. entries'[x].fence = None
  BY <1>1 DEF Turned
<1>4. FenceInv(x)' /\ SavedInv(x)'
  BY <1>1, <1>2, <1>3, ClearKeeps
<1>5. Gone(t) \/ \E stage, stamp : Stays(t, stage, stamp)
  OBVIOUS
<1> QED BY <1>1, <1>4, <1>5, TurnIsDone

(* Pends keeps the job. *)
LEMMA StaysIs ==
  ASSUME HostInv, NEW t \in Tokens, NEW stage \in Stages,
         NEW stamp \in (Nat \X Nat \X Nat) \cup {<<>>}, Pends(t, stage, stamp)
  PROVE  Stays(t, stage, stamp)
<1>1. TypeOK
  BY DEF HostInv
<1>2. /\ published' = published
      /\ Tokens' = Tokens /\ inputs' \in [Tokens' -> Input_]
      /\ Same(t, inputs'[t]) /\ inputs'[t].stage = stage /\ inputs'[t].stamp = stamp
      /\ \A u \in Tokens : u # t => inputs'[u] = inputs[u]
  BY <1>1, PendsIs
<1> QED BY <1>2 DEF Stays

(* The stage and the stamp of a job. *)
LEMMA JobTyped ==
  ASSUME HostInv, NEW t \in Tokens
  PROVE  /\ inputs[t].stage \in Stages
         /\ inputs[t].stamp \in (Nat \X Nat \X Nat) \cup {<<>>}
<1>1. inputs[t] \in Input_
  BY Shapes DEF HostInv
<1> QED BY <1>1 DEF Input_

(* IoWaits, a turn without service. *)
LEMMA WaitsDone ==
  ASSUME HostInv, Files, NEW t \in Tokens, IoWaits(t)
  PROVE  TurnDone(t)
<1>0. TypeOK
  BY DEF HostInv
<1>1. FenceOf(t) \in 0..MaxJobs
  BY <1>0, FencesTyped
<1>2. Turned(t, FenceOf(t))
  BY <1>1, TurnedIs DEF IoWaits
<1>3. Stays(t, inputs[t].stage, inputs[t].stamp)
  <2>1. inputs' = [inputs EXCEPT ![t].active = TRUE] /\ published' = published
    BY DEF IoWaits
  <2>2. /\ Tokens' = Tokens /\ inputs' \in [Tokens' -> Input_] /\ Same(t, inputs'[t])
        /\ inputs'[t].stage = inputs[t].stage /\ inputs'[t].stamp = inputs[t].stamp
        /\ \A u \in Tokens : u # t => inputs'[u] = inputs[u]
    BY <1>0, <2>1, FlagIs
  <2> QED BY <2>1, <2>2 DEF Stays
<1> QED BY <1>2, <1>3, SteadyTurn DEF IoWaits

(* IoPolls, which keeps the fence of an installation. *)
LEMMA PollsDone ==
  ASSUME HostInv, Files, NEW t \in Tokens, IoPolls(t)
  PROVE  TurnDone(t)
<1>1. FenceOf(t) \in 0..MaxJobs
  BY FencesTyped DEF HostInv
<1>2. Turned(t, FenceOf(t))
  BY <1>1, TurnedIs DEF IoPolls
<1>3. Stays(t, inputs[t].stage, inputs[t].stamp)
  BY JobTyped, StaysIs DEF IoPolls
<1> QED BY <1>2, <1>3, SteadyTurn DEF IoPolls

(* A turn is of a running engine. *)
LEMMA TurnRuns ==
  ASSUME TypeOK, NEW t, IoTurn(t) PROVE engine = "running"
BY IoTurnIs DEF Takes

(* IoSubmits, whether the job starts or is refused. *)
LEMMA SubmitsDone ==
  ASSUME HostInv, Files, NEW t \in Tokens, IoSubmits(t)
  PROVE  TurnDone(t)
<1>0. TypeOK /\ engine = "running" /\ inputs[t].session \in Session
  BY TurnRuns, Shapes DEF HostInv, IoSubmits
<1>1. Clear(inputs[t].session) /\ Unfenced(t) = None
  BY <1>0, AloneClear DEF IoSubmits, Installing
<1>2. Turned(t, None)
  <2>1. FenceWith(t, None) /\ None \in 0..MaxJobs /\ IoTurn(t)
    BY <1>0, <1>1, FencesTyped DEF IoSubmits
  <2> QED BY <2>1, TurnedIs
<1>3. \/ Gone(t)
      \/ \E stage \in Unapplied : \E stamp : Stays(t, stage, stamp)
  <2>1. CASE Ends(t)
    BY <2>1, GoneIs
  <2>2. CASE Pends(t, "preparing", Stamp(inputs[t].session))
    <3>1. "preparing" \in Stages /\ Stamp(inputs[t].session) \in (Nat \X Nat \X Nat) \cup {<<>>}
      BY <1>0, StampIs DEF Stages
    <3> QED BY <2>2, <3>1, StaysIs DEF Unapplied
  <2> QED BY <2>1, <2>2 DEF IoSubmits
<1>4. cores' = cores /\ disk' = disk /\ UNCHANGED <<stopping, engine, ui, requests>>
  BY DEF IoSubmits
<1>5. /\ cores' \in [Session -> Core_] /\ disk' \in [Session -> Nat]
      /\ \A s \in Session : cores'[s] = cores[s] /\ disk'[s] = disk[s]
  BY <1>0, <1>4, UnchangedFiles
<1> QED BY <1>0, <1>1, <1>2, <1>3, <1>4, <1>5, ClearTurn DEF Clear

(* IoAsks, whose job has installed nothing. *)
LEMMA AsksDone ==
  ASSUME HostInv, Files, NEW t \in Tokens, IoAsks(t)
  PROVE  TurnDone(t)
<1>0. TypeOK /\ engine = "running"
  BY TurnRuns DEF HostInv, IoAsks
<1>1. PICK x \in Session : x = inputs[t].session
  BY <1>0, Shapes
<1>2. Clear(x)
  BY <1>0, <1>1, AloneClear DEF IoAsks, Installing
<1>3. Turned(t, None)
  <2>1. FenceOf(t) = None
    BY <1>1, <1>2 DEF Clear, FenceOf
  <2>2. FenceWith(t, None) /\ None \in 0..MaxJobs /\ IoTurn(t)
    BY <1>0, <2>1, FencesTyped DEF IoAsks
  <2> QED BY <2>2, TurnedIs DEF IoAsks
<1>4. Stays(t, "asking", inputs[t].stamp) /\ "asking" \in Unapplied
  BY JobTyped, StaysIs DEF IoAsks, Stages, Unapplied
<1>5. cores' = cores /\ disk' = disk /\ UNCHANGED <<stopping, engine, ui, requests>>
  BY DEF IoAsks
<1>6. /\ cores' \in [Session -> Core_] /\ disk' \in [Session -> Nat]
      /\ \A s \in Session : cores'[s] = cores[s] /\ disk'[s] = disk[s]
  BY <1>0, <1>5, UnchangedFiles
<1> QED BY <1>0, <1>1, <1>2, <1>3, <1>4, <1>5, <1>6, ClearTurn DEF Clear

(* IoGivesUp, which gives up no installation. *)
LEMMA GivesUpDone ==
  ASSUME HostInv, Files, NEW t \in Tokens, IoGivesUp(t)
  PROVE  TurnDone(t)
<1>0. TypeOK /\ engine = "running" /\ inputs[t].session \in Session
  BY TurnRuns, Shapes DEF HostInv, IoGivesUp
<1>1. Clear(inputs[t].session) /\ Unfenced(t) = None
  <2>1. ~Installing(t)
    BY DEF IoGivesUp, Installing
  <2> QED BY <1>0, <2>1, AloneClear DEF IoGivesUp
<1>2. Turned(t, None)
  <2>1. FenceWith(t, None) /\ None \in 0..MaxJobs /\ IoTurn(t)
    BY <1>0, <1>1, FencesTyped DEF IoGivesUp
  <2> QED BY <2>1, TurnedIs
<1>3. Gone(t)
  BY GoneIs DEF IoGivesUp
<1>4. cores' = cores /\ disk' = disk /\ UNCHANGED <<stopping, engine, ui, requests>>
  BY DEF IoGivesUp
<1>5. /\ cores' \in [Session -> Core_] /\ disk' \in [Session -> Nat]
      /\ \A s \in Session : cores'[s] = cores[s] /\ disk'[s] = disk[s]
  BY <1>0, <1>4, UnchangedFiles
<1> QED BY <1>0, <1>1, <1>2, <1>3, <1>4, <1>5, ClearTurn DEF Clear

(* A save is fenced in and handed to a worker. *)
LEMMA SaveDone ==
  ASSUME HostInv, Files, NEW t \in Tokens, IoTurn(t), Served(t), inputs[t].stage \in {"prepared", "agreed"},
         Fresh(t), Pends(t, "installing", inputs[t].stamp), FenceWith(t, t),
         cores' = [cores EXCEPT ![inputs[t].session].pending = TRUE],
         disk' = disk, UNCHANGED <<stopping, engine, ui, requests>>
  PROVE  TurnDone(t)
<1>0. TypeOK /\ engine = "running"
  BY TurnRuns DEF HostInv
<1>1. PICK x \in Session : x = inputs[t].session
  BY <1>0, Shapes
<1>2. Clear(x)
  BY <1>0, <1>1, AloneClear DEF Installing
<1>3. Turned(t, t)
  BY <1>0, FencesTyped, TurnedIs
<1>4. Stays(t, "installing", inputs[t].stamp)
  BY JobTyped, StaysIs DEF Stages
<1>5. PICK c : c = [cores[x] EXCEPT !.pending = TRUE]
  OBVIOUS
<1>6. c \in Core_ /\ c.rev = cores[x].rev /\ c.saved = cores[x].saved
      /\ c.authority = cores[x].authority /\ c.pending
  <2>1. cores[x] \in Core_
    BY <1>0, Shapes
  <2> QED BY <1>5, <2>1 DEF Core_
<1>7. /\ cores' \in [Session -> Core_] /\ cores'[x] = c
      /\ \A r \in Session : r # x => cores'[r] = cores[r]
  <2>1. cores' = [cores EXCEPT ![x] = c]
    BY <1>1, <1>5
  <2> QED BY <1>0, <1>6, <2>1, CoreIs
<1>8. disk' \in [Session -> Nat]
  BY <1>0 DEF TypeOK
<1>9. Stamp(x)' = Stamp(x)
  BY <1>6, <1>7 DEF Stamp
<1>10. entries'[x].fence = t
  BY <1>1, <1>3 DEF Turned
<1>11. /\ \A u : u \in Jobs(x)' <=> u \in Jobs(x)
       /\ t \in Jobs(x)
       /\ \A u \in Jobs(x) : u # t => inputs'[u] = inputs[u]
  BY <1>1, <1>4, JobsAre DEF Stays, Same
<1>12. Installing(t)' /\ Held(t)'
  <2>1. inputs'[t].stage = "installing" /\ inputs'[t].stamp = Stamp(x) /\ inputs'[t].session = x
    BY <1>1, <1>4 DEF Stays, Same, Fresh
  <2>2. Installing(t)'
    BY <2>1 DEF Installing
  <2>3. Held(t)'
    BY <1>6, <1>7, <1>9, <1>10, <2>1 DEF Held
  <2> QED BY <2>2, <2>3
<1>13. \A u \in Jobs(x)' : u # t => ~Installing(u)'
  BY <1>2, <1>11 DEF Clear, Installing
<1>14. FenceInv(x)'
  <2>1. \A u \in Jobs(x)' : Installing(u)' => Held(u)'
    BY <1>12, <1>13
  <2>2. entries'[x].fence \in Jobs(x)' /\ Installing(t)'
    BY <1>10, <1>11, <1>12
  <2> QED BY <1>10, <2>1, <2>2 DEF FenceInv, Installing
<1>15. SavedInv(x)'
  BY <1>2, <1>6, <1>7 DEF SavedInv, Clear
<1> QED BY <1>1, <1>3, <1>4, <1>7, <1>8, <1>14, <1>15, TurnIsDone

(* IoApplies: a save is fenced in, a document is opened, or the result is *)
(* refused.                                                               *)
LEMMA AppliesDone ==
  ASSUME HostInv, Files, NEW t \in Tokens, IoApplies(t)
  PROVE  TurnDone(t)
<1>0. TypeOK /\ engine = "running" /\ inputs[t].session \in Session
  BY TurnRuns, Shapes DEF HostInv, IoApplies
<1>1. PICK x \in Session : x = inputs[t].session
  BY <1>0
<1>2. Clear(x) /\ Unfenced(t) = None /\ None \in 0..MaxJobs
  BY <1>0, <1>1, AloneClear, FencesTyped DEF IoApplies, Installing
<1>3. CASE /\ Fresh(t) /\ Pends(t, "installing", inputs[t].stamp) /\ FenceWith(t, t)
           /\ cores' = [cores EXCEPT ![inputs[t].session].pending = TRUE]
           /\ UNCHANGED disk
  BY <1>3, SaveDone DEF IoApplies
<1>4. CASE /\ Ends(t) /\ FenceWith(t, Unfenced(t))
           /\ cores' = [cores EXCEPT ![x] = [rev |-> @.rev + 1, saved |-> @.rev + 1,
                                             authority |-> @.authority + 1, pending |-> FALSE]]
           /\ disk' = [disk EXCEPT ![x] = cores[x].rev + 1]
  <2>1. Gone(t)
    BY <1>4, GoneIs
  <2>2. Turned(t, None)
    BY <1>2, <1>4, TurnedIs DEF IoApplies
  <2>3. PICK c : c = [rev |-> cores[x].rev + 1, saved |-> cores[x].rev + 1,
                      authority |-> cores[x].authority + 1, pending |-> FALSE]
    OBVIOUS
  <2>4. c \in Core_ /\ cores[x].rev + 1 \in Nat /\ c.saved = cores[x].rev + 1
    <3>1. cores[x] \in Core_
      BY <1>0, Shapes
    <3> QED BY <2>3, <3>1 DEF Core_
  <2>5. cores' = [cores EXCEPT ![x] = c]
    BY <1>4, <2>3
  <2>6. /\ cores' \in [Session -> Core_] /\ cores'[x] = c
        /\ \A r \in Session : r # x => cores'[r] = cores[r]
    BY <1>0, <2>4, <2>5, CoreIs
  <2>7. PICK n \in Nat : n = cores[x].rev + 1
    BY <2>4
  <2>8. disk' = [disk EXCEPT ![x] = n]
    BY <1>4, <2>7
  <2>9. /\ disk' \in [Session -> Nat] /\ disk'[x] = n
        /\ \A r \in Session : r # x => disk'[r] = disk[r]
    BY <1>0, <2>8, DiskIs
  <2>10. UNCHANGED <<stopping, engine, ui, requests>>
    BY DEF IoApplies
  <2> QED BY <1>1, <1>2, <2>1, <2>2, <2>4, <2>6, <2>7, <2>9, <2>10, ClearTurn DEF Clear
<1>5. CASE Ends(t) /\ FenceWith(t, Unfenced(t)) /\ UNCHANGED <<cores, disk>>
  <2>1. Gone(t)
    BY <1>5, GoneIs
  <2>2. Turned(t, None)
    BY <1>2, <1>5, TurnedIs DEF IoApplies
  <2>3. /\ cores' \in [Session -> Core_] /\ disk' \in [Session -> Nat]
        /\ \A s \in Session : cores'[s] = cores[s] /\ disk'[s] = disk[s]
    BY <1>0, <1>5, UnchangedFiles
  <2>4. UNCHANGED <<stopping, engine, ui, requests>>
    BY DEF IoApplies
  <2> QED BY <1>1, <1>2, <2>1, <2>2, <2>3, <2>4, ClearTurn DEF Clear
<1> QED BY <1>1, <1>3, <1>4, <1>5 DEF IoApplies

(* What the last apply of a save makes of its Core: saved is what is in    *)
(* the file, whatever the installation came to.                            *)
LEMMA FinalizedIs ==
  ASSUME HostInv, Files, NEW t \in Tokens,
         inputs[t].stage \in {"installed", "undone", "repaired", "revoked"}
  PROVE  /\ Finalized(t) \in Core_
         /\ Finalized(t).saved = disk[inputs[t].session]
<1>0. Installing(t) /\ TypeOK
  BY DEF Installing, HostInv
<1>1. PICK x \in Session : x = inputs[t].session
  BY <1>0, Shapes
<1>2. /\ Held(t)
      /\ inputs[t].stage \in {"undone", "repaired"} => cores[x].saved = disk[x]
  BY <1>0, <1>1, AloneHeld
<1>3. Fresh(t)
  BY <1>1, <1>2 DEF Held, Fresh
<1>4. PICK c \in Core_ : c = cores[x]
  BY <1>0, Shapes
<1>5. c.rev \in Nat /\ c.saved \in Nat /\ c.authority \in Nat
  BY DEF Core_
<1>6. CASE inputs[t].stage = "installed"
  <2>0. PICK n \in Nat, a \in Nat : n = c.rev /\ a = c.authority + 1
    BY <1>5
  <2>1. Finalized(t) = [c EXCEPT !.saved = n, !.pending = FALSE, !.authority = a]
    BY <1>1, <1>3, <1>4, <1>6, <2>0 DEF Finalized
  <2>2. disk[x] = n
    BY <1>1, <1>2, <1>4, <1>6, <2>0 DEF Held
  <2>3. Finalized(t) \in Core_ /\ Finalized(t).saved = n
    BY <2>1 DEF Core_
  <2> QED BY <1>1, <2>2, <2>3
<1>7. CASE inputs[t].stage = "undone"
  <2>1. Finalized(t) = [c EXCEPT !.pending = FALSE]
    BY <1>1, <1>4, <1>7 DEF Finalized
  <2>2. c.saved = disk[x]
    BY <1>2, <1>4, <1>7
  <2>3. Finalized(t) \in Core_ /\ Finalized(t).saved = c.saved
    BY <2>1 DEF Core_
  <2> QED BY <1>1, <2>2, <2>3
<1>8. CASE inputs[t].stage = "repaired"
  <2>0. PICK a \in Nat : a = c.authority + 1
    BY <1>5
  <2>1. Finalized(t) = [c EXCEPT !.authority = a, !.pending = FALSE]
    BY <1>1, <1>4, <1>8, <2>0 DEF Finalized
  <2>2. c.saved = disk[x]
    BY <1>2, <1>4, <1>8
  <2>3. Finalized(t) \in Core_ /\ Finalized(t).saved = c.saved
    BY <2>1 DEF Core_
  <2> QED BY <1>1, <2>2, <2>3
<1>9. CASE inputs[t].stage = "revoked"
  <2>0. PICK n \in Nat : n = None
    BY DEF None
  <2>1. Finalized(t) = [c EXCEPT !.saved = n, !.pending = FALSE]
    BY <1>1, <1>4, <1>9, <2>0 DEF Finalized
  <2>2. disk[x] = n
    BY <1>1, <1>2, <1>9, <2>0 DEF Held
  <2>3. Finalized(t) \in Core_ /\ Finalized(t).saved = n
    BY <2>1 DEF Core_
  <2> QED BY <1>1, <2>2, <2>3
<1> QED BY <1>6, <1>7, <1>8, <1>9

(* IoFinalizes, which ends an installation whatever it came to. *)
LEMMA FinalizesDone ==
  ASSUME HostInv, Files, NEW t \in Tokens, IoFinalizes(t)
  PROVE  TurnDone(t)
<1>0. TypeOK /\ engine = "running" /\ Installing(t)
  BY TurnRuns DEF HostInv, IoFinalizes, Installing
<1>1. PICK x \in Session : x = inputs[t].session
  BY <1>0, Shapes
<1>2. /\ entries[x].fence = t
      /\ \A u \in Jobs(x) : u # t => ~Installing(u)
  BY <1>0, <1>1, AloneHeld
<1>3. Unfenced(t) = None /\ None \in 0..MaxJobs
  BY <1>0, <1>1, <1>2, FencesTyped DEF Unfenced, FenceOf
<1>4. Turned(t, None)
  BY <1>3, TurnedIs DEF IoFinalizes
<1>5. Gone(t)
  BY GoneIs DEF IoFinalizes
<1>6. PICK c \in Core_ : c = Finalized(t) /\ c.saved = disk[x]
  BY <1>1, FinalizedIs DEF IoFinalizes
<1>7. /\ cores' \in [Session -> Core_] /\ cores'[x] = c
      /\ \A r \in Session : r # x => cores'[r] = cores[r]
  <2>1. cores' = [cores EXCEPT ![x] = c]
    BY <1>1, <1>6 DEF IoFinalizes
  <2> QED BY <1>0, <2>1, CoreIs
<1>8. disk' = disk /\ UNCHANGED <<stopping, engine, ui, requests>>
  BY DEF IoFinalizes
<1>9. disk' \in [Session -> Nat]
  BY <1>0, <1>8 DEF TypeOK
<1> QED BY <1>1, <1>2, <1>4, <1>5, <1>6, <1>7, <1>8, <1>9, ClearTurn

(* Every turn of a job keeps the host and the files. *)
LEMMA FileIoDone ==
  ASSUME HostInv, Files, NEW t \in Tokens, ProcessFileIo(t)
  PROVE  TurnDone(t)
BY WaitsDone, PollsDone, AsksDone, SubmitsDone, GivesUpDone, AppliesDone, FinalizesDone DEF ProcessFileIo

-----------------------------------------------------------------------------
(* Steps that leave the queue and what is published alone. *)

(* The invariant, when the queue and what is published stay. *)
LEMMA StillKeeps ==
  ASSUME IInv, work' = work, published' = published, Tokens' = Tokens,
         inputs' \in [Tokens' -> Input_],
         \A t \in Tokens : inputs'[t].session = inputs[t].session /\ inputs'[t].gen = inputs[t].gen,
         entries' \in [Session -> Bound_], \A s \in Session : entries'[s].gen = entries[s].gen,
         cores' \in [Session -> Core_], disk' \in [Session -> Nat],
         UNCHANGED <<stopping, engine, ui>>, requests' \in Nat, Files'
  PROVE  IInv'
<1>1. HostInv /\ TypeOK /\ CountInv
  BY DEF IInv, HostInv
<1>2. TypeOK'
  <2>1. published' \in [Session -> Published_]
    BY <1>1 DEF TypeOK
  <2> QED BY <1>1, <2>1, TypeFrame
<1>3. HostInv'
  <2>1. Quiet
    BY DEF Quiet
  <2> QED BY <1>1, <1>2, <2>1, QuietKeeps
<1>4. \A s : Jobs(s)' = Jobs(s)
  BY DEF Jobs
<1>5. \A s : Pending(s)' = Pending(s)
  BY <1>4 DEF Pending
<1>6. CountInv'
  BY <1>1, <1>5 DEF CountInv
<1> QED BY <1>3, <1>6 DEF IInv

(* The files, when every session is steady. *)
LEMMA SteadyFiles ==
  ASSUME Files, \A s \in Session : Steady(s)
  PROVE  Files'
<1> SUFFICES ASSUME NEW s \in Session PROVE FenceInv(s)' /\ SavedInv(s)'
  BY DEF Files
<1>1. FenceInv(s) /\ SavedInv(s) /\ Steady(s)
  BY DEF Files
<1> QED BY <1>1, SteadyKeeps

(* One job changes, and it installs nothing before or after, or keeps its  *)
(* stage and its stamp.                                                    *)
LEMMA JobSteady ==
  ASSUME NEW t \in Tokens, Tokens' = Tokens, Same(t, inputs'[t]),
         \A u \in Tokens : u # t => inputs'[u] = inputs[u],
         \/ inputs'[t].stage = inputs[t].stage /\ inputs'[t].stamp = inputs[t].stamp
         \/ ~Installing(t) /\ ~Installing(t)',
         NEW s \in Session, entries'[s].fence = entries[s].fence, cores'[s] = cores[s],
         disk'[s] = disk[s]
  PROVE  Steady(s)
<1>1. \A u : u \in Jobs(s)' <=> u \in Jobs(s)
  BY JobsAre DEF Same
<1>2. \A u \in Jobs(s) : u # t => inputs'[u].stage = inputs[u].stage /\ inputs'[u].stamp = inputs[u].stamp
  BY JobsAre
<1> QED BY <1>1, <1>2 DEF Steady

(* One job changes neither its session nor its binding. *)
LEMMA JobKeeps ==
  ASSUME NEW t \in Tokens, Same(t, inputs'[t]),
         \A u \in Tokens : u # t => inputs'[u] = inputs[u]
  PROVE  \A u \in Tokens : inputs'[u].session = inputs[u].session /\ inputs'[u].gen = inputs[u].gen
BY DEF Same

(* Prepare and Answer keep the invariant: what a worker prepares, or the  *)
(* user agrees to, is no installation.                                    *)
LEMMA PrepareKeeps ==
  ASSUME IInv, NEW t \in Tokens, Prepare(t) \/ Answer(t)
  PROVE  IInv'
<1>1. TypeOK /\ Files
  BY DEF IInv, HostInv
<1>2. PICK to \in {"prepared", "agreed", "failed"} : inputs' = [inputs EXCEPT ![t].stage = to]
  BY DEF Prepare, Answer
<1>3. /\ Tokens' = Tokens /\ inputs' \in [Tokens' -> Input_]
      /\ Same(t, inputs'[t]) /\ inputs'[t].stage = to
      /\ \A u \in Tokens : u # t => inputs'[u] = inputs[u]
  <2>1. to \in Stages
    BY DEF Stages
  <2> QED BY <1>1, <1>2, <2>1, StageIs
<1>4. ~Installing(t) /\ ~Installing(t)'
  BY <1>3 DEF Prepare, Answer, Installing
<1>5. UNCHANGED <<published, entries, cores, disk, work, stopping, engine, ui, requests>>
  BY DEF Prepare, Answer
<1>6. \A s \in Session : Steady(s)
  BY <1>3, <1>4, <1>5, JobSteady
<1>7. Files'
  BY <1>1, <1>6, SteadyFiles
<1>8. /\ entries' \in [Session -> Bound_] /\ cores' \in [Session -> Core_]
      /\ disk' \in [Session -> Nat] /\ requests' \in Nat
  BY <1>1, <1>5 DEF TypeOK
<1>9. \A u \in Tokens : inputs'[u].session = inputs[u].session /\ inputs'[u].gen = inputs[u].gen
  BY <1>3, JobKeeps
<1> QED BY <1>3, <1>5, <1>7, <1>8, <1>9, StillKeeps

(* CancelFileIo keeps the invariant. *)
LEMMA CancelKeeps ==
  ASSUME IInv, NEW t \in Tokens, CancelFileIo(t)
  PROVE  IInv'
<1>1. TypeOK /\ Files
  BY DEF IInv, HostInv
<1>2. inputs' = [inputs EXCEPT ![t].cancelled = TRUE]
  BY DEF CancelFileIo
<1>3. /\ Tokens' = Tokens /\ inputs' \in [Tokens' -> Input_]
      /\ Same(t, inputs'[t])
      /\ inputs'[t].stage = inputs[t].stage /\ inputs'[t].stamp = inputs[t].stamp
      /\ \A u \in Tokens : u # t => inputs'[u] = inputs[u]
  BY <1>1, <1>2, FlagIs
<1>5. UNCHANGED <<published, entries, cores, disk, work, stopping, engine, ui>>
  BY DEF CancelFileIo
<1>6. \A s \in Session : Steady(s)
  BY <1>3, <1>5, JobSteady
<1>7. Files'
  BY <1>1, <1>6, SteadyFiles
<1>8. /\ entries' \in [Session -> Bound_] /\ cores' \in [Session -> Core_]
      /\ disk' \in [Session -> Nat] /\ requests' \in Nat
  BY <1>1, <1>5 DEF TypeOK, CancelFileIo, Asks
<1>9. \A u \in Tokens : inputs'[u].session = inputs[u].session /\ inputs'[u].gen = inputs[u].gen
  BY <1>3, JobKeeps
<1> QED BY <1>3, <1>5, <1>7, <1>8, <1>9, StillKeeps

(* A stroke that is given up keeps the invariant: the fence stays. *)
LEMMA GivesUpKeeps ==
  ASSUME IInv, NEW x \in Session, GivesUpStroke(x)
  PROVE  IInv'
<1>1. TypeOK /\ Files
  BY DEF IInv, HostInv
<1>2. entries' \in [Session -> Bound_] /\ \A s \in Session : entries'[s].gen = entries[s].gen
                                                          /\ entries'[s].fence = entries[s].fence
  <2>1. entries \in [Session -> Bound_] /\ entries' = [entries EXCEPT ![x].stroke = FALSE]
    BY <1>1 DEF TypeOK, GivesUpStroke
  <2>2. PICK e \in Bound_ : e = entries[x]
    BY <2>1
  <2>3. PICK d : d = [e EXCEPT !.stroke = FALSE]
    OBVIOUS
  <2>4. d \in Bound_ /\ d.gen = e.gen /\ d.fence = e.fence
    BY <2>3 DEF Bound_
  <2>5. entries' = [entries EXCEPT ![x] = d]
    BY <2>1, <2>2, <2>3
  <2> QED BY <2>1, <2>2, <2>4, <2>5
<1>3. UNCHANGED <<published, cores, disk, work, inputs, stopping, engine, ui, requests>>
  BY DEF GivesUpStroke
<1>4. Tokens' = Tokens /\ inputs' \in [Tokens' -> Input_]
  BY <1>1, <1>3, SameTyped
<1>6. ASSUME NEW s \in Session PROVE Steady(s)
  <2>1. \A u : u \in Jobs(s)' <=> u \in Jobs(s)
    BY <1>3, <1>4, JobsAre
  <2> QED BY <1>2, <1>3, <2>1 DEF Steady
<1>7. Files'
  BY <1>1, <1>6, SteadyFiles
<1>8. /\ cores' \in [Session -> Core_]
      /\ disk' \in [Session -> Nat] /\ requests' \in Nat
  BY <1>1, <1>3 DEF TypeOK
<1> QED BY <1>2, <1>3, <1>4, <1>7, <1>8, StillKeeps

(* What an I/O worker leaves in the file of a document: the job holds the  *)
(* fence of its session, and the Core waits for it.                        *)
LEMMA InstallKeeps ==
  ASSUME IInv, NEW t \in Tokens, Install(t)
  PROVE  IInv'
<1>1. TypeOK /\ Files /\ HostInv
  BY DEF IInv, HostInv
<1>2. PICK x \in Session : x = inputs[t].session
  BY <1>1, Shapes
<1>3. UNCHANGED <<published, entries, cores, work, stopping, engine, ui, requests>>
  BY DEF Install
<1>4. /\ Held(t) /\ t \in Jobs(x) /\ entries[x].fence = t
      /\ \A u \in Jobs(x) : u # t => ~Installing(u)
      /\ cores[x].saved = disk[x]
  <2>1. Installing(t) /\ inputs[t].stage = "installing"
    BY DEF Install, Installing
  <2> QED BY <1>1, <1>2, <2>1, AloneHeld
<1>5. cores[x].rev \in Nat /\ inputs[t].stamp[1] = cores[x].rev /\ inputs[t].stamp = Stamp(x)
      /\ cores[x].pending
  BY <1>1, <1>2, <1>4, StampIs DEF Held
<1>6. PICK to \in {"installed", "undone", "repaired", "revoked"} :
         /\ inputs' = [inputs EXCEPT ![t].stage = to]
         /\ to = "installed" => disk' = [disk EXCEPT ![x] = cores[x].rev]
         /\ to \in {"undone", "repaired"} => disk' = disk
         /\ to = "revoked" => disk' = [disk EXCEPT ![x] = None]
  BY <1>2, <1>5 DEF Install
<1>7. /\ Tokens' = Tokens /\ inputs' \in [Tokens' -> Input_]
      /\ Same(t, inputs'[t]) /\ inputs'[t].stage = to /\ inputs'[t].stamp = inputs[t].stamp
      /\ \A u \in Tokens : u # t => inputs'[u] = inputs[u]
  <2>1. to \in Stages
    BY DEF Stages
  <2> QED BY <1>1, <1>6, <2>1, StageIs
<1>8. /\ disk' \in [Session -> Nat]
      /\ \A s \in Session : s # x => disk'[s] = disk[s]
      /\ to = "installed" => disk'[x] = cores[x].rev
      /\ to \in {"undone", "repaired"} => disk'[x] = disk[x]
      /\ to = "revoked" => disk'[x] = None
  <2>1. disk \in [Session -> Nat] /\ None \in Nat
    BY <1>1 DEF TypeOK, None
  <2> QED BY <1>5, <1>6, <2>1
<1>9. ASSUME NEW s \in Session PROVE FenceInv(s)' /\ SavedInv(s)'
  <2>1. CASE s # x
    <3>1. FenceInv(s) /\ SavedInv(s)
      BY <1>1 DEF Files
    <3>2. \A u : u \in Jobs(s)' <=> u \in Jobs(s)
      BY <1>2, <1>7, JobsAre DEF Same
    <3>3. \A u \in Jobs(s) : inputs'[u] = inputs[u]
      BY <1>2, <1>7, <2>1, JobsAre
    <3>4. Steady(s)
      BY <1>3, <1>8, <2>1, <3>2, <3>3 DEF Steady
    <3> QED BY <3>1, <3>4, SteadyKeeps
  <2>2. CASE s = x
    <3>1. \A u : u \in Jobs(x)' <=> u \in Jobs(x)
      BY <1>2, <1>7, JobsAre DEF Same
    <3>2. \A u \in Jobs(x)' : u # t => ~Installing(u)'
      BY <1>4, <1>7, <3>1, JobsAre DEF Installing
    <3>3. inputs'[t].session = x /\ Stamp(x)' = Stamp(x)
      BY <1>2, <1>3, <1>7 DEF Same, Stamp
    <3>4. Held(t)' /\ Installing(t)'
      <4>1. Installing(t)'
        BY <1>7 DEF Installing
      <4>2. Held(t)'
        BY <1>3, <1>4, <1>5, <1>7, <1>8, <3>3 DEF Held
      <4> QED BY <4>1, <4>2
    <3>5. FenceInv(x)'
      BY <1>3, <1>4, <3>1, <3>2, <3>4 DEF FenceInv
    <3>6. SavedInv(x)'
      BY <1>3, <1>4, <1>7, <1>8, <3>1 DEF SavedInv
    <3> QED BY <2>2, <3>5, <3>6
  <2> QED BY <2>1, <2>2
<1>10. Files'
  BY <1>9 DEF Files
<1>11. entries' \in [Session -> Bound_] /\ cores' \in [Session -> Core_] /\ requests' \in Nat
  BY <1>1, <1>3 DEF TypeOK
<1>12. \A u \in Tokens : inputs'[u].session = inputs[u].session /\ inputs'[u].gen = inputs[u].gen
  BY <1>7, JobKeeps
<1> QED BY <1>3, <1>7, <1>8, <1>10, <1>11, <1>12, StillKeeps

-----------------------------------------------------------------------------
(* What is counted. *)

(* The jobs of a session can be counted. *)
LEMMA JobsFinite ==
  ASSUME TypeOK, NEW s
  PROVE  IsFiniteSet(Jobs(s)) /\ Cardinality(Jobs(s)) \in Nat
<1>1. MaxJobs \in Nat /\ Jobs(s) \subseteq 1..MaxJobs
  BY HostAssumption DEF TypeOK, Jobs
<1>2. IsFiniteSet(1..MaxJobs)
  BY <1>1, FS_Interval
<1>3. IsFiniteSet(Jobs(s))
  BY <1>1, <1>2, FS_Subset
<1> QED BY <1>3, FS_CardinalityType

(* The item of a job counts nothing. *)
LEMMA IoTaken ==
  ASSUME TypeOK,
         work' = work \/ \E i \in 1..Len(work) : work[i].kind = "io" /\ work' = RemoveAt(work, i),
         NEW s
  PROVE  Units(work', s) = Units(work, s)
<1>1. CASE work' = work
  BY <1>1
<1>2. ASSUME NEW i \in 1..Len(work), work[i].kind = "io", work' = RemoveAt(work, i)
      PROVE  Units(work', s) = Units(work, s)
  <2>0. work \in Seq(Work_)
    BY DEF TypeOK
  <2>1. Units(work, s) = Units(RemoveAt(work, i), s) + UnitsIn(work[i], s)
    BY <2>0, UnitsTaken
  <2>2. UnitsIn(work[i], s) = 0
    BY <1>2 DEF UnitsIn, Counts, Writes, Stroke
  <2>3. RemoveAt(work, i) \in Seq(Work_)
    BY <2>0, TakeIs
  <2>4. Units(RemoveAt(work, i), s) \in Nat
    BY <2>3, UnitsTyped
  <2> QED BY <1>2, <2>1, <2>2, <2>4
<1> QED BY <1>1, <1>2

(* ProcessFileIo keeps the invariant, the count of the job that ended     *)
(* included.                                                              *)
LEMMA FileIoKeeps ==
  ASSUME IInv, NEW t \in Tokens, ProcessFileIo(t)
  PROVE  IInv'
<1>0. TypeOK /\ HostInv /\ Files /\ CountInv
  BY DEF IInv, HostInv
<1>1. TurnDone(t)
  BY <1>0, FileIoDone
<1>2. HostInv' /\ Files'
  BY <1>1 DEF TurnDone
<1>3. ASSUME NEW s \in Session PROVE published'[s].pending = Pending(s)'
  <2>1. Units(work', s) = Units(work, s) /\ Units(work, s) \in Nat
    <3>1. work \in Seq(Work_)
      BY <1>0 DEF TypeOK
    <3>2. work' = work \/ \E i \in 1..Len(work) : work[i].kind = "io" /\ work' = RemoveAt(work, i)
      BY <1>1 DEF TurnDone
    <3> QED BY <1>0, <3>1, <3>2, IoTaken, UnitsTyped
  <2>2. /\ IsFiniteSet(Jobs(s)) /\ Cardinality(Jobs(s)) \in Nat
        /\ published[s].pending = Units(work, s) + Cardinality(Jobs(s))
    BY <1>0, JobsFinite DEF CountInv, Pending
  <2>3. CASE Gone(t) /\ s = inputs[t].session
    <3>1. \A u : u \in Jobs(s)' <=> u \in Jobs(s) \ {t}
      BY <2>3, JobsAre DEF Gone
    <3>2. t \in Jobs(s) /\ Jobs(s)' = Jobs(s) \ {t}
      BY <2>3, <3>1, JobsAre
    <3>3. Cardinality(Jobs(s)') = Cardinality(Jobs(s)) - 1
      BY <2>2, <3>2, FS_RemoveElement
    <3>4. Cardinality(Jobs(s)) # 0
      BY <2>2, <3>2, FS_EmptySet
    <3>5. published'[s].pending = IF published[s].pending > 1 THEN published[s].pending - 1 ELSE 0
      BY <2>3 DEF Gone
    <3> QED BY <2>1, <2>2, <3>3, <3>4, <3>5 DEF Pending
  <2>4. CASE Gone(t) /\ s # inputs[t].session
    <3>1. \A u : u \in Jobs(s)' <=> u \in Jobs(s)
      BY <2>4, JobsAre DEF Gone
    <3>2. Jobs(s)' = Jobs(s) /\ published'[s] = published[s]
      BY <2>4, <3>1 DEF Gone
    <3> QED BY <2>1, <2>2, <3>2 DEF Pending
  <2>5. ASSUME NEW stage, NEW stamp, Stays(t, stage, stamp)
        PROVE  published'[s].pending = Pending(s)'
    <3>1. \A u : u \in Jobs(s)' <=> u \in Jobs(s)
      BY <2>5, JobsAre DEF Stays, Same
    <3>2. Jobs(s)' = Jobs(s) /\ published'[s] = published[s]
      BY <2>5, <3>1 DEF Stays
    <3> QED BY <2>1, <2>2, <3>2 DEF Pending
  <2> QED BY <1>1, <2>3, <2>4, <2>5 DEF TurnDone
<1>4. CountInv'
  BY <1>3 DEF CountInv
<1> QED BY <1>2, <1>4 DEF IInv

-----------------------------------------------------------------------------
(* Edits and strokes. *)

(* Edits and strokes are processed in no fence. *)
LEMMA Unfencing ==
  ASSUME NEW w, w.kind \in Writes, CanProcess(w), Bound(w)
  PROVE  entries[w.session].fence = None
BY DEF CanProcess, Writes, Stroke, IsControl, Fenced

(* A Core moves on only when its session is not fenced. *)
LEMMA MovesKeep ==
  ASSUME TypeOK, Files, NEW x \in Session, inputs' = inputs, disk' = disk,
         \A s \in Session : entries'[s].fence = entries[s].fence,
         \/ cores' = cores
         \/ entries[x].fence = None /\ cores' = [cores EXCEPT ![x].rev = @ + 1]
  PROVE  Files' /\ cores' \in [Session -> Core_]
<1>0. Tokens' = Tokens
  BY DEF Tokens
<1>1. \A s, u : u \in Jobs(s)' <=> u \in Jobs(s)
  BY <1>0, JobsAre
<1>2. CASE cores' = cores
  <2>1. \A s \in Session : Steady(s)
    BY <1>1, <1>2 DEF Steady
  <2> QED BY <1>2, <2>1, SteadyFiles DEF TypeOK
<1>3. CASE entries[x].fence = None /\ cores' = [cores EXCEPT ![x].rev = @ + 1]
  <2>1. PICK c \in Core_ : c = cores[x]
    BY Shapes
  <2>2. PICK n \in Nat : n = c.rev + 1
    BY DEF Core_
  <2>3. PICK d : d = [c EXCEPT !.rev = n]
    OBVIOUS
  <2>4. d \in Core_ /\ d.saved = c.saved
    BY <2>3 DEF Core_
  <2>5. cores' = [cores EXCEPT ![x] = d]
    BY <1>3, <2>1, <2>2, <2>3
  <2>6. /\ cores' \in [Session -> Core_] /\ cores'[x] = d
        /\ \A r \in Session : r # x => cores'[r] = cores[r]
    BY <2>4, <2>5, CoreIs
  <2>7. Clear(x)
    <3>1. FenceInv(x) /\ SavedInv(x)
      BY DEF Files
    <3> QED BY <1>3, <3>1, JobsTyped, Unheld
  <2>8. ASSUME NEW s \in Session PROVE FenceInv(s)' /\ SavedInv(s)'
    <3>1. CASE s # x
      <4>1. FenceInv(s) /\ SavedInv(s)
        BY DEF Files
      <4>2. Steady(s)
        BY <1>1, <2>6, <3>1 DEF Steady
      <4> QED BY <4>1, <4>2, SteadyKeeps
    <3>2. CASE s = x
      <4>1. entries'[x].fence = None /\ cores'[x].saved = disk'[x]
        BY <2>1, <2>4, <2>6, <2>7 DEF Clear
      <4>2. \A t \in Jobs(x)' : ~Installing(t)'
        BY <1>1, <2>7 DEF Clear, Installing
      <4> QED BY <3>2, <4>1, <4>2, ClearKeeps
    <3> QED BY <3>1, <3>2
  <2> QED BY <2>6, <2>8 DEF Files
<1> QED BY <1>2, <1>3

(* An edit or a stroke that is processed takes its units from the count. *)
LEMMA WriteKeeps ==
  ASSUME IInv, NEW i \in 1..Len(work), work[i].kind \in Writes,
         engine = "running", work' = RemoveAt(work, i), Complete(work[i]),
         UNCHANGED <<disk, inputs, stopping, engine, ui, requests>>,
         entries' \in [Session -> Bound_],
         \A s \in Session : entries'[s].gen = entries[s].gen,
         cores' \in [Session -> Core_], Files'
  PROVE  IInv'
<1>0. TypeOK /\ HostInv /\ CountInv /\ OwnInv
  BY DEF IInv, HostInv
<1>1. /\ work \in Seq(Work_) /\ work[i] \in Work_ /\ work[i].session \in Session
      /\ work[i].units \in Nat \ {0} /\ published[work[i].session].gen = work[i].gen
  <2>1. work \in Seq(Work_) /\ work[i] \in Work_
    BY <1>0, Shapes DEF TypeOK
  <2>2. published[work[i].session].gen = work[i].gen
    BY <1>0 DEF OwnInv
  <2> QED BY <2>1, <2>2 DEF Work_
<1>2. /\ published' \in [Session -> Published_]
      /\ \A s \in Session : /\ published'[s].gen = published[s].gen
                            /\ published'[s].accepting = published[s].accepting
                            /\ s # work[i].session => published'[s] = published[s]
      /\ published'[work[i].session].pending =
            IF published[work[i].session].pending > work[i].units
            THEN published[work[i].session].pending - work[i].units ELSE 0
  <2>1. work[i].units \in Nat
    BY <1>1
  <2> QED BY <1>0, <1>1, <2>1, CompleteIs
<1>3. Tokens' = Tokens /\ inputs' \in [Tokens' -> Input_]
  BY <1>0, SameTyped
<1>4. HostInv'
  <2>1. Takes
    BY DEF Takes
  <2>2. TypeOK'
    <3>1. disk' \in [Session -> Nat] /\ requests' \in Nat
      BY <1>0 DEF TypeOK
    <3> QED BY <1>0, <1>2, <1>3, <2>1, <3>1, TypeFrame
  <2>3. Quiet
    BY <1>2, <1>3 DEF Quiet
  <2> QED BY <1>0, <2>2, <2>3, QuietKeeps
<1>5. ASSUME NEW s \in Session PROVE published'[s].pending = Pending(s)'
  <2>1. Jobs(s)' = Jobs(s)
    BY <1>3 DEF Jobs
  <2>2. Units(work, s) = Units(work', s) + UnitsIn(work[i], s)
    BY <1>1, UnitsTaken
  <2>3. Units(work', s) \in Nat
    <3>1. RemoveAt(work, i) \in Seq(Work_)
      BY <1>1, TakeIs
    <3> QED BY <3>1, UnitsTyped
  <2>4. published[s].pending = Units(work, s) + Cardinality(Jobs(s)) /\ Cardinality(Jobs(s)) \in Nat
    BY <1>0, JobsFinite DEF CountInv, Pending
  <2>5. CASE s = work[i].session
    <3>1. UnitsIn(work[i], s) = work[i].units
      BY <2>5 DEF UnitsIn, Counts
    <3>2. published'[s].pending = IF published[s].pending > work[i].units
                                  THEN published[s].pending - work[i].units ELSE 0
      BY <1>2, <2>5
    <3>3. Pending(s)' = Units(work', s) + Cardinality(Jobs(s))
      BY <2>1 DEF Pending
    <3>4. PICK u \in Nat : u = work[i].units
      BY <1>1
    <3>5. published[s].pending = Units(work', s) + u + Cardinality(Jobs(s))
      BY <2>2, <2>4, <3>1, <3>4
    <3>6. published'[s].pending = Units(work', s) + Cardinality(Jobs(s))
      BY <2>3, <2>4, <3>2, <3>4, <3>5
    <3> QED BY <3>3, <3>6
  <2>6. CASE s # work[i].session
    <3>1. UnitsIn(work[i], s) = 0
      BY <2>6 DEF UnitsIn, Counts
    <3>2. published'[s] = published[s]
      BY <1>2, <2>6
    <3> QED BY <2>1, <2>2, <2>3, <2>4, <3>1, <3>2 DEF Pending
  <2> QED BY <2>5, <2>6
<1>6. CountInv'
  BY <1>5 DEF CountInv
<1> QED BY <1>4, <1>6 DEF IInv

(* ProcessEdit keeps the invariant. *)
LEMMA EditKeeps ==
  ASSUME IInv, ProcessEdit
  PROVE  IInv'
<1>0. TypeOK /\ Files
  BY DEF IInv, HostInv
<1>1. PICK i \in DOMAIN work :
          /\ work[i].kind = "edit" /\ Turn(i) /\ Complete(work[i])
          /\ cores' = IF Bound(work[i]) /\ Editable(work[i].session)
                      THEN [cores EXCEPT ![work[i].session].rev = @ + 1] ELSE cores
  BY DEF ProcessEdit
<1>2. UNCHANGED <<entries, disk, inputs, stopping, engine, ui, requests>>
  BY DEF ProcessEdit
<1>3. /\ engine = "running" /\ i \in 1..Len(work) /\ CanProcess(work[i])
      /\ work' = RemoveAt(work, i)
  BY <1>0, <1>1, TurnIs
<1>4. PICK x \in Session : x = work[i].session
  BY <1>0, <1>3, Shapes DEF Work_
<1>5. work[i].kind \in Writes
  BY <1>1 DEF Writes
<1>6. \/ cores' = cores
      \/ entries[x].fence = None /\ cores' = [cores EXCEPT ![x].rev = @ + 1]
  BY <1>1, <1>3, <1>4, <1>5, Unfencing
<1>7. Files' /\ cores' \in [Session -> Core_]
  BY <1>0, <1>2, <1>6, MovesKeep
<1>8. entries' \in [Session -> Bound_] /\ \A s \in Session : entries'[s].gen = entries[s].gen
  BY <1>0, <1>2 DEF TypeOK
<1> QED BY <1>1, <1>2, <1>3, <1>5, <1>7, <1>8, WriteKeeps

(* ProcessStroke keeps the invariant. *)
LEMMA StrokeKeeps ==
  ASSUME IInv, ProcessStroke
  PROVE  IInv'
<1>0. TypeOK /\ Files
  BY DEF IInv, HostInv
<1>1. PICK i \in DOMAIN work, b \in BOOLEAN, c \in BOOLEAN :
          /\ work[i].kind \in Stroke /\ Turn(i) /\ Complete(work[i])
          /\ entries' = IF ~Bound(work[i]) THEN entries
                        ELSE [entries EXCEPT ![work[i].session].stroke = b]
          /\ cores' = IF Bound(work[i]) /\ c
                      THEN [cores EXCEPT ![work[i].session].rev = @ + 1] ELSE cores
  <2>1. PICK i \in DOMAIN work, ok \in BOOLEAN :
          LET w == work[i]
              s == w.session
              goes == ok /\ IF w.kind = "begin" THEN Editable(s)
                            ELSE entries[s].stroke
          IN  /\ w.kind \in Stroke
              /\ Turn(i)
              /\ Complete(w)
              /\ entries' = IF ~Bound(w) THEN entries
                            ELSE [entries EXCEPT ![s].stroke =
                                     goes /\ w.kind \in {"begin", "append"}]
              /\ cores' = IF Bound(w) /\ goes /\ w.kind = "end"
                          THEN [cores EXCEPT ![s].rev = @ + 1] ELSE cores
    BY DEF ProcessStroke
  <2>2. PICK g \in BOOLEAN :
              /\ work[i].kind \in Stroke
              /\ Turn(i)
              /\ Complete(work[i])
              /\ entries' = IF ~Bound(work[i]) THEN entries
                            ELSE [entries EXCEPT ![work[i].session].stroke =
                                     g /\ work[i].kind \in {"begin", "append"}]
              /\ cores' = IF Bound(work[i]) /\ g /\ work[i].kind = "end"
                          THEN [cores EXCEPT ![work[i].session].rev = @ + 1] ELSE cores
    BY <2>1
  <2>3. PICK b \in BOOLEAN, c \in BOOLEAN : b = (g /\ work[i].kind \in {"begin", "append"})
                                            /\ c = (g /\ work[i].kind = "end")
    OBVIOUS
  <2> QED BY <2>2, <2>3
<1>2. UNCHANGED <<disk, inputs, stopping, engine, ui, requests>>
  BY DEF ProcessStroke
<1>3. /\ engine = "running" /\ i \in 1..Len(work) /\ CanProcess(work[i])
      /\ work' = RemoveAt(work, i)
  BY <1>0, <1>1, TurnIs
<1>4. PICK x \in Session : x = work[i].session
  BY <1>0, <1>3, Shapes DEF Work_
<1>5. work[i].kind \in Writes
  BY <1>1 DEF Writes
<1>6. \/ cores' = cores
      \/ entries[x].fence = None /\ cores' = [cores EXCEPT ![x].rev = @ + 1]
  BY <1>1, <1>3, <1>4, <1>5, Unfencing
<1>7. entries' \in [Session -> Bound_] /\ \A s \in Session : entries'[s].gen = entries[s].gen
                                                          /\ entries'[s].fence = entries[s].fence
  <2>1. entries \in [Session -> Bound_]
    BY <1>0 DEF TypeOK
  <2>2. PICK e \in Bound_ : e = entries[x]
    BY <2>1
  <2>3. PICK d : d = [e EXCEPT !.stroke = b]
    OBVIOUS
  <2>4. d \in Bound_ /\ d.gen = e.gen /\ d.fence = e.fence
    BY <2>3 DEF Bound_
  <2>5. entries' = entries \/ entries' = [entries EXCEPT ![x] = d]
    BY <1>1, <1>4, <2>1, <2>2, <2>3
  <2> QED BY <2>1, <2>2, <2>4, <2>5
<1>8. Files' /\ cores' \in [Session -> Core_]
  BY <1>0, <1>2, <1>6, <1>7, MovesKeep
<1> QED BY <1>1, <1>2, <1>3, <1>5, <1>7, <1>8, WriteKeeps

-----------------------------------------------------------------------------
(* The UI thread. *)

(* While the UI waits for nothing the engine runs, and no control waits.   *)
LEMMA FreeIs ==
  ASSUME HostInv, ui = Free
  PROVE  /\ ~stopping /\ engine = "running"
         /\ \A i \in 1..Len(work) : work[i].kind \notin Controls
<1>1. ui.op = "none" /\ ui.status = "done"
  BY DEF Free
<1>2. stopping \in BOOLEAN /\ engine \in {"running", "gone"}
  BY DEF HostInv, TypeOK
<1>3. ~stopping /\ engine = "running"
  BY <1>1, <1>2 DEF HostInv, CallInv
<1>4. \A i \in 1..Len(work) : work[i].kind \notin Controls
  BY <1>1 DEF HostInv, ItemInv
<1> QED BY <1>3, <1>4

(* What the UI queues is an item. *)
LEMMA WorkTyped ==
  ASSUME TypeOK, NEW s \in Session, NEW k \in Controls \cup Writes \cup {"io"},
         NEW t \in 0..MaxJobs, NEW d \in BOOLEAN, NEW g \in Generation \cup {None},
         NEW w, w = [kind |-> k, session |-> s, gen |-> published[s].gen,
                     units |-> 1, token |-> t, defer |-> d, to |-> g]
  PROVE  w \in Work_
<1>1. published[s].gen \in Generation \cup {None}
  BY Shapes DEF Published_
<1> QED BY <1>1 DEF Work_

(* The item is at the end of the queue. *)
LEMMA AppendIs ==
  ASSUME TypeOK, NEW w \in Work_, work' = Append(work, w)
  PROVE  /\ work' \in Seq(Work_) /\ Len(work) \in Nat /\ Len(work') = Len(work) + 1
         /\ \A i \in 1..Len(work) : work'[i] = work[i]
         /\ work'[Len(work) + 1] = w
         /\ \A i \in 1..Len(work') : \/ i \in 1..Len(work) /\ work'[i] = work[i]
                                     \/ i = Len(work') /\ work'[i] = w
         /\ \A s : Units(work', s) = Units(work, s) + UnitsIn(w, s)
<1>0. work \in Seq(Work_)
  BY DEF TypeOK
<1>1. /\ work' \in Seq(Work_) /\ Len(work) \in Nat /\ Len(work') = Len(work) + 1
      /\ \A i \in 1..Len(work) : work'[i] = work[i]
      /\ work'[Len(work) + 1] = w
  BY <1>0, LenProperties
<1>2. \A i \in 1..Len(work') : \/ i \in 1..Len(work) /\ work'[i] = work[i]
                               \/ i = Len(work') /\ work'[i] = w
  BY <1>1
<1>3. \A s : Units(work', s) = Units(work, s) + UnitsIn(w, s)
  BY <1>0, UnitsAppended
<1> QED BY <1>1, <1>2, <1>3

(* What Accept counts. *)
LEMMA AcceptIs ==
  ASSUME TypeOK, NEW x \in Session, Accept(x)
  PROVE  /\ ui = Free /\ published[x].accepting
         /\ published' \in [Session -> Published_] /\ requests' \in Nat
         /\ \A s \in Session : /\ published'[s].gen = published[s].gen
                               /\ published'[s].accepting = published[s].accepting
                               /\ s # x => published'[s] = published[s]
         /\ published'[x].pending = published[x].pending + 1
<1>0. published \in [Session -> Published_] /\ requests \in Nat
  BY DEF TypeOK
<1>1. PICK p \in Published_ : p = published[x]
  BY <1>0
<1>2. PICK n \in Nat : n = p.pending + 1
  BY DEF Published_
<1>3. PICK d : d = [p EXCEPT !.pending = n]
  OBVIOUS
<1>4. d \in Published_ /\ d.gen = p.gen /\ d.accepting = p.accepting /\ d.pending = n
  BY <1>3 DEF Published_
<1>5. published' = [published EXCEPT ![x] = d]
  BY <1>0, <1>1, <1>2, <1>3 DEF Accept
<1>6. published' \in [Session -> Published_]
      /\ \A s \in Session : published'[s] = IF s = x THEN d ELSE published[s]
  BY <1>0, <1>4, <1>5
<1>7. ui = Free /\ published[x].accepting /\ requests' \in Nat
  BY <1>0 DEF Accept, Asks
<1> QED BY <1>1, <1>2, <1>4, <1>6, <1>7

(* Work that is accepted is of the published binding. *)
LEMMA PushedKeeps ==
  ASSUME IInv, NEW x \in Session, Accept(x),
         work' \in Seq(Work_), Tokens' \subseteq 1..MaxJobs, inputs' \in [Tokens' -> Input_],
         \A i \in 1..Len(work') :
            \/ \E j \in 1..Len(work) : /\ work'[i].kind = work[j].kind
                                       /\ work'[i].session = work[j].session
                                       /\ work'[i].gen = work[j].gen
            \/ /\ work'[i].kind \in Writes \cup {"io"}
               /\ work'[i].session = x /\ work'[i].gen = published[x].gen,
         \A t \in Tokens' :
            \/ t \in Tokens /\ inputs'[t] = inputs[t]
            \/ inputs'[t].session = x /\ inputs'[t].gen = published[x].gen,
         UNCHANGED <<entries, cores, disk, stopping, engine, ui>>
  PROVE  HostInv'
<1>0. TypeOK /\ HostInv
  BY DEF IInv, HostInv
<1>1. /\ ui = Free /\ published[x].accepting
      /\ published' \in [Session -> Published_] /\ requests' \in Nat
      /\ \A s \in Session : /\ published'[s].gen = published[s].gen
                            /\ published'[s].accepting = published[s].accepting
  BY <1>0, AcceptIs
<1>2. /\ ~stopping /\ engine = "running"
      /\ \A i \in 1..Len(work) : work[i].kind \notin Controls
  BY <1>0, <1>1, FreeIs
<1>3. ui.status = "done"
  BY <1>1 DEF Free
<1>4. published[x].gen # None
  BY <1>0, <1>1 DEF HostInv, BindingInv
<1>5. TypeOK'
  BY <1>0, <1>1 DEF TypeOK
<1>6. CallInv'
  BY <1>0, <1>2 DEF HostInv, CallInv
<1>7. ItemInv'
  <2>1. \A i \in 1..Len(work') : work'[i].kind \notin Controls
    BY <1>2 DEF Writes, Stroke, Controls
  <2> QED BY <2>1 DEF ItemInv
<1>8. BindingInv'
  BY <1>0, <1>1 DEF HostInv, BindingInv, Changing
<1>9. OwnInv'
  <2>0. ui' = ui /\ OwnInv
    BY <1>0 DEF HostInv
  <2>1. ASSUME NEW i \in 1..Len(work'), work'[i].kind \in Writes
        PROVE  work'[i].gen = published'[work'[i].session].gen /\ work'[i].gen # None
    <3>1. CASE work'[i].session = x /\ work'[i].gen = published[x].gen
      BY <1>1, <1>4, <3>1
    <3>2. ASSUME NEW j \in 1..Len(work), work'[i].kind = work[j].kind,
                 work'[i].session = work[j].session, work'[i].gen = work[j].gen
          PROVE  work'[i].gen = published'[work'[i].session].gen /\ work'[i].gen # None
      <4>1. work[j].gen = published[work[j].session].gen /\ work[j].gen # None
        BY <2>0, <2>1, <3>2 DEF OwnInv
      <4>2. work[j].session \in Session
        BY <1>0, Shapes DEF Work_
      <4> QED BY <1>1, <3>2, <4>1, <4>2
    <3> QED BY <3>1, <3>2
  <2>2. ASSUME NEW t \in Tokens'
        PROVE  inputs'[t].gen = published'[inputs'[t].session].gen
    <3>1. CASE inputs'[t].session = x /\ inputs'[t].gen = published[x].gen
      BY <1>1, <3>1
    <3>2. CASE t \in Tokens /\ inputs'[t] = inputs[t]
      <4>1. inputs[t].gen = published[inputs[t].session].gen /\ inputs[t].session \in Session
        BY <1>0, <2>0, <3>2, Shapes DEF OwnInv
      <4> QED BY <1>1, <3>2, <4>1
    <3> QED BY <3>1, <3>2
  <2> QED BY <1>3, <2>0, <2>1, <2>2 DEF OwnInv
<1> QED BY <1>5, <1>6, <1>7, <1>8, <1>9 DEF HostInv

(* One more of the session is counted. *)
LEMMA CountsOne ==
  ASSUME IInv, NEW x \in Session, Accept(x), NEW s \in Session,
         Pending(s)' = IF s = x THEN Pending(s) + 1 ELSE Pending(s)
  PROVE  published'[s].pending = Pending(s)'
<1>1. TypeOK /\ published[s].pending = Pending(s)
  BY DEF IInv, HostInv, CountInv
<1>2. s # x => published'[s] = published[s]
  BY <1>1, AcceptIs
<1>3. published'[x].pending = published[x].pending + 1
  BY <1>1, AcceptIs
<1> QED BY <1>1, <1>2, <1>3

(* Without its jobs the files of a session are steady. *)
LEMMA SameFiles ==
  ASSUME Files, inputs' = inputs, UNCHANGED <<cores, disk>>,
         \A s \in Session : entries'[s].fence = entries[s].fence
  PROVE  Files'
<1>1. Tokens' = Tokens
  BY DEF Tokens
<1>2. \A s, u : u \in Jobs(s)' <=> u \in Jobs(s)
  BY <1>1, JobsAre
<1>3. \A s \in Session : Steady(s)
  BY <1>2 DEF Steady
<1> QED BY <1>3, SteadyFiles

(* A write that is queued for itself. *)
LEMMA AppendedKeeps ==
  ASSUME IInv, NEW x \in Session, Accept(x), NEW w \in Work_, work' = Append(work, w),
         w.kind \in Writes, w.session = x, w.gen = published[x].gen, w.units = 1,
         UNCHANGED <<entries, cores, disk, inputs, stopping, engine, ui>>
  PROVE  IInv'
<1>0. TypeOK /\ Files
  BY DEF IInv, HostInv
<1>1. /\ work' \in Seq(Work_)
      /\ \A i \in 1..Len(work') : \/ i \in 1..Len(work) /\ work'[i] = work[i]
                                  \/ i = Len(work') /\ work'[i] = w
      /\ \A s : Units(work', s) = Units(work, s) + UnitsIn(w, s)
  BY <1>0, AppendIs
<1>2. Tokens' = Tokens /\ inputs' \in [Tokens' -> Input_] /\ Tokens' \subseteq 1..MaxJobs
  BY <1>0, SameTyped DEF TypeOK
<1>3. HostInv'
  BY <1>1, <1>2, PushedKeeps
<1>4. Files'
  BY <1>0, SameFiles
<1>5. ASSUME NEW s \in Session PROVE published'[s].pending = Pending(s)'
  <2>1. Jobs(s)' = Jobs(s) /\ Cardinality(Jobs(s)) \in Nat
    BY <1>0, <1>2, JobsFinite DEF Jobs
  <2>2. Units(work, s) \in Nat
    BY <1>0, UnitsTyped DEF TypeOK
  <2>3. UnitsIn(w, s) = IF s = x THEN 1 ELSE 0
    BY DEF UnitsIn, Counts
  <2>4. Pending(s)' = IF s = x THEN Pending(s) + 1 ELSE Pending(s)
    BY <1>1, <2>1, <2>2, <2>3 DEF Pending
  <2> QED BY <2>4, CountsOne
<1>6. CountInv'
  BY <1>5 DEF CountInv
<1> QED BY <1>3, <1>4, <1>6 DEF IInv

(* PushEdit keeps the invariant. *)
LEMMA PushEditKeeps ==
  ASSUME IInv, NEW x \in Session, NEW d \in BOOLEAN, PushEdit(x, d)
  PROVE  IInv'
<1>0. TypeOK
  BY DEF IInv, HostInv
<1>1. PICK w : w = [kind |-> "edit", session |-> x, gen |-> published[x].gen,
                    units |-> 1, token |-> None, defer |-> d, to |-> None]
  OBVIOUS
<1>2. w \in Work_
  <2>1. None \in 0..MaxJobs /\ None \in Generation \cup {None} /\ "edit" \in Writes
    BY HostAssumption DEF None, Writes
  <2> QED BY <1>0, <1>1, <2>1, WorkTyped
<1>3. work' = Append(work, w)
  BY <1>1 DEF PushEdit, Work
<1>4. w.kind \in Writes /\ w.session = x /\ w.gen = published[x].gen /\ w.units = 1
  BY <1>1 DEF Writes
<1> QED BY <1>2, <1>3, <1>4, AppendedKeeps DEF PushEdit

(* An append joins an append of its session at the end of the queue. *)
LEMMA JoinedKeeps ==
  ASSUME IInv, NEW x \in Session, Accept(x), NEW w,
         w = [kind |-> "append", session |-> x, gen |-> published[x].gen,
              units |-> 1, token |-> None, defer |-> TRUE, to |-> None],
         Joins(w), work' = [work EXCEPT ![Len(work)].units = @ + 1],
         UNCHANGED <<entries, cores, disk, inputs, stopping, engine, ui>>
  PROVE  IInv'
<1>0. TypeOK /\ Files /\ work \in Seq(Work_)
  BY DEF IInv, HostInv, TypeOK
<1>1. PICK n : n = Len(work)
  OBVIOUS
<1>2. n \in 1..Len(work) /\ work # <<>> /\ Len(work) \in Nat
  BY <1>0, <1>1, EmptySeq, LenProperties DEF Joins
<1>3. PICK l \in Work_ : l = work[n]
  BY <1>0, <1>2, Shapes
<1>4. l.kind = "append" /\ l.session = x /\ l.gen = published[x].gen
  <2>1. Last(work) = l
    BY <1>1, <1>3 DEF Last
  <2>2. [l EXCEPT !.units = w.units] = w
    BY <2>1 DEF Joins
  <2>3. /\ l.kind = [l EXCEPT !.units = w.units].kind
        /\ l.session = [l EXCEPT !.units = w.units].session
        /\ l.gen = [l EXCEPT !.units = w.units].gen
    BY DEF Work_
  <2> QED BY <2>2, <2>3
<1>5. PICK u \in Nat \ {0} : u = l.units + 1
  BY DEF Work_
<1>6. PICK m : m = [l EXCEPT !.units = u]
  OBVIOUS
<1>7. m \in Work_ /\ m.kind = l.kind /\ m.session = l.session /\ m.gen = l.gen /\ m.units = u
  BY <1>6 DEF Work_
<1>8. work' = [work EXCEPT ![n] = m]
  BY <1>1, <1>3, <1>5, <1>6
<1>9. /\ work' \in Seq(Work_) /\ Len(work') = Len(work)
      /\ \A i \in 1..Len(work) : work'[i] = IF i = n THEN m ELSE work[i]
  <2>1. PICK q \in Seq(Work_) : q = work
    BY <1>0
  <2>2. n \in 1..Len(q) /\ m \in Work_
    BY <1>2, <1>7, <2>1
  <2>3. /\ [q EXCEPT ![n] = m] \in Seq(Work_) /\ Len([q EXCEPT ![n] = m]) = Len(q)
        /\ \A i \in 1..Len(q) : [q EXCEPT ![n] = m][i] = IF i = n THEN m ELSE q[i]
    BY <2>2, ExceptSeq
  <2> QED BY <1>8, <2>1, <2>3
<1>10. Tokens' = Tokens /\ inputs' \in [Tokens' -> Input_] /\ Tokens' \subseteq 1..MaxJobs
  BY <1>0, SameTyped DEF TypeOK
<1>11. HostInv'
  <2>1. \A i \in 1..Len(work') : /\ i \in 1..Len(work) /\ work'[i].kind = work[i].kind
                                 /\ work'[i].session = work[i].session
                                 /\ work'[i].gen = work[i].gen
    BY <1>3, <1>7, <1>9
  <2> QED BY <1>9, <1>10, <2>1, PushedKeeps
<1>12. Files'
  BY <1>0, SameFiles
<1>13. ASSUME NEW s \in Session PROVE published'[s].pending = Pending(s)'
  <2>1. Jobs(s)' = Jobs(s) /\ Cardinality(Jobs(s)) \in Nat
    BY <1>0, <1>10, JobsFinite DEF Jobs
  <2>2. Units(work, s) \in Nat
    BY <1>0, UnitsTyped
  <2>3. Units(work', s) = Units(work, s) + IF Counts(work[n], s) THEN 1 ELSE 0
    <3>1. /\ \A i \in 1..Len(work) : i # n => work'[i] = work[i]
          /\ work'[n].session = work[n].session /\ work'[n].kind = work[n].kind
          /\ work'[n].units = work[n].units + 1
      BY <1>2, <1>3, <1>5, <1>7, <1>9
    <3>2. PICK q \in Seq(Work_) : q = work
      BY <1>0
    <3>3. PICK r \in Seq(Work_) : r = work'
      BY <1>9
    <3>4. /\ Len(r) = Len(q) /\ n \in 1..Len(q)
          /\ \A i \in 1..Len(q) : i # n => r[i] = q[i]
          /\ r[n].session = q[n].session /\ r[n].kind = q[n].kind
          /\ r[n].units = q[n].units + 1
      BY <1>2, <1>9, <3>1, <3>2, <3>3
    <3>5. Units(r, s) = Units(q, s) + IF Counts(q[n], s) THEN 1 ELSE 0
      BY <3>4, UnitsJoined
    <3> QED BY <3>2, <3>3, <3>5
  <2>4. Counts(work[n], s) <=> s = x
    BY <1>3, <1>4 DEF Counts, Writes, Stroke
  <2>5. Pending(s)' = IF s = x THEN Pending(s) + 1 ELSE Pending(s)
    BY <2>1, <2>2, <2>3, <2>4 DEF Pending
  <2> QED BY <2>5, CountsOne
<1>14. CountInv'
  BY <1>13 DEF CountInv
<1> QED BY <1>11, <1>12, <1>14 DEF IInv

(* PushStroke keeps the invariant, joined to the last item or not. *)
LEMMA PushStrokeKeeps ==
  ASSUME IInv, NEW x \in Session, NEW k \in Stroke, PushStroke(x, k)
  PROVE  IInv'
<1>0. TypeOK
  BY DEF IInv, HostInv
<1>1. PICK w : w = [kind |-> k, session |-> x, gen |-> published[x].gen,
                    units |-> 1, token |-> None, defer |-> TRUE, to |-> None]
  OBVIOUS
<1>2. w = Work(k, x)
  BY <1>1 DEF Work
<1>3. /\ Accept(x)
      /\ work' = IF Joins(w) THEN [work EXCEPT ![Len(work)].units = @ + 1] ELSE Append(work, w)
      /\ UNCHANGED <<entries, cores, disk, inputs, stopping, engine, ui>>
  BY <1>2 DEF PushStroke
<1>4. CASE Joins(w)
  <2>1. k = "append"
    BY <1>1, <1>4 DEF Joins
  <2> QED BY <1>1, <1>3, <1>4, <2>1, JoinedKeeps
<1>5. CASE ~Joins(w)
  <2>1. w \in Work_
    <3>1. None \in 0..MaxJobs /\ None \in Generation \cup {None} /\ k \in Writes
      BY HostAssumption DEF None, Writes
    <3> QED BY <1>0, <1>1, <3>1, WorkTyped
  <2>2. w.kind \in Writes /\ w.session = x /\ w.gen = published[x].gen /\ w.units = 1
    BY <1>1 DEF Writes
  <2> QED BY <1>3, <1>5, <2>1, <2>2, AppendedKeeps
<1> QED BY <1>4, <1>5

(* EnqueueFileIo keeps the invariant: a token that is free gets a job and *)
(* an item.                                                               *)
LEMMA EnqueueKeeps ==
  ASSUME IInv, NEW x \in Session, NEW k \in {"save", "open"}, EnqueueFileIo(x, k)
  PROVE  IInv'
<1>0. TypeOK /\ Files /\ HostInv
  BY DEF IInv, HostInv
<1>1. PICK t \in 1..MaxJobs \ Tokens :
         /\ work' = Append(work, [Work("io", x) EXCEPT !.token = t])
         /\ inputs' = [u \in Tokens \cup {t} |->
                 IF u \in Tokens THEN inputs[u]
                 ELSE [session |-> x, gen |-> published[x].gen, kind |-> k,
                       units |-> 1, active |-> FALSE, cancelled |-> FALSE,
                       stage |-> "new", stamp |-> <<>>]]
  BY DEF EnqueueFileIo
<1>2. /\ Accept(x) /\ UNCHANGED <<entries, cores, disk, stopping, engine, ui>>
  BY DEF EnqueueFileIo
<1>3. PICK j : j = [session |-> x, gen |-> published[x].gen, kind |-> k,
                    units |-> 1, active |-> FALSE, cancelled |-> FALSE,
                    stage |-> "new", stamp |-> <<>>]
  OBVIOUS
<1>4. published[x].accepting /\ published[x].gen \in Generation
  <2>1. published[x].accepting
    BY <1>2 DEF Accept
  <2>2. published[x].gen # None /\ published[x].gen \in Generation \cup {None}
    BY <1>0, <2>1, Shapes DEF HostInv, BindingInv, Published_
  <2> QED BY <2>1, <2>2
<1>5. j \in Input_
  BY <1>3, <1>4 DEF Input_, Stages
<1>6. /\ Tokens' = Tokens \cup {t} /\ t \notin Tokens
      /\ inputs' = [u \in Tokens \cup {t} |-> IF u \in Tokens THEN inputs[u] ELSE j]
  BY <1>1, <1>3 DEF Tokens
<1>7. /\ inputs'[t] = j /\ \A u \in Tokens : inputs'[u] = inputs[u]
      /\ inputs' \in [Tokens' -> Input_]
  <2>1. inputs \in [Tokens -> Input_]
    BY <1>0 DEF TypeOK
  <2> QED BY <1>5, <1>6, <2>1
<1>8. PICK v : v = [kind |-> "io", session |-> x, gen |-> published[x].gen,
                    units |-> 1, token |-> None, defer |-> TRUE, to |-> None]
  OBVIOUS
<1>9. PICK w : w = [v EXCEPT !.token = t] /\ work' = Append(work, w)
  BY <1>1, <1>8 DEF Work
<1>10. w \in Work_ /\ w.kind = "io" /\ w.session = x /\ w.gen = published[x].gen
  <2>1. None \in Generation \cup {None} /\ t \in 0..MaxJobs /\ None \in 0..MaxJobs
    BY HostAssumption DEF None
  <2>2. v \in Work_
    BY <1>0, <1>8, <2>1, WorkTyped
  <2>3. v.kind = "io" /\ v.session = x /\ v.gen = published[x].gen
    BY <1>8
  <2> QED BY <1>9, <2>1, <2>2, <2>3 DEF Work_
<1>11. /\ work' \in Seq(Work_)
       /\ \A i \in 1..Len(work') : \/ i \in 1..Len(work) /\ work'[i] = work[i]
                                   \/ i = Len(work') /\ work'[i] = w
       /\ \A s : Units(work', s) = Units(work, s) + UnitsIn(w, s)
  BY <1>0, <1>9, <1>10, AppendIs
<1>12. HostInv'
  <2>1. Tokens' \subseteq 1..MaxJobs
    BY <1>0, <1>6 DEF TypeOK
  <2>2. \A u \in Tokens' : \/ u \in Tokens /\ inputs'[u] = inputs[u]
                           \/ inputs'[u].session = x /\ inputs'[u].gen = published[x].gen
    BY <1>3, <1>6, <1>7
  <2>3. \A i \in 1..Len(work') :
            \/ \E l \in 1..Len(work) : /\ work'[i].kind = work[l].kind
                                       /\ work'[i].session = work[l].session
                                       /\ work'[i].gen = work[l].gen
            \/ /\ work'[i].kind \in Writes \cup {"io"}
               /\ work'[i].session = x /\ work'[i].gen = published[x].gen
    BY <1>10, <1>11
  <2> QED BY <1>2, <1>7, <1>11, <2>1, <2>2, <2>3, PushedKeeps
<1>13. \A s, u : u \in Jobs(s)' <=> u \in Jobs(s) \/ (u = t /\ s = x)
  BY <1>3, <1>6, <1>7, JobsAre
<1>14. Files'
  <2>1. ASSUME NEW s \in Session PROVE Steady(s)
    <3>1. ~Installing(t)' /\ \A r : t \notin Jobs(r)
      BY <1>3, <1>6, <1>7, JobsAre DEF Installing
    <3>2. \A u \in Jobs(s) : inputs'[u] = inputs[u] /\ u \in Jobs(s)'
      BY <1>7, <1>13, JobsAre
    <3> QED BY <1>2, <1>13, <3>1, <3>2 DEF Steady
  <2> QED BY <1>0, <2>1, SteadyFiles
<1>15. ASSUME NEW s \in Session PROVE published'[s].pending = Pending(s)'
  <2>1. IsFiniteSet(Jobs(s)) /\ Cardinality(Jobs(s)) \in Nat
    BY <1>0, JobsFinite
  <2>2. Units(work', s) = Units(work, s) /\ Units(work, s) \in Nat
    <3>1. UnitsIn(w, s) = 0
      BY <1>10 DEF UnitsIn, Counts, Writes, Stroke
    <3>2. Units(work, s) \in Nat
      BY <1>0, UnitsTyped DEF TypeOK
    <3> QED BY <1>11, <3>1, <3>2
  <2>3. CASE s = x
    <3>1. Jobs(s)' = Jobs(s) \cup {t} /\ t \notin Jobs(s)
      BY <1>6, <1>13, <2>3, JobsAre
    <3>2. Cardinality(Jobs(s)') = Cardinality(Jobs(s)) + 1
      BY <2>1, <3>1, FS_AddElement
    <3>3. Pending(s)' = Pending(s) + 1
      BY <2>1, <2>2, <3>2 DEF Pending
    <3> QED BY <1>2, <2>3, <3>3, CountsOne
  <2>4. CASE s # x
    <3>1. Jobs(s)' = Jobs(s)
      BY <1>13, <2>4
    <3>2. Pending(s)' = Pending(s)
      BY <2>2, <3>1 DEF Pending
    <3> QED BY <1>2, <2>4, <3>2, CountsOne
  <2> QED BY <2>3, <2>4
<1>16. CountInv'
  BY <1>15 DEF CountInv
<1> QED BY <1>12, <1>14, <1>16 DEF IInv

(* A control is queued: it is the only one, and the last item.             *)
LEMMA ControlKeeps ==
  ASSUME IInv, NEW w \in Work_, Control(w), w.kind \in Controls,
         w.gen = published[w.session].gen,
         w.kind = "create" => w.gen = None,
         w.kind \in {"rebind", "close"} => w.gen # None,
         w.kind \in {"create", "rebind"} => w.to \in Generation,
         w.kind = "close" => w.to = None,
         published' \in [Session -> Published_],
         \A s \in Session : /\ published'[s].gen = published[s].gen
                            /\ published'[s].accepting => published[s].accepting
                            /\ published'[s].pending = published[s].pending
  PROVE  IInv'
<1>0. TypeOK /\ Files /\ HostInv /\ CountInv
  BY DEF IInv, HostInv
<1>1. /\ ui = Free /\ requests' = requests + 1
      /\ work' = Append(work, w)
      /\ ui' = [op |-> w.kind, session |-> w.session, to |-> w.to, status |-> "waits"]
      /\ UNCHANGED <<entries, cores, disk, inputs, stopping, engine>>
  BY DEF Control, Asks
<1>2. /\ ~stopping /\ engine = "running" /\ ui.status = "done"
      /\ \A i \in 1..Len(work) : work[i].kind \notin Controls
  BY <1>0, <1>1, FreeIs DEF Free
<1>3. /\ work' \in Seq(Work_) /\ Len(work) \in Nat
      /\ \A i \in 1..Len(work') : \/ i \in 1..Len(work) /\ work'[i] = work[i]
                                  \/ i = Len(work') /\ work'[i] = w
      /\ \A s : Units(work', s) = Units(work, s) + UnitsIn(w, s)
  BY <1>0, <1>1, AppendIs
<1>4. Tokens' = Tokens /\ inputs' \in [Tokens' -> Input_] /\ Tokens' \subseteq 1..MaxJobs
  BY <1>0, <1>1, SameTyped DEF TypeOK
<1>5. w.session \in Session /\ w.to \in Generation \cup {None} /\ w.kind \in Controls
  BY DEF Work_
<1>6. TypeOK'
  <2>1. ui' \in [op : Controls \cup {"none", "stop"}, session : Session \cup {None},
                 to : Generation \cup {None}, status : Statuses]
    BY <1>1, <1>5 DEF Statuses
  <2>2. requests' \in Nat
    BY <1>0, <1>1 DEF TypeOK
  <2> QED BY <1>0, <1>1, <1>3, <1>4, <2>1, <2>2 DEF TypeOK
<1>7. CallInv'
  <2>1. ui'.status = "waits" /\ ui'.op = w.kind /\ ui'.session = w.session /\ ui'.to = w.to
    BY <1>1
  <2>2. ui' # Free /\ ui'.op # "none" /\ ui'.op # "stop"
    BY <2>1 DEF Free, Controls
  <2> QED BY <1>1, <1>2, <1>5, <2>1, <2>2 DEF CallInv
<1>8. ItemInv'
  <2>1. ASSUME NEW i \in 1..Len(work'), work'[i].kind \in Controls
        PROVE  i = Len(work') /\ work'[i] = w
    BY <1>2, <1>3, <2>1
  <2>2. published'[w.session].gen = published[w.session].gen
    BY <1>5
  <2> QED BY <1>1, <2>1, <2>2 DEF ItemInv
<1>9. BindingInv'
  <2>1. ui'.status = "waits" /\ ui'.op = w.kind /\ ui'.session = w.session
    BY <1>1
  <2>2. \A s \in Session :
            published'[s].accepting \/ Changing(s)' => published'[s].gen # None
    BY <1>0, <2>1 DEF HostInv, BindingInv, Changing
  <2>3. engine' = "running" => \A s \in Session : entries'[s].gen = published'[s].gen
    BY <1>0, <1>1, <1>2 DEF HostInv, BindingInv
  <2> QED BY <2>1, <2>2, <2>3 DEF BindingInv
<1>10. OwnInv'
  <2>0. OwnInv /\ ui'.status = "waits"
    BY <1>0, <1>1 DEF HostInv
  <2>1. ASSUME NEW i \in 1..Len(work'), work'[i].kind \in Writes
        PROVE  work'[i].gen = published'[work'[i].session].gen /\ work'[i].gen # None
    <3>1. i \in 1..Len(work) /\ work'[i] = work[i]
      BY <1>3, <2>1 DEF Writes, Stroke, Controls
    <3>2. work[i].gen = published[work[i].session].gen /\ work[i].gen # None
      BY <2>0, <2>1, <3>1 DEF OwnInv
    <3>3. work[i].session \in Session
      BY <1>0, <3>1, Shapes DEF Work_
    <3> QED BY <3>1, <3>2, <3>3
  <2>2. ASSUME NEW t \in Tokens'
        PROVE  inputs'[t].gen = published'[inputs'[t].session].gen
    <3>1. inputs[t].gen = published[inputs[t].session].gen /\ inputs[t].session \in Session
      BY <1>0, <1>4, <2>0, Shapes DEF OwnInv
    <3> QED BY <1>1, <3>1
  <2> QED BY <2>0, <2>1, <2>2 DEF OwnInv
<1>11. Files'
  BY <1>0, <1>1, SameFiles
<1>12. CountInv'
  <2>1. ASSUME NEW s \in Session PROVE published'[s].pending = Pending(s)'
    <3>1. Jobs(s)' = Jobs(s)
      BY <1>1, <1>4 DEF Jobs
    <3>2. UnitsIn(w, s) = 0 /\ Units(work, s) \in Nat
      BY <1>0, UnitsTyped DEF UnitsIn, Counts, Writes, Stroke, Controls, TypeOK
    <3>3. Pending(s)' = Pending(s)
      BY <1>3, <3>1, <3>2 DEF Pending
    <3> QED BY <1>0, <3>3 DEF CountInv
  <2> QED BY <2>1 DEF CountInv
<1> QED BY <1>6, <1>7, <1>8, <1>9, <1>10, <1>11, <1>12 DEF IInv, HostInv

(* The item of a control, and its type. *)
LEMMA ControlItem ==
  ASSUME TypeOK, NEW x \in Session, NEW k \in Controls, NEW g \in Generation \cup {None}
  PROVE  \E w \in Work_ : /\ w = [Work(k, x) EXCEPT !.to = g]
                          /\ w.kind = k /\ w.session = x /\ w.to = g
                          /\ w.gen = published[x].gen
<1>1. PICK v : v = [kind |-> k, session |-> x, gen |-> published[x].gen,
                    units |-> 1, token |-> None, defer |-> TRUE, to |-> None]
  OBVIOUS
<1>2. v \in Work_ /\ v.kind = k /\ v.session = x /\ v.gen = published[x].gen
  <2>1. None \in 0..MaxJobs /\ None \in Generation \cup {None}
    BY HostAssumption DEF None
  <2>2. v \in Work_
    BY <1>1, <2>1, WorkTyped
  <2> QED BY <1>1, <2>2
<1>3. PICK w : w = [v EXCEPT !.to = g]
  OBVIOUS
<1>4. w \in Work_ /\ w.kind = k /\ w.session = x /\ w.to = g /\ w.gen = published[x].gen
  BY <1>2, <1>3 DEF Work_
<1>5. [Work(k, x) EXCEPT !.to = g] = w
  BY <1>1, <1>3 DEF Work
<1> QED BY <1>4, <1>5

(* CreateSession keeps the invariant. *)
LEMMA CreateKeeps ==
  ASSUME IInv, NEW x \in Session, NEW g \in Generation, CreateSession(x, g)
  PROVE  IInv'
<1>0. TypeOK
  BY DEF IInv, HostInv
<1>1. PICK w \in Work_ : /\ w = [Work("create", x) EXCEPT !.to = g]
                         /\ w.kind = "create" /\ w.session = x /\ w.to = g
                         /\ w.gen = published[x].gen
  <2>1. PICK k \in Controls : k = "create"
    BY DEF Controls
  <2>2. g \in Generation \cup {None}
    OBVIOUS
  <2>3. \E w \in Work_ : /\ w = [Work(k, x) EXCEPT !.to = g]
                         /\ w.kind = k /\ w.session = x /\ w.to = g
                         /\ w.gen = published[x].gen
    BY <1>0, <2>2, ControlItem
  <2> QED BY <2>1, <2>3
<1>2. published[x].gen = None /\ Control(w) /\ published' = published
  BY <1>1 DEF CreateSession
<1>3. published' \in [Session -> Published_]
  BY <1>0, <1>2 DEF TypeOK
<1> QED BY <1>1, <1>2, <1>3, ControlKeeps DEF Controls

(* RebindSession and CloseSession keep the invariant. *)
LEMMA TransitKeeps ==
  ASSUME IInv, NEW x \in Session, NEW k \in {"rebind", "close"}, NEW g \in Generation \cup {None},
         k = "rebind" => g \in Generation, k = "close" => g = None, Transit(x, k, g)
  PROVE  IInv'
<1>0. TypeOK
  BY DEF IInv, HostInv
<1>1. PICK w \in Work_ : /\ w = [Work(k, x) EXCEPT !.to = g]
                         /\ w.kind = k /\ w.session = x /\ w.to = g
                         /\ w.gen = published[x].gen
  <2>1. k \in Controls
    BY DEF Controls
  <2> QED BY <1>0, <2>1, ControlItem
<1>2. /\ Control(w) /\ published[x].accepting
      /\ published' = [published EXCEPT ![x].accepting = FALSE]
  BY <1>1 DEF Transit
<1>3. /\ published' \in [Session -> Published_]
      /\ \A s \in Session : /\ published'[s].gen = published[s].gen
                            /\ published'[s].accepting => published[s].accepting
                            /\ published'[s].pending = published[s].pending
  <2>1. published \in [Session -> Published_]
    BY <1>0 DEF TypeOK
  <2>2. PICK p \in Published_ : p = published[x]
    BY <2>1
  <2>3. PICK d : d = [p EXCEPT !.accepting = FALSE]
    OBVIOUS
  <2>4. d \in Published_ /\ d.gen = p.gen /\ d.pending = p.pending /\ ~d.accepting
    BY <2>3 DEF Published_
  <2>5. published' = [published EXCEPT ![x] = d]
    BY <1>2, <2>2, <2>3
  <2>6. \A s \in Session : published'[s] = IF s = x THEN d ELSE published[s]
    BY <2>1, <2>5
  <2> QED BY <2>1, <2>2, <2>4, <2>5, <2>6
<1>4. published[x].gen # None
  BY <1>0, <1>2 DEF IInv, HostInv, BindingInv
<1> QED BY <1>1, <1>2, <1>3, <1>4, ControlKeeps DEF Controls

(* A session without edits, strokes and jobs counts nothing. *)
LEMMA NothingWaits ==
  ASSUME IInv, NEW s \in Session,
         \A i \in 1..Len(work) : ~Counts(work[i], s), Jobs(s) = {}
  PROVE  published[s].pending = 0
<1>0. TypeOK /\ CountInv /\ work \in Seq(Work_)
  BY DEF IInv, HostInv, TypeOK
<1>1. Edits(work, s) = {}
  BY <1>0, EditsAre
<1>2. Units(work, s) = 0
  BY <1>1, SumEmpty DEF Units
<1>3. Cardinality(Jobs(s)) = 0
  BY FS_EmptySet
<1>4. published[s].pending = Units(work, s) + Cardinality(Jobs(s))
  BY <1>0 DEF CountInv, Pending
<1> QED BY <1>2, <1>3, <1>4

(* The call returns, and the binding it made is published. *)
LEMMA DoneReturns ==
  ASSUME IInv, Return, ui.status = "ok"
  PROVE  IInv'
<1>0. TypeOK /\ Files /\ HostInv /\ CountInv
  BY DEF IInv, HostInv
<1>1. PICK x \in Session : x = ui.session /\ ui.status = "ok" /\ ui.op \in Controls /\ ~stopping
                           /\ engine = "running"
  <2>1. ui.status = "ok"
    OBVIOUS
  <2>2. ui.op \in Controls /\ ui.session \in Session /\ ui.op # "stop"
    <3>1. ui.op \in Controls \cup {"none", "stop"}
      BY <1>0 DEF TypeOK
    <3> QED BY <1>0, <2>1, <3>1 DEF HostInv, CallInv
  <2>3. ~stopping /\ engine = "running"
    BY <1>0, <2>2 DEF HostInv, CallInv, TypeOK
  <2> QED BY <2>1, <2>2, <2>3
<1>2. PICK d : d = [gen |-> ui.to, accepting |-> ui.op # "close",
                    pending |-> IF ui.op = "rebind" THEN published[x].pending ELSE 0]
  OBVIOUS
<1>3. published' = [published EXCEPT ![x] = d]
  BY <1>0, <1>1, <1>2 DEF Return, TypeOK
<1>4. /\ ui' = Free /\ UNCHANGED <<entries, cores, disk, work, inputs, stopping, engine, requests>>
  BY DEF Return
<1>5. /\ d \in Published_ /\ d.gen = ui.to
      /\ d.accepting => ui.to # None
      /\ d.pending = IF ui.op = "rebind" THEN published[x].pending ELSE 0
  <2>1. published[x].pending \in Nat /\ ui.to \in Generation \cup {None}
    BY <1>0, Shapes DEF Published_, TypeOK
  <2>2. ui.op # "close" => ui.to # None
    BY <1>0, <1>1, HostAssumption DEF HostInv, CallInv, Controls, None
  <2> QED BY <1>2, <2>1, <2>2 DEF Published_
<1>6. /\ published' \in [Session -> Published_] /\ published'[x] = d
      /\ \A s \in Session : s # x => published'[s] = published[s]
  <2>1. published \in [Session -> Published_]
    BY <1>0 DEF TypeOK
  <2> QED BY <1>3, <1>5, <2>1
<1>7. /\ \A i \in 1..Len(work) : work[i].kind \notin Controls
      /\ \A i \in 1..Len(work) : work[i].kind \in Writes => work[i].session # x
      /\ \A t \in Tokens : inputs[t].session # x
  <2>1. \A i \in 1..Len(work) : work[i].kind \notin Controls
    BY <1>0, <1>1 DEF HostInv, ItemInv
  <2>2. \A i \in 1..Len(work) : work[i].kind \in Writes => work[i].session # x
    BY <1>0, <1>1 DEF HostInv, OwnInv
  <2>3. \A t \in Tokens : inputs[t].session # x
    BY <1>0, <1>1 DEF HostInv, OwnInv
  <2> QED BY <2>1, <2>2, <2>3
<1>8. Tokens' = Tokens /\ inputs' \in [Tokens' -> Input_] /\ Tokens' \subseteq 1..MaxJobs
  BY <1>0, <1>4, SameTyped DEF TypeOK
<1>9. ui'.op = "none" /\ ui'.status = "done" /\ ui'.session = None /\ ui'.to = None
  BY <1>4 DEF Free
<1>10. TypeOK'
  <2>1. ui' \in [op : Controls \cup {"none", "stop"}, session : Session \cup {None},
                 to : Generation \cup {None}, status : Statuses]
    BY <1>4 DEF Free, Statuses
  <2> QED BY <1>0, <1>4, <1>6, <1>8, <2>1 DEF TypeOK
<1>11. CallInv'
  BY <1>1, <1>4, <1>9 DEF CallInv, Controls
<1>12. ItemInv'
  BY <1>4, <1>7 DEF ItemInv
<1>13. BindingInv'
  <2>1. \A s \in Session :
            published'[s].accepting \/ Changing(s)' => published'[s].gen # None
    BY <1>0, <1>5, <1>6, <1>9 DEF HostInv, BindingInv, Changing
  <2>2. ASSUME NEW s \in Session PROVE entries'[s].gen = published'[s].gen
    <3>1. entries[s].gen = IF s = x THEN ui.to ELSE published[s].gen
      BY <1>0, <1>1 DEF HostInv, BindingInv
    <3> QED BY <1>4, <1>5, <1>6, <3>1
  <2> QED BY <1>9, <2>1, <2>2 DEF BindingInv
<1>14. OwnInv'
  <2>1. ASSUME NEW i \in 1..Len(work), work[i].kind \in Writes
        PROVE  work[i].gen = published'[work[i].session].gen /\ work[i].gen # None
    <3>1. work[i].session \in Session /\ work[i].session # x
      BY <1>0, <1>7, <2>1, Shapes DEF Work_
    <3>2. work[i].gen = published[work[i].session].gen /\ work[i].gen # None
      BY <1>0, <2>1 DEF HostInv, OwnInv
    <3> QED BY <1>6, <3>1, <3>2
  <2>2. ASSUME NEW t \in Tokens
        PROVE  inputs[t].gen = published'[inputs[t].session].gen
    <3>1. inputs[t].session \in Session /\ inputs[t].session # x
      BY <1>0, <1>7, Shapes
    <3>2. inputs[t].gen = published[inputs[t].session].gen
      BY <1>0 DEF HostInv, OwnInv
    <3> QED BY <1>6, <3>1, <3>2
  <2> QED BY <1>4, <1>8, <1>9, <2>1, <2>2 DEF OwnInv
<1>15. Files'
  BY <1>0, <1>4, SameFiles
<1>16. CountInv'
  <2>1. ASSUME NEW s \in Session PROVE published'[s].pending = Pending(s)'
    <3>1. Jobs(s)' = Jobs(s) /\ work' = work
      BY <1>4, <1>8 DEF Jobs
    <3>2. Pending(s)' = Pending(s) /\ published[s].pending = Pending(s)
      BY <1>0, <3>1 DEF Pending, CountInv
    <3>3. CASE s # x
      BY <1>6, <3>2, <3>3
    <3>4. CASE s = x
      <4>1. Jobs(x) = {}
        BY <1>7 DEF Jobs
      <4>2. \A i \in 1..Len(work) : ~Counts(work[i], x)
        BY <1>7 DEF Counts
      <4>3. published[x].pending = 0
        BY <4>1, <4>2, NothingWaits
      <4> QED BY <1>5, <1>6, <3>2, <3>4, <4>3
    <3> QED BY <3>3, <3>4
  <2> QED BY <2>1 DEF CountInv
<1> QED BY <1>10, <1>11, <1>12, <1>13, <1>14, <1>15, <1>16 DEF IInv, HostInv

-----------------------------------------------------------------------------
(* The engine answers a control. *)

(* When it does, nothing of the session is left: no edit or stroke, for it *)
(* could have been processed first, and no file job.                       *)
LEMMA ControlAlone ==
  ASSUME IInv, NEW i \in 1..Len(work), work[i].kind \in Controls, engine = "running",
         CanProcess(work[i]), \A j \in 1..i - 1 : ~CanProcess(work[j])
  PROVE  LET x == work[i].session
         IN  /\ x \in Session /\ i = Len(work) /\ ui.status = "waits" /\ ui.op = work[i].kind
             /\ ui.session = x /\ ui.to = work[i].to /\ ~stopping
             /\ \A s \in Session : entries[s].gen = published[s].gen
             /\ Bound(work[i])
             /\ \A j \in 1..Len(work) : work[j].kind \in Writes => work[j].session # x
             /\ \A t \in Tokens : inputs[t].session # x
             /\ Clear(x)
<1>0. TypeOK /\ Files /\ HostInv /\ work[i] \in Work_
  BY Shapes DEF IInv, HostInv
<1>1. PICK x \in Session : x = work[i].session
  BY <1>0 DEF Work_
<1>2. /\ i = Len(work) /\ ui.status = "waits" /\ ui.op = work[i].kind
      /\ ui.session = x /\ ui.to = work[i].to
      /\ work[i].gen = published[x].gen
      /\ work[i].kind = "create" => work[i].gen = None
  BY <1>0, <1>1 DEF HostInv, ItemInv
<1>3. /\ \A s \in Session : entries[s].gen = published[s].gen
      /\ ~stopping
  <2>1. \A s \in Session : entries[s].gen = published[s].gen
    BY <1>0, <1>2 DEF HostInv, BindingInv
  <2>2. ~stopping
    BY <1>0, <1>2 DEF HostInv, CallInv, Controls
  <2> QED BY <2>1, <2>2
<1>4. Bound(work[i])
  BY <1>1, <1>2, <1>3 DEF Bound
<1>5. work[i].kind # "create" => /\ entries[x].fence = None /\ ~entries[x].stroke
                                 /\ ~HasInput(work[i])
  BY <1>1, <1>4 DEF CanProcess, Controls, IsControl, Fenced, Stroking, Stroke
<1>6. ASSUME NEW t \in Tokens PROVE inputs[t].session # x
  <2>1. /\ inputs[t].gen = published[inputs[t].session].gen /\ inputs[t].gen \in Generation
    BY <1>0, Shapes DEF HostInv, OwnInv, Input_
  <2>2. inputs[t].gen # None
    BY <2>1, HostAssumption DEF None
  <2>3. CASE work[i].kind = "create"
    BY <1>2, <2>1, <2>2, <2>3
  <2>4. CASE work[i].kind # "create"
    BY <1>1, <1>2, <1>5, <2>1, <2>4 DEF HasInput
  <2> QED BY <2>3, <2>4
<1>7. ASSUME NEW j \in 1..Len(work), work[j].kind \in Writes, work[j].session = x PROVE FALSE
  <2>1. work[j].gen = published[x].gen /\ work[j].gen # None
    BY <1>0, <1>7 DEF HostInv, OwnInv
  <2>2. work[i].kind # "create"
    BY <1>2, <2>1
  <2>3. j \in 1..i - 1
    <3>1. j # i
      BY <1>7 DEF Writes, Stroke, Controls
    <3>2. Len(work) \in Nat
      BY <1>0, Shapes
    <3> QED BY <1>2, <3>1, <3>2
  <2>4. CanProcess(work[j])
    BY <1>5, <1>7, <2>2 DEF CanProcess, Writes, Fenced, Stroking
  <2> QED BY <2>3, <2>4
<1>8. Clear(x)
  <2>1. Jobs(x) = {}
    BY <1>6 DEF Jobs
  <2>2. FenceInv(x) /\ SavedInv(x)
    BY <1>0 DEF Files
  <2> QED BY <2>1, <2>2 DEF FenceInv, SavedInv, Clear
<1> QED BY <1>1, <1>2, <1>3, <1>4, <1>6, <1>7, <1>8

(* What the answer makes of the session. *)
LEMMA AnswerIs ==
  ASSUME TypeOK, CallInv, ProcessControl, NEW i \in 1..Len(work), NEW x \in Session,
         work[i].kind \in Controls, x = work[i].session, ui.to = work[i].to,
         ui.op = work[i].kind, Bound(work[i]), entries[x].fence = None,
         cores[x].saved = disk[x],
         entries' = CASE work[i].kind = "rebind" -> [entries EXCEPT ![x].gen = work[i].to]
                      [] work[i].kind = "close" -> [entries EXCEPT ![x] = NoEntry]
                      [] work[i].kind = "create" ->
                             [entries EXCEPT ![x] = [NoEntry EXCEPT !.gen = work[i].to]],
         cores' = IF work[i].kind = "create" THEN [cores EXCEPT ![x] = NewCore] ELSE cores,
         disk' = IF work[i].kind = "create" THEN [disk EXCEPT ![x] = None] ELSE disk
  PROVE  /\ entries' \in [Session -> Bound_] /\ cores' \in [Session -> Core_]
         /\ disk' \in [Session -> Nat]
         /\ \A s \in Session : s # x => /\ entries'[s] = entries[s] /\ cores'[s] = cores[s]
                                        /\ disk'[s] = disk[s]
         /\ entries'[x].gen = ui.to /\ entries'[x].fence = None
         /\ cores'[x].saved = disk'[x]
<1>0. /\ entries \in [Session -> Bound_] /\ cores \in [Session -> Core_]
      /\ disk \in [Session -> Nat]
  BY DEF TypeOK
<1>1. NewCore \in Core_ /\ NewCore.saved = None /\ None \in Nat
  BY DEF NewCore, Core_, None
<1>2. PICK g \in Generation \cup {None} : g = work[i].to
  <2>1. work[i] \in Work_
    BY Shapes
  <2> QED BY <2>1 DEF Work_
<1>3. /\ cores' \in [Session -> Core_] /\ disk' \in [Session -> Nat]
      /\ \A s \in Session : s # x => cores'[s] = cores[s] /\ disk'[s] = disk[s]
      /\ cores'[x].saved = disk'[x]
  <2>1. CASE work[i].kind = "create"
    BY <1>0, <1>1, <2>1
  <2>2. CASE work[i].kind # "create"
    BY <1>0, <2>2
  <2> QED BY <2>1, <2>2
<1>4. PICK e \in Bound_ : /\ entries' = [entries EXCEPT ![x] = e]
                          /\ e.gen = g /\ e.fence = None
  <2>1. CASE work[i].kind = "rebind"
    <3>1. PICK b \in Bound_ : b = entries[x]
      BY <1>0
    <3>2. PICK e : e = [b EXCEPT !.gen = g]
      OBVIOUS
    <3>3. e \in Bound_ /\ e.gen = g /\ e.fence = b.fence
      BY <3>2 DEF Bound_
    <3>4. entries' = [entries EXCEPT ![x] = e]
      BY <1>2, <2>1, <3>1, <3>2
    <3> QED BY <3>1, <3>3, <3>4
  <2>2. CASE work[i].kind = "close"
    <3>1. NoEntry \in Bound_ /\ NoEntry.gen = None /\ NoEntry.fence = None
      BY HostAssumption DEF NoEntry, Bound_, None
    <3>2. g = None
      BY <1>2, <2>2 DEF CallInv
    <3>3. entries' = [entries EXCEPT ![x] = NoEntry]
      BY <2>2
    <3> QED BY <3>1, <3>2, <3>3
  <2>3. CASE work[i].kind = "create"
    <3>1. NoEntry \in Bound_ /\ NoEntry.fence = None
      BY HostAssumption DEF NoEntry, Bound_, None
    <3>2. PICK b \in Bound_ : b = NoEntry
      BY <3>1
    <3>3. PICK e : e = [b EXCEPT !.gen = g]
      OBVIOUS
    <3>4. e \in Bound_ /\ e.gen = g /\ e.fence = b.fence
      BY <3>3 DEF Bound_
    <3>5. entries' = [entries EXCEPT ![x] = e]
      BY <1>2, <2>3, <3>2, <3>3
    <3> QED BY <3>1, <3>2, <3>4, <3>5
  <2> QED BY <2>1, <2>2, <2>3 DEF Controls
<1>5. /\ entries' \in [Session -> Bound_] /\ entries'[x] = e
      /\ \A s \in Session : s # x => entries'[s] = entries[s]
  BY <1>0, <1>4
<1> QED BY <1>2, <1>3, <1>4, <1>5

(* What ProcessControl does, when it succeeds and when it fails. *)
LEMMA AnswerShape ==
  ASSUME ProcessControl
  PROVE  \E i \in DOMAIN work, good \in BOOLEAN :
            /\ work[i].kind = "create" \/ IsControl(work[i])
            /\ Turn(i)
            /\ ui' = [ui EXCEPT !.status = IF good THEN "ok" ELSE "failed"]
            /\ entries' =
                   CASE ~good -> entries
                     [] good /\ work[i].kind = "rebind" ->
                           [entries EXCEPT ![work[i].session].gen = work[i].to]
                     [] good /\ work[i].kind = "close" ->
                           [entries EXCEPT ![work[i].session] = NoEntry]
                     [] good /\ work[i].kind = "create" ->
                           [entries EXCEPT ![work[i].session] = [NoEntry EXCEPT !.gen = work[i].to]]
            /\ cores' = IF good /\ work[i].kind = "create"
                        THEN [cores EXCEPT ![work[i].session] = NewCore] ELSE cores
            /\ disk' = IF good /\ work[i].kind = "create"
                       THEN [disk EXCEPT ![work[i].session] = None] ELSE disk
            /\ ~good => UNCHANGED <<entries, cores, disk>>
<1>1. PICK i \in DOMAIN work, ok \in BOOLEAN :
         LET w == work[i]
             s == w.session
             good == IF w.kind = "rebind" THEN Bound(w)
                     ELSE ok /\ (w.kind = "create" \/ Bound(w))
         IN  /\ w.kind = "create" \/ IsControl(w)
             /\ Turn(i)
             /\ ui' = [ui EXCEPT !.status = IF good THEN "ok" ELSE "failed"]
             /\ entries' =
                    CASE ~good -> entries
                      [] good /\ w.kind = "rebind" -> [entries EXCEPT ![s].gen = w.to]
                      [] good /\ w.kind = "close" -> [entries EXCEPT ![s] = NoEntry]
                      [] good /\ w.kind = "create" ->
                            [entries EXCEPT ![s] = [NoEntry EXCEPT !.gen = w.to]]
             /\ cores' = IF good /\ w.kind = "create"
                         THEN [cores EXCEPT ![s] = NewCore] ELSE cores
             /\ disk' = IF good /\ w.kind = "create"
                        THEN [disk EXCEPT ![s] = None] ELSE disk
  BY DEF ProcessControl
<1>2. PICK good \in BOOLEAN :
         good <=> IF work[i].kind = "rebind" THEN Bound(work[i])
                  ELSE ok /\ (work[i].kind = "create" \/ Bound(work[i]))
  OBVIOUS
<1>3. CASE good
  BY <1>1, <1>2, <1>3
<1>4. CASE ~good
  BY <1>1, <1>2, <1>4
<1> QED BY <1>3, <1>4

LEMMA AnswerOk ==
  ASSUME TypeOK, ProcessControl, ui'.status = "ok"
  PROVE  \E i \in DOMAIN work :
            /\ work[i].kind = "create" \/ IsControl(work[i])
            /\ Turn(i)
            /\ ui' = [ui EXCEPT !.status = "ok"]
            /\ LET s == work[i].session
               IN  /\ \/ /\ work[i].kind = "rebind"
                         /\ entries' = [entries EXCEPT ![s].gen = work[i].to]
                      \/ work[i].kind = "close" /\ entries' = [entries EXCEPT ![s] = NoEntry]
                      \/ /\ work[i].kind = "create"
                         /\ entries' = [entries EXCEPT ![s] = [NoEntry EXCEPT !.gen = work[i].to]]
                   /\ cores' = IF work[i].kind = "create"
                               THEN [cores EXCEPT ![s] = NewCore] ELSE cores
                   /\ disk' = IF work[i].kind = "create" THEN [disk EXCEPT ![s] = None]
                              ELSE disk
<1>1. PICK i \in DOMAIN work, good \in BOOLEAN :
         /\ work[i].kind = "create" \/ IsControl(work[i])
         /\ Turn(i)
         /\ ui' = [ui EXCEPT !.status = IF good THEN "ok" ELSE "failed"]
         /\ entries' =
                CASE ~good -> entries
                  [] good /\ work[i].kind = "rebind" ->
                        [entries EXCEPT ![work[i].session].gen = work[i].to]
                  [] good /\ work[i].kind = "close" ->
                        [entries EXCEPT ![work[i].session] = NoEntry]
                  [] good /\ work[i].kind = "create" ->
                        [entries EXCEPT ![work[i].session] = [NoEntry EXCEPT !.gen = work[i].to]]
         /\ cores' = IF good /\ work[i].kind = "create"
                     THEN [cores EXCEPT ![work[i].session] = NewCore] ELSE cores
         /\ disk' = IF good /\ work[i].kind = "create"
                    THEN [disk EXCEPT ![work[i].session] = None] ELSE disk
  BY AnswerShape
<1>2. good = TRUE
  <2>1. "status" \in DOMAIN ui
    BY DEF TypeOK
  <2> QED BY <1>1, <2>1
<1>3. ui' = [ui EXCEPT !.status = "ok"]
  BY <1>1, <1>2
<1>4. CASE work[i].kind = "rebind"
  BY <1>1, <1>2, <1>3, <1>4
<1>5. CASE work[i].kind = "close"
  BY <1>1, <1>2, <1>3, <1>5
<1>6. CASE work[i].kind = "create"
  BY <1>1, <1>2, <1>3, <1>6
<1> QED BY <1>1, <1>4, <1>5, <1>6 DEF IsControl

LEMMA AnswerFailed ==
  ASSUME TypeOK, ProcessControl, ui'.status # "ok"
  PROVE  /\ \E i \in DOMAIN work : /\ work[i].kind \in Controls
                                   /\ Turn(i)
         /\ ui' = [ui EXCEPT !.status = "failed"]
         /\ UNCHANGED <<published, entries, cores, disk, inputs, stopping, engine, requests>>
<1>1. PICK i \in DOMAIN work, good \in BOOLEAN :
         /\ work[i].kind = "create" \/ IsControl(work[i])
         /\ Turn(i)
         /\ ui' = [ui EXCEPT !.status = IF good THEN "ok" ELSE "failed"]
         /\ ~good => UNCHANGED <<entries, cores, disk>>
  BY AnswerShape
<1>2. good = FALSE
  <2>1. "status" \in DOMAIN ui
    BY DEF TypeOK
  <2> QED BY <1>1, <2>1
<1>3. UNCHANGED <<published, inputs, stopping, engine, requests>>
  BY DEF ProcessControl
<1> QED BY <1>1, <1>2, <1>3 DEF IsControl, Controls

(* A control that is carried out keeps the invariant: the binding changes *)
(* when nothing is left of the old one.                                   *)
LEMMA DoneKeeps ==
  ASSUME IInv, ProcessControl, ui'.status = "ok"
  PROVE  IInv'
<1>0. TypeOK /\ Files /\ HostInv /\ CountInv
  BY DEF IInv, HostInv
<1>1. PICK i \in DOMAIN work :
         /\ work[i].kind = "create" \/ IsControl(work[i])
         /\ Turn(i)
         /\ ui' = [ui EXCEPT !.status = "ok"]
         /\ LET s == work[i].session
            IN  /\ \/ /\ work[i].kind = "rebind"
                      /\ entries' = [entries EXCEPT ![s].gen = work[i].to]
                   \/ work[i].kind = "close" /\ entries' = [entries EXCEPT ![s] = NoEntry]
                   \/ /\ work[i].kind = "create"
                      /\ entries' = [entries EXCEPT ![s] = [NoEntry EXCEPT !.gen = work[i].to]]
                /\ cores' = IF work[i].kind = "create"
                            THEN [cores EXCEPT ![s] = NewCore] ELSE cores
                /\ disk' = IF work[i].kind = "create" THEN [disk EXCEPT ![s] = None]
                           ELSE disk
  BY <1>0, AnswerOk
<1>2. /\ engine = "running" /\ i \in 1..Len(work) /\ CanProcess(work[i])
      /\ work' = RemoveAt(work, i) /\ \A j \in 1..i - 1 : ~CanProcess(work[j])
  BY <1>0, <1>1, TurnIs
<1>3. work[i].kind \in Controls
  BY <1>1 DEF IsControl, Controls
<1>4. PICK x \in Session :
         /\ x = work[i].session /\ i = Len(work) /\ ui.status = "waits" /\ ui.op = work[i].kind
         /\ ui.session = x /\ ui.to = work[i].to /\ ~stopping
         /\ \A s \in Session : entries[s].gen = published[s].gen
         /\ Bound(work[i])
         /\ \A j \in 1..Len(work) : work[j].kind \in Writes => work[j].session # x
         /\ \A t \in Tokens : inputs[t].session # x
         /\ Clear(x)
  BY <1>2, <1>3, ControlAlone
<1>5. /\ ui' = [ui EXCEPT !.status = "ok"]
      /\ entries' = CASE work[i].kind = "rebind" -> [entries EXCEPT ![x].gen = work[i].to]
                      [] work[i].kind = "close" -> [entries EXCEPT ![x] = NoEntry]
                      [] work[i].kind = "create" ->
                             [entries EXCEPT ![x] = [NoEntry EXCEPT !.gen = work[i].to]]
      /\ cores' = IF work[i].kind = "create" THEN [cores EXCEPT ![x] = NewCore] ELSE cores
      /\ disk' = IF work[i].kind = "create" THEN [disk EXCEPT ![x] = None] ELSE disk
  <2>3. CASE work[i].kind = "rebind"
    BY <1>1, <1>4, <2>3
  <2>4. CASE work[i].kind = "close"
    BY <1>1, <1>4, <2>4
  <2>5. CASE work[i].kind = "create"
    BY <1>1, <1>4, <2>5
  <2> QED BY <1>3, <2>3, <2>4, <2>5 DEF Controls
<1>6. UNCHANGED <<published, inputs, stopping, engine, requests>>
  BY DEF ProcessControl
<1>7. /\ entries' \in [Session -> Bound_] /\ cores' \in [Session -> Core_]
      /\ disk' \in [Session -> Nat]
      /\ \A s \in Session : s # x => /\ entries'[s] = entries[s] /\ cores'[s] = cores[s]
                                     /\ disk'[s] = disk[s]
      /\ entries'[x].gen = ui.to /\ entries'[x].fence = None
      /\ cores'[x].saved = disk'[x]
  <2>1. CallInv /\ entries[x].fence = None /\ cores[x].saved = disk[x]
    BY <1>0, <1>4 DEF HostInv, Clear
  <2> QED BY <1>0, <1>2, <1>3, <1>4, <1>5, <2>1, AnswerIs
<1>8. Tokens' = Tokens /\ inputs' \in [Tokens' -> Input_] /\ Tokens' \subseteq 1..MaxJobs
  BY <1>0, <1>6, SameTyped DEF TypeOK
<1>9. /\ work' \in Seq(Work_) /\ Len(work) \in Nat /\ Len(work') = Len(work) - 1
      /\ \A k \in 1..Len(work') : work'[k] = work[k] /\ k \in 1..Len(work) /\ k # i
  <2>1. PICK q \in Seq(Work_) : q = work
    BY <1>0 DEF TypeOK
  <2>2. /\ RemoveAt(q, i) \in Seq(Work_)
        /\ Len(q) \in Nat /\ Len(RemoveAt(q, i)) = Len(q) - 1
        /\ \A k \in 1..Len(q) - 1 : RemoveAt(q, i)[k] = q[IF k < i THEN k ELSE k + 1]
    BY <1>2, <2>1, TakeIs
  <2> QED BY <1>2, <1>4, <2>1, <2>2
<1>10. /\ ui'.status = "ok" /\ ui'.op = ui.op /\ ui'.session = ui.session /\ ui'.to = ui.to
       /\ ui' \in [op : Controls \cup {"none", "stop"}, session : Session \cup {None},
                   to : Generation \cup {None}, status : Statuses]
  <2>1. ui \in [op : Controls \cup {"none", "stop"}, session : Session \cup {None},
                to : Generation \cup {None}, status : Statuses]
    BY <1>0 DEF TypeOK
  <2>2. "ok" \in Statuses
    BY DEF Statuses
  <2> QED BY <1>5, <2>1, <2>2
<1>11. TypeOK'
  BY <1>0, <1>6, <1>7, <1>8, <1>9, <1>10 DEF TypeOK
<1>12. CallInv'
  <2>1. ui'.op \in Controls /\ ui'.op # "none" /\ ui'.op # "stop" /\ ui' # Free
    BY <1>3, <1>4, <1>10 DEF Controls, Free
  <2>2. /\ ui'.op \in Controls => ui'.session \in Session
        /\ ui'.op \in {"create", "rebind"} => ui'.to \in Generation
        /\ ui'.op = "close" => ui'.to = None
    BY <1>0, <1>10 DEF HostInv, CallInv
  <2> QED BY <1>2, <1>4, <1>6, <1>10, <2>1, <2>2 DEF CallInv
<1>13. ItemInv'
  <2>1. ASSUME NEW k \in 1..Len(work') PROVE work'[k].kind \notin Controls
    BY <1>0, <1>4, <1>9 DEF HostInv, ItemInv
  <2> QED BY <2>1 DEF ItemInv
<1>14. BindingInv'
  <2>1. \A s \in Session :
            published[s].accepting \/ Changing(s)' => published[s].gen # None
    BY <1>0, <1>10 DEF HostInv, BindingInv, Changing
  <2>2. \A s \in Session : entries'[s].gen = IF s = x THEN ui.to ELSE published[s].gen
    BY <1>4, <1>7
  <2> QED BY <1>4, <1>6, <1>10, <2>1, <2>2 DEF BindingInv
<1>15. OwnInv'
  <2>0. OwnInv
    BY <1>0 DEF HostInv
  <2>1. \A k \in 1..Len(work') : work'[k].kind \in Writes =>
           /\ work'[k].gen = published[work'[k].session].gen /\ work'[k].gen # None
           /\ work'[k].session # x
    BY <1>4, <1>9, <2>0 DEF OwnInv
  <2>2. \A t \in Tokens : /\ inputs[t].gen = published[inputs[t].session].gen
                          /\ inputs[t].session # x
    BY <1>4, <2>0 DEF OwnInv
  <2> QED BY <1>4, <1>6, <1>8, <1>10, <2>1, <2>2 DEF OwnInv
<1>16. \A s, u : u \in Jobs(s)' <=> u \in Jobs(s)
  BY <1>6, <1>8, JobsAre
<1>17. Files'
  <2>1. ASSUME NEW s \in Session PROVE FenceInv(s)' /\ SavedInv(s)'
    <3>1. CASE s # x
      <4>1. FenceInv(s) /\ SavedInv(s)
        BY <1>0 DEF Files
      <4>2. Steady(s)
        BY <1>6, <1>7, <1>16, <3>1 DEF Steady
      <4> QED BY <4>1, <4>2, SteadyKeeps
    <3>2. CASE s = x
      <4>1. \A t \in Jobs(x)' : ~Installing(t)'
        BY <1>4, <1>6, <1>16 DEF Clear, Installing
      <4> QED BY <1>7, <3>2, <4>1, ClearKeeps
    <3> QED BY <3>1, <3>2
  <2> QED BY <2>1 DEF Files
<1>18. CountInv'
  <2>1. ASSUME NEW s \in Session PROVE published'[s].pending = Pending(s)'
    <3>1. Jobs(s)' = Jobs(s)
      BY <1>6, <1>8 DEF Jobs
    <3>2. Units(work', s) = Units(work, s)
      <4>1. Units(work, s) = Units(RemoveAt(work, i), s) + UnitsIn(work[i], s)
        BY <1>0, <1>2, UnitsTaken DEF TypeOK
      <4>2. UnitsIn(work[i], s) = 0
        BY <1>3 DEF UnitsIn, Counts, Writes, Stroke, Controls
      <4>3. Units(work', s) \in Nat
        BY <1>9, UnitsTyped
      <4> QED BY <1>2, <4>1, <4>2, <4>3
    <3>3. Pending(s)' = Pending(s)
      BY <3>1, <3>2 DEF Pending
    <3> QED BY <1>0, <1>6, <3>3 DEF CountInv
  <2> QED BY <2>1 DEF CountInv
<1> QED BY <1>11, <1>12, <1>13, <1>14, <1>15, <1>17, <1>18 DEF IInv, HostInv

(* A control that fails keeps the invariant: only its item is gone. *)
LEMMA FailedKeeps ==
  ASSUME IInv, ProcessControl, ui'.status # "ok"
  PROVE  IInv'
<1>0. TypeOK /\ Files /\ HostInv /\ CountInv
  BY DEF IInv, HostInv
<1>1. PICK i \in DOMAIN work : work[i].kind \in Controls /\ Turn(i)
  BY <1>0, AnswerFailed
<1>2. /\ engine = "running" /\ i \in 1..Len(work) /\ CanProcess(work[i])
      /\ work' = RemoveAt(work, i) /\ \A j \in 1..i - 1 : ~CanProcess(work[j])
  BY <1>0, <1>1, TurnIs
<1>3. /\ ui' = [ui EXCEPT !.status = "failed"]
      /\ UNCHANGED <<published, entries, cores, disk, inputs, stopping, engine, requests>>
  BY <1>0, AnswerFailed
<1>4. /\ i = Len(work) /\ ui.status = "waits" /\ ui.op \in Controls /\ ~stopping
      /\ \A s \in Session : entries[s].gen = published[s].gen
  BY <1>1, <1>2, ControlAlone
<1>5. Tokens' = Tokens /\ inputs' \in [Tokens' -> Input_] /\ Tokens' \subseteq 1..MaxJobs
  BY <1>0, <1>3, SameTyped DEF TypeOK
<1>6. /\ work' \in Seq(Work_) /\ Len(work) \in Nat /\ Len(work') = Len(work) - 1
      /\ \A k \in 1..Len(work') : work'[k] = work[k] /\ k \in 1..Len(work) /\ k # i
  <2>1. PICK q \in Seq(Work_) : q = work
    BY <1>0 DEF TypeOK
  <2>2. /\ RemoveAt(q, i) \in Seq(Work_)
        /\ Len(q) \in Nat /\ Len(RemoveAt(q, i)) = Len(q) - 1
        /\ \A k \in 1..Len(q) - 1 : RemoveAt(q, i)[k] = q[IF k < i THEN k ELSE k + 1]
    BY <1>2, <2>1, TakeIs
  <2> QED BY <1>2, <1>4, <2>1, <2>2
<1>7. /\ ui'.status = "failed" /\ ui'.op = ui.op /\ ui'.session = ui.session /\ ui'.to = ui.to
      /\ ui' \in [op : Controls \cup {"none", "stop"}, session : Session \cup {None},
                  to : Generation \cup {None}, status : Statuses]
  <2>1. ui \in [op : Controls \cup {"none", "stop"}, session : Session \cup {None},
                to : Generation \cup {None}, status : Statuses]
    BY <1>0 DEF TypeOK
  <2>2. "failed" \in Statuses
    BY DEF Statuses
  <2> QED BY <1>3, <2>1, <2>2
<1>8. TypeOK'
  BY <1>0, <1>3, <1>5, <1>6, <1>7 DEF TypeOK
<1>9. CallInv'
  <2>1. ui'.op \in Controls /\ ui'.op # "none" /\ ui'.op # "stop" /\ ui' # Free
    BY <1>4, <1>7 DEF Controls, Free
  <2>2. /\ ui'.op \in Controls => ui'.session \in Session
        /\ ui'.op \in {"create", "rebind"} => ui'.to \in Generation
        /\ ui'.op = "close" => ui'.to = None
    BY <1>0, <1>7 DEF HostInv, CallInv
  <2> QED BY <1>2, <1>3, <1>4, <1>7, <2>1, <2>2 DEF CallInv
<1>10. ItemInv'
  <2>1. ASSUME NEW k \in 1..Len(work') PROVE work'[k].kind \notin Controls
    BY <1>0, <1>4, <1>6 DEF HostInv, ItemInv
  <2> QED BY <2>1 DEF ItemInv
<1>11. BindingInv'
  <2>1. \A s \in Session :
            published[s].accepting \/ Changing(s)' => published[s].gen # None
    BY <1>0, <1>7 DEF HostInv, BindingInv, Changing
  <2> QED BY <1>3, <1>4, <1>7, <2>1 DEF BindingInv
<1>12. OwnInv'
  <2>0. OwnInv
    BY <1>0 DEF HostInv
  <2>1. \A k \in 1..Len(work') : work'[k].kind \in Writes =>
           work'[k].gen = published[work'[k].session].gen /\ work'[k].gen # None
    BY <1>6, <2>0 DEF OwnInv
  <2>2. \A t \in Tokens : inputs[t].gen = published[inputs[t].session].gen
    BY <2>0 DEF OwnInv
  <2> QED BY <1>3, <1>5, <1>7, <2>1, <2>2 DEF OwnInv
<1>13. Files'
  BY <1>0, <1>3, SameFiles
<1>14. CountInv'
  <2>1. ASSUME NEW s \in Session PROVE published'[s].pending = Pending(s)'
    <3>1. Jobs(s)' = Jobs(s)
      BY <1>3, <1>5 DEF Jobs
    <3>2. Units(work', s) = Units(work, s)
      <4>1. Units(work, s) = Units(RemoveAt(work, i), s) + UnitsIn(work[i], s)
        BY <1>0, <1>2, UnitsTaken DEF TypeOK
      <4>2. UnitsIn(work[i], s) = 0
        BY <1>1 DEF UnitsIn, Counts, Writes, Stroke, Controls
      <4>3. Units(work', s) \in Nat
        BY <1>6, UnitsTyped
      <4> QED BY <1>2, <4>1, <4>2, <4>3
    <3>3. Pending(s)' = Pending(s)
      BY <3>1, <3>2 DEF Pending
    <3> QED BY <1>0, <1>3, <3>3 DEF CountInv
  <2> QED BY <2>1 DEF CountInv
<1> QED BY <1>8, <1>9, <1>10, <1>11, <1>12, <1>13, <1>14 DEF IInv, HostInv

(* The answer to a control keeps the invariant. *)
LEMMA AnswerKeeps ==
  ASSUME IInv, ProcessControl
  PROVE  IInv'
BY DoneKeeps, FailedKeeps

-----------------------------------------------------------------------------
(* The end of the host. *)

(* The calls and the acceptance of work change, and nothing else that the  *)
(* invariant is about.                                                     *)
LEMMA EndKeeps ==
  ASSUME IInv, UNCHANGED <<cores, disk, work, inputs>>,
         published' \in [Session -> Published_], entries' \in [Session -> Bound_],
         stopping' \in BOOLEAN, engine' \in {"running", "gone"}, requests' \in Nat,
         ui' \in [op : Controls \cup {"none", "stop"}, session : Session \cup {None},
                  to : Generation \cup {None}, status : Statuses],
         ui'.status # "ok", ui.status # "ok", ui'.op \notin {"rebind", "close"},
         \A i \in 1..Len(work) : work[i].kind \notin Controls,
         \A s \in Session : /\ published'[s].gen = published[s].gen
                            /\ published'[s].accepting =>
                                  published[s].accepting \/ Changing(s)
                            /\ published'[s].pending = published[s].pending
                            /\ entries'[s].fence = entries[s].fence
                            /\ engine' = "running" => entries'[s].gen = entries[s].gen,
         engine' = "running" => engine = "running",
         CallInv'
  PROVE  IInv'
<1>0. TypeOK /\ Files /\ HostInv /\ CountInv
  BY DEF IInv, HostInv
<1>1. Tokens' = Tokens /\ inputs' \in [Tokens' -> Input_] /\ Tokens' \subseteq 1..MaxJobs
  BY <1>0, SameTyped DEF TypeOK
<1>2. TypeOK'
  BY <1>0, <1>1 DEF TypeOK
<1>3. ItemInv'
  BY DEF ItemInv
<1>4. BindingInv'
  <2>1. \A s \in Session :
            published'[s].accepting \/ Changing(s)' => published'[s].gen # None
    BY <1>0 DEF HostInv, BindingInv, Changing
  <2>2. engine' = "running" => \A s \in Session : entries'[s].gen = published'[s].gen
    BY <1>0 DEF HostInv, BindingInv
  <2> QED BY <2>1, <2>2 DEF BindingInv
<1>5. OwnInv'
  <2>0. OwnInv
    BY <1>0 DEF HostInv
  <2>1. \A i \in 1..Len(work) : work[i].session \in Session
    BY <1>0, Shapes DEF Work_
  <2>2. \A t \in Tokens : inputs[t].session \in Session
    BY <1>0, Shapes
  <2> QED BY <1>1, <2>0, <2>1, <2>2 DEF OwnInv
<1>6. Files'
  BY <1>0, SameFiles
<1>7. CountInv'
  <2>1. ASSUME NEW s \in Session PROVE published'[s].pending = Pending(s)'
    <3>1. Jobs(s)' = Jobs(s)
      BY <1>1 DEF Jobs
    <3>2. Pending(s)' = Pending(s)
      BY <3>1 DEF Pending
    <3> QED BY <1>0, <3>2 DEF CountInv
  <2> QED BY <2>1 DEF CountInv
<1> QED BY <1>2, <1>3, <1>4, <1>5, <1>6, <1>7 DEF IInv, HostInv

(* A call that failed returns, and its session takes work again. *)
LEMMA FailedReturns ==
  ASSUME IInv, Return, ui.status = "failed"
  PROVE  IInv'
<1>0. TypeOK /\ HostInv
  BY DEF IInv, HostInv
<1>1. PICK x \in Session : x = ui.session /\ ui.op \in Controls /\ ~stopping
  <2>1. ui.op \in Controls \cup {"none", "stop"}
    BY <1>0 DEF TypeOK
  <2>2. ui.op \in Controls /\ ui.session \in Session
    BY <1>0, <2>1 DEF HostInv, CallInv
  <2>3. ~stopping
    BY <1>0 DEF HostInv, CallInv
  <2> QED BY <2>2, <2>3
<1>2. /\ published' = [published EXCEPT ![x].accepting = @ \/ ui.op # "create"]
      /\ ui' = Free
      /\ UNCHANGED <<entries, cores, disk, work, inputs, stopping, engine, requests>>
  BY <1>1 DEF Return
<1>3. /\ published' \in [Session -> Published_]
      /\ \A s \in Session : /\ published'[s].gen = published[s].gen
                            /\ published'[s].accepting => published[s].accepting \/ Changing(s)
                            /\ published'[s].pending = published[s].pending
  <2>1. published \in [Session -> Published_]
    BY <1>0 DEF TypeOK
  <2>2. PICK p \in Published_ : p = published[x]
    BY <2>1
  <2>3. PICK b \in BOOLEAN : b <=> p.accepting \/ ui.op # "create"
    OBVIOUS
  <2>4. PICK d : d = [p EXCEPT !.accepting = b]
    OBVIOUS
  <2>5. d \in Published_ /\ d.gen = p.gen /\ d.pending = p.pending /\ d.accepting = b
    BY <2>4 DEF Published_
  <2>6. published' = [published EXCEPT ![x] = d]
    <3>1. (p.accepting \/ ui.op # "create") = b
      BY <2>3
    <3> QED BY <1>2, <2>2, <2>4, <3>1
  <2>7. \A s \in Session : published'[s] = IF s = x THEN d ELSE published[s]
    BY <2>1, <2>6
  <2>8. b => p.accepting \/ Changing(x)
    BY <1>1, <2>3 DEF Changing, Controls
  <2> QED BY <2>1, <2>2, <2>5, <2>6, <2>7, <2>8
<1>4. \A i \in 1..Len(work) : work[i].kind \notin Controls
  BY <1>0 DEF HostInv, ItemInv
<1>5. /\ ui'.op = "none" /\ ui'.status = "done"
      /\ ui' \in [op : Controls \cup {"none", "stop"}, session : Session \cup {None},
                  to : Generation \cup {None}, status : Statuses]
  BY <1>2 DEF Free, Statuses
<1>6. CallInv'
  <2>1. Tokens' = Tokens
    BY <1>2 DEF Tokens
  <2> QED BY <1>0, <1>1, <1>2, <1>5, <2>1 DEF HostInv, CallInv, Controls
<1>7. /\ entries' \in [Session -> Bound_] /\ stopping' \in BOOLEAN
      /\ engine' \in {"running", "gone"} /\ requests' \in Nat
  BY <1>0, <1>2 DEF TypeOK
<1> QED BY <1>2, <1>3, <1>4, <1>5, <1>6, <1>7, EndKeeps

(* The return of a call keeps the invariant. *)
LEMMA ReturnKeeps ==
  ASSUME IInv, Return
  PROVE  IInv'
<1>1. ui.status \in {"ok", "failed"}
  BY DEF Return
<1> QED BY <1>1, DoneReturns, FailedReturns

(* Stop keeps the invariant. *)
LEMMA StopKeeps ==
  ASSUME IInv, Stop
  PROVE  IInv'
<1>0. TypeOK /\ HostInv
  BY DEF IInv, HostInv
<1>1. /\ ui = Free /\ requests' = requests + 1
      /\ published' = [s \in Session |-> [published[s] EXCEPT !.accepting = FALSE]]
      /\ stopping' = TRUE
      /\ ui' = [Free EXCEPT !.op = "stop", !.status = "waits"]
      /\ UNCHANGED <<entries, cores, disk, work, inputs, engine>>
  BY DEF Stop, Asks
<1>2. /\ ~stopping /\ engine = "running"
      /\ \A i \in 1..Len(work) : work[i].kind \notin Controls
  BY <1>0, <1>1, FreeIs
<1>3. /\ ui'.op = "stop" /\ ui'.status = "waits" /\ ui # ui' /\ ui.status = "done"
      /\ ui' \in [op : Controls \cup {"none", "stop"}, session : Session \cup {None},
                  to : Generation \cup {None}, status : Statuses]
  BY <1>1 DEF Free, Statuses
<1>4. /\ published' \in [Session -> Published_]
      /\ \A s \in Session : /\ published'[s].gen = published[s].gen
                            /\ ~published'[s].accepting
                            /\ published'[s].pending = published[s].pending
  <2>1. published \in [Session -> Published_]
    BY <1>0 DEF TypeOK
  <2>2. \A p \in Published_ : /\ [p EXCEPT !.accepting = FALSE] \in Published_
                              /\ [p EXCEPT !.accepting = FALSE].gen = p.gen
                              /\ [p EXCEPT !.accepting = FALSE].pending = p.pending
                              /\ ~[p EXCEPT !.accepting = FALSE].accepting
    BY DEF Published_
  <2> QED BY <1>1, <2>1, <2>2
<1>5. CallInv'
  BY <1>1, <1>2, <1>3 DEF CallInv, Controls
<1>6. entries' \in [Session -> Bound_] /\ requests' \in Nat
  BY <1>0, <1>1 DEF TypeOK
<1> QED BY <1>1, <1>2, <1>3, <1>4, <1>5, <1>6, EndKeeps

(* Stopped keeps the invariant. *)
LEMMA StoppedKeeps ==
  ASSUME IInv, Stopped
  PROVE  IInv'
<1>0. TypeOK /\ HostInv
  BY DEF IInv, HostInv
<1>1. /\ ui.op = "stop" /\ engine = "gone" /\ ui.status = "waits"
      /\ ui' = [ui EXCEPT !.status = "done"]
      /\ UNCHANGED <<published, entries, cores, disk, work, inputs, stopping, engine, requests>>
  BY DEF Stopped
<1>2. \A i \in 1..Len(work) : work[i].kind \notin Controls
  BY <1>0, <1>1 DEF HostInv, ItemInv, Controls
<1>3. /\ ui'.op = "stop" /\ ui'.status = "done"
      /\ ui' \in [op : Controls \cup {"none", "stop"}, session : Session \cup {None},
                  to : Generation \cup {None}, status : Statuses]
  <2>1. ui \in [op : Controls \cup {"none", "stop"}, session : Session \cup {None},
                to : Generation \cup {None}, status : Statuses]
    BY <1>0 DEF TypeOK
  <2> QED BY <1>1, <2>1 DEF Statuses
<1>4. CallInv'
  <2>1. Tokens' = Tokens
    BY <1>1 DEF Tokens
  <2> QED BY <1>0, <1>1, <1>3, <2>1 DEF HostInv, CallInv, Controls
<1>5. /\ published' \in [Session -> Published_] /\ entries' \in [Session -> Bound_]
      /\ requests' \in Nat /\ stopping' \in BOOLEAN /\ engine' \in {"running", "gone"}
  BY <1>0, <1>1 DEF TypeOK
<1> QED BY <1>1, <1>2, <1>3, <1>4, <1>5, EndKeeps

(* Exit keeps the invariant: no job is left, so no fence is. *)
LEMMA ExitKeeps ==
  ASSUME IInv, Exit
  PROVE  IInv'
<1>0. TypeOK /\ HostInv /\ Files
  BY DEF IInv, HostInv
<1>1. /\ engine = "running" /\ stopping /\ work = <<>> /\ Tokens = {}
      /\ engine' = "gone" /\ entries' = [s \in Session |-> NoEntry]
      /\ UNCHANGED <<published, cores, disk, work, inputs, stopping, ui, requests>>
  BY DEF Exit, Idle
<1>2. ui.op = "stop" /\ ui.status # "ok"
  BY <1>0, <1>1 DEF HostInv, CallInv
<1>3. ASSUME NEW s \in Session PROVE entries[s].fence = None
  <2>1. FenceInv(s) /\ Jobs(s) = {}
    BY <1>0, <1>1 DEF Files, Jobs
  <2> QED BY <2>1 DEF FenceInv
<1>4. NoEntry \in Bound_ /\ NoEntry.fence = None
  BY HostAssumption DEF NoEntry, Bound_, None
<1>5. CallInv'
  <2>1. Tokens' = Tokens
    BY <1>1 DEF Tokens
  <2> QED BY <1>0, <1>1, <2>1 DEF HostInv, CallInv
<1>6. /\ published' \in [Session -> Published_] /\ requests' \in Nat /\ stopping' \in BOOLEAN
      /\ ui' \in [op : Controls \cup {"none", "stop"}, session : Session \cup {None},
                  to : Generation \cup {None}, status : Statuses]
  BY <1>0, <1>1 DEF TypeOK
<1>7. \A i \in 1..Len(work) : work[i].kind \notin Controls
  BY <1>0, <1>2 DEF HostInv, ItemInv, Controls
<1>8. entries' \in [Session -> Bound_] /\ \A s \in Session : entries'[s].fence = entries[s].fence
  BY <1>1, <1>3, <1>4
<1> QED BY <1>1, <1>2, <1>5, <1>6, <1>7, <1>8, EndKeeps

-----------------------------------------------------------------------------

(* The host before the first call. *)
LEMMA InitTyped ==
  ASSUME Init
  PROVE  TypeOK /\ Tokens = {} /\ Len(work) = 0
<1>1. /\ NewCore \in Core_ /\ NoEntry \in Bound_ /\ None \in Nat
  BY HostAssumption DEF NewCore, Core_, NoEntry, Bound_, None
<1>2. Tokens = {} /\ Len(work) = 0
  BY EmptySeq DEF Tokens, Init
<1>3. [gen |-> None, accepting |-> FALSE, pending |-> 0] \in Published_
  BY DEF Published_
<1>4. published \in [Session -> Published_]
  BY <1>3 DEF Init
<1>5. entries \in [Session -> Bound_] /\ cores \in [Session -> Core_] /\ disk \in [Session -> Nat]
  BY <1>1 DEF Init
<1>6. ui \in [op : Controls \cup {"none", "stop"}, session : Session \cup {None},
              to : Generation \cup {None}, status : Statuses]
  BY DEF Free, Statuses, Init
<1>7. work \in Seq(Work_)
  BY EmptySeq DEF Init
<1>8. Tokens \subseteq 1..MaxJobs /\ inputs \in [Tokens -> Input_]
  BY <1>2 DEF Tokens, Init
<1>9. stopping \in BOOLEAN /\ engine \in {"running", "gone"} /\ requests \in Nat
  BY DEF Init
<1> QED BY <1>2, <1>4, <1>5, <1>6, <1>7, <1>8, <1>9 DEF TypeOK

(* No session, no work: the invariant holds. *)
LEMMA InitHolds == Init => IInv
<1> SUFFICES ASSUME Init PROVE IInv
  OBVIOUS
<1>1. TypeOK /\ Tokens = {} /\ Len(work) = 0 /\ \A s : Jobs(s) = {}
  BY InitTyped DEF Jobs
<1>2. ui.op = "none" /\ ui.status = "done" /\ ~stopping /\ engine = "running"
  BY DEF Init, Free
<1>3. CallInv
  BY <1>2 DEF CallInv, Controls
<1>4. ItemInv /\ OwnInv
  BY <1>1 DEF ItemInv, OwnInv
<1>5. \A s \in Session : /\ published[s].gen = None /\ ~published[s].accepting
                         /\ published[s].pending = 0 /\ entries[s].gen = None
                         /\ entries[s].fence = None /\ cores[s].saved = None /\ disk[s] = None
  BY DEF Init, NoEntry, NewCore
<1>6. BindingInv
  BY <1>2, <1>5 DEF BindingInv, Changing
<1>7. Files
  BY <1>1, <1>5 DEF Files, FenceInv, SavedInv
<1>8. CountInv
  <2>1. ASSUME NEW s \in Session PROVE published[s].pending = Pending(s)
    <3>0. work \in Seq(Work_)
      BY <1>1 DEF TypeOK
    <3>1. Edits(work, s) = {}
      <4>1. Edits(work, s) = {i \in 1..Len(work) : Counts(work[i], s)}
        BY <3>0, EditsAre
      <4>2. \A i : i \notin 1..Len(work)
        BY <1>1
      <4> QED BY <4>1, <4>2
    <3>2. Units(work, s) = 0
      BY <3>1, SumEmpty DEF Units
    <3>3. Cardinality(Jobs(s)) = 0
      BY <1>1, FS_EmptySet
    <3>4. Pending(s) = 0
      BY <3>2, <3>3 DEF Pending
    <3> QED BY <1>5, <3>4
  <2> QED BY <2>1 DEF CountInv
<1> QED BY <1>1, <1>3, <1>4, <1>6, <1>7, <1>8 DEF IInv, HostInv

(* A stutter keeps the invariant. *)
LEMMA StutterKeeps ==
  ASSUME IInv, UNCHANGED vars
  PROVE  IInv'
<1>1. TypeOK /\ Files
  BY DEF IInv, HostInv
<1>2. UNCHANGED <<published, entries, cores, disk, work, inputs, stopping, engine, ui, requests>>
  BY DEF vars
<1>3. Tokens' = Tokens /\ inputs' \in [Tokens' -> Input_]
  BY <1>1, <1>2, SameTyped
<1>4. /\ entries' \in [Session -> Bound_] /\ cores' \in [Session -> Core_]
      /\ disk' \in [Session -> Nat] /\ requests' \in Nat
  BY <1>1, <1>2 DEF TypeOK
<1>5. Files'
  BY <1>1, <1>2, SameFiles
<1> QED BY <1>2, <1>3, <1>4, <1>5, StillKeeps

(* Every step of the UI thread keeps the invariant. *)
LEMMA UIKeeps ==
  ASSUME IInv, UI
  PROVE  IInv'
<1>1. ASSUME NEW s \in Session, NEW g \in Generation, RebindSession(s, g) PROVE IInv'
  <2>1. Transit(s, "rebind", g)
    BY <1>1 DEF RebindSession
  <2> QED BY <2>1, TransitKeeps
<1>2. ASSUME NEW s \in Session, CloseSession(s) PROVE IInv'
  <2>1. Transit(s, "close", None)
    BY <1>2 DEF CloseSession
  <2> QED BY <2>1, TransitKeeps
<1>3. ASSUME NEW s \in Session, NEW g \in Generation, CreateSession(s, g) PROVE IInv'
  BY <1>3, CreateKeeps
<1>4. ASSUME NEW s \in Session, NEW d \in BOOLEAN, PushEdit(s, d) PROVE IInv'
  BY <1>4, PushEditKeeps
<1>5. ASSUME NEW s \in Session, NEW k \in Stroke, PushStroke(s, k) PROVE IInv'
  BY <1>5, PushStrokeKeeps
<1>6. ASSUME NEW s \in Session, NEW k \in {"save", "open"}, EnqueueFileIo(s, k) PROVE IInv'
  BY <1>6, EnqueueKeeps
<1>7. ASSUME NEW t \in Tokens, CancelFileIo(t) PROVE IInv'
  BY <1>7, CancelKeeps
<1>8. CASE Stop
  BY <1>8, StopKeeps
<1> QED BY <1>1, <1>2, <1>3, <1>4, <1>5, <1>6, <1>7, <1>8 DEF UI

(* Every step of the engine thread keeps the invariant. *)
LEMMA EngineKeeps ==
  ASSUME IInv, Engine
  PROVE  IInv'
<1>1. ASSUME NEW s \in Session, CancelForTransition(s) \/ CancelForShutdown(s) PROVE IInv'
  BY <1>1, GivesUpKeeps DEF CancelForTransition, CancelForShutdown
<1>2. ASSUME NEW t \in Tokens, ProcessFileIo(t) PROVE IInv'
  BY <1>2, FileIoKeeps
<1>3. CASE ProcessEdit
  BY <1>3, EditKeeps
<1>4. CASE ProcessStroke
  BY <1>4, StrokeKeeps
<1>5. CASE ProcessControl
  BY <1>5, AnswerKeeps
<1>6. CASE Exit
  BY <1>6, ExitKeeps
<1> QED BY <1>1, <1>2, <1>3, <1>4, <1>5, <1>6 DEF Engine

(* Every step keeps the invariant. *)
LEMMA StepHolds == IInv /\ [Next]_vars => IInv'
<1> SUFFICES ASSUME IInv, [Next]_vars PROVE IInv'
  OBVIOUS
<1>1. CASE UI
  BY <1>1, UIKeeps
<1>2. CASE Return
  BY <1>2, ReturnKeeps
<1>3. CASE Stopped
  BY <1>3, StoppedKeeps
<1>4. CASE Engine
  BY <1>4, EngineKeeps
<1>5. ASSUME NEW s \in Session, PreviewFails(s) PROVE IInv'
  BY <1>5, GivesUpKeeps DEF PreviewFails
<1>6. ASSUME NEW t \in Tokens, Answer(t) \/ Prepare(t) \/ Install(t) PROVE IInv'
  BY <1>6, PrepareKeeps, InstallKeeps
<1>7. CASE UNCHANGED vars
  BY <1>7, StutterKeeps
<1> QED BY <1>1, <1>2, <1>3, <1>4, <1>5, <1>6, <1>7 DEF Next

(* The inductive invariant: calls, items, bindings and owners of          *)
(* core_host.cpp, the fences and savepoints of apply.rs, and the count of *)
(* pending operations.                                                    *)
THEOREM Invariance == Spec => []IInv
<1> QED BY InitHolds, StepHolds, PTL DEF Spec

(* Every variable of the host has its type in every state: among it that  *)
(* a job is of a real generation and a fence is a token (core_host.cpp,   *)
(* file_io_controller.cpp).                                               *)
THEOREM Typing == Spec => []TypeOK
<1>1. IInv => TypeOK
  BY DEF IInv, HostInv
<1> QED BY Invariance, <1>1, PTL

(* SavedIsInstalled for any sessions, queue, jobs and generations: the    *)
(* savepoint of a Core is what its file holds unless an installation of   *)
(* the session is done and not yet applied, however edits, cancellations, *)
(* rebinds and worker results interleave (inkpod-                         *)
(* core/src/file_io/apply.rs).                                            *)
THEOREM Saved == Spec => []SavedIsInstalled
<1>1. IInv => SavedIsInstalled
  <2>1. ASSUME IInv, NEW s \in Session
        PROVE  \/ cores[s].saved = disk[s]
               \/ \E t \in Tokens : /\ inputs[t].session = s
                                    /\ inputs[t].stage \in {"installed", "revoked"}
    <3>1. SavedInv(s)
      BY <2>1 DEF IInv, Files
    <3> QED BY <3>1, JobsAre DEF SavedInv
  <2> QED BY <2>1 DEF SavedIsInstalled
<1> QED BY Invariance, <1>1, PTL

(* PendingCountsWork for any sessions and limits: pending_operations of   *)
(* core_host.cpp is the work and the jobs that wait for the published     *)
(* binding, so a rebind or close leaves nothing behind and every unit is  *)
(* counted once, joined appends included.                                 *)
THEOREM Counted == Spec => []PendingCountsWork
<1>1. IInv => PendingCountsWork
  <2>1. ASSUME IInv, NEW s \in Session
        PROVE  /\ \A i \in Edits(work, s) : work[i].gen = published[s].gen
               /\ \A t \in Jobs(s) : inputs[t].gen = published[s].gen
               /\ published[s].pending = Units(work, s) + Cardinality(Jobs(s))
    <3>0. TypeOK /\ OwnInv /\ work \in Seq(Work_)
      BY <2>1 DEF IInv, HostInv, TypeOK
    <3>1. \A i \in Edits(work, s) : work[i].gen = published[s].gen
      BY <3>0, EditsAre DEF Counts, OwnInv
    <3>2. \A t \in Jobs(s) : inputs[t].gen = published[s].gen
      BY <3>0, JobsAre DEF OwnInv
    <3>3. published[s].pending = Units(work, s) + Cardinality(Jobs(s))
      BY <2>1 DEF IInv, CountInv, Pending
    <3> QED BY <3>1, <3>2, <3>3
  <2> QED BY <2>1 DEF PendingCountsWork
<1> QED BY Invariance, <1>1, PTL

-----------------------------------------------------------------------------
(* A Core waits only for an installation that is still to be applied, and  *)
(* nobody draws while it does.                                             *)
Pended == \A s \in Session : cores[s].pending => \E t \in Jobs(s) : Installing(t)
FenceStops == \A s \in Session : entries[s].fence # None => ~entries[s].stroke

FencesHeld ==
    \A s \in Session : cores[s].pending \/ entries[s].fence # None =>
        \E t \in Tokens : /\ inputs[t].session = s
                          /\ entries[s].fence = t
                          /\ Installing(t)

(* No Core begins to wait and no installation is lost. *)
LEMMA PendedFrame ==
  ASSUME Pended,
         \A s \in Session : cores'[s].pending => cores[s].pending,
         \A t \in Tokens : Installing(t) => /\ t \in Tokens' /\ Installing(t)'
                                            /\ inputs'[t].session = inputs[t].session
  PROVE  Pended'
<1> SUFFICES ASSUME NEW s \in Session, cores'[s].pending
             PROVE  \E t \in Jobs(s)' : Installing(t)'
  BY DEF Pended
<1>1. PICK t \in Jobs(s) : Installing(t)
  BY DEF Pended
<1> QED BY <1>1, JobsAre

(* No fence is put up and no stroke is begun. *)
LEMMA StopsFrame ==
  ASSUME FenceStops,
         \A s \in Session : \/ entries'[s].fence = None
                            \/ ~entries'[s].stroke
                            \/ /\ entries'[s].fence = entries[s].fence
                               /\ entries'[s].stroke = entries[s].stroke
  PROVE  FenceStops'
BY DEF FenceStops

(* The entry after a turn of a job: its fence, and no stroke that was not. *)
LEMMA FenceAfter ==
  ASSUME HostInv, NEW t \in Tokens, IoTurn(t), NEW f \in 0..MaxJobs, FenceWith(t, f)
  PROVE  /\ \A s \in Session : s # inputs[t].session => entries'[s] = entries[s]
         /\ entries'[inputs[t].session].fence = f
         /\ entries'[inputs[t].session].stroke = StrokeAfter(t)
<1>1. TypeOK /\ engine = "running" /\ inputs[t].session \in Session
  BY TurnRuns, Shapes DEF HostInv
<1>2. Bound(inputs[t])
  BY <1>1, JobBound
<1>3. PICK e \in Bound_, x \in Session, b \in {StrokeAfter(t)} :
          e = entries[x] /\ x = inputs[t].session
  BY <1>1 DEF TypeOK
<1>4. PICK d : d = [e EXCEPT !.stroke = b, !.fence = f]
  OBVIOUS
<1>5. d.fence = f /\ d.stroke = b
  BY <1>4 DEF Bound_
<1>6. entries' = [entries EXCEPT ![x] = d]
  BY <1>2, <1>3, <1>4 DEF FenceWith
<1>7. /\ entries'[x] = d
      /\ \A s \in Session : s # x => entries'[s] = entries[s]
  BY <1>1, <1>6 DEF TypeOK
<1> QED BY <1>3, <1>5, <1>7

(* A turn that puts up no fence begins no stroke. *)
LEMMA TurnStops ==
  ASSUME HostInv, FenceStops, NEW t \in Tokens, IoTurn(t), NEW f \in 0..MaxJobs,
         FenceWith(t, f), f \in {None, FenceOf(t)} \/ ~StrokeAfter(t)
  PROVE  FenceStops'
<1>1. PICK x \in Session : x = inputs[t].session
  BY Shapes DEF HostInv
<1>2. /\ \A s \in Session : s # x => entries'[s] = entries[s]
      /\ entries'[x].fence = f /\ entries'[x].stroke = StrokeAfter(t)
  BY <1>1, FenceAfter
<1>3. f = FenceOf(t) /\ f # None => ~StrokeAfter(t)
  BY <1>1 DEF FenceOf, FenceStops, StrokeAfter, Stroking
<1>4. entries'[x].fence = None \/ ~entries'[x].stroke
  BY <1>2, <1>3
<1>5. ASSUME NEW s \in Session
      PROVE  \/ entries'[s].fence = None
             \/ ~entries'[s].stroke
             \/ /\ entries'[s].fence = entries[s].fence
                /\ entries'[s].stroke = entries[s].stroke
  BY <1>2, <1>4
<1> QED BY <1>5, StopsFrame

(* Installations that another job's step leaves alone. *)
LEMMA OthersInstall ==
  ASSUME NEW t \in Tokens, \A u \in Tokens : u # t => u \in Tokens' /\ inputs'[u] = inputs[u],
         Installing(t) => t \in Tokens' /\ Installing(t)' /\ inputs'[t].session = inputs[t].session
  PROVE  \A u \in Tokens : Installing(u) => /\ u \in Tokens' /\ Installing(u)'
                                            /\ inputs'[u].session = inputs[u].session
BY DEF Installing

(* What Finalized leaves of the Core does not wait. *)
LEMMA FinalizedWaitsNot ==
  ASSUME HostInv, Files, NEW t \in Tokens,
         inputs[t].stage \in {"installed", "undone", "repaired", "revoked"}
  PROVE  Finalized(t).pending = FALSE
<1>0. Installing(t) /\ TypeOK
  BY DEF Installing, HostInv
<1>1. PICK x \in Session : x = inputs[t].session
  BY <1>0, Shapes
<1>2. Fresh(t)
  BY <1>0, <1>1, AloneHeld DEF Held, Fresh
<1>3. PICK c \in Core_ : c = cores[x]
  BY <1>0, Shapes
<1>4. PICK n \in {c.rev}, a \in {c.authority + 1} : TRUE
  OBVIOUS
<1>5. CASE inputs[t].stage = "installed"
  <2>1. Finalized(t) = [c EXCEPT !.saved = n, !.pending = FALSE, !.authority = a]
    BY <1>1, <1>2, <1>3, <1>4, <1>5 DEF Finalized
  <2> QED BY <2>1 DEF Core_
<1>6. CASE inputs[t].stage = "undone"
  <2>1. Finalized(t) = [c EXCEPT !.pending = FALSE]
    BY <1>1, <1>3, <1>6 DEF Finalized
  <2> QED BY <2>1 DEF Core_
<1>7. CASE inputs[t].stage = "repaired"
  <2>1. Finalized(t) = [c EXCEPT !.authority = a, !.pending = FALSE]
    BY <1>1, <1>3, <1>4, <1>7 DEF Finalized
  <2> QED BY <2>1 DEF Core_
<1>8. CASE inputs[t].stage = "revoked"
  <2>1. Finalized(t) = [c EXCEPT !.saved = None, !.pending = FALSE]
    BY <1>1, <1>3, <1>8 DEF Finalized
  <2> QED BY <2>1 DEF Core_
<1> QED BY <1>5, <1>6, <1>7, <1>8

(* One Core is written. *)
LEMMA WaitsAfter ==
  ASSUME TypeOK, NEW x \in Session, NEW c, cores' = [cores EXCEPT ![x] = c]
  PROVE  cores'[x] = c /\ \A s \in Session : s # x => cores'[s] = cores[s]
BY DEF TypeOK

LEMMA FileIoPended ==
  ASSUME IInv, Pended, FenceStops, NEW t \in Tokens, ProcessFileIo(t)
  PROVE  Pended' /\ FenceStops'
<1>0. HostInv /\ Files /\ TypeOK
  BY DEF IInv, HostInv
<1>1. PICK x \in Session : x = inputs[t].session
  BY <1>0, Shapes
<1>2. /\ IoTurn(t) /\ engine = "running"
      /\ FenceOf(t) \in 0..MaxJobs /\ Unfenced(t) \in 0..MaxJobs /\ t \in 0..MaxJobs
      /\ Unfenced(t) \in {None, FenceOf(t)}
  <2>1. IoTurn(t)
    BY DEF ProcessFileIo, IoWaits, IoSubmits, IoPolls, IoAsks, IoGivesUp, IoApplies, IoFinalizes
  <2> QED BY <1>0, <2>1, FencesTyped, TurnRuns DEF Unfenced
<1>3. Served(t) => ~StrokeAfter(t)
  BY <1>0, <1>2, JobBound DEF Served
<1>4. CASE IoWaits(t)
  <2>1. inputs' = [inputs EXCEPT ![t].active = TRUE] /\ cores' = cores /\ FenceWith(t, FenceOf(t))
    BY <1>4 DEF IoWaits
  <2>2. /\ Tokens' = Tokens /\ Same(t, inputs'[t]) /\ inputs'[t].stage = inputs[t].stage
        /\ \A u \in Tokens : u # t => inputs'[u] = inputs[u]
    BY <1>0, <2>1, FlagIs
  <2>3. \A u \in Tokens : Installing(u) => /\ u \in Tokens' /\ Installing(u)'
                                           /\ inputs'[u].session = inputs[u].session
    BY <2>2, OthersInstall DEF Installing, Same
  <2>4. Pended'
    BY <2>1, <2>3, PendedFrame
  <2> QED BY <1>0, <1>2, <2>1, <2>4, TurnStops
<1>5. CASE IoPolls(t)
  <2>1. /\ Pends(t, inputs[t].stage, inputs[t].stamp) /\ FenceWith(t, FenceOf(t)) /\ cores' = cores
    BY <1>5 DEF IoPolls
  <2>2. Stays(t, inputs[t].stage, inputs[t].stamp)
    BY <1>0, <2>1, JobTyped, StaysIs
  <2>3. \A u \in Tokens : Installing(u) => /\ u \in Tokens' /\ Installing(u)'
                                           /\ inputs'[u].session = inputs[u].session
    BY <2>2, OthersInstall DEF Installing, Same, Stays
  <2>4. Pended'
    BY <2>1, <2>3, PendedFrame
  <2> QED BY <1>0, <1>2, <2>1, <2>4, TurnStops
<1>6. CASE ~Installing(t) /\ Ends(t) /\ FenceWith(t, Unfenced(t))
           /\ \A s \in Session : cores'[s].pending => cores[s].pending
  <2>1. Gone(t)
    BY <1>0, <1>6, GoneIs
  <2>2. \A u \in Tokens : Installing(u) => /\ u \in Tokens' /\ Installing(u)'
                                           /\ inputs'[u].session = inputs[u].session
    BY <1>6, <2>1, OthersInstall DEF Gone
  <2>3. Pended'
    BY <1>6, <2>2, PendedFrame
  <2> QED BY <1>0, <1>2, <1>6, <2>3, TurnStops
<1>7. CASE IoSubmits(t) /\ ~Ends(t)
  <2>1. /\ Pends(t, "preparing", Stamp(inputs[t].session)) /\ FenceWith(t, Unfenced(t))
        /\ cores' = cores /\ ~Installing(t)
    BY <1>7 DEF IoSubmits, Installing
  <2>2. Stays(t, "preparing", Stamp(inputs[t].session))
    <3>1. "preparing" \in Stages /\ Stamp(inputs[t].session) \in (Nat \X Nat \X Nat) \cup {<<>>}
      BY <1>0, <1>1, StampIs DEF Stages
    <3> QED BY <1>0, <2>1, <3>1, StaysIs
  <2>3. \A u \in Tokens : Installing(u) => /\ u \in Tokens' /\ Installing(u)'
                                           /\ inputs'[u].session = inputs[u].session
    BY <2>1, <2>2, OthersInstall DEF Stays
  <2>4. Pended'
    BY <2>1, <2>3, PendedFrame
  <2> QED BY <1>0, <1>2, <2>1, <2>4, TurnStops
<1>13. CASE IoAsks(t)
  <2>1. /\ Pends(t, "asking", inputs[t].stamp) /\ FenceWith(t, FenceOf(t))
        /\ cores' = cores /\ ~Installing(t)
    BY <1>13 DEF IoAsks, Installing
  <2>2. Stays(t, "asking", inputs[t].stamp)
    BY <1>0, <2>1, JobTyped, StaysIs DEF Stages
  <2>3. \A u \in Tokens : Installing(u) => /\ u \in Tokens' /\ Installing(u)'
                                           /\ inputs'[u].session = inputs[u].session
    BY <2>1, <2>2, OthersInstall DEF Stays
  <2>4. Pended'
    BY <2>1, <2>3, PendedFrame
  <2> QED BY <1>0, <1>2, <2>1, <2>4, TurnStops
<1>8. CASE IoApplies(t) /\ ~Ends(t)
  <2>1. /\ Served(t) /\ inputs[t].stage \in {"prepared", "agreed"}
        /\ Pends(t, "installing", inputs[t].stamp) /\ FenceWith(t, t)
        /\ cores' = [cores EXCEPT ![x].pending = TRUE]
    BY <1>1, <1>8 DEF IoApplies
  <2>2. Stays(t, "installing", inputs[t].stamp)
    BY <1>0, <2>1, JobTyped, StaysIs DEF Stages
  <2>3. FenceStops'
    BY <1>0, <1>2, <1>3, <2>1, TurnStops
  <2>4. \A s \in Session : s # x => cores'[s] = cores[s]
    BY <1>0, <2>1 DEF TypeOK
  <2>5. ASSUME NEW s \in Session, cores'[s].pending PROVE \E u \in Jobs(s)' : Installing(u)'
    <3>1. CASE s = x
      <4>1. t \in Jobs(s)' /\ Installing(t)'
        BY <1>1, <2>2, <3>1, JobsAre DEF Stays, Same, Installing
      <4> QED BY <4>1
    <3>2. CASE s # x
      <4>1. PICK u \in Jobs(s) : Installing(u)
        BY <2>4, <2>5, <3>2 DEF Pended
      <4>2. u # t /\ u \in Tokens /\ inputs[u].session = s
        BY <1>1, <3>2, <4>1, JobsAre
      <4>3. u \in Jobs(s)' /\ Installing(u)'
        BY <2>2, <4>1, <4>2, JobsAre DEF Stays, Installing
      <4> QED BY <4>3
    <3> QED BY <3>1, <3>2
  <2> QED BY <2>3, <2>5 DEF Pended
<1>9. CASE IoFinalizes(t)
  <2>1. /\ Ends(t) /\ FenceWith(t, Unfenced(t)) /\ cores' = [cores EXCEPT ![x] = Finalized(t)]
        /\ Finalized(t).pending = FALSE
    BY <1>0, <1>1, <1>9, FinalizedWaitsNot DEF IoFinalizes
  <2>2. Gone(t)
    BY <1>0, <2>1, GoneIs
  <2>3. /\ ~cores'[x].pending /\ \A s \in Session : s # x => cores'[s] = cores[s]
    BY <1>0, <2>1, WaitsAfter
  <2>4. ASSUME NEW s \in Session, cores'[s].pending PROVE \E u \in Jobs(s)' : Installing(u)'
    <3>1. s # x /\ cores[s].pending
      BY <2>3, <2>4
    <3>2. PICK u \in Jobs(s) : Installing(u)
      BY <3>1 DEF Pended
    <3>3. u # t /\ u \in Tokens /\ inputs[u].session = s
      BY <1>1, <3>1, <3>2, JobsAre
    <3>4. u \in Jobs(s)' /\ Installing(u)'
      BY <2>2, <3>2, <3>3, JobsAre DEF Gone, Installing
    <3> QED BY <3>4
  <2>5. FenceStops'
    BY <1>0, <1>2, <2>1, TurnStops
  <2> QED BY <2>4, <2>5 DEF Pended
<1>10. ASSUME IoApplies(t), Ends(t)
       PROVE  ~Installing(t) /\ FenceWith(t, Unfenced(t))
              /\ \A s \in Session : cores'[s].pending => cores[s].pending
  <2>1. ~Pends(t, "installing", inputs[t].stamp)
    <3>1. Gone(t)
      BY <1>0, <1>10, GoneIs
    <3>2. Pends(t, "installing", inputs[t].stamp) => t \in Tokens'
      BY <1>0, JobTyped, StaysIs DEF Stays, Stages
    <3> QED BY <3>1, <3>2 DEF Gone
  <2>2. ~Installing(t) /\ FenceWith(t, Unfenced(t))
    BY <1>10, <2>1 DEF IoApplies, Installing
  <2>3. \/ cores' = cores
        \/ \E c : cores' = [cores EXCEPT ![x] = c] /\ c.pending = FALSE
    <3>1. PICK c : c = [rev |-> cores[x].rev + 1, saved |-> cores[x].rev + 1,
                        authority |-> cores[x].authority + 1, pending |-> FALSE]
      OBVIOUS
    <3>2. c.pending = FALSE
      BY <3>1
    <3>3. cores' = cores \/ cores' = [cores EXCEPT ![x] = c]
      BY <1>1, <1>10, <2>1, <3>1 DEF IoApplies
    <3> QED BY <3>2, <3>3
  <2>4. ASSUME NEW s \in Session, cores'[s].pending PROVE cores[s].pending
    BY <1>0, <2>3, <2>4, WaitsAfter
  <2> QED BY <2>2, <2>4
<1>11. ASSUME IoSubmits(t) \/ IoGivesUp(t), Ends(t)
       PROVE  ~Installing(t) /\ FenceWith(t, Unfenced(t)) /\ cores' = cores
  BY <1>11 DEF IoSubmits, IoGivesUp, Installing
<1>12. CASE IoGivesUp(t)
  BY <1>6, <1>11, <1>12 DEF IoGivesUp
<1> QED BY <1>4, <1>5, <1>6, <1>7, <1>8, <1>9, <1>10, <1>11, <1>12, <1>13 DEF ProcessFileIo

(* Steps that write neither jobs nor Cores, and no fence. *)
LEMMA SameFences ==
  ASSUME Pended, FenceStops, cores' = cores, inputs' = inputs, entries' = entries
  PROVE  Pended' /\ FenceStops'
BY DEF Pended, FenceStops, Jobs, Tokens, Installing

(* ProcessStroke begins no stroke behind a fence. *)
LEMMA StrokePended ==
  ASSUME IInv, Pended, FenceStops, ProcessStroke
  PROVE  Pended' /\ FenceStops'
<1>0. TypeOK /\ entries \in [Session -> Bound_] /\ cores \in [Session -> Core_]
  BY DEF IInv, HostInv, TypeOK
<1>1. PICK i \in DOMAIN work, b \in BOOLEAN, c \in BOOLEAN :
          /\ work[i].kind \in Stroke /\ Turn(i)
          /\ entries' = IF ~Bound(work[i]) THEN entries
                        ELSE [entries EXCEPT ![work[i].session].stroke = b]
          /\ cores' = IF Bound(work[i]) /\ c
                      THEN [cores EXCEPT ![work[i].session].rev = @ + 1] ELSE cores
  <2>1. PICK i \in DOMAIN work, ok \in BOOLEAN :
          LET w == work[i]
              s == w.session
              goes == ok /\ IF w.kind = "begin" THEN Editable(s)
                            ELSE entries[s].stroke
          IN  /\ w.kind \in Stroke
              /\ Turn(i)
              /\ Complete(w)
              /\ entries' = IF ~Bound(w) THEN entries
                            ELSE [entries EXCEPT ![s].stroke =
                                     goes /\ w.kind \in {"begin", "append"}]
              /\ cores' = IF Bound(w) /\ goes /\ w.kind = "end"
                          THEN [cores EXCEPT ![s].rev = @ + 1] ELSE cores
    BY DEF ProcessStroke
  <2>2. PICK g \in BOOLEAN :
              /\ work[i].kind \in Stroke
              /\ Turn(i)
              /\ entries' = IF ~Bound(work[i]) THEN entries
                            ELSE [entries EXCEPT ![work[i].session].stroke =
                                     g /\ work[i].kind \in {"begin", "append"}]
              /\ cores' = IF Bound(work[i]) /\ g /\ work[i].kind = "end"
                          THEN [cores EXCEPT ![work[i].session].rev = @ + 1] ELSE cores
    BY <2>1
  <2>3. PICK b \in BOOLEAN, c \in BOOLEAN : b = (g /\ work[i].kind \in {"begin", "append"})
                                            /\ c = (g /\ work[i].kind = "end")
    OBVIOUS
  <2> QED BY <2>2, <2>3
<1>2. inputs' = inputs
  BY DEF ProcessStroke
<1>3. i \in 1..Len(work) /\ CanProcess(work[i])
  BY <1>0, <1>1, TurnIs
<1>4. PICK x \in Session : x = work[i].session
  BY <1>0, <1>3, Shapes DEF Work_
<1>5. Bound(work[i]) => entries[x].fence = None
  BY <1>1, <1>3, <1>4 DEF CanProcess, IsControl, Fenced, Stroke
<1>6. Pended'
  <2>1. PICK c0 \in Core_ : c0 = cores[x]
    BY <1>0
  <2>2. PICK d \in {[c0 EXCEPT !.rev = c0.rev + 1]} : TRUE
    OBVIOUS
  <2>3. d.pending = c0.pending
    BY <2>2 DEF Core_
  <2>4. cores' = cores \/ cores' = [cores EXCEPT ![x] = d]
    BY <1>1, <1>4, <2>1, <2>2
  <2>5. \A s \in Session : cores'[s].pending => cores[s].pending
    BY <1>0, <2>1, <2>3, <2>4, WaitsAfter
  <2>6. Tokens' = Tokens /\ \A t \in Tokens : inputs'[t] = inputs[t]
    BY <1>2 DEF Tokens
  <2> QED BY <2>5, <2>6, PendedFrame DEF Installing
<1>7. FenceStops'
  <2>1. PICK e \in Bound_ : e = entries[x]
    BY <1>0
  <2>2. PICK d \in {[e EXCEPT !.stroke = b]} : TRUE
    OBVIOUS
  <2>3. d.fence = e.fence
    BY <2>2 DEF Bound_
  <2>4. \/ entries' = entries
        \/ e.fence = None /\ entries' = [entries EXCEPT ![x] = d]
    BY <1>1, <1>4, <1>5, <2>1, <2>2
  <2>5. \A s \in Session : entries'[s] = entries[s] \/ entries'[s].fence = None
    BY <1>0, <2>3, <2>4
  <2> QED BY <2>5, StopsFrame
<1> QED BY <1>6, <1>7

LEMMA EditPended ==
  ASSUME IInv, Pended, FenceStops, ProcessEdit
  PROVE  Pended' /\ FenceStops'
<1>0. TypeOK /\ cores \in [Session -> Core_]
  BY DEF IInv, HostInv, TypeOK
<1>1. PICK i \in DOMAIN work :
          /\ Turn(i)
          /\ cores' = IF Bound(work[i]) /\ Editable(work[i].session)
                      THEN [cores EXCEPT ![work[i].session].rev = @ + 1] ELSE cores
  BY DEF ProcessEdit
<1>2. PICK x \in Session : x = work[i].session
  BY <1>0, <1>1, TurnIs, Shapes DEF Work_
<1>3. PICK c \in Core_ : c = cores[x]
  BY <1>0
<1>4. PICK d \in {[c EXCEPT !.rev = c.rev + 1]} : TRUE
  OBVIOUS
<1>5. d.pending = c.pending
  BY <1>4 DEF Core_
<1>6. cores' = cores \/ cores' = [cores EXCEPT ![x] = d]
  BY <1>1, <1>2, <1>3, <1>4
<1>7. \A s \in Session : cores'[s].pending => cores[s].pending
  BY <1>0, <1>3, <1>5, <1>6, WaitsAfter
<1>8. entries' = entries /\ Tokens' = Tokens /\ \A t \in Tokens : inputs'[t] = inputs[t]
  BY DEF ProcessEdit, Tokens
<1>9. Pended'
  BY <1>7, <1>8, PendedFrame DEF Installing
<1> QED BY <1>8, <1>9 DEF FenceStops

LEMMA ControlPended ==
  ASSUME IInv, Pended, FenceStops, ProcessControl
  PROVE  Pended' /\ FenceStops'
<1>0. TypeOK /\ entries \in [Session -> Bound_] /\ cores \in [Session -> Core_]
  BY DEF IInv, HostInv, TypeOK
<1>1. PICK i \in DOMAIN work :
         /\ work[i].kind = "create" \/ IsControl(work[i])
         /\ Turn(i)
         /\ \/ entries' = entries
            \/ work[i].kind = "rebind" /\ entries' = [entries EXCEPT ![work[i].session].gen = work[i].to]
            \/ work[i].kind = "close" /\ entries' = [entries EXCEPT ![work[i].session] = NoEntry]
            \/ /\ work[i].kind = "create"
               /\ entries' = [entries EXCEPT ![work[i].session] = [NoEntry EXCEPT !.gen = work[i].to]]
         /\ cores' \in {cores, [cores EXCEPT ![work[i].session] = NewCore]}
  BY DEF ProcessControl, IsControl
<1>2. inputs' = inputs
  BY DEF ProcessControl
<1>3. PICK x \in Session : x = work[i].session
  BY <1>0, <1>1, TurnIs, Shapes DEF Work_
<1>4. Pended'
  <2>1. NewCore.pending = FALSE
    BY DEF NewCore
  <2>2. cores' = cores \/ cores' = [cores EXCEPT ![x] = NewCore]
    BY <1>1, <1>3
  <2>3. \A s \in Session : cores'[s].pending => cores[s].pending
    BY <1>0, <2>1, <2>2, WaitsAfter
  <2>4. Tokens' = Tokens /\ \A t \in Tokens : inputs'[t] = inputs[t]
    BY <1>2 DEF Tokens
  <2> QED BY <2>3, <2>4, PendedFrame DEF Installing
<1>5. PICK e \in Bound_ : e = entries[x]
  BY <1>0
<1>6. PICK g \in {work[i].to} : TRUE
  OBVIOUS
<1>7. PICK d1 \in {[e EXCEPT !.gen = g]}, d2 \in {[NoEntry EXCEPT !.gen = g]} : TRUE
  OBVIOUS
<1>8. d1.fence = e.fence /\ d1.stroke = e.stroke /\ d2.fence = None /\ NoEntry.fence = None
  BY <1>7 DEF Bound_, NoEntry
<1>9. \/ entries' = entries
      \/ entries' = [entries EXCEPT ![x] = d1]
      \/ entries' = [entries EXCEPT ![x] = d2]
      \/ entries' = [entries EXCEPT ![x] = NoEntry]
  BY <1>1, <1>3, <1>5, <1>6, <1>7
<1>10. \A s \in Session : \/ entries'[s].fence = None
                          \/ /\ entries'[s].fence = entries[s].fence
                             /\ entries'[s].stroke = entries[s].stroke
  BY <1>0, <1>5, <1>8, <1>9
<1>11. FenceStops'
  BY <1>10, StopsFrame
<1> QED BY <1>4, <1>11

LEMMA WorkerPended ==
  ASSUME IInv, Pended, FenceStops, NEW t \in Tokens,
         Answer(t) \/ Prepare(t) \/ Install(t) \/ CancelFileIo(t)
  PROVE  Pended' /\ FenceStops'
<1>0. TypeOK
  BY DEF IInv, HostInv
<1>1. cores' = cores /\ entries' = entries
  BY DEF Answer, Prepare, Install, CancelFileIo
<1>2. /\ Tokens' = Tokens /\ inputs'[t].session = inputs[t].session
      /\ \A u \in Tokens : u # t => inputs'[u] = inputs[u]
      /\ Installing(t) => Installing(t)'
  <2>1. CASE CancelFileIo(t)
    <3>1. inputs' = [inputs EXCEPT ![t].cancelled = TRUE]
      BY <2>1 DEF CancelFileIo
    <3> QED BY <1>0, <3>1, FlagIs DEF Same, Installing
  <2>2. CASE Answer(t) \/ Prepare(t) \/ Install(t)
    <3>1. PICK to \in Stages : /\ inputs' = [inputs EXCEPT ![t].stage = to]
                               /\ \/ ~Installing(t)
                                  \/ to \in {"installed", "undone", "repaired", "revoked"}
      BY <2>2 DEF Answer, Prepare, Install, Stages, Installing
    <3> QED BY <1>0, <3>1, StageIs DEF Same, Installing
  <2> QED BY <2>1, <2>2
<1>3. \A u \in Tokens : Installing(u) => /\ u \in Tokens' /\ Installing(u)'
                                         /\ inputs'[u].session = inputs[u].session
  BY <1>2, OthersInstall
<1>4. Pended'
  BY <1>1, <1>3, PendedFrame
<1> QED BY <1>1, <1>4 DEF FenceStops

LEMMA EnqueuePended ==
  ASSUME IInv, Pended, FenceStops, NEW x \in Session, NEW k, EnqueueFileIo(x, k)
  PROVE  Pended' /\ FenceStops'
<1>1. cores' = cores /\ entries' = entries
  BY DEF EnqueueFileIo
<1>2. \A u \in Tokens : u \in Tokens' /\ inputs'[u] = inputs[u]
  <2>1. PICK t, j : inputs' = [u \in Tokens \cup {t} |-> IF u \in Tokens THEN inputs[u] ELSE j]
    BY DEF EnqueueFileIo
  <2> QED BY <2>1 DEF Tokens
<1>3. Pended'
  BY <1>1, <1>2, PendedFrame DEF Installing
<1> QED BY <1>1, <1>3 DEF FenceStops

LEMMA GiveUpPended ==
  ASSUME IInv, Pended, FenceStops, NEW x \in Session, GivesUpStroke(x)
  PROVE  Pended' /\ FenceStops'
<1>0. entries \in [Session -> Bound_]
  BY DEF IInv, HostInv, TypeOK
<1>1. /\ entries' = [entries EXCEPT ![x].stroke = FALSE]
      /\ cores' = cores /\ inputs' = inputs
  BY DEF GivesUpStroke
<1>2. PICK e \in Bound_ : e = entries[x]
  BY <1>0
<1>3. PICK d \in {[e EXCEPT !.stroke = FALSE]} : TRUE
  OBVIOUS
<1>4. d.stroke = FALSE
  BY <1>3 DEF Bound_
<1>5. entries' = [entries EXCEPT ![x] = d]
  BY <1>1, <1>2, <1>3
<1>6. \A s \in Session : entries'[s] = entries[s] \/ ~entries'[s].stroke
  BY <1>0, <1>4, <1>5
<1>7. FenceStops'
  BY <1>6, StopsFrame
<1>8. Tokens' = Tokens /\ \A t \in Tokens : inputs'[t] = inputs[t]
  BY <1>1 DEF Tokens
<1>9. Pended'
  BY <1>1, <1>8, PendedFrame DEF Installing
<1> QED BY <1>7, <1>9

LEMMA ExitPended ==
  ASSUME IInv, Pended, FenceStops, Exit
  PROVE  Pended' /\ FenceStops'
<1>1. \A s \in Session : entries'[s].fence = None
  BY DEF Exit, NoEntry
<1>2. cores' = cores /\ Tokens = {}
  BY DEF Exit
<1>3. Pended'
  BY <1>2, PendedFrame
<1> QED BY <1>1, <1>3 DEF FenceStops

(* Every step keeps both. *)
LEMMA NextPended == IInv /\ Pended /\ FenceStops /\ [Next]_vars => Pended' /\ FenceStops'
<1> SUFFICES ASSUME IInv, Pended, FenceStops, [Next]_vars PROVE Pended' /\ FenceStops'
  OBVIOUS
<1>1. ASSUME NEW s \in Session, (\E k : EnqueueFileIo(s, k)) \/ GivesUpStroke(s)
      PROVE  Pended' /\ FenceStops'
  BY <1>1, EnqueuePended, GiveUpPended
<1>2. ASSUME NEW t \in Tokens, \/ CancelFileIo(t) \/ Answer(t) \/ Prepare(t) \/ Install(t)
                               \/ ProcessFileIo(t)
      PROVE  Pended' /\ FenceStops'
  BY <1>2, WorkerPended, FileIoPended
<1>3. CASE ProcessEdit \/ ProcessStroke \/ ProcessControl \/ Exit
  BY <1>3, EditPended, StrokePended, ControlPended, ExitPended
<1>4. ASSUME NEW s \in Session, NEW g,
             \/ \E d : PushEdit(s, d) \/ PushStroke(s, d)
             \/ CreateSession(s, g) \/ RebindSession(s, g) \/ CloseSession(s)
      PROVE  Pended' /\ FenceStops'
  <2>1. UNCHANGED <<cores, inputs, entries>>
    BY <1>4 DEF PushEdit, PushStroke, CreateSession, RebindSession, CloseSession, Transit, Control
  <2> QED BY <2>1, SameFences
<1>5. CASE Stop \/ Return \/ Stopped \/ UNCHANGED vars
  <2>1. UNCHANGED <<cores, inputs, entries>>
    BY <1>5 DEF Stop, Return, Stopped, vars
  <2> QED BY <2>1, SameFences
<1>6. CASE UI
  BY <1>1, <1>2, <1>4, <1>5, <1>6 DEF UI
<1>7. CASE Engine
  BY <1>1, <1>2, <1>3, <1>7 DEF Engine, CancelForTransition, CancelForShutdown
<1> QED BY <1>1, <1>2, <1>5, <1>6, <1>7 DEF Next, PreviewFails

LEMMA InitPended == Init => Pended /\ FenceStops
BY DEF Init, Pended, FenceStops, NewCore, NoEntry

(* The fence of a save lifts with the job that put it up: as long as a Core *)
(* waits or its session is fenced there is one job whose installation is    *)
(* under way or done and not yet applied, and the fence is its own.  Every  *)
(* end of an installation takes both away (apply.rs), so a document whose   *)
(* save has come to an end can be edited again.                             *)
THEOREM FencesLift == Spec => []FencesHeld
<1>1. IInv /\ Pended => FencesHeld
  <2> SUFFICES ASSUME IInv, Pended, NEW s \in Session,
                      cores[s].pending \/ entries[s].fence # None
               PROVE  \E t \in Tokens : /\ inputs[t].session = s
                                        /\ entries[s].fence = t
                                        /\ Installing(t)
    BY DEF FencesHeld
  <2>1. FenceInv(s)
    BY DEF IInv, Files
  <2>2. CASE cores[s].pending
    <3>1. PICK t \in Jobs(s) : Installing(t)
      BY <2>2 DEF Pended
    <3>2. entries[s].fence = t /\ t \in Tokens /\ inputs[t].session = s
      BY <2>1, <3>1, JobsAre DEF FenceInv, Held
    <3> QED BY <3>1, <3>2
  <2>3. CASE entries[s].fence # None
    <3>1. entries[s].fence \in Jobs(s) /\ Installing(entries[s].fence)
      BY <2>1, <2>3 DEF FenceInv
    <3> QED BY <3>1, JobsAre
  <2> QED BY <2>2, <2>3
<1>2. Spec => [](Pended /\ FenceStops)
  BY Invariance, InitPended, NextPended, PTL DEF Spec
<1> QED BY <1>1, <1>2, Invariance, PTL

-----------------------------------------------------------------------------
(* Jobs, their items and the call the UI waits in. *)

IsItem(w, t) == w.kind = "io" /\ w.token = t

(* A job that was not looked at yet has one item in the queue, and no item *)
(* is left of one that was: it is polled.                                  *)
ItemsInv ==
    /\ \A i \in 1..Len(work) : work[i].kind = "io" =>
          /\ work[i].token \in Tokens
          /\ LET j == inputs[work[i].token]
             IN  work[i].session = j.session /\ work[i].gen = j.gen /\ ~j.active
    /\ \A i, k \in 1..Len(work) : \A t : IsItem(work[i], t) /\ IsItem(work[k], t) => i = k
    /\ \A t \in Tokens : inputs[t].active \/ \E i \in 1..Len(work) : IsItem(work[i], t)

(* The item of the call the UI waits in. *)
WaitInv ==
    /\ ui.status = "waits" /\ ui.op # "stop" =>
          \E i \in 1..Len(work) : work[i].kind \in Controls
    /\ ui.op = "stop" => stopping

(* A queue of which p tells where the io items were before, when no job    *)
(* but the one that t names was looked at or went.                         *)
Kept(p, t) ==
    /\ \A k \in 1..Len(work') : work'[k].kind = "io" =>
          /\ p[k] \in 1..Len(work) /\ ~IsItem(work[p[k]], t)
          /\ work'[k].kind = work[p[k]].kind /\ work'[k].token = work[p[k]].token
          /\ work'[k].session = work[p[k]].session /\ work'[k].gen = work[p[k]].gen
    /\ \A k, l \in 1..Len(work') : work'[k].kind = "io" /\ work'[l].kind = "io" /\ p[k] = p[l]
                                      => k = l
    /\ \A i \in 1..Len(work) : work[i].kind = "io" /\ ~IsItem(work[i], t) =>
          \E k \in 1..Len(work') : p[k] = i /\ work'[k].kind = "io"
    /\ \A u \in Tokens : u # t =>
          /\ u \in Tokens'
          /\ inputs'[u].session = inputs[u].session /\ inputs'[u].gen = inputs[u].gen
          /\ inputs'[u].active = inputs[u].active
    /\ Tokens' \subseteq Tokens
    /\ t \in Tokens' => inputs'[t].active

LEMMA KeptItems ==
  ASSUME ItemsInv, NEW p, NEW t, Kept(p, t)
  PROVE  ItemsInv'
<1>1. ASSUME NEW k \in 1..Len(work'), work'[k].kind = "io"
      PROVE  /\ work'[k].token \in Tokens'
             /\ work'[k].session = inputs'[work'[k].token].session
             /\ work'[k].gen = inputs'[work'[k].token].gen
             /\ ~inputs'[work'[k].token].active
  <2>1. /\ p[k] \in 1..Len(work) /\ ~IsItem(work[p[k]], t) /\ work[p[k]].kind = "io"
        /\ work'[k].token = work[p[k]].token
        /\ work'[k].session = work[p[k]].session /\ work'[k].gen = work[p[k]].gen
    BY <1>1 DEF Kept
  <2>2. PICK u \in Tokens : u = work[p[k]].token
    BY <2>1 DEF ItemsInv
  <2>3. u # t
    BY <2>1, <2>2 DEF IsItem
  <2>4. /\ work[p[k]].session = inputs[u].session /\ work[p[k]].gen = inputs[u].gen
        /\ ~inputs[u].active
    BY <2>1, <2>2 DEF ItemsInv
  <2>5. /\ u \in Tokens' /\ inputs'[u].session = inputs[u].session
        /\ inputs'[u].gen = inputs[u].gen /\ inputs'[u].active = inputs[u].active
    BY <2>3 DEF Kept
  <2> QED BY <2>1, <2>2, <2>4, <2>5
<1>2. ASSUME NEW k \in 1..Len(work'), NEW l \in 1..Len(work'), NEW u,
             IsItem(work'[k], u), IsItem(work'[l], u)
      PROVE  k = l
  <2>1. /\ work'[k].kind = "io" /\ work'[l].kind = "io"
        /\ p[k] \in 1..Len(work) /\ p[l] \in 1..Len(work)
        /\ IsItem(work[p[k]], u) /\ IsItem(work[p[l]], u)
    BY <1>2 DEF IsItem, Kept
  <2>2. p[k] = p[l]
    BY <2>1 DEF ItemsInv
  <2> QED BY <2>1, <2>2 DEF Kept
<1>3. ASSUME NEW u \in Tokens', ~inputs'[u].active
      PROVE  \E k \in 1..Len(work') : IsItem(work'[k], u)
  <2>1. u \in Tokens /\ u # t /\ ~inputs[u].active
    BY <1>3 DEF Kept
  <2>2. PICK i \in 1..Len(work) : IsItem(work[i], u)
    BY <2>1 DEF ItemsInv
  <2>3. work[i].kind = "io" /\ ~IsItem(work[i], t)
    BY <2>1, <2>2 DEF IsItem
  <2>4. PICK k \in 1..Len(work') : p[k] = i /\ work'[k].kind = "io"
    BY <2>3 DEF Kept
  <2>5. work'[k].token = u
    BY <2>2, <2>4 DEF Kept, IsItem
  <2> QED BY <2>4, <2>5 DEF IsItem
<1> QED BY <1>1, <1>2, <1>3 DEF ItemsInv

(* Where the items were before item i was taken. *)
Places(p, i) ==
    /\ \A k \in 1..Len(work') : /\ p[k] \in 1..Len(work) /\ p[k] # i
                               /\ work'[k] = work[p[k]]
    /\ \A k, l \in 1..Len(work') : p[k] = p[l] => k = l
    /\ \A n \in 1..Len(work) : n # i => \E k \in 1..Len(work') : p[k] = n

LEMMA WhereTaken ==
  ASSUME TypeOK, NEW i \in 1..Len(work), work' = RemoveAt(work, i)
  PROVE  \E p : Places(p, i)
<1>0. work \in Seq(Work_)
  BY DEF TypeOK
<1>1. /\ Len(work) \in Nat /\ Len(work') = Len(work) - 1
      /\ \A k \in 1..Len(work) - 1 : work'[k] = work[IF k < i THEN k ELSE k + 1]
  BY <1>0, TakeIs
<1>2. PICK m \in Nat, j \in Nat : m = Len(work) /\ j = i /\ 1 <= j /\ j <= m /\ Len(work') = m - 1
  BY <1>1
<1> DEFINE p == [k \in 1..m - 1 |-> IF k < j THEN k ELSE k + 1]
<1>3. \A k \in 1..m - 1 : p[k] \in 1..m /\ p[k] # j
  BY <1>2
<1>4. \A k \in 1..m - 1 : work'[k] = work[p[k]]
  BY <1>1, <1>2
<1>5. \A k, l \in 1..m - 1 : p[k] = p[l] => k = l
  BY <1>2
<1>6. ASSUME NEW n \in 1..m, n # j PROVE \E k \in 1..m - 1 : p[k] = n
  <2>1. CASE n < j
    <3>1. n \in 1..m - 1 /\ p[n] = n
      BY <1>2, <2>1
    <3> QED BY <3>1
  <2>2. CASE ~(n < j)
    <3>1. n - 1 \in 1..m - 1 /\ p[n - 1] = n
      BY <1>2, <1>6, <2>2
    <3> QED BY <3>1
  <2> QED BY <2>1, <2>2
<1> HIDE DEF p
<1>7. Len(work') = m - 1 /\ Len(work) = m /\ i = j
  BY <1>2
<1>8. \A k \in 1..Len(work') : p[k] \in 1..Len(work) /\ p[k] # i /\ work'[k] = work[p[k]]
  BY <1>3, <1>4, <1>7
<1>9. \A k, l \in 1..Len(work') : p[k] = p[l] => k = l
  BY <1>5, <1>7
<1>10. \A n \in 1..Len(work) : n # i => \E k \in 1..Len(work') : p[k] = n
  BY <1>6, <1>7
<1>11. Places(p, i)
  BY <1>8, <1>9, <1>10 DEF Places
<1> QED BY <1>11

(* An item that is not of a job is taken. *)
LEMMA TakenItems ==
  ASSUME TypeOK, ItemsInv, NEW i \in 1..Len(work), work[i].kind # "io",
         work' = RemoveAt(work, i), inputs' = inputs
  PROVE  ItemsInv'
<1>1. PICK p : Places(p, i)
  BY WhereTaken
<1>2. PICK t : t \notin Tokens
  BY Shapes DEF None
<1>3. \A n \in 1..Len(work) : ~IsItem(work[n], t)
  BY <1>2 DEF ItemsInv, IsItem
<1>4. Tokens' = Tokens
  BY DEF Tokens
<1>5. ASSUME NEW n \in 1..Len(work), work[n].kind = "io"
      PROVE  \E k \in 1..Len(work') : p[k] = n /\ work'[k].kind = "io"
  <2>1. PICK k \in 1..Len(work') : p[k] = n
    BY <1>1, <1>5 DEF Places
  <2>2. work'[k] = work[n]
    BY <1>1, <2>1 DEF Places
  <2> QED BY <1>5, <2>1, <2>2
<1>6. Kept(p, t)
  BY <1>1, <1>2, <1>3, <1>4, <1>5 DEF Kept, Places
<1> QED BY <1>6, KeptItems

(* A job is looked at: its item goes, or it was polled and had none. *)
LEMMA TurnItems ==
  ASSUME TypeOK, ItemsInv, NEW t \in Tokens, IoTurn(t), Tokens' \subseteq Tokens,
         \A u \in Tokens : u # t => u \in Tokens' /\ inputs'[u] = inputs[u],
         t \in Tokens' => inputs'[t].active
  PROVE  ItemsInv'
<1>1. CASE \E i \in DOMAIN work : work[i].kind = "io" /\ work[i].token = t /\ Turn(i)
  <2>1. PICK i \in 1..Len(work) : IsItem(work[i], t) /\ work' = RemoveAt(work, i)
    BY <1>1, TurnIs DEF IsItem
  <2>2. PICK p : Places(p, i)
    BY <2>1, WhereTaken
  <2>3. \A k \in 1..Len(work') : ~IsItem(work[p[k]], t)
    BY <2>1, <2>2 DEF ItemsInv, Places
  <2>4. ASSUME NEW n \in 1..Len(work), work[n].kind = "io", ~IsItem(work[n], t)
        PROVE  \E k \in 1..Len(work') : p[k] = n /\ work'[k].kind = "io"
    <3>1. n # i
      BY <2>1, <2>4
    <3>2. PICK k \in 1..Len(work') : p[k] = n
      BY <2>2, <3>1 DEF Places
    <3>3. work'[k] = work[n]
      BY <2>2, <3>2 DEF Places
    <3> QED BY <2>4, <3>2, <3>3
  <2>5. Kept(p, t)
    BY <2>2, <2>3, <2>4 DEF Kept, Places
  <2> QED BY <2>5, KeptItems
<1>2. CASE inputs[t].active /\ work' = work
  <2> DEFINE p == [k \in 1..Len(work) |-> k]
  <2>1. \A n \in 1..Len(work) : ~IsItem(work[n], t)
    BY <1>2 DEF ItemsInv, IsItem
  <2>2. \A k \in 1..Len(work) : p[k] = k
    OBVIOUS
  <2> HIDE DEF p
  <2>3. Kept(p, t)
    BY <1>2, <2>1, <2>2 DEF Kept
  <2> QED BY <2>3, KeptItems
<1> QED BY <1>1, <1>2 DEF IoTurn

(* Nothing happens to the queue, and no job is looked at. *)
LEMMA SameItems ==
  ASSUME TypeOK, ItemsInv, Tokens' = Tokens,
         \A u \in Tokens : /\ inputs'[u].session = inputs[u].session
                           /\ inputs'[u].gen = inputs[u].gen
                           /\ inputs'[u].active = inputs[u].active,
         Len(work') = Len(work),
         \A k \in 1..Len(work) : /\ work'[k].kind = work[k].kind
                                 /\ work'[k].kind = "io" => work'[k] = work[k]
  PROVE  ItemsInv'
<1>1. PICK t : t \notin Tokens
  BY Shapes DEF None
<1> DEFINE p == [k \in 1..Len(work) |-> k]
<1>2. \A n \in 1..Len(work) : ~IsItem(work[n], t)
  BY <1>1 DEF ItemsInv, IsItem
<1>3. \A k \in 1..Len(work) : p[k] = k
  OBVIOUS
<1> HIDE DEF p
<1>4. Kept(p, t)
  BY <1>1, <1>2, <1>3 DEF Kept
<1> QED BY <1>4, KeptItems

(* An item that is not of a job is queued. *)
LEMMA AppendItems ==
  ASSUME TypeOK, ItemsInv, inputs' = inputs, NEW w \in Work_, w.kind # "io",
         work' = Append(work, w)
  PROVE  ItemsInv'
<1>1. PICK t : t \notin Tokens
  BY Shapes DEF None
<1>2. /\ Len(work) \in Nat /\ Len(work') = Len(work) + 1
      /\ \A i \in 1..Len(work) : work'[i] = work[i]
      /\ \A i \in 1..Len(work') : \/ i \in 1..Len(work) /\ work'[i] = work[i]
                                  \/ i = Len(work') /\ work'[i] = w
  BY AppendIs
<1> DEFINE p == [k \in 1..Len(work') |-> k]
<1>3. \A n \in 1..Len(work) : ~IsItem(work[n], t)
  BY <1>1 DEF ItemsInv, IsItem
<1>4. \A k \in 1..Len(work') : p[k] = k
  OBVIOUS
<1> HIDE DEF p
<1>5. Tokens' = Tokens
  BY DEF Tokens
<1>6. \A i \in 1..Len(work) : i \in 1..Len(work')
  BY <1>2
<1>7. Kept(p, t)
  BY <1>1, <1>2, <1>3, <1>4, <1>5, <1>6 DEF Kept
<1> QED BY <1>7, KeptItems

(* A job whose installation is under way was looked at. *)
Polled == \A t \in Tokens : Installing(t) => inputs[t].active

QueueInv == ItemsInv /\ Polled /\ WaitInv

LEMMA WaitFrame ==
  ASSUME WaitInv, ui' = ui, stopping' = stopping,
         \A i \in 1..Len(work) : work[i].kind \in Controls =>
             \E k \in 1..Len(work') : work'[k].kind \in Controls
  PROVE  WaitInv'
BY DEF WaitInv

LEMMA SamePolled ==
  ASSUME Polled, Tokens' = Tokens,
         \A t \in Tokens : /\ Installing(t)' => Installing(t)
                           /\ inputs'[t].active = inputs[t].active
  PROVE  Polled'
BY DEF Polled

(* A job that had its turn and is still there is polled from now on. *)
LEMMA LookedAt ==
  ASSUME TypeOK, NEW t \in Tokens, ProcessFileIo(t)
  PROVE  t \in Tokens' => inputs'[t].active
<1>0. inputs \in [Tokens -> Input_] /\ Tokens' = DOMAIN inputs'
  BY DEF TypeOK, Tokens
<1>1. PICK i \in Input_ : i = inputs[t]
  BY <1>0
<1>2. CASE inputs' = [inputs EXCEPT ![t].active = TRUE]
  <2>1. PICK d \in {[i EXCEPT !.active = TRUE]} : TRUE
    OBVIOUS
  <2>2. d.active = TRUE
    BY <2>1 DEF Input_
  <2>3. inputs' = [inputs EXCEPT ![t] = d]
    BY <1>1, <1>2, <2>1
  <2> QED BY <1>0, <2>2, <2>3
<1>3. ASSUME NEW a, NEW b, Pends(t, a, b) PROVE inputs'[t].active
  <2>1. PICK c \in {i.cancelled \/ HostCancels(t)} : TRUE
    OBVIOUS
  <2>2. PICK d \in {[i EXCEPT !.active = TRUE, !.stage = a, !.stamp = b, !.cancelled = c]} : TRUE
    OBVIOUS
  <2>3. d.active = TRUE
    BY <2>2 DEF Input_
  <2>4. inputs' = [inputs EXCEPT ![t] = d]
    BY <1>1, <1>3, <2>1, <2>2 DEF Pends
  <2> QED BY <1>0, <2>3, <2>4
<1>4. CASE Ends(t)
  BY <1>4, EndsIs
<1>5. \/ inputs' = [inputs EXCEPT ![t].active = TRUE]
      \/ \E a, b : Pends(t, a, b)
      \/ Ends(t)
  BY DEF ProcessFileIo, IoWaits, IoSubmits, IoPolls, IoAsks, IoGivesUp, IoApplies, IoFinalizes
<1> QED BY <1>2, <1>3, <1>4, <1>5

(* Taking one item leaves every other. *)
LEMMA TakenWaits ==
  ASSUME TypeOK, WaitInv, NEW i \in 1..Len(work), work[i].kind \notin Controls,
         work' = RemoveAt(work, i), ui' = ui, stopping' = stopping
  PROVE  WaitInv'
<1>1. PICK p : Places(p, i)
  BY WhereTaken
<1>2. ASSUME NEW n \in 1..Len(work), work[n].kind \in Controls
      PROVE  \E k \in 1..Len(work') : work'[k].kind \in Controls
  <2>1. n # i
    BY <1>2
  <2>2. PICK k \in 1..Len(work') : p[k] = n
    BY <1>1, <2>1 DEF Places
  <2>3. work'[k] = work[n]
    BY <1>1, <2>2 DEF Places
  <2> QED BY <1>2, <2>3
<1> QED BY <1>2, WaitFrame

LEMMA FileIoQueued ==
  ASSUME IInv, QueueInv, NEW t \in Tokens, ProcessFileIo(t)
  PROVE  QueueInv'
<1>0. TypeOK /\ HostInv /\ Files /\ ItemsInv /\ Polled /\ WaitInv
  BY DEF IInv, HostInv, QueueInv
<1>1. /\ Tokens' \subseteq Tokens
      /\ \A u \in Tokens : u # t => u \in Tokens' /\ inputs'[u] = inputs[u]
  <2>1. Gone(t) \/ \E stage, stamp : Stays(t, stage, stamp)
    BY <1>0, FileIoDone DEF TurnDone
  <2> QED BY <2>1 DEF Gone, Stays
<1>2. t \in Tokens' => inputs'[t].active
  BY <1>0, LookedAt
<1>3. IoTurn(t) /\ ui' = ui /\ stopping' = stopping
  BY DEF ProcessFileIo, IoWaits, IoSubmits, IoPolls, IoAsks, IoGivesUp, IoApplies, IoFinalizes
<1>4. ItemsInv'
  BY <1>0, <1>1, <1>2, <1>3, TurnItems
<1>5. Polled'
  BY <1>0, <1>1, <1>2 DEF Polled, Installing
<1>6. WaitInv'
  <2>1. \/ work' = work
        \/ \E i \in 1..Len(work) : work[i].kind = "io" /\ work' = RemoveAt(work, i)
    BY <1>0, <1>3, IoTurnIs
  <2>2. CASE work' = work
    BY <1>0, <1>3, <2>2, WaitFrame
  <2>3. ASSUME NEW i \in 1..Len(work), work[i].kind = "io", work' = RemoveAt(work, i)
        PROVE  WaitInv'
    BY <1>0, <1>3, <2>3, TakenWaits DEF Controls
  <2> QED BY <2>1, <2>2, <2>3
<1> QED BY <1>4, <1>5, <1>6 DEF QueueInv

LEMMA WriteQueued ==
  ASSUME IInv, QueueInv, ProcessEdit \/ ProcessStroke
  PROVE  QueueInv'
<1>0. TypeOK /\ ItemsInv /\ Polled /\ WaitInv
  BY DEF IInv, HostInv, QueueInv
<1>1. inputs' = inputs /\ ui' = ui /\ stopping' = stopping
  BY DEF ProcessEdit, ProcessStroke
<1>2. PICK i \in 1..Len(work) : work[i].kind \in Stroke \cup {"edit"} /\ work' = RemoveAt(work, i)
  <2>1. PICK i \in DOMAIN work : work[i].kind \in Stroke \cup {"edit"} /\ Turn(i)
    BY DEF ProcessEdit, ProcessStroke
  <2> QED BY <1>0, <2>1, TurnIs
<1>3. work[i].kind # "io" /\ work[i].kind \notin Controls
  BY <1>2 DEF Stroke, Controls
<1>4. ItemsInv'
  BY <1>0, <1>1, <1>2, <1>3, TakenItems
<1>5. WaitInv'
  BY <1>0, <1>1, <1>2, <1>3, TakenWaits
<1>6. Polled'
  BY <1>0, <1>1, SamePolled DEF Installing, Tokens
<1> QED BY <1>4, <1>5, <1>6 DEF QueueInv

LEMMA ControlQueued ==
  ASSUME IInv, QueueInv, ProcessControl
  PROVE  QueueInv'
<1>0. TypeOK /\ ItemsInv /\ Polled /\ WaitInv
  BY DEF IInv, HostInv, QueueInv
<1>1. inputs' = inputs /\ stopping' = stopping
  BY DEF ProcessControl
<1>2. PICK i \in 1..Len(work), a \in {"ok", "failed"} :
         work[i].kind \in Controls /\ work' = RemoveAt(work, i) /\ ui' = [ui EXCEPT !.status = a]
  <2>1. PICK i \in DOMAIN work, a \in {"ok", "failed"} :
           work[i].kind \in Controls /\ Turn(i) /\ ui' = [ui EXCEPT !.status = a]
    BY DEF ProcessControl, IsControl, Controls
  <2> QED BY <1>0, <2>1, TurnIs
<1>3. work[i].kind # "io"
  BY <1>2 DEF Controls
<1>4. ItemsInv'
  BY <1>0, <1>1, <1>2, <1>3, TakenItems
<1>5. ui'.status # "waits" /\ ui'.op = ui.op
  BY <1>0, <1>2 DEF TypeOK
<1>6. WaitInv'
  BY <1>0, <1>1, <1>5 DEF WaitInv
<1>7. Polled'
  BY <1>0, <1>1, SamePolled DEF Installing, Tokens
<1> QED BY <1>4, <1>6, <1>7 DEF QueueInv

LEMMA WorkerQueued ==
  ASSUME IInv, QueueInv, NEW t \in Tokens,
         Answer(t) \/ Prepare(t) \/ Install(t) \/ CancelFileIo(t)
  PROVE  QueueInv'
<1>0. TypeOK /\ ItemsInv /\ Polled /\ WaitInv
  BY DEF IInv, HostInv, QueueInv
<1>1. work' = work /\ ui' = ui /\ stopping' = stopping
  BY DEF Answer, Prepare, Install, CancelFileIo
<1>2. /\ Tokens' = Tokens
      /\ \A u \in Tokens : u # t => inputs'[u] = inputs[u]
      /\ Same(t, inputs'[t]) /\ inputs'[t].active = inputs[t].active
      /\ Installing(t)' => Installing(t)
  <2>1. PICK i \in Input_ : i = inputs[t]
    BY <1>0 DEF TypeOK
  <2>2. CASE CancelFileIo(t)
    <3>1. inputs' = [inputs EXCEPT ![t].cancelled = TRUE]
      BY <2>2 DEF CancelFileIo
    <3>2. PICK d \in {[i EXCEPT !.cancelled = TRUE]} : TRUE
      OBVIOUS
    <3>3. d.active = i.active
      BY <3>2 DEF Input_
    <3>4. inputs' = [inputs EXCEPT ![t] = d]
      BY <2>1, <3>1, <3>2
    <3>5. inputs'[t] = d
      BY <1>0, <3>4 DEF TypeOK
    <3> QED BY <1>0, <2>1, <3>1, <3>3, <3>5, FlagIs DEF Installing
  <2>3. CASE Answer(t) \/ Prepare(t) \/ Install(t)
    <3>1. PICK to \in Stages : /\ inputs' = [inputs EXCEPT ![t].stage = to]
                               /\ \/ to \in {"prepared", "agreed", "failed"}
                                  \/ inputs[t].stage = "installing"
      BY <2>3 DEF Answer, Prepare, Install, Stages
    <3>2. PICK d \in {[i EXCEPT !.stage = to]} : TRUE
      OBVIOUS
    <3>3. d.active = i.active
      BY <3>2 DEF Input_
    <3>4. inputs' = [inputs EXCEPT ![t] = d]
      BY <2>1, <3>1, <3>2
    <3>5. inputs'[t] = d
      BY <1>0, <3>4 DEF TypeOK
    <3>6. inputs'[t].stage = to
      BY <1>0, <3>1, StageIs
    <3>7. Installing(t)' => Installing(t)
      BY <3>1, <3>6 DEF Installing
    <3> QED BY <1>0, <2>1, <3>1, <3>3, <3>5, <3>7, StageIs
  <2> QED BY <2>2, <2>3
<1>3. ItemsInv'
  <2>1. \A u \in Tokens : /\ inputs'[u].session = inputs[u].session
                          /\ inputs'[u].gen = inputs[u].gen
                          /\ inputs'[u].active = inputs[u].active
    BY <1>2 DEF Same
  <2> QED BY <1>0, <1>1, <1>2, <2>1, SameItems
<1>4. Polled'
  BY <1>0, <1>2, SamePolled DEF Installing
<1>5. WaitInv'
  BY <1>0, <1>1, WaitFrame
<1> QED BY <1>3, <1>4, <1>5 DEF QueueInv

LEMMA EnqueueQueued ==
  ASSUME IInv, QueueInv, NEW x \in Session, NEW k \in {"save", "open"}, EnqueueFileIo(x, k)
  PROVE  QueueInv'
<1>0. TypeOK /\ HostInv /\ ItemsInv /\ Polled /\ WaitInv
  BY DEF IInv, HostInv, QueueInv
<1>1. PICK t \in 1..MaxJobs \ Tokens :
         /\ work' = Append(work, [Work("io", x) EXCEPT !.token = t])
         /\ inputs' = [u \in Tokens \cup {t} |->
                 IF u \in Tokens THEN inputs[u]
                 ELSE [session |-> x, gen |-> published[x].gen, kind |-> k,
                       units |-> 1, active |-> FALSE, cancelled |-> FALSE,
                       stage |-> "new", stamp |-> <<>>]]
  BY DEF EnqueueFileIo
<1>2. PICK j : j = [session |-> x, gen |-> published[x].gen, kind |-> k,
                    units |-> 1, active |-> FALSE, cancelled |-> FALSE,
                    stage |-> "new", stamp |-> <<>>]
  OBVIOUS
<1>3. j.session = x /\ j.gen = published[x].gen /\ ~j.active /\ j.stage = "new"
  BY <1>2
<1>4. /\ Tokens' = Tokens \cup {t} /\ t \notin Tokens
      /\ inputs'[t] = j /\ \A u \in Tokens : inputs'[u] = inputs[u]
  BY <1>1, <1>2 DEF Tokens
<1>5. PICK v : v = [kind |-> "io", session |-> x, gen |-> published[x].gen,
                    units |-> 1, token |-> None, defer |-> TRUE, to |-> None]
  OBVIOUS
<1>6. PICK w : w = [v EXCEPT !.token = t] /\ work' = Append(work, w)
  BY <1>1, <1>5 DEF Work
<1>7. w \in Work_ /\ w.kind = "io" /\ w.session = x /\ w.gen = published[x].gen /\ w.token = t
  <2>1. None \in Generation \cup {None} /\ t \in 0..MaxJobs /\ None \in 0..MaxJobs
    BY HostAssumption DEF None
  <2>2. v \in Work_
    BY <1>0, <1>5, <2>1, WorkTyped
  <2>3. v.kind = "io" /\ v.session = x /\ v.gen = published[x].gen
    BY <1>5
  <2> QED BY <1>6, <2>1, <2>2, <2>3 DEF Work_
<1>8. PICK n : n = Len(work')
  OBVIOUS
<1>9. /\ \A i \in 1..Len(work) : i \in 1..n /\ work'[i] = work[i]
      /\ n \in 1..n /\ work'[n] = w
      /\ \A i \in 1..n : (i \in 1..Len(work) /\ work'[i] = work[i]) \/ (i = n /\ work'[i] = w)
  <2>1. /\ Len(work) \in Nat /\ n = Len(work) + 1
        /\ \A i \in 1..Len(work) : work'[i] = work[i]
        /\ work'[Len(work) + 1] = w
        /\ \A i \in 1..n : (i \in 1..Len(work) /\ work'[i] = work[i]) \/ (i = n /\ work'[i] = w)
    BY <1>0, <1>6, <1>7, <1>8, AppendIs
  <2> QED BY <2>1
<1>10. ItemsInv'
  <2>1. ASSUME NEW i \in 1..n, work'[i].kind = "io"
        PROVE  /\ work'[i].token \in Tokens'
               /\ work'[i].session = inputs'[work'[i].token].session
               /\ work'[i].gen = inputs'[work'[i].token].gen
               /\ ~inputs'[work'[i].token].active
    <3>1. CASE i \in 1..Len(work) /\ work'[i] = work[i]
      <4>1. /\ work[i].token \in Tokens
            /\ work[i].session = inputs[work[i].token].session
            /\ work[i].gen = inputs[work[i].token].gen
            /\ ~inputs[work[i].token].active
        BY <1>0, <2>1, <3>1 DEF ItemsInv
      <4> QED BY <1>4, <3>1, <4>1
    <3>2. CASE work'[i] = w
      BY <1>3, <1>4, <1>7, <3>2
    <3> QED BY <1>9, <3>1, <3>2
  <2>2. \A i \in 1..Len(work) : ~IsItem(work[i], t)
    BY <1>0, <1>4 DEF ItemsInv, IsItem
  <2>3. ASSUME NEW i \in 1..n, NEW l \in 1..n, NEW u, IsItem(work'[i], u), IsItem(work'[l], u)
        PROVE  i = l
    <3>1. CASE i \in 1..Len(work) /\ l \in 1..Len(work)
      BY <1>0, <1>9, <2>3, <3>1 DEF ItemsInv
    <3>2. CASE u = t
      BY <1>9, <2>2, <2>3, <3>2
    <3>3. CASE u # t
      BY <1>7, <1>9, <2>3, <3>1, <3>3 DEF IsItem
    <3> QED BY <3>2, <3>3
  <2>4. ASSUME NEW u \in Tokens', ~inputs'[u].active
        PROVE  \E i \in 1..n : IsItem(work'[i], u)
    <3>1. CASE u = t
      BY <1>7, <1>9, <3>1 DEF IsItem
    <3>2. CASE u # t
      <4>1. PICK i \in 1..Len(work) : IsItem(work[i], u)
        BY <1>0, <1>4, <2>4, <3>2 DEF ItemsInv
      <4> QED BY <1>9, <4>1
    <3> QED BY <3>1, <3>2
  <2> QED BY <1>8, <2>1, <2>3, <2>4 DEF ItemsInv
<1>11. Polled'
  BY <1>0, <1>3, <1>4 DEF Polled, Installing
<1>12. WaitInv'
  <2>1. ui' = ui /\ stopping' = stopping
    BY DEF EnqueueFileIo
  <2> QED BY <1>0, <1>8, <1>9, <2>1, WaitFrame
<1> QED BY <1>10, <1>11, <1>12 DEF QueueInv

(* Edits, strokes and controls at the end of the queue. *)
LEMMA AppendQueued ==
  ASSUME IInv, QueueInv, NEW w \in Work_, w.kind # "io", work' = Append(work, w),
         inputs' = inputs, stopping' = stopping,
         \/ ui' = ui
         \/ w.kind \in Controls /\ ui'.op # "stop"
  PROVE  QueueInv'
<1>0. TypeOK /\ ItemsInv /\ Polled /\ WaitInv
  BY DEF IInv, HostInv, QueueInv
<1>1. ItemsInv'
  BY <1>0, AppendItems
<1>2. Polled'
  BY <1>0, SamePolled DEF Installing, Tokens
<1>3. PICK n : n = Len(work')
  OBVIOUS
<1>4. /\ \A i \in 1..Len(work) : i \in 1..n /\ work'[i] = work[i]
      /\ n \in 1..n /\ work'[n] = w
  <2>1. /\ Len(work) \in Nat /\ n = Len(work) + 1
        /\ \A i \in 1..Len(work) : work'[i] = work[i]
        /\ work'[Len(work) + 1] = w
    BY <1>0, <1>3, AppendIs
  <2> QED BY <2>1
<1>5. WaitInv'
  <2>1. CASE ui' = ui
    BY <1>0, <1>3, <1>4, <2>1, WaitFrame
  <2>2. CASE w.kind \in Controls /\ ui'.op # "stop"
    BY <1>3, <1>4, <2>2 DEF WaitInv
  <2> QED BY <2>1, <2>2
<1> QED BY <1>1, <1>2, <1>5 DEF QueueInv

LEMMA JoinQueued ==
  ASSUME IInv, QueueInv, NEW w, w.kind = "append", Joins(w),
         work' = [work EXCEPT ![Len(work)].units = @ + 1],
         UNCHANGED <<inputs, stopping, ui>>
  PROVE  QueueInv'
<1>0. TypeOK /\ ItemsInv /\ Polled /\ WaitInv /\ work \in Seq(Work_)
  BY DEF IInv, HostInv, QueueInv, TypeOK
<1>1. PICK n : n = Len(work)
  OBVIOUS
<1>2. n \in 1..Len(work) /\ work # <<>> /\ Len(work) \in Nat
  BY <1>0, <1>1, EmptySeq, LenProperties DEF Joins
<1>3. PICK l \in Work_ : l = work[n]
  BY <1>0, <1>2, Shapes
<1>4. l.kind = "append"
  <2>1. Last(work) = l
    BY <1>1, <1>3 DEF Last
  <2>2. [l EXCEPT !.units = w.units] = w
    BY <2>1 DEF Joins
  <2>3. l.kind = [l EXCEPT !.units = w.units].kind
    BY DEF Work_
  <2> QED BY <2>2, <2>3
<1>5. PICK u \in Nat \ {0} : u = l.units + 1
  BY DEF Work_
<1>6. PICK m : m = [l EXCEPT !.units = u]
  OBVIOUS
<1>7. m \in Work_ /\ m.kind = "append"
  BY <1>4, <1>6 DEF Work_
<1>8. work' = [work EXCEPT ![n] = m]
  BY <1>1, <1>3, <1>5, <1>6
<1>9. /\ Len(work') = Len(work)
      /\ \A i \in 1..Len(work) : work'[i] = IF i = n THEN m ELSE work[i]
  <2>1. PICK q \in Seq(Work_) : q = work
    BY <1>0
  <2>2. n \in 1..Len(q) /\ m \in Work_
    BY <1>2, <1>7, <2>1
  <2>3. /\ Len([q EXCEPT ![n] = m]) = Len(q)
        /\ \A i \in 1..Len(q) : [q EXCEPT ![n] = m][i] = IF i = n THEN m ELSE q[i]
    BY <2>2, ExceptSeq
  <2> QED BY <1>8, <2>1, <2>3
<1>10. \A i \in 1..Len(work) : /\ work'[i].kind = work[i].kind
                               /\ work'[i].kind = "io" => work'[i] = work[i]
  BY <1>3, <1>4, <1>7, <1>9
<1>11. ItemsInv'
  <2>1. Tokens' = Tokens
    BY DEF Tokens
  <2> QED BY <1>0, <1>9, <1>10, <2>1, SameItems
<1>12. Polled'
  BY <1>0, SamePolled DEF Installing, Tokens
<1>13. WaitInv'
  BY <1>0, <1>9, <1>10, WaitFrame
<1> QED BY <1>11, <1>12, <1>13 DEF QueueInv

LEMMA PushQueued ==
  ASSUME IInv, QueueInv, NEW x \in Session,
         (\E d \in BOOLEAN : PushEdit(x, d)) \/ (\E k \in Stroke : PushStroke(x, k))
  PROVE  QueueInv'
<1>0. TypeOK /\ None \in 0..MaxJobs /\ None \in Generation \cup {None}
  BY HostAssumption DEF IInv, HostInv, None
<1>1. ASSUME NEW d \in BOOLEAN, PushEdit(x, d) PROVE QueueInv'
  <2>1. PICK w : w = [kind |-> "edit", session |-> x, gen |-> published[x].gen,
                      units |-> 1, token |-> None, defer |-> d, to |-> None]
    OBVIOUS
  <2>2. w \in Work_ /\ w.kind # "io"
    BY <1>0, <2>1, WorkTyped DEF Writes
  <2>3. work' = Append(work, w)
    BY <1>1, <2>1 DEF PushEdit, Work
  <2> QED BY <1>1, <2>2, <2>3, AppendQueued DEF PushEdit
<1>2. ASSUME NEW k \in Stroke, PushStroke(x, k) PROVE QueueInv'
  <2>1. PICK w : w = [kind |-> k, session |-> x, gen |-> published[x].gen,
                      units |-> 1, token |-> None, defer |-> TRUE, to |-> None]
    OBVIOUS
  <2>2. w = Work(k, x)
    BY <2>1 DEF Work
  <2>3. /\ work' = IF Joins(w) THEN [work EXCEPT ![Len(work)].units = @ + 1] ELSE Append(work, w)
        /\ UNCHANGED <<inputs, stopping, ui>>
    BY <1>2, <2>2 DEF PushStroke
  <2>4. CASE Joins(w)
    <3>1. w.kind = "append"
      BY <2>4 DEF Joins
    <3> QED BY <2>3, <2>4, <3>1, JoinQueued
  <2>5. CASE ~Joins(w)
    <3>1. w \in Work_ /\ w.kind # "io"
      BY <1>0, <2>1, WorkTyped DEF Writes, Stroke
    <3> QED BY <2>3, <2>5, <3>1, AppendQueued
  <2> QED BY <2>4, <2>5
<1> QED BY <1>1, <1>2

LEMMA CallQueued ==
  ASSUME IInv, QueueInv, NEW x \in Session, NEW k \in Controls,
         NEW g \in Generation \cup {None}, Control([Work(k, x) EXCEPT !.to = g])
  PROVE  QueueInv'
<1>0. TypeOK
  BY DEF IInv, HostInv
<1>1. PICK w \in Work_ : w = [Work(k, x) EXCEPT !.to = g] /\ w.kind = k
  BY <1>0, ControlItem
<1>2. /\ work' = Append(work, w) /\ inputs' = inputs /\ stopping' = stopping
      /\ ui'.op = k
  BY <1>1 DEF Control
<1> QED BY <1>1, <1>2, AppendQueued DEF Controls

(* Steps that leave the queue and the jobs alone. *)
LEMMA StillQueued ==
  ASSUME IInv, QueueInv, work' = work, inputs' = inputs,
         \/ ui' = ui /\ stopping' = stopping
         \/ ui'.op = "stop" /\ stopping'
         \/ ui'.op # "stop" /\ ui'.status # "waits"
  PROVE  QueueInv'
<1>0. TypeOK /\ ItemsInv /\ Polled /\ WaitInv
  BY DEF IInv, HostInv, QueueInv
<1>1. Tokens' = Tokens
  BY DEF Tokens
<1>2. ItemsInv'
  BY <1>0, <1>1, SameItems
<1>3. Polled'
  BY <1>0, <1>1, SamePolled DEF Installing
<1>4. WaitInv'
  BY <1>0 DEF WaitInv
<1> QED BY <1>2, <1>3, <1>4 DEF QueueInv

LEMMA NextQueued == IInv /\ QueueInv /\ [Next]_vars => QueueInv'
<1> SUFFICES ASSUME IInv, QueueInv, [Next]_vars PROVE QueueInv'
  OBVIOUS
<1>0. TypeOK /\ CallInv /\ WaitInv
  BY DEF IInv, HostInv, QueueInv
<1>1. ASSUME NEW s \in Session, NEW g \in Generation,
             CreateSession(s, g) \/ RebindSession(s, g) \/ CloseSession(s)
      PROVE  QueueInv'
  <2>1. \E k \in Controls, h \in Generation \cup {None} : Control([Work(k, s) EXCEPT !.to = h])
    BY <1>1 DEF CreateSession, RebindSession, CloseSession, Transit, Controls
  <2> QED BY <2>1, CallQueued
<1>2. ASSUME NEW s \in Session, CloseSession(s) PROVE QueueInv'
  <2>1. \E k \in Controls, h \in Generation \cup {None} : Control([Work(k, s) EXCEPT !.to = h])
    BY <1>2 DEF CloseSession, Transit, Controls
  <2> QED BY <2>1, CallQueued
<1>3. CASE Stop
  <2>1. ui'.op = "stop" /\ stopping' /\ work' = work /\ inputs' = inputs
    BY <1>3 DEF Stop, Free
  <2> QED BY <2>1, StillQueued
<1>4. CASE Return
  <2>1. ui'.op # "stop" /\ ui'.status # "waits" /\ work' = work /\ inputs' = inputs
    BY <1>4 DEF Return, Free
  <2> QED BY <2>1, StillQueued
<1>5. CASE Stopped
  <2>1. ui'.op = "stop" /\ stopping' /\ work' = work /\ inputs' = inputs
    BY <1>0, <1>5 DEF Stopped, TypeOK, WaitInv
  <2> QED BY <2>1, StillQueued
<1>6. CASE Exit \/ UNCHANGED vars \/ \E s \in Session : GivesUpStroke(s)
  <2>1. ui' = ui /\ stopping' = stopping /\ work' = work /\ inputs' = inputs
    BY <1>6 DEF Exit, vars, GivesUpStroke
  <2> QED BY <2>1, StillQueued
<1>7. CASE UI
  BY <1>1, <1>2, <1>3, <1>7, PushQueued, EnqueueQueued, WorkerQueued DEF UI
<1>8. CASE Engine
  BY <1>6, <1>8, WriteQueued, ControlQueued, FileIoQueued
     DEF Engine, CancelForTransition, CancelForShutdown
<1> QED BY <1>3, <1>4, <1>5, <1>6, <1>7, <1>8, WorkerQueued DEF Next, PreviewFails

LEMMA InitQueued == Init => QueueInv
<1> SUFFICES ASSUME Init PROVE QueueInv
  OBVIOUS
<1>1. Tokens = {} /\ Len(work) = 0
  BY InitTyped
<1>2. ItemsInv /\ Polled
  BY <1>1 DEF ItemsInv, Polled
<1>3. WaitInv
  BY DEF Init, Free, WaitInv
<1> QED BY <1>2, <1>3 DEF QueueInv

-----------------------------------------------------------------------------
(* Who can go on. *)
Takeable(i) == CanProcess(work[i]) /\ \A j \in 1..i - 1 : ~CanProcess(work[j])

(* The job waits for the UI thread, which has not answered it. *)
Unanswered(t) == inputs[t].stage = "asking" /\ ~HostCancels(t)

GoesOn ==
    \/ \E i \in 1..Len(work) : /\ Takeable(i)
                               /\ work[i].kind = "io" => work[i].token \in Tokens
    \/ \E s \in Session : entries[s].stroke /\ (Transitioning(s) \/ stopping)
    \/ \E t \in Tokens : inputs[t].active /\ Served(t) /\ ~Unanswered(t)
    \/ stopping /\ work = <<>> /\ Tokens = {}

NobodyWaits == ui.status = "waits" => engine = "gone" \/ GoesOn

(* If any item can be processed, the first of them is. *)
LEMMA FirstTaken ==
  ASSUME TypeOK, ItemsInv, NEW i \in 1..Len(work), CanProcess(work[i])
  PROVE  GoesOn
<1> DEFINE S == {n \in 1..Len(work) : CanProcess(work[n])}
<1>1. \A n \in S : n \in Nat
  BY Shapes
<1>2. PICK n \in S : \A m \in S : n <= m
  BY <1>1, Least
<1>3. ASSUME NEW j \in 1..n - 1 PROVE ~CanProcess(work[j])
  <2>1. j \in 1..Len(work) /\ ~(n <= j)
    BY <1>1, <1>2, Shapes
  <2> QED BY <1>2, <2>1
<1>4. Takeable(n)
  BY <1>2, <1>3 DEF Takeable
<1>5. work[n].kind = "io" => work[n].token \in Tokens
  BY <1>2 DEF ItemsInv
<1> QED BY <1>2, <1>4, <1>5 DEF GoesOn

(* The job that holds a fence is polled, and nothing keeps it waiting. *)
LEMMA FenceGoesOn ==
  ASSUME IInv, QueueInv, FenceStops, NEW s \in Session, entries[s].fence # None
  PROVE  GoesOn
<1>0. TypeOK /\ FenceInv(s) /\ Polled
  BY DEF IInv, HostInv, Files, QueueInv
<1>1. PICK t : t = entries[s].fence
  OBVIOUS
<1>2. t \in Tokens /\ inputs[t].session = s /\ Installing(t)
  BY <1>0, <1>1, JobsAre DEF FenceInv
<1>3. inputs[t].active /\ ~entries[s].stroke
  BY <1>0, <1>2 DEF Polled, FenceStops
<1>4. Served(t) /\ ~Unanswered(t)
  BY <1>1, <1>2, <1>3 DEF Served, StrokeAfter, Stroking, Unanswered, Installing
<1> QED BY <1>2, <1>3, <1>4 DEF GoesOn

(* A job that the host cancels gets its turn, with its item or polled. *)
LEMMA JobGoesOn ==
  ASSUME IInv, QueueInv, FenceStops, NEW t \in Tokens, HostCancels(t)
  PROVE  GoesOn
<1>0. TypeOK /\ ItemsInv /\ inputs[t].session \in Session
  BY Shapes DEF IInv, HostInv, QueueInv
<1>1. CASE entries[inputs[t].session].fence # None
  BY <1>0, <1>1, FenceGoesOn
<1>2. CASE entries[inputs[t].session].fence = None
  <2>1. CASE inputs[t].active
    <3>1. Served(t) /\ ~Unanswered(t)
      BY <1>2 DEF Served, StrokeAfter, Unanswered
    <3> QED BY <2>1, <3>1 DEF GoesOn
  <2>2. CASE ~inputs[t].active
    <3>1. PICK i \in 1..Len(work) : IsItem(work[i], t)
      BY <1>0, <2>2 DEF ItemsInv
    <3>2. /\ work[i].kind = "io" /\ work[i].token = t
          /\ work[i].session = inputs[t].session /\ work[i].gen = inputs[t].gen
      BY <1>0, <3>1 DEF ItemsInv, IsItem
    <3>3. ~Fenced(work[i]) /\ (stopping \/ Transition(work[i]))
      BY <1>2, <3>2 DEF Fenced, HostCancels, Transition
    <3>4. CanProcess(work[i])
      BY <3>2, <3>3 DEF CanProcess
    <3> QED BY <1>0, <3>4, FirstTaken
  <2> QED BY <2>1, <2>2
<1> QED BY <1>1, <1>2

(* A control is processed, or what it waits for goes on. *)
LEMMA ControlGoesOn ==
  ASSUME IInv, QueueInv, FenceStops, NEW i \in 1..Len(work), work[i].kind \in Controls
  PROVE  GoesOn
<1>0. TypeOK /\ ItemsInv /\ i \in DOMAIN work
  BY Shapes DEF IInv, HostInv, QueueInv
<1>1. PICK x \in Session : x = work[i].session
  BY <1>0, Shapes DEF Work_
<1>2. CASE work[i].kind = "create"
  BY <1>0, <1>2, FirstTaken DEF CanProcess
<1>3. CASE IsControl(work[i])
  <2>1. ASSUME HasInput(work[i]) PROVE GoesOn
    <3>1. PICK t \in Tokens : inputs[t].session = x /\ inputs[t].gen = work[i].gen
      BY <1>1, <2>1 DEF HasInput
    <3>2. HostCancels(t)
      BY <1>0, <1>1, <1>3, <3>1 DEF HostCancels, Transition
    <3> QED BY <3>2, JobGoesOn
  <2>2. ASSUME Bound(work[i]), entries[x].stroke PROVE GoesOn
    <3>1. Transitioning(x)
      BY <1>0, <1>1, <1>3, <2>2 DEF Transitioning
    <3> QED BY <2>2, <3>1 DEF GoesOn
  <2>3. ASSUME entries[x].fence # None PROVE GoesOn
    BY <2>3, FenceGoesOn
  <2>4. ASSUME ~HasInput(work[i]), Bound(work[i]) => ~entries[x].stroke /\ entries[x].fence = None
        PROVE  GoesOn
    <3>1. CanProcess(work[i])
      BY <1>1, <1>3, <2>4 DEF CanProcess, Stroking, Fenced
    <3> QED BY <1>0, <3>1, FirstTaken
  <2> QED BY <2>1, <2>2, <2>3, <2>4
<1> QED BY <1>2, <1>3 DEF IsControl, Controls

(* The host that stops: its queue drains, its jobs end, its strokes go. *)
LEMMA StopGoesOn ==
  ASSUME IInv, QueueInv, FenceStops, stopping
  PROVE  GoesOn
<1>0. TypeOK /\ ItemsInv /\ work \in Seq(Work_)
  BY DEF IInv, HostInv, QueueInv, TypeOK
<1>1. CASE Tokens # {}
  BY <1>1, JobGoesOn DEF HostCancels
<1>2. CASE Tokens = {} /\ work = <<>>
  BY <1>2 DEF GoesOn
<1>3. CASE Tokens = {} /\ work # <<>>
  <2>1. 1 \in 1..Len(work)
    BY <1>0, <1>3, EmptySeq, LenProperties
  <2>2. PICK i \in 1..Len(work) : TRUE
    BY <2>1
  <2>3. PICK w \in Work_ : w = work[i]
    BY <1>0, Shapes
  <2>4. w.kind # "io"
    BY <1>0, <1>3, <2>3 DEF ItemsInv
  <2>5. CASE w.kind \in Controls
    BY <2>3, <2>5, ControlGoesOn
  <2>6. CASE w.kind \in Writes
    <3>1. w.session \in Session
      BY DEF Work_
    <3>2. CASE entries[w.session].fence # None
      BY <3>1, <3>2, FenceGoesOn
    <3>3. CASE entries[w.session].stroke
      BY <3>1, <3>3 DEF GoesOn
    <3>4. CASE entries[w.session].fence = None /\ ~entries[w.session].stroke
      <4>1. CanProcess(w)
        BY <2>6, <3>4 DEF CanProcess, Writes, Fenced, Stroking
      <4> QED BY <1>0, <2>3, <4>1, FirstTaken
    <3> QED BY <3>2, <3>3, <3>4
  <2>7. w.kind \in Controls \cup Writes \cup {"io"}
    BY DEF Work_
  <2> QED BY <2>4, <2>5, <2>6, <2>7
<1> QED BY <1>1, <1>2, <1>3

(* The UI thread never waits for an engine that cannot go on: while a call *)
(* waits for its answer, or Stop for the thread, there is a first item the *)
(* engine may take, a stroke it gives up, a job that is polled and that    *)
(* waits neither for anything on the engine nor for an answer of the UI    *)
(* thread itself, or nothing left but to leave.                            *)
(* Controls wait for strokes and jobs, jobs for strokes and the fence of   *)
(* another job, edits for strokes and fences (CanProcess, Served): what    *)
(* TransitioningActiveStroke and the cancellation of a transition's jobs   *)
(* do keeps that from closing a circle.                                    *)
THEOREM NobodyWaitsForNobody == Spec => []NobodyWaits
<1>1. IInv /\ FenceStops /\ QueueInv => NobodyWaits
  <2> SUFFICES ASSUME IInv, FenceStops, QueueInv, ui.status = "waits", engine # "gone"
               PROVE  GoesOn
    BY DEF NobodyWaits
  <2>1. WaitInv
    BY DEF QueueInv
  <2>2. CASE ui.op = "stop"
    BY <2>1, <2>2, StopGoesOn DEF WaitInv
  <2>3. CASE ui.op # "stop"
    <3>1. PICK i \in 1..Len(work) : work[i].kind \in Controls
      BY <2>1, <2>3 DEF WaitInv
    <3> QED BY <3>1, ControlGoesOn
  <2> QED BY <2>2, <2>3
<1>2. Spec => [](Pended /\ FenceStops)
  BY Invariance, InitPended, NextPended, PTL DEF Spec
<1>3. Spec => []QueueInv
  BY Invariance, InitQueued, NextQueued, PTL DEF Spec
<1> QED BY <1>1, <1>2, <1>3, Invariance, PTL
=============================================================================
