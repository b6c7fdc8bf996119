--------------------------- MODULE DocumentProofs ---------------------------
(***************************************************************************)
(* The history of a document for any paints, any number of edits and any   *)
(* limits: types, HistoryIsBranch, IdsNeverReused, BranchesKept, the undo  *)
(* stack it implements, and JournalReplays; and for its files that a clean *)
(* document is saved and what was saved opens (FileSpec).                  *)
(*                                                                         *)
(* Every step is first reduced to what it does to the history and the      *)
(* journal (EditStep, MoveStep); the invariants are then kept by those     *)
(* two shapes.  They need that an inverse which is not released is the one *)
(* of its procedure (Inverses), whether it was recorded or restored from   *)
(* the journal, and that no procedure saw an id that is not yet given out  *)
(* (IdsKnown).  Whether the journal verifies is left open for these: the   *)
(* proofs hold for each answer.  The part on replay proves that it does.   *)
(***************************************************************************)
EXTENDS DocumentFile, SequenceTheorems, FiniteSetTheorems, WellFoundedInduction, TLAPS

InverseOf(p) == [before |-> p.pre, after |-> p.post]
Inverses == \A i \in 1..Len(history) :
                history[i].change \in {Released, InverseOf(history[i].proc)}

IdsKnown == \A i \in 1..Len(history) :
                \A o \in history[i].proc.pre.objects \cup history[i].proc.post.objects :
                    o < nextId

IInv == TypeOK /\ Inverses /\ HistoryIsBranch /\ IdsNeverReused /\ IdsKnown

(* What an edit does to the history and the journal. *)
Appends(p) ==
    /\ p \in Procedure
    /\ p.base = current /\ p.committed = nextState /\ p.pre = doc /\ p.post = doc'
    /\ history' \in Seq(Entry) /\ Len(history') = cursor + 1
    /\ \A i \in 1..cursor :
          /\ history'[i].proc = history[i].proc /\ history'[i].branch = history[i].branch
          /\ history'[i].change \in {Released, InverseOf(history[i].proc)}
    /\ history'[cursor + 1] = [proc |-> p, branch |-> CommitBranch, change |-> InverseOf(p)]

Logs(p) ==
    /\ journal' \in Seq(Event) /\ Len(journal) < Len(journal')
    /\ \A i \in 1..Len(journal) : journal'[i] = journal[i]
    /\ \A i \in 1..Len(journal') : i > Len(journal) =>
          \/ i = Len(journal') /\ journal'[i] = CommitEvent(p, CommitBranch)
          \/ i < Len(journal') /\ ~IsCommit(journal'[i])

(* What a move or a release of the inverses does to them. *)
Rearranges ==
    /\ history' \in Seq(Entry) /\ Len(history') = Len(history)
    /\ \A i \in 1..Len(history) :
          /\ history'[i].proc = history[i].proc /\ history'[i].branch = history[i].branch
          /\ history'[i].change \in {Released, InverseOf(history[i].proc)}

LogsMove ==
    /\ journal' \in Seq(Event) /\ Len(journal) <= Len(journal')
    /\ \A i \in 1..Len(journal) : journal'[i] = journal[i]
    /\ \A i \in 1..Len(journal') : i > Len(journal) => ~IsCommit(journal'[i])

-----------------------------------------------------------------------------
(* Numbers and sequences. *)

LEMMA LeastExists ==
  ASSUME NEW T \in SUBSET Nat, T # {}
  PROVE  \E x \in T : \A y \in T : x <= y
<1> DEFINE R == {ss \in Nat \X Nat : ss[1] < ss[2]}
<1>1. IsWellFoundedOn(R, Nat)
  BY NatLessThanWellFounded DEF OpToRel
<1> HIDE DEF R
<1>2. \E x \in T : \A y \in T : ~ (<<y, x>> \in R)
  BY <1>1, WFMin
<1>3. PICK x \in T : \A y \in T : <<y, x>> \notin R
  BY <1>2
<1>4. \A y \in T : ~(y < x)
  BY <1>3 DEF R
<1> QED BY <1>4

LEMMA GreatestExists ==
  ASSUME NEW a \in Nat, NEW b \in Nat, NEW T \in SUBSET (a..b), T # {}
  PROVE  \E x \in T : \A y \in T : y <= x
<1>1. {b - x : x \in T} \in SUBSET Nat
  <2>1. \A x \in T : b - x \in Nat
    OBVIOUS
  <2> QED BY <2>1
<1>2. {b - x : x \in T} # {}
  OBVIOUS
<1>3. PICK m \in {b - x : x \in T} : \A y \in {b - x : x \in T} : m <= y
  BY <1>1, <1>2, LeastExists
<1>4. PICK x \in T : m = b - x
  OBVIOUS
<1>5. \A y \in T : b - x <= b - y
  BY <1>3, <1>4
<1> QED BY <1>5

LEMMA FunctionIsSeq ==
  ASSUME NEW S, NEW n \in Nat, NEW f \in [1..n -> S]
  PROVE  f \in Seq(S) /\ Len(f) = n
OBVIOUS

(* A commit of the journal carries a procedure. *)
LEMMA CommitHasProcedure ==
  ASSUME NEW e \in Event, IsCommit(e)
  PROVE  e.proc \in Procedure
BY DEF Event, IsCommit

-----------------------------------------------------------------------------
(* The parts of a step. *)

LEMMA ResultType ==
  ASSUME NEW inv \in Invocation, NEW d \in Document, NEW next \in Nat \ {0},
         inv.op = "create" => next <= MaxId
  PROVE  /\ Result(inv, d, next).doc \in Document
         /\ Result(inv, d, next).out \subseteq Ids
         /\ \/ /\ Result(inv, d, next).next = next
               /\ Result(inv, d, next).out = {}
               /\ Result(inv, d, next).doc.objects \subseteq d.objects
            \/ /\ Result(inv, d, next).next = next + 1
               /\ Result(inv, d, next).out = {next}
               /\ Result(inv, d, next).doc.objects = d.objects \cup {next}
         /\ ~Whole(inv) => Result(inv, d, next).doc.objects = d.objects
<1>1. CASE inv.op = "paint"
  <2>1. inv.arg \in Paint
    BY <1>1 DEF Invocation, PaintWith, CreateObject, DeleteObject
  <2> QED BY <1>1, <2>1 DEF Result, Document
<1>2. CASE inv.op = "create"
  <2>1. next \in Ids
    BY <1>2, HistoryAssumption DEF Ids
  <2> QED BY <1>2, <2>1 DEF Result, Document, Whole
<1>3. CASE inv.op = "delete"
  BY <1>3 DEF Result, Document, Whole
<1> QED BY <1>1, <1>2, <1>3 DEF Invocation, PaintWith, CreateObject, DeleteObject

(* Restoring the cache leaves the entries and gives each its inverse. *)
LEMMA CachedIs ==
  ASSUME TypeOK, Inverses
  PROVE  /\ CachedHistory \in Seq(Entry) /\ Len(CachedHistory) = Len(history)
         /\ \A i \in 1..Len(history) :
               /\ CachedHistory[i].proc = history[i].proc
               /\ CachedHistory[i].branch = history[i].branch
               /\ CachedHistory[i].change = InverseOf(history[i].proc)
<1>1. /\ Len(history) \in Nat /\ DOMAIN history = 1..Len(history)
      /\ history \in [1..Len(history) -> Entry]
  BY LenProperties DEF TypeOK
<1>2. CASE CacheReady
  BY <1>1, <1>2 DEF CachedHistory, CacheReady, Inverses, TypeOK
<1>3. CASE ~CacheReady
  <2>1. CachedHistory = [i \in 1..Len(history) |->
                            [history[i] EXCEPT !.change = InverseOf(history[i].proc)]]
    BY <1>1, <1>3 DEF CachedHistory, InverseOf
  <2>2. \A i \in 1..Len(history) :
          /\ [history[i] EXCEPT !.change = InverseOf(history[i].proc)] \in Entry
          /\ [history[i] EXCEPT !.change = InverseOf(history[i].proc)].change
                 = InverseOf(history[i].proc)
    BY <1>1 DEF Entry, Procedure, InverseOf, Change
  <2>3. CachedHistory \in [1..Len(history) -> Entry]
    BY <2>1, <2>2
  <2>4. \A i \in 1..Len(history) : /\ CachedHistory[i].proc = history[i].proc
                                   /\ CachedHistory[i].branch = history[i].branch
    BY <1>1, <2>1 DEF Entry
  <2> QED BY <1>1, <2>1, <2>2, <2>3, <2>4, FunctionIsSeq
<1> QED BY <1>2, <1>3

(* A move shows parts that procedures of the history saw or made. *)
LEMMA InversesOf ==
  ASSUME NEW h \in Seq(Entry), \A i \in 1..Len(h) : h[i].change = InverseOf(h[i].proc)
  PROVE  \A i \in 1..Len(h) : /\ h[i].proc.pre \in Document /\ h[i].proc.post \in Document
                              /\ h[i].change.before = h[i].proc.pre
                              /\ h[i].change.after = h[i].proc.post
<1>1. \A i \in 1..Len(h) : h[i] \in Entry
  OBVIOUS
<1>2. \A i \in 1..Len(h) : h[i].proc \in Procedure
  BY <1>1 DEF Entry
<1>3. \A i \in 1..Len(h) : h[i].proc.pre \in Document /\ h[i].proc.post \in Document
  BY <1>2 DEF Procedure
<1>4. ASSUME NEW i \in 1..Len(h)
      PROVE  h[i].change.before = h[i].proc.pre /\ h[i].change.after = h[i].proc.post
  <2>1. h[i].change = InverseOf(h[i].proc)
    OBVIOUS
  <2> QED BY <2>1 DEF InverseOf
<1> QED BY <1>3, <1>4

LEMMA UndoneIs ==
  ASSUME NEW h \in Seq(Entry), NEW d \in Document,
         \A i \in 1..Len(h) : h[i].change = InverseOf(h[i].proc),
         NEW from \in 0..Len(h), NEW to \in 0..Len(h), to < from
  PROVE  /\ Moved(h, d, from, to) \in Document
         /\ Moved(h, d, from, to).paint = h[to + 1].proc.pre.paint
         /\ \/ /\ Wholes(h, to, from) = {}
               /\ Moved(h, d, from, to).objects = d.objects
            \/ \E k \in Wholes(h, to, from) :
                  /\ \A l \in Wholes(h, to, from) : k <= l
                  /\ Moved(h, d, from, to).objects = h[k].proc.pre.objects
<1>0. \A i \in 1..Len(h) : /\ h[i].proc.pre \in Document /\ h[i].proc.post \in Document
                           /\ h[i].change.before = h[i].proc.pre
                           /\ h[i].change.after = h[i].proc.post
  BY InversesOf
<1> DEFINE parts == Wholes(h, to, from)
<1>1. Moved(h, d, from, to) = Undone(h, d, from, to)
  BY DEF Moved
<1>2. to + 1 \in 1..Len(h) /\ parts \subseteq 1..Len(h) /\ parts \in SUBSET Nat
  BY DEF Wholes
<1>3. CASE parts = {}
  <2>1. Undone(h, d, from, to) = [paint |-> h[to + 1].change.before.paint,
                                  objects |-> d.objects]
    BY <1>3 DEF Undone
  <2> QED BY <1>0, <1>1, <1>2, <1>3, <2>1 DEF Document
<1>4. CASE parts # {}
  <2> DEFINE k == CHOOSE k \in parts : \A l \in parts : k <= l
  <2>1. k \in parts /\ \A l \in parts : k <= l
    BY <1>2, <1>4, LeastExists
  <2>2. Undone(h, d, from, to) = [paint |-> h[to + 1].change.before.paint,
                                  objects |-> h[k].change.before.objects]
    BY <1>4 DEF Undone
  <2> HIDE DEF k
  <2> QED BY <1>0, <1>1, <1>2, <2>1, <2>2 DEF Document
<1> QED BY <1>3, <1>4

LEMMA RedoneIs ==
  ASSUME NEW h \in Seq(Entry), NEW d \in Document,
         \A i \in 1..Len(h) : h[i].change = InverseOf(h[i].proc),
         NEW from \in 0..Len(h), NEW to \in 0..Len(h), from < to
  PROVE  /\ Moved(h, d, from, to) \in Document
         /\ Moved(h, d, from, to).paint = h[to].proc.post.paint
         /\ \/ /\ Wholes(h, from, to) = {}
               /\ Moved(h, d, from, to).objects = d.objects
            \/ \E k \in Wholes(h, from, to) :
                  /\ \A l \in Wholes(h, from, to) : l <= k
                  /\ Moved(h, d, from, to).objects = h[k].proc.post.objects
<1>0. \A i \in 1..Len(h) : /\ h[i].proc.pre \in Document /\ h[i].proc.post \in Document
                           /\ h[i].change.before = h[i].proc.pre
                           /\ h[i].change.after = h[i].proc.post
  BY InversesOf
<1> DEFINE parts == Wholes(h, from, to)
<1>1. Moved(h, d, from, to) = Redone(h, d, from, to)
  BY DEF Moved
<1>2. to \in 1..Len(h) /\ parts \subseteq 1..Len(h) /\ parts \in SUBSET (from + 1..to)
  BY DEF Wholes
<1>3. CASE parts = {}
  <2>1. Redone(h, d, from, to) = [paint |-> h[to].change.after.paint,
                                  objects |-> d.objects]
    BY <1>3 DEF Redone
  <2> QED BY <1>0, <1>1, <1>2, <1>3, <2>1 DEF Document
<1>4. CASE parts # {}
  <2> DEFINE k == CHOOSE k \in parts : \A l \in parts : l <= k
  <2>0. from + 1 \in Nat /\ to \in Nat
    OBVIOUS
  <2>1. k \in parts /\ \A l \in parts : l <= k
    <3>1. \E x \in parts : \A y \in parts : y <= x
      <4> HIDE DEF parts
      <4> QED BY <2>0, <1>2, <1>4, GreatestExists
    <3> QED BY <3>1
  <2>2. Redone(h, d, from, to) = [paint |-> h[to].change.after.paint,
                                  objects |-> h[k].change.after.objects]
    BY <1>4 DEF Redone
  <2> HIDE DEF k
  <2> QED BY <1>0, <1>1, <1>2, <2>1, <2>2 DEF Document
<1> QED BY <1>3, <1>4

LEMMA MovedObjects ==
  ASSUME NEW h \in Seq(Entry), NEW d \in Document,
         \A i \in 1..Len(h) : h[i].change = InverseOf(h[i].proc),
         NEW from \in 0..Len(h), NEW to \in 0..Len(h), from # to
  PROVE  /\ Moved(h, d, from, to) \in Document
         /\ \/ Moved(h, d, from, to).objects = d.objects
            \/ \E k \in 1..Len(h) : \/ Moved(h, d, from, to).objects = h[k].proc.pre.objects
                                   \/ Moved(h, d, from, to).objects = h[k].proc.post.objects
<1>1. CASE to < from
  <2>1. \A k \in Wholes(h, to, from) : k \in 1..Len(h)
    BY <1>1 DEF Wholes
  <2>2. /\ Moved(h, d, from, to) \in Document
        /\ \/ Moved(h, d, from, to).objects = d.objects
           \/ \E k \in Wholes(h, to, from) :
                  Moved(h, d, from, to).objects = h[k].proc.pre.objects
    BY <1>1, UndoneIs
  <2> QED BY <2>1, <2>2
<1>2. CASE from < to
  <2>1. \A k \in Wholes(h, from, to) : k \in 1..Len(h)
    BY <1>2 DEF Wholes
  <2>2. /\ Moved(h, d, from, to) \in Document
        /\ \/ Moved(h, d, from, to).objects = d.objects
           \/ \E k \in Wholes(h, from, to) :
                  Moved(h, d, from, to).objects = h[k].proc.post.objects
    BY <1>2, RedoneIs
  <2> QED BY <2>1, <2>2
<1> QED BY <1>1, <1>2

(* An edit appends its entry to what the cursor keeps, and its commit to   *)
(* the journal, after a cut where it forks.                                *)
LEMMA EditStep ==
  ASSUME TypeOK, Inverses, NEW inv \in Invocation, Execute(inv)
  PROVE  /\ \E p \in Procedure : /\ Appends(p) /\ Logs(p) /\ p.inv = inv
                                 /\ p.out = Result(inv, doc, nextId).out
         /\ doc' = Result(inv, doc, nextId).doc /\ nextId' = Result(inv, doc, nextId).next
         /\ inv.op = "create" => nextId <= MaxId
         /\ cursor' = cursor + 1 /\ current' = nextState /\ nextState' = nextState + 1
         /\ active' = CommitBranch /\ tails' = CommittedTails(nextState)
         /\ genesis' = genesis
<1> DEFINE res == Result(inv, doc, nextId)
           proc == [base |-> current, committed |-> nextState, inv |-> inv,
                    out |-> res.out, pre |-> doc, post |-> res.doc]
           base == IF Whole(inv) THEN CachedHistory ELSE history
           entry == [proc |-> proc, branch |-> CommitBranch, change |-> InverseOf(proc)]
<1>1. /\ inv.op = "create" => nextId <= MaxId
      /\ doc' = res.doc /\ nextId' = res.next
      /\ history' = Append(Kept(base), entry)
      /\ cursor' = cursor + 1 /\ current' = nextState /\ nextState' = nextState + 1
      /\ journal' = journal \o CommitEvents(proc)
      /\ active' = CommitBranch /\ tails' = CommittedTails(nextState) /\ genesis' = genesis
  BY DEF Execute, InverseOf
<1>2. res.doc \in Document /\ res.out \subseteq Ids
  BY <1>1, ResultType DEF TypeOK
<1>3. proc \in Procedure /\ InverseOf(proc) \in Change
  BY <1>2 DEF Procedure, TypeOK, InverseOf, Change
<1>4. CommitBranch \in Nat /\ Len(tails) \in Nat /\ active \in Nat /\ tails[active] \in Nat
  BY LenProperties, ElementOfSeq DEF CommitBranch, TypeOK
<1>5. entry \in Entry
  BY <1>3, <1>4 DEF Entry
<1>6. /\ base \in Seq(Entry) /\ Len(base) = Len(history)
      /\ \A i \in 1..Len(history) :
            /\ base[i].proc = history[i].proc /\ base[i].branch = history[i].branch
            /\ base[i].change \in {Released, InverseOf(history[i].proc)}
  BY CachedIs DEF TypeOK, Inverses
<1>7. /\ cursor \in Nat /\ cursor <= Len(base)
      /\ Kept(base) \in Seq(Entry) /\ Len(Kept(base)) = cursor
      /\ \A i \in 1..cursor : Kept(base)[i] = base[i]
  <2>1. cursor \in Nat /\ cursor <= Len(base) /\ \A i \in 1..cursor : base[i] \in Entry
    BY <1>6, ElementOfSeq, LenProperties DEF TypeOK
  <2> HIDE DEF base
  <2> QED BY <2>1, SubSeqProperties DEF Kept
<1> HIDE DEF res, proc, base, entry
<1>8. /\ history' \in Seq(Entry) /\ Len(history') = cursor + 1
      /\ history'[cursor + 1] = entry
      /\ \A i \in 1..cursor : history'[i] = base[i]
  <2>1. PICK kept : kept = Kept(base)
    OBVIOUS
  <2>2. /\ kept \in Seq(Entry) /\ Len(kept) = cursor /\ cursor \in Nat
        /\ \A i \in 1..cursor : kept[i] = base[i]
    BY <1>7, <2>1
  <2>3. entry \in Entry /\ history' = Append(kept, entry)
    BY <1>1, <1>5, <2>1
  <2>4. /\ Append(kept, entry) \in Seq(Entry) /\ Len(Append(kept, entry)) = cursor + 1
        /\ Append(kept, entry)[cursor + 1] = entry
        /\ \A i \in 1..cursor : Append(kept, entry)[i] = kept[i]
    BY <2>2, <2>3
  <2> QED BY <2>2, <2>3, <2>4
<1>9. Appends(proc)
  <2>1. proc.base = current /\ proc.committed = nextState /\ proc.pre = doc /\ proc.post = doc'
    BY <1>1 DEF proc, res
  <2>2. \A i \in 1..cursor : i \in 1..Len(history)
    BY <1>7 DEF TypeOK
  <2>3. \A i \in 1..cursor :
          /\ history'[i].proc = history[i].proc /\ history'[i].branch = history[i].branch
          /\ history'[i].change \in {Released, InverseOf(history[i].proc)}
    BY <1>6, <1>8, <2>2
  <2> QED BY <1>3, <1>8, <2>1, <2>3 DEF Appends, entry
<1>10. Logs(proc)
  <2> DEFINE cut == CutEvent(current, tails[active], Len(tails) + 1, active)
             commit == CommitEvent(proc, CommitBranch)
  <2>1. commit \in Event /\ ~IsCommit(cut) /\ cut \in Event
    <3>1. commit \in Event
      BY <1>3, <1>4 DEF Event, CommitEvent
    <3>2. cut \in Event /\ ~IsCommit(cut)
      BY <1>4 DEF Event, CutEvent, IsCommit, TypeOK
    <3> QED BY <3>1, <3>2
  <2>2. CommitEvents(proc) = IF Forks THEN <<cut, commit>> ELSE <<commit>>
    BY DEF CommitEvents, CommitBranch
  <2> HIDE DEF cut, commit
  <2>3. CASE Forks
    <3>1. journal' = journal \o <<cut, commit>>
      BY <1>1, <2>2, <2>3
    <3>2. /\ journal' \in Seq(Event) /\ Len(journal') = Len(journal) + 2
          /\ \A i \in 1..Len(journal) : journal'[i] = journal[i]
          /\ journal'[Len(journal) + 1] = cut /\ journal'[Len(journal) + 2] = commit
      BY <2>1, <3>1 DEF TypeOK
    <3>3. Len(journal) \in Nat
      BY DEF TypeOK
    <3>4. \A i \in 1..Len(journal') : i > Len(journal) =>
            i = Len(journal) + 1 \/ i = Len(journal) + 2
      BY <3>2, <3>3
    <3> QED BY <2>1, <3>2, <3>3, <3>4 DEF Logs, commit
  <2>4. CASE ~Forks
    <3>1. journal' = journal \o <<commit>>
      BY <1>1, <2>2, <2>4
    <3>2. /\ journal' \in Seq(Event) /\ Len(journal') = Len(journal) + 1
          /\ \A i \in 1..Len(journal) : journal'[i] = journal[i]
          /\ journal'[Len(journal) + 1] = commit
      BY <2>1, <3>1 DEF TypeOK
    <3>3. Len(journal) \in Nat
      BY DEF TypeOK
    <3>4. \A i \in 1..Len(journal') : i > Len(journal) => i = Len(journal) + 1
      BY <3>2, <3>3
    <3> QED BY <3>2, <3>3, <3>4 DEF Logs, commit
  <2> QED BY <2>3, <2>4
<1>11. proc.inv = inv /\ proc.out = res.out
  BY DEF proc
<1> QED BY <1>1, <1>3, <1>9, <1>10, <1>11 DEF res

(* Undo, redo and a jump move the cursor over the same entries. *)
LEMMA MoveStep ==
  ASSUME TypeOK, Inverses, NEW kind \in {"undo", "redo", "jump"},
         NEW to \in 0..Len(history), to # cursor, MoveTo(kind, to),
         StateAt(history, to) \in Nat
  PROVE  /\ Rearranges /\ LogsMove
         /\ doc' = Moved(CachedHistory, doc, cursor, to) /\ doc' \in Document
         /\ cursor' = to /\ current' = StateAt(history, to)
         /\ UNCHANGED <<nextId, nextState, active, tails, genesis>>
<1> DEFINE move == MoveEvent(kind, current, StateAt(history, to), active)
<1>1. /\ history' = CachedHistory /\ doc' = Moved(CachedHistory, doc, cursor, to)
      /\ cursor' = to /\ current' = StateAt(history, to)
      /\ journal' = Append(journal, move)
      /\ UNCHANGED <<nextId, nextState, active, tails, genesis>>
  BY DEF MoveTo
<1>2. active \in Nat
  BY LenProperties DEF TypeOK
<1>3. move \in Event /\ ~IsCommit(move)
  BY <1>2 DEF Event, MoveEvent, IsCommit, TypeOK
<1> HIDE DEF move
<1>4. Rearranges
  BY <1>1, CachedIs DEF Rearranges
<1>5. LogsMove
  <2>1. /\ journal' \in Seq(Event) /\ Len(journal') = Len(journal) + 1 /\ Len(journal) \in Nat
        /\ \A i \in 1..Len(journal) : journal'[i] = journal[i]
        /\ journal'[Len(journal) + 1] = move
    BY <1>1, <1>3 DEF TypeOK
  <2>2. \A i \in 1..Len(journal') : i > Len(journal) => i = Len(journal) + 1
    BY <2>1
  <2> QED BY <1>3, <2>1, <2>2 DEF LogsMove
<1>6. doc' \in Document
  <2>1. /\ CachedHistory \in Seq(Entry) /\ Len(CachedHistory) = Len(history)
        /\ \A i \in 1..Len(CachedHistory) :
              CachedHistory[i].change = InverseOf(CachedHistory[i].proc)
    BY CachedIs
  <2> QED BY <1>1, <2>1, MovedObjects DEF TypeOK
<1> QED BY <1>1, <1>4, <1>5, <1>6

(* The moves of Next. *)
LEMMA Moves ==
  ASSUME TypeOK, Undo \/ Redo \/ \E to \in 0..Len(history) : JumpHistory(to)
  PROVE  \E kind \in {"undo", "redo", "jump"}, to \in 0..Len(history) :
            to # cursor /\ MoveTo(kind, to)
<1>1. cursor \in 0..Len(history) /\ Len(history) \in Nat
  BY DEF TypeOK
<1>2. CASE Undo
  <2>1. cursor - 1 \in 0..Len(history) /\ cursor - 1 # cursor /\ MoveTo("undo", cursor - 1)
    BY <1>1, <1>2 DEF Undo
  <2> QED BY <2>1
<1>3. CASE Redo
  <2>1. cursor + 1 \in 0..Len(history) /\ cursor + 1 # cursor /\ MoveTo("redo", cursor + 1)
    BY <1>1, <1>3 DEF Redo
  <2> QED BY <2>1
<1>4. CASE \E to \in 0..Len(history) : JumpHistory(to)
  BY <1>4 DEF JumpHistory
<1> QED BY <1>2, <1>3, <1>4

LEMMA ReleaseStep ==
  ASSUME TypeOK, ReleaseHistoryCache
  PROVE  /\ Rearranges /\ LogsMove
         /\ UNCHANGED <<doc, nextId, cursor, current, nextState, active, tails, genesis>>
<1>1. /\ Len(history) \in Nat /\ DOMAIN history = 1..Len(history)
      /\ history \in [1..Len(history) -> Entry]
  BY LenProperties DEF TypeOK
<1>2. history' = [i \in 1..Len(history) |-> [history[i] EXCEPT !.change = Released]]
  BY <1>1 DEF ReleaseHistoryCache
<1>3. \A i \in 1..Len(history) :
        /\ [history[i] EXCEPT !.change = Released] \in Entry
        /\ [history[i] EXCEPT !.change = Released].change = Released
        /\ [history[i] EXCEPT !.change = Released].proc = history[i].proc
        /\ [history[i] EXCEPT !.change = Released].branch = history[i].branch
  BY <1>1 DEF Entry
<1>4. history' \in [1..Len(history) -> Entry]
  BY <1>2, <1>3
<1>5. Rearranges
  <2>1. history' \in Seq(Entry) /\ Len(history') = Len(history)
    BY <1>1, <1>4, FunctionIsSeq
  <2>2. \A i \in 1..Len(history) :
           /\ history'[i].proc = history[i].proc /\ history'[i].branch = history[i].branch
           /\ history'[i].change = Released
    BY <1>2, <1>3
  <2> QED BY <2>1, <2>2 DEF Rearranges
<1>6. LogsMove
  BY DEF LogsMove, ReleaseHistoryCache, TypeOK
<1> QED BY <1>5, <1>6 DEF ReleaseHistoryCache

-----------------------------------------------------------------------------
(* The shapes keep the invariants. *)

LEMMA Indexes ==
  ASSUME TypeOK
  PROVE  /\ DOMAIN history = 1..Len(history) /\ Len(history) \in Nat
         /\ DOMAIN journal = 1..Len(journal) /\ Len(journal) \in Nat
         /\ DOMAIN tails = 1..Len(tails) /\ Len(tails) \in Nat
         /\ cursor \in Nat /\ active \in Nat /\ tails[active] \in Nat
BY LenProperties, ElementOfSeq DEF TypeOK

LEMMA StateType ==
  ASSUME NEW h \in Seq(Entry), NEW k \in 0..Len(h)
  PROVE  StateAt(h, k) \in Nat
<1>1. CASE k = 0
  BY <1>1 DEF StateAt, Genesis
<1>2. CASE k # 0
  <2>1. h[k] \in Entry
    BY <1>2, ElementOfSeq
  <2>2. h[k].proc \in Procedure
    BY <2>1 DEF Entry
  <2> QED BY <1>2, <2>2 DEF StateAt, Procedure
<1> QED BY <1>1, <1>2

(* Commits of the old journal stay, and the new ones are told apart. *)
LEMMA CommitsGrow ==
  ASSUME TypeOK, journal' \in Seq(Event), Len(journal) <= Len(journal'),
         \A i \in 1..Len(journal) : journal'[i] = journal[i]
  PROVE  /\ Commits \subseteq Commits'
         /\ \A i \in Commits' : /\ i \in 1..Len(journal')
                                /\ i <= Len(journal) => i \in Commits
         /\ \A i \in Commits : i \in 1..Len(journal) /\ journal'[i] = journal[i]
<1>1. DOMAIN journal' = 1..Len(journal') /\ Len(journal') \in Nat
  BY LenProperties
<1> QED BY <1>1, Indexes DEF Commits

LEMMA MoveKeeps ==
  ASSUME IInv, Rearranges, LogsMove, doc' \in Document, \A o \in doc'.objects : o < nextId,
         cursor' \in 0..Len(history), current' = StateAt(history, cursor'),
         UNCHANGED <<nextId, nextState, active, tails, genesis>>
  PROVE  IInv'
<1>1. /\ DOMAIN history' = 1..Len(history) /\ Len(history') = Len(history)
      /\ Len(history) \in Nat /\ DOMAIN history = 1..Len(history)
  BY Indexes, LenProperties DEF Rearranges, IInv
<1>2. \A k \in 0..Len(history) : StateAt(history', k) = StateAt(history, k)
  BY <1>1 DEF StateAt, Rearranges
<1>3. TypeOK'
  <2>1. current' \in Nat
    BY StateType DEF IInv, TypeOK
  <2>2. cursor' \in 0..Len(history')
    BY <1>1
  <2> QED BY <2>1, <2>2 DEF IInv, TypeOK, Rearranges, LogsMove
<1>4. Inverses'
  BY <1>1 DEF Inverses, Rearranges
<1>5. /\ Commits \subseteq Commits'
      /\ \A i \in Commits : i \in 1..Len(journal) /\ journal'[i] = journal[i]
      /\ \A i \in Commits' : i \in 1..Len(journal') /\ (i <= Len(journal) => i \in Commits)
  BY CommitsGrow DEF IInv, LogsMove
<1>6. \A i \in Commits' : i \in Commits
  BY <1>5 DEF LogsMove, Commits
<1>7. HistoryIsBranch'
  <2>1. current' = StateAt(history', cursor')
    BY <1>2
  <2>2. tails'[active'] = StateAt(history', Len(history'))
    BY <1>1, <1>2 DEF IInv, HistoryIsBranch
  <2>3. ASSUME NEW i \in 1..Len(history)
        PROVE  /\ history'[i].proc.base = StateAt(history', i - 1)
               /\ \E j \in Commits' :
                     journal'[j] = CommitEvent(history'[i].proc, history'[i].branch)
    <3>1. history[i].proc.base = StateAt(history, i - 1)
      BY <1>1 DEF IInv, HistoryIsBranch
    <3>2. PICK j \in Commits : journal[j] = CommitEvent(history[i].proc, history[i].branch)
      BY <1>1 DEF IInv, HistoryIsBranch
    <3>3. i - 1 \in 0..Len(history)
      BY <1>1
    <3>4. j \in Commits' /\ journal'[j] = journal[j]
      BY <1>5
    <3> QED BY <1>2, <3>1, <3>2, <3>3, <3>4 DEF Rearranges
  <2> QED BY <1>1, <2>1, <2>2, <2>3 DEF HistoryIsBranch
<1>8. IdsNeverReused'
  BY <1>5, <1>6 DEF IInv, IdsNeverReused
<1>9. IdsKnown'
  BY <1>1 DEF IInv, IdsKnown, Rearranges
<1> QED BY <1>3, <1>4, <1>7, <1>8, <1>9 DEF IInv

LEMMA EditKeeps == ASSUME IInv, NEW inv \in Invocation, Execute(inv) PROVE IInv'
<1> DEFINE res == Result(inv, doc, nextId)
<1>1. PICK p \in Procedure : Appends(p) /\ Logs(p) /\ p.inv = inv /\ p.out = res.out
  BY EditStep DEF IInv
<1>2. /\ doc' = res.doc /\ nextId' = res.next
      /\ inv.op = "create" => nextId <= MaxId
      /\ cursor' = cursor + 1 /\ current' = nextState /\ nextState' = nextState + 1
      /\ active' = CommitBranch /\ tails' = CommittedTails(nextState)
      /\ genesis' = genesis
  BY EditStep DEF IInv
<1>3. /\ res.doc \in Document /\ res.out \subseteq Ids
      /\ \/ res.next = nextId /\ res.out = {} /\ res.doc.objects \subseteq doc.objects
         \/ /\ res.next = nextId + 1 /\ res.out = {nextId}
            /\ res.doc.objects = doc.objects \cup {nextId}
  BY <1>2, ResultType DEF IInv, TypeOK
<1> HIDE DEF res
<1>4. /\ DOMAIN history = 1..Len(history) /\ Len(history) \in Nat
      /\ DOMAIN journal = 1..Len(journal) /\ Len(journal) \in Nat
      /\ DOMAIN tails = 1..Len(tails) /\ Len(tails) \in Nat
      /\ cursor \in Nat /\ cursor <= Len(history) /\ active \in 1..Len(tails)
      /\ nextId \in Nat \ {0} /\ nextState \in Nat
  BY Indexes DEF IInv, TypeOK
<1>5. DOMAIN history' = 1..cursor + 1 /\ Len(history') = cursor + 1
  BY <1>1, LenProperties DEF Appends
<1>6. \A i \in 1..cursor : i \in 1..Len(history) /\ history'[i].proc = history[i].proc
                           /\ history'[i].branch = history[i].branch
  BY <1>1, <1>4 DEF Appends
<1>7. history'[cursor + 1].proc = p /\ history'[cursor + 1].branch = CommitBranch
  BY <1>1 DEF Appends
<1>8. /\ tails' \in Seq(Nat) /\ active' \in DOMAIN tails' /\ tails'[active'] = nextState
  <2>1. CASE Forks
    <3>1. tails' = Append(tails, nextState) /\ active' = Len(tails) + 1
      BY <2>1, <1>2 DEF CommittedTails, CommitBranch
    <3> QED BY <3>1, <1>4 DEF IInv, TypeOK
  <2>2. CASE ~Forks
    <3>1. tails' = [tails EXCEPT ![active] = nextState] /\ active' = active
      BY <2>2, <1>2 DEF CommittedTails, CommitBranch
    <3> QED BY <3>1, <1>4, ExceptSeq DEF IInv, TypeOK
  <2> QED BY <2>1, <2>2
<1>9. TypeOK'
  <2>1. cursor' \in 0..Len(history')
    BY <1>2, <1>4, <1>5
  <2>2. nextId' \in Nat \ {0} /\ nextState' \in Nat /\ current' \in Nat
    BY <1>2, <1>3, <1>4
  <2> QED BY <1>1, <1>2, <1>3, <1>8, <2>1, <2>2 DEF IInv, TypeOK, Appends, Logs
<1>10. Inverses'
  <2>1. \A i \in 1..cursor + 1 : i \in 1..cursor \/ i = cursor + 1
    BY <1>4
  <2>2. history'[cursor + 1].change = InverseOf(p)
    BY <1>1 DEF Appends
  <2> QED BY <1>1, <1>5, <1>6, <1>7, <2>1, <2>2 DEF Inverses, Appends
<1>11. \A k \in 0..cursor : StateAt(history', k) = StateAt(history, k)
  BY <1>6 DEF StateAt
<1>12. StateAt(history', cursor + 1) = nextState
  BY <1>1, <1>4, <1>7 DEF StateAt, Appends
<1>13. /\ Commits \subseteq Commits'
       /\ \A i \in Commits : i \in 1..Len(journal) /\ journal'[i] = journal[i]
       /\ \A i \in Commits' : i \in 1..Len(journal') /\ (i <= Len(journal) => i \in Commits)
  BY <1>1, CommitsGrow DEF IInv, Logs
<1>14. /\ Len(journal') \in Commits' /\ Len(journal') > Len(journal)
       /\ journal'[Len(journal')] = CommitEvent(p, CommitBranch)
  <2>1. DOMAIN journal' = 1..Len(journal') /\ Len(journal') \in Nat
    BY <1>1, LenProperties DEF Logs
  <2>2. Len(journal') \in 1..Len(journal') /\ Len(journal') > Len(journal)
    <3>1. Len(journal) < Len(journal')
      BY <1>1 DEF Logs
    <3> QED BY <1>4, <2>1, <3>1
  <2>3. journal'[Len(journal')] = CommitEvent(p, CommitBranch)
    BY <1>1, <2>2 DEF Logs
  <2> QED BY <2>1, <2>2, <2>3 DEF Commits, IsCommit, CommitEvent
<1>15. \A i \in Commits' : i \in Commits \/ i = Len(journal')
  <2> SUFFICES ASSUME NEW i \in Commits', i \notin Commits PROVE i = Len(journal')
    OBVIOUS
  <2>1. i \in 1..Len(journal') /\ i > Len(journal) /\ IsCommit(journal'[i])
    BY <1>13, <1>4 DEF Commits
  <2> QED BY <1>1, <2>1 DEF Logs
<1>16. HistoryIsBranch'
  <2>1. ASSUME NEW i \in 1..cursor + 1
        PROVE  /\ history'[i].proc.base = StateAt(history', i - 1)
               /\ \E j \in Commits' :
                     journal'[j] = CommitEvent(history'[i].proc, history'[i].branch)
    <3>1. CASE i = cursor + 1
      <4>1. p.base = StateAt(history, cursor)
        BY <1>1 DEF IInv, HistoryIsBranch, Appends
      <4> QED BY <3>1, <4>1, <1>4, <1>7, <1>11, <1>14
    <3>2. CASE i # cursor + 1
      <4>1. i \in 1..cursor /\ i \in 1..Len(history) /\ i - 1 \in 0..cursor
        BY <3>2, <1>4
      <4>2. history[i].proc.base = StateAt(history, i - 1)
        BY <4>1, <1>4 DEF IInv, HistoryIsBranch
      <4>3. PICK j \in Commits : journal[j] = CommitEvent(history[i].proc, history[i].branch)
        BY <4>1, <1>4 DEF IInv, HistoryIsBranch
      <4> QED BY <4>1, <4>2, <4>3, <1>6, <1>11, <1>13
    <3> QED BY <3>1, <3>2
  <2> QED BY <1>2, <1>5, <1>8, <1>12, <2>1 DEF HistoryIsBranch
<1>17. IdsNeverReused'
  <2>1. \A o \in genesis.objects \cup doc.objects : o \in Int /\ o < nextId
    BY DEF IInv, IdsNeverReused, TypeOK, Document, Ids
  <2>2. \A i \in Commits : \A o \in journal[i].proc.out :
          o \in Int /\ o < nextId /\ o \notin genesis.objects
    <3>1. \A i \in Commits : journal[i].proc \in Procedure
      BY <1>4, CommitHasProcedure DEF Commits, IInv, TypeOK
    <3> QED BY <3>1 DEF IInv, IdsNeverReused, Procedure, Ids
  <2>3. \A o \in p.out : o = nextId /\ nextId' = nextId + 1
    BY <1>1, <1>2, <1>3
  <2>4. nextId' >= nextId /\ \A o \in doc'.objects : o < nextId'
    BY <1>2, <1>3, <1>4, <2>1
  <2>5. \A i \in Commits' : \/ i \in Commits /\ journal'[i].proc.out = journal[i].proc.out
                            \/ i = Len(journal') /\ journal'[i].proc.out = p.out
    BY <1>13, <1>14, <1>15 DEF CommitEvent
  <2>6. ASSUME NEW i \in Commits', NEW o \in journal'[i].proc.out
        PROVE  /\ o < nextId' /\ o \notin genesis.objects
               /\ \A j \in Commits' : j # i => o \notin journal'[j].proc.out
    <3>1. CASE i \in Commits /\ journal'[i].proc.out = journal[i].proc.out
      <4>1. o \in Int /\ o < nextId /\ o \notin genesis.objects
        BY <3>1, <2>2
      <4>2. \A j \in Commits : j # i => o \notin journal[j].proc.out
        BY <3>1 DEF IInv, IdsNeverReused
      <4>3. o \notin p.out
        BY <4>1, <2>3, <1>4
      <4>4. o < nextId'
        BY <4>1, <2>4, <1>4, <1>2, <1>3
      <4> QED BY <4>1, <4>2, <4>3, <4>4, <2>5
    <3>2. CASE i = Len(journal') /\ journal'[i].proc.out = p.out
      <4>1. o = nextId /\ nextId' = nextId + 1
        BY <3>2, <2>3
      <4>2. \A j \in Commits : o \notin journal[j].proc.out
        BY <4>1, <2>2, <1>4
      <4>3. o \notin genesis.objects
        BY <4>1, <2>1, <1>4
      <4>4. o < nextId'
        BY <4>1, <1>4
      <4> QED BY <3>2, <4>2, <4>3, <4>4, <2>5
    <3> QED BY <3>1, <3>2, <2>5
  <2>7. \A o \in genesis.objects : o < nextId'
    BY <2>1, <2>4, <1>2, <1>3, <1>4
  <2> QED BY <1>2, <2>4, <2>6, <2>7 DEF IdsNeverReused
<1>18. IdsKnown'
  <2>1. nextId' \in Nat /\ nextId <= nextId'
    BY <1>2, <1>3, <1>4
  <2>2. \A i \in 1..cursor : \A o \in history[i].proc.pre.objects
                                          \cup history[i].proc.post.objects : o < nextId'
    <3>1. \A i \in 1..cursor : history[i].proc \in Procedure
      <4>1. \A i \in 1..cursor : history[i] \in Entry
        BY <1>6, ElementOfSeq DEF IInv, TypeOK
      <4> QED BY <4>1 DEF Entry
    <3>2. \A i \in 1..cursor : \A o \in history[i].proc.pre.objects
                                            \cup history[i].proc.post.objects : o \in Int
      BY <3>1 DEF Procedure, Document, Ids
    <3> QED BY <3>2, <2>1, <1>4, <1>6 DEF IInv, IdsKnown
  <2>3. p.pre = doc /\ p.post = doc'
    BY <1>1 DEF Appends
  <2>4. \A o \in p.pre.objects \cup p.post.objects : o < nextId'
    <3>1. \A o \in doc.objects : o \in Int /\ o < nextId
      BY DEF IInv, IdsNeverReused, TypeOK, Document, Ids
    <3> QED BY <2>1, <2>3, <3>1, <1>4, <1>17 DEF IdsNeverReused
  <2>5. \A i \in 1..cursor + 1 : i \in 1..cursor \/ i = cursor + 1
    BY <1>4
  <2> QED BY <1>5, <1>6, <1>7, <2>2, <2>4, <2>5 DEF IdsKnown
<1> QED BY <1>9, <1>10, <1>16, <1>17, <1>18 DEF IInv

LEMMA NewDocumentKeeps == ASSUME IInv, NewCell PROVE IInv'
<1>1. /\ nextId <= MaxId /\ doc' = [paint |-> Blank, objects |-> {nextId}]
      /\ nextId' = nextId + 1 /\ history' = <<>> /\ cursor' = 0 /\ current' = Genesis
      /\ nextState' = Genesis + 1 /\ journal' = <<>> /\ active' = Root
      /\ tails' = <<Genesis>> /\ genesis' = doc'
  BY DEF NewCell
<1>2. nextId \in Ids /\ doc' \in Document
  BY <1>1, HistoryAssumption DEF IInv, TypeOK, Ids, Document
<1>3. TypeOK'
  BY <1>1, <1>2 DEF IInv, TypeOK, Genesis, Root
<1>4. HistoryIsBranch'
  BY <1>1 DEF HistoryIsBranch, StateAt, Genesis, Root
<1>5. IdsNeverReused' /\ IdsKnown' /\ Inverses'
  BY <1>1, <1>2 DEF IdsNeverReused, IdsKnown, Inverses, Commits, IInv, TypeOK
<1> QED BY <1>3, <1>4, <1>5 DEF IInv

LEMMA InitKeeps == Init => IInv
<1> SUFFICES ASSUME Init PROVE IInv
  OBVIOUS
<1>1. 1 \in Ids /\ doc \in Document
  BY HistoryAssumption DEF Init, Ids, Document
<1>2. TypeOK
  BY <1>1 DEF Init, TypeOK, Genesis, Root
<1>3. HistoryIsBranch
  BY DEF Init, HistoryIsBranch, StateAt, Genesis, Root
<1>4. IdsNeverReused /\ IdsKnown /\ Inverses
  BY DEF Init, IdsNeverReused, IdsKnown, Inverses, Commits
<1> QED BY <1>2, <1>3, <1>4 DEF IInv

LEMMA NextKeeps == IInv /\ [Next]_vars => IInv'
<1> SUFFICES ASSUME IInv, [Next]_vars PROVE IInv'
  OBVIOUS
<1>1. CASE \E inv \in Invocation : Execute(inv)
  BY <1>1, EditKeeps
<1>2. CASE Undo \/ Redo \/ \E to \in 0..Len(history) : JumpHistory(to)
  <2>1. PICK kind \in {"undo", "redo", "jump"}, to \in 0..Len(history) :
          to # cursor /\ MoveTo(kind, to)
    BY <1>2, Moves DEF IInv
  <2>2. /\ Rearranges /\ LogsMove
        /\ doc' = Moved(CachedHistory, doc, cursor, to) /\ doc' \in Document
        /\ cursor' = to /\ current' = StateAt(history, to)
        /\ UNCHANGED <<nextId, nextState, active, tails, genesis>>
    BY <2>1, MoveStep, StateType DEF IInv, TypeOK
  <2>3. \A o \in doc'.objects : o < nextId
    <3>1. /\ CachedHistory \in Seq(Entry) /\ Len(CachedHistory) = Len(history)
          /\ \A i \in 1..Len(history) : CachedHistory[i].proc = history[i].proc
          /\ \A i \in 1..Len(CachedHistory) :
                CachedHistory[i].change = InverseOf(CachedHistory[i].proc)
      BY CachedIs DEF IInv
    <3>2. cursor \in 0..Len(CachedHistory) /\ to \in 0..Len(CachedHistory)
      BY <3>1 DEF IInv, TypeOK
    <3>3. \/ doc'.objects = doc.objects
          \/ \E k \in 1..Len(history) :
                \/ doc'.objects = history[k].proc.pre.objects
                \/ doc'.objects = history[k].proc.post.objects
      <4>1. doc \in Document
        BY DEF IInv, TypeOK
      <4>2. \/ doc'.objects = doc.objects
            \/ \E k \in 1..Len(CachedHistory) :
                  \/ doc'.objects = CachedHistory[k].proc.pre.objects
                  \/ doc'.objects = CachedHistory[k].proc.post.objects
        BY <2>1, <2>2, <3>1, <3>2, <4>1, MovedObjects
      <4> QED BY <3>1, <4>2
    <3> QED BY <3>3 DEF IInv, IdsKnown, IdsNeverReused
  <2> QED BY <2>2, <2>3, MoveKeeps
<1>3. CASE ReleaseHistoryCache
  <2>1. /\ Rearranges /\ LogsMove
        /\ UNCHANGED <<doc, nextId, cursor, current, nextState, active, tails, genesis>>
    BY <1>3, ReleaseStep DEF IInv
  <2> QED BY <2>1, MoveKeeps DEF IInv, TypeOK, HistoryIsBranch, IdsNeverReused
<1>4. CASE NewCell
  BY <1>4, NewDocumentKeeps
<1>5. CASE UNCHANGED vars
  BY <1>5 DEF vars, IInv, TypeOK, Inverses, HistoryIsBranch, IdsNeverReused, IdsKnown, Commits,
     StateAt
<1> QED BY <1>1, <1>2, <1>3, <1>4, <1>5 DEF Next

LEMMA HistoryInvariant == Spec => []IInv
BY InitKeeps, NextKeeps, PTL DEF Spec

(* What a history and a journal are made of, in every reachable state. *)
THEOREM HistoryTypeCorrect == Spec => []TypeOK
<1>1. IInv => TypeOK
  BY DEF IInv
<1> QED BY <1>1, HistoryInvariant, PTL

(* The visible history is one branch of the journal, its tail the tail of  *)
(* that branch and its cursor at the current state (history.rs, core.rs).  *)
THEOREM VisibleHistoryIsBranch == Spec => []HistoryIsBranch
<1>1. IInv => HistoryIsBranch
  BY DEF IInv
<1> QED BY <1>1, HistoryInvariant, PTL

(* Undone edits, branches and restored inverses never make an id be given  *)
(* out a second time in the life of a document (core.rs, next_id).         *)
THEOREM StableIdsAreUnique == Spec => []IdsNeverReused
<1>1. IInv => IdsNeverReused
  BY DEF IInv
<1> QED BY <1>1, HistoryInvariant, PTL

-----------------------------------------------------------------------------
LEMMA PrefixOf ==
  ASSUME NEW S, NEW s \in Seq(S), NEW t \in Seq(S), Len(s) <= Len(t),
         \A i \in 1..Len(s) : t[i] = s[i]
  PROVE  IsPrefix(s, t)
<1>1. Len(s) \in Nat /\ Len(t) \in Nat
  OBVIOUS
<1>2. \A i \in 1..Len(s) : s[i] \in S /\ t[i] \in S
  BY ElementOfSeq
<1>3. /\ SubSeq(s, 1, Len(s)) \in Seq(S) /\ Len(SubSeq(s, 1, Len(s))) = Len(s)
      /\ \A i \in 1..Len(s) : SubSeq(s, 1, Len(s))[i] = s[i]
  BY <1>1, <1>2, SubSeqProperties
<1>4. /\ SubSeq(t, 1, Len(s)) \in Seq(S) /\ Len(SubSeq(t, 1, Len(s))) = Len(s)
      /\ \A i \in 1..Len(s) : SubSeq(t, 1, Len(s))[i] = t[i]
  BY <1>1, <1>2, SubSeqProperties
<1>5. SubSeq(s, 1, Len(s)) = SubSeq(t, 1, Len(s))
  BY <1>3, <1>4, SeqEqual
<1> QED BY <1>5 DEF IsPrefix

LEMMA NextKeepsBranches == IInv /\ [Next]_vars => [KeepsBranches \/ NewCell]_vars
<1> SUFFICES ASSUME IInv, Next PROVE KeepsBranches \/ NewCell \/ UNCHANGED vars
  OBVIOUS
<1>1. CASE \E inv \in Invocation : Execute(inv)
  <2>1. PICK inv \in Invocation : Execute(inv)
    BY <1>1
  <2>2. PICK p \in Procedure : Logs(p)
    BY <2>1, EditStep DEF IInv
  <2>3. IsPrefix(journal, journal')
    <3>1. Len(journal) <= Len(journal')
      BY <2>2, Indexes, LenProperties DEF Logs, IInv
    <3> QED BY <2>2, <3>1, PrefixOf DEF Logs, IInv, TypeOK
  <2>4. active' = CommitBranch /\ tails' = CommittedTails(nextState)
    BY <2>1, EditStep DEF IInv
  <2>5. DOMAIN tails = 1..Len(tails) /\ Len(tails) \in Nat /\ active \in 1..Len(tails)
    BY Indexes DEF IInv, TypeOK
  <2>6. CASE Forks
    <3>1. tails' = Append(tails, nextState) /\ active' = Len(tails) + 1
      BY <2>4, <2>6 DEF CommittedTails, CommitBranch
    <3>2. tails'[active'] = nextState /\ \A b \in DOMAIN tails : tails'[b] = tails[b]
      BY <3>1, <2>5 DEF IInv, TypeOK
    <3> QED BY <2>3, <3>2 DEF KeepsBranches
  <2>7. CASE ~Forks
    <3>1. tails' = [tails EXCEPT ![active] = nextState] /\ active' = active
      BY <2>4, <2>7 DEF CommittedTails, CommitBranch
    <3> QED BY <2>3, <2>7, <3>1 DEF KeepsBranches
  <2> QED BY <2>6, <2>7
<1>2. ASSUME LogsMove, UNCHANGED <<active, tails>> PROVE KeepsBranches
  <2>1. IsPrefix(journal, journal')
    BY <1>2, PrefixOf DEF LogsMove, IInv, TypeOK
  <2> QED BY <1>2, <2>1 DEF KeepsBranches
<1>3. CASE Undo \/ Redo \/ \E to \in 0..Len(history) : JumpHistory(to)
  <2>1. PICK kind \in {"undo", "redo", "jump"}, to \in 0..Len(history) :
          to # cursor /\ MoveTo(kind, to)
    BY <1>3, Moves DEF IInv
  <2>2. LogsMove /\ UNCHANGED <<active, tails>>
    BY <2>1, MoveStep, StateType DEF IInv, TypeOK
  <2> QED BY <2>2, <1>2
<1>4. CASE ReleaseHistoryCache
  BY <1>4, <1>2, ReleaseStep DEF IInv
<1> QED BY <1>1, <1>3, <1>4 DEF Next

(* No step but a new document loses a commit of the journal or moves the   *)
(* tail of a branch it does not extend (journal.rs, the branch cut).       *)
THEOREM EditsKeepBranches == Spec => BranchesKept
<1>1. IInv /\ [Next]_vars => [KeepsBranches \/ NewCell]_vars
  BY NextKeepsBranches
<1> QED BY <1>1, HistoryInvariant, PTL DEF Spec, BranchesKept

-----------------------------------------------------------------------------
(***************************************************************************)
(* The document history implements an undo stack, for any paints and any   *)
(* number of edits: Spec => Abstract!Spec, with the line of documents made *)
(* of Genesis and the results of the visible entries.                      *)
(*                                                                         *)
(* The document a move shows is put together from recorded parts, so the   *)
(* proof needs that each procedure ran on the document before it on the    *)
(* line (Chain), and that between two documents with no whole-document     *)
(* entry in between the objects are the same (Parts).                      *)
(***************************************************************************)

Chain == \A i \in 1..Len(history) : history[i].proc.pre = Line[i]
Shown == doc = Line[cursor + 1]
Parts == \A a, b \in 0..Len(history) :
             a < b /\ Wholes(history, a, b) = {} => Line[a + 1].objects = Line[b + 1].objects

LineInv == Chain /\ Shown /\ Parts

LineFacts ==
    /\ Line \in Seq(Document) /\ Len(Line) = Len(history) + 1
    /\ Line[1] = genesis
    /\ \A i \in 1..Len(history) : Line[i + 1] = history[i].proc.post
    /\ \A i \in 1..Len(history) + 1 : Line[i] \in Document

LEMMA LineTypes == TypeOK => LineFacts
<1> SUFFICES ASSUME TypeOK PROVE LineFacts
  OBVIOUS
<1>1. Len(history) \in Nat
  BY Indexes
<1>2. \A i \in 1..Len(history) : history[i].proc \in Procedure
  <2>1. \A i \in 1..Len(history) : history[i] \in Entry
    BY DEF TypeOK
  <2> QED BY <2>1 DEF Entry
<1>3. \A i \in 1..Len(history) : history[i].proc.post \in Document
  BY <1>2 DEF Procedure
<1>4. Line \in [1..Len(history) + 1 -> Document]
  BY <1>1, <1>3 DEF Line, TypeOK
<1>5. Line \in Seq(Document) /\ Len(Line) = Len(history) + 1
  BY <1>1, <1>4, FunctionIsSeq
<1> QED BY <1>1, <1>4, <1>5 DEF Line, LineFacts

LEMMA NextLineTypes == TypeOK' => LineFacts'
BY LineTypes, PTL

(* Moves leave the line as it is. *)
LEMMA LineStays ==
  ASSUME TypeOK, Rearranges, genesis' = genesis
  PROVE  /\ Line' = Line
         /\ \A a, b \in 0..Len(history) : Wholes(history', a, b) = Wholes(history, a, b)
<1>1. Len(history') = Len(history) /\ Len(history) \in Nat
  BY Indexes DEF Rearranges
<1>2. \A i \in 1..Len(history) : history'[i].proc = history[i].proc
  BY DEF Rearranges
<1>3. Line' = Line
  BY <1>1, <1>2 DEF Line
<1>4. ASSUME NEW a \in 0..Len(history), NEW b \in 0..Len(history)
      PROVE  Wholes(history', a, b) = Wholes(history, a, b)
  <2>1. \A k \in a + 1..b : k \in 1..Len(history)
    BY <1>1
  <2> QED BY <1>2, <2>1 DEF Wholes
<1> QED BY <1>3, <1>4

(* An edit cuts the line at the shown document and appends its result. *)
LEMMA LineGrows ==
  ASSUME TypeOK, TypeOK', NEW p \in Procedure, Appends(p), genesis' = genesis
  PROVE  /\ Len(history') = cursor + 1
         /\ \A i \in 1..cursor + 1 : Line'[i] = Line[i]
         /\ Line'[cursor + 2] = doc'
         /\ Line' = Append(SubSeq(Line, 1, cursor + 1), doc')
<1>1. Len(history') = cursor + 1 /\ cursor \in Nat /\ cursor <= Len(history)
      /\ Len(history) \in Nat
  BY Indexes DEF Appends, TypeOK
<1>2. \A i \in 1..cursor : history'[i].proc = history[i].proc
  BY DEF Appends
<1>3. history'[cursor + 1].proc = p /\ p.post = doc'
  BY DEF Appends
<1>4. /\ Line' \in Seq(Document) /\ Len(Line') = cursor + 2
      /\ Line'[1] = genesis
      /\ \A i \in 1..cursor + 1 : Line'[i + 1] = history'[i].proc.post
  <2>1. /\ Line' \in Seq(Document) /\ Len(Line') = Len(history') + 1
        /\ Line'[1] = genesis'
        /\ \A i \in 1..Len(history') : Line'[i + 1] = history'[i].proc.post
    BY NextLineTypes DEF LineFacts
  <2> QED BY <1>1, <2>1
<1>5. \A i \in 1..cursor + 1 : Line'[i] = Line[i]
  <2> SUFFICES ASSUME NEW i \in 1..cursor + 1 PROVE Line'[i] = Line[i]
    OBVIOUS
  <2>1. CASE i = 1
    BY <2>1, <1>4, LineTypes DEF LineFacts
  <2>2. CASE i # 1
    <3>1. i - 1 \in 1..cursor /\ i - 1 \in 1..Len(history) /\ i - 1 \in 1..cursor + 1
          /\ (i - 1) + 1 = i
      BY <2>2, <1>1
    <3>2. Line[(i - 1) + 1] = history[i - 1].proc.post
      BY <3>1, LineTypes DEF LineFacts
    <3>3. Line'[(i - 1) + 1] = history'[i - 1].proc.post
      BY <3>1, <1>4
    <3> QED BY <3>1, <3>2, <3>3, <1>2
  <2> QED BY <2>1, <2>2
<1>6. Line'[cursor + 2] = doc'
  <2>1. cursor + 1 \in 1..cursor + 1 /\ (cursor + 1) + 1 = cursor + 2
    BY <1>1
  <2> QED BY <2>1, <1>3, <1>4
<1>7. Line' = Append(SubSeq(Line, 1, cursor + 1), doc')
  <2>1. \A i \in 1..cursor + 1 : Line[i] \in Document
    BY <1>1, LineTypes DEF LineFacts
  <2>2. /\ SubSeq(Line, 1, cursor + 1) \in Seq(Document)
        /\ Len(SubSeq(Line, 1, cursor + 1)) = cursor + 1
        /\ \A i \in 1..cursor + 1 : SubSeq(Line, 1, cursor + 1)[i] = Line[i]
    BY <1>1, <2>1, SubSeqProperties
  <2> DEFINE kept == SubSeq(Line, 1, cursor + 1)
  <2>3. doc' \in Document
    BY DEF TypeOK
  <2> HIDE DEF kept
  <2>4. /\ Append(kept, doc') \in Seq(Document) /\ Len(Append(kept, doc')) = cursor + 2
        /\ \A i \in 1..cursor + 1 : Append(kept, doc')[i] = Line[i]
        /\ Append(kept, doc')[cursor + 2] = doc'
    <3>1. /\ kept \in Seq(Document) /\ Len(kept) = cursor + 1
          /\ \A i \in 1..cursor + 1 : kept[i] = Line[i]
      BY <2>2 DEF kept
    <3> QED BY <3>1, <2>3, <1>1
  <2>5. \A i \in 1..cursor + 2 : Line'[i] = Append(kept, doc')[i]
    <3>1. \A i \in 1..cursor + 2 : i \in 1..cursor + 1 \/ i = cursor + 2
      BY <1>1
    <3> QED BY <3>1, <2>4, <1>5, <1>6
  <2>6. Line' = Append(kept, doc')
    BY <2>4, <2>5, <1>4, SeqEqual
  <2> QED BY <2>6 DEF kept
<1> QED BY <1>1, <1>5, <1>6, <1>7

LEMMA EditKeepsLine ==
  ASSUME IInv, LineInv, NEW inv \in Invocation, Execute(inv)
  PROVE  LineInv' /\ Abstract!Edit(doc')
<1>1. PICK p \in Procedure : Appends(p) /\ p.inv = inv
  BY EditStep DEF IInv
<1>2. /\ doc' = Result(inv, doc, nextId).doc /\ cursor' = cursor + 1 /\ genesis' = genesis
      /\ inv.op = "create" => nextId <= MaxId
  BY EditStep DEF IInv
<1>3. IInv'
  BY EditKeeps
<1>4. /\ Len(history') = cursor + 1
      /\ \A i \in 1..cursor + 1 : Line'[i] = Line[i]
      /\ Line'[cursor + 2] = doc'
      /\ Line' = Append(SubSeq(Line, 1, cursor + 1), doc')
  BY <1>1, <1>2, <1>3, LineGrows DEF IInv
<1>5. cursor \in Nat /\ cursor <= Len(history) /\ Len(history) \in Nat
  BY Indexes DEF IInv, TypeOK
<1>6. ~Whole(inv) => doc'.objects = doc.objects
  BY <1>2, ResultType DEF IInv, TypeOK
<1>7. \A i \in 1..cursor : history'[i].proc = history[i].proc
  BY <1>1 DEF Appends
<1>8. history'[cursor + 1].proc = p /\ p.pre = doc
  BY <1>1 DEF Appends
<1>9. Chain'
  <2> SUFFICES ASSUME NEW i \in 1..cursor + 1 PROVE history'[i].proc.pre = Line'[i]
    BY <1>4 DEF Chain
  <2>1. CASE i = cursor + 1
    BY <2>1, <1>4, <1>8 DEF LineInv, Shown
  <2>2. CASE i # cursor + 1
    <3>1. i \in 1..cursor /\ i \in 1..Len(history)
      BY <2>2, <1>5
    <3> QED BY <3>1, <1>4, <1>7 DEF LineInv, Chain
  <2> QED BY <2>1, <2>2
<1>10. Shown'
  <2>1. cursor' + 1 = cursor + 2
    BY <1>2, <1>5
  <2> QED BY <2>1, <1>4 DEF Shown
<1>11. Parts'
  <2> SUFFICES ASSUME NEW a \in 0..cursor + 1, NEW b \in 0..cursor + 1, a < b,
                      Wholes(history', a, b) = {}
               PROVE  Line'[a + 1].objects = Line'[b + 1].objects
    BY <1>4 DEF Parts
  <2>1. a \in 0..cursor /\ a \in 0..Len(history) /\ a + 1 \in 1..cursor + 1
    BY <1>5
  <2>2. CASE b = cursor + 1
    <3>1. b + 1 = cursor + 2
      BY <2>2, <1>5
    <3>2. ~Whole(inv)
      <4>1. cursor + 1 \in a + 1..b
        BY <2>2, <1>5
      <4> QED BY <4>1, <1>1, <1>8 DEF Wholes
    <3>3. Line[a + 1].objects = doc.objects
      <4>1. CASE a = cursor
        BY <4>1 DEF LineInv, Shown
      <4>2. CASE a < cursor
        <5>1. \A k \in a + 1..cursor : k \in 1..cursor /\ k \in a + 1..b
          BY <2>1, <2>2, <1>5
        <5>2. Wholes(history, a, cursor) = {}
          BY <5>1, <1>7 DEF Wholes
        <5>3. cursor \in 0..Len(history)
          BY <1>5
        <5>4. Line[a + 1].objects = Line[cursor + 1].objects
          BY <4>2, <5>2, <5>3, <2>1 DEF LineInv, Parts
        <5>5. doc = Line[cursor + 1]
          BY DEF LineInv, Shown
        <5> QED BY <5>4, <5>5
      <4> QED BY <4>1, <4>2, <2>1, <1>5
    <3> QED BY <3>1, <3>2, <3>3, <2>1, <1>4, <1>6
  <2>3. CASE b # cursor + 1
    <3>1. b \in 0..Len(history) /\ b + 1 \in 1..cursor + 1 /\ \A k \in a + 1..b : k \in 1..cursor
      BY <2>1, <2>3, <1>5
    <3>2. Wholes(history, a, b) = {}
      BY <3>1, <1>7 DEF Wholes
    <3>3. Line[a + 1].objects = Line[b + 1].objects
      BY <3>1, <3>2, <2>1 DEF LineInv, Parts
    <3> QED BY <3>1, <3>3, <2>1, <1>4
  <2> QED BY <2>2, <2>3
<1>12. Abstract!Edit(doc')
  BY <1>2, <1>4, <1>5 DEF Abstract!Edit
<1> QED BY <1>9, <1>10, <1>11, <1>12 DEF LineInv

(* The document put together by a move is the one of the line. *)
LEMMA MovedShowsLine ==
  ASSUME IInv, LineInv, NEW to \in 0..Len(history), to # cursor
  PROVE  Moved(CachedHistory, doc, cursor, to) = Line[to + 1]
<1> DEFINE h == CachedHistory
           shown == Moved(h, doc, cursor, to)
<1>1. /\ h \in Seq(Entry) /\ Len(h) = Len(history)
      /\ \A i \in 1..Len(history) : h[i].proc = history[i].proc
      /\ \A i \in 1..Len(h) : h[i].change = InverseOf(h[i].proc)
  BY CachedIs DEF IInv
<1>2. /\ cursor \in 0..Len(h) /\ to \in 0..Len(h) /\ doc \in Document
      /\ Len(history) \in Nat
  BY <1>1, Indexes DEF IInv, TypeOK
<1>3. \A a, b \in 0..Len(history) : Wholes(h, a, b) = Wholes(history, a, b)
  <2> SUFFICES ASSUME NEW a \in 0..Len(history), NEW b \in 0..Len(history)
               PROVE  Wholes(h, a, b) = Wholes(history, a, b)
    OBVIOUS
  <2>1. \A k \in a + 1..b : k \in 1..Len(history)
    BY <1>2
  <2> QED BY <1>1, <2>1 DEF Wholes
<1>4. /\ \A i \in 1..Len(history) : h[i].proc.post = Line[i + 1]
      /\ \A i \in 1..Len(history) : h[i].proc.pre = Line[i]
      /\ Line[to + 1] \in Document
  <2>1. to + 1 \in 1..Len(history) + 1
    BY <1>2
  <2> QED BY <2>1, <1>1, LineTypes DEF IInv, LineInv, Chain, LineFacts
<1>5. doc.objects = Line[cursor + 1].objects
  BY DEF LineInv, Shown
<1> HIDE DEF h
<1>6. shown \in Document
  BY <1>1, <1>2, MovedObjects
<1>7. shown.paint = Line[to + 1].paint /\ shown.objects = Line[to + 1].objects
  <2>1. CASE to < cursor
    <3>1. /\ shown.paint = h[to + 1].proc.pre.paint
          /\ \/ Wholes(h, to, cursor) = {} /\ shown.objects = doc.objects
             \/ \E k \in Wholes(h, to, cursor) :
                   /\ \A l \in Wholes(h, to, cursor) : k <= l
                   /\ shown.objects = h[k].proc.pre.objects
      <4>1. /\ Moved(h, doc, cursor, to).paint = h[to + 1].proc.pre.paint
            /\ \/ /\ Wholes(h, to, cursor) = {}
                  /\ Moved(h, doc, cursor, to).objects = doc.objects
               \/ \E k \in Wholes(h, to, cursor) :
                     /\ \A l \in Wholes(h, to, cursor) : k <= l
                     /\ Moved(h, doc, cursor, to).objects = h[k].proc.pre.objects
        BY <2>1, <1>1, <1>2, UndoneIs, SMTT(60)
      <4> QED BY <4>1
    <3>2. shown.paint = Line[to + 1].paint
      <4>1. to + 1 \in 1..Len(history)
        BY <2>1, <1>1, <1>2
      <4> QED BY <3>1, <4>1, <1>4
    <3>3. CASE Wholes(h, to, cursor) = {} /\ shown.objects = doc.objects
      <4>1. Line[to + 1].objects = Line[cursor + 1].objects
        BY <2>1, <3>3, <1>1, <1>2, <1>3 DEF LineInv, Parts
      <4> QED BY <3>2, <3>3, <4>1, <1>5
    <3>4. CASE \E k \in Wholes(h, to, cursor) :
                  /\ \A l \in Wholes(h, to, cursor) : k <= l
                  /\ shown.objects = h[k].proc.pre.objects
      <4>1. PICK k \in Wholes(h, to, cursor) :
               /\ \A l \in Wholes(h, to, cursor) : k <= l
               /\ shown.objects = h[k].proc.pre.objects
        BY <3>4
      <4>2. k \in 1..Len(history) /\ to < k /\ k <= cursor /\ k - 1 \in 0..Len(history)
        BY <4>1, <2>1, <1>1, <1>2 DEF Wholes
      <4>3. shown.objects = Line[k].objects
        BY <4>1, <4>2, <1>4
      <4>4. CASE to = k - 1
        <5>1. to + 1 = k
          BY <4>2, <4>4
        <5> QED BY <5>1, <4>3, <3>2
      <4>5. CASE to # k - 1
        <5>1. to < k - 1 /\ \A l \in to + 1..k - 1 : l \in to + 1..cursor /\ ~(k <= l)
          BY <4>2, <4>5, <1>1, <1>2
        <5>2. Wholes(h, to, k - 1) = {}
          BY <5>1, <4>1 DEF Wholes
        <5>3. (k - 1) + 1 = k
          BY <4>2
        <5>4. Line[to + 1].objects = Line[(k - 1) + 1].objects
          BY <5>1, <5>2, <4>2, <1>1, <1>2, <1>3 DEF LineInv, Parts
        <5> QED BY <5>3, <5>4, <4>3, <3>2
      <4> QED BY <4>4, <4>5
    <3> QED BY <3>1, <3>3, <3>4
  <2>2. CASE cursor < to
    <3>1. /\ shown.paint = h[to].proc.post.paint
          /\ \/ Wholes(h, cursor, to) = {} /\ shown.objects = doc.objects
             \/ \E k \in Wholes(h, cursor, to) :
                   /\ \A l \in Wholes(h, cursor, to) : l <= k
                   /\ shown.objects = h[k].proc.post.objects
      BY <2>2, <1>1, <1>2, RedoneIs
    <3>2. shown.paint = Line[to + 1].paint
      <4>1. to \in 1..Len(history)
        BY <2>2, <1>1, <1>2
      <4> QED BY <3>1, <4>1, <1>4
    <3>3. CASE Wholes(h, cursor, to) = {} /\ shown.objects = doc.objects
      <4>1. Line[cursor + 1].objects = Line[to + 1].objects
        BY <2>2, <3>3, <1>1, <1>2, <1>3 DEF LineInv, Parts
      <4> QED BY <3>2, <3>3, <4>1, <1>5
    <3>4. CASE \E k \in Wholes(h, cursor, to) :
                  /\ \A l \in Wholes(h, cursor, to) : l <= k
                  /\ shown.objects = h[k].proc.post.objects
      <4>1. PICK k \in Wholes(h, cursor, to) :
               /\ \A l \in Wholes(h, cursor, to) : l <= k
               /\ shown.objects = h[k].proc.post.objects
        BY <3>4
      <4>2. k \in 1..Len(history) /\ cursor < k /\ k <= to /\ k \in 0..Len(history)
        BY <4>1, <2>2, <1>1, <1>2 DEF Wholes
      <4>3. shown.objects = Line[k + 1].objects
        BY <4>1, <4>2, <1>4
      <4>4. CASE to = k
        BY <4>3, <4>4, <3>2
      <4>5. CASE to # k
        <5>1. k < to /\ \A l \in k + 1..to : l \in cursor + 1..to /\ ~(l <= k)
          BY <4>2, <4>5, <1>1, <1>2
        <5>2. Wholes(h, k, to) = {}
          BY <5>1, <4>1 DEF Wholes
        <5>3. Line[k + 1].objects = Line[to + 1].objects
          BY <5>1, <5>2, <4>2, <1>1, <1>2, <1>3 DEF LineInv, Parts
        <5> QED BY <5>3, <4>3, <3>2
      <4> QED BY <4>4, <4>5
    <3> QED BY <3>1, <3>3, <3>4
  <2> QED BY <2>1, <2>2, <1>1, <1>2
<1>8. shown = Line[to + 1]
  <2> DEFINE d == shown
             e == Line[to + 1]
  <2>1. d \in Document /\ e \in Document /\ d.paint = e.paint /\ d.objects = e.objects
    BY <1>4, <1>6, <1>7
  <2> HIDE DEF d, e
  <2>2. d = e
    BY <2>1 DEF Document
  <2> QED BY <2>2 DEF d, e
<1> QED BY <1>8 DEF h

LEMMA RearrangedLine ==
  ASSUME IInv, LineInv, Rearranges, genesis' = genesis, cursor' \in 0..Len(history),
         doc' = Line[cursor' + 1]
  PROVE  LineInv' /\ Line' = Line
<1>1. /\ Line' = Line /\ Len(history') = Len(history)
      /\ \A a, b \in 0..Len(history) : Wholes(history', a, b) = Wholes(history, a, b)
      /\ \A i \in 1..Len(history) : history'[i].proc = history[i].proc
  BY LineStays DEF IInv, Rearranges
<1>2. Chain' /\ Shown'
  BY <1>1 DEF LineInv, Chain, Shown
<1>3. Parts'
  BY <1>1 DEF LineInv, Parts
<1> QED BY <1>1, <1>2, <1>3 DEF LineInv

LEMMA InitLine == Init => LineInv /\ Abstract!Init
<1> SUFFICES ASSUME Init PROVE LineInv /\ Abstract!Init
  OBVIOUS
<1>1. TypeOK
  BY InitKeeps DEF IInv
<1>2. Len(history) = 0 /\ cursor = 0 /\ genesis = doc
  BY DEF Init
<1>3. Line[1] = doc /\ Line = <<doc>>
  <2>1. Line \in Seq(Document) /\ Len(Line) = 1 /\ Line[1] = doc
    BY <1>1, <1>2, LineTypes DEF LineFacts
  <2> QED BY <2>1
<1>4. LineInv
  BY <1>2, <1>3 DEF LineInv, Chain, Shown, Parts
<1>5. Abstract!Init
  BY <1>1, <1>2, <1>3 DEF Abstract!Init, TypeOK
<1> QED BY <1>4, <1>5

LEMMA NextKeepsLine ==
  IInv /\ LineInv /\ [Next]_vars => LineInv' /\ [Abstract!Next]_(Abstract!vars)
<1> SUFFICES ASSUME IInv, LineInv, [Next]_vars
             PROVE  LineInv' /\ [Abstract!Next]_(Abstract!vars)
  OBVIOUS
<1> USE DEF Abstract!vars
<1>1. CASE \E inv \in Invocation : Execute(inv)
  <2>1. PICK inv \in Invocation : Execute(inv)
    BY <1>1
  <2>2. LineInv' /\ Abstract!Edit(doc') /\ doc' \in Document
    BY <2>1, EditKeepsLine, EditKeeps DEF IInv, TypeOK
  <2> QED BY <2>2 DEF Abstract!Next
<1>2. CASE Undo \/ Redo \/ \E to \in 0..Len(history) : JumpHistory(to)
  <2>1. PICK kind \in {"undo", "redo", "jump"}, to \in 0..Len(history) :
          to # cursor /\ MoveTo(kind, to)
    BY <1>2, Moves DEF IInv
  <2>2. /\ Rearranges /\ doc' = Moved(CachedHistory, doc, cursor, to)
        /\ cursor' = to /\ genesis' = genesis
    BY <2>1, MoveStep, StateType DEF IInv, TypeOK
  <2>3. doc' = Line[to + 1]
    BY <2>1, <2>2, MovedShowsLine
  <2>4. LineInv' /\ Line' = Line
    BY <2>2, <2>3, RearrangedLine
  <2>5. to + 1 \in 1..Len(Line)
    BY LineTypes, Indexes DEF IInv, LineFacts
  <2>6. Abstract!Move(to + 1)
    BY <2>2, <2>3, <2>4 DEF Abstract!Move
  <2> QED BY <2>4, <2>5, <2>6 DEF Abstract!Next
<1>3. CASE ReleaseHistoryCache
  <2>1. Rearranges /\ UNCHANGED <<doc, cursor, genesis>>
    BY <1>3, ReleaseStep DEF IInv
  <2>2. LineInv' /\ Line' = Line
    BY <2>1, RearrangedLine DEF IInv, TypeOK, LineInv, Shown
  <2> QED BY <2>1, <2>2
<1>4. CASE NewCell
  <2>1. IInv' /\ history' = <<>> /\ cursor' = 0 /\ genesis' = doc'
    BY <1>4, NewDocumentKeeps DEF NewCell
  <2>2. Line' = <<doc'>>
    <3>1. Line' \in Seq(Document) /\ Len(Line') = Len(history') + 1 /\ Line'[1] = genesis'
      BY <2>1, NextLineTypes DEF IInv, LineFacts
    <3> QED BY <2>1, <3>1
  <2>3. LineInv'
    BY <2>1, <2>2 DEF LineInv, Chain, Shown, Parts
  <2>4. Abstract!Restart(doc') /\ doc' \in Document
    BY <2>1, <2>2 DEF Abstract!Restart, IInv, TypeOK
  <2> QED BY <2>3, <2>4 DEF Abstract!Next
<1>5. CASE UNCHANGED vars
  <2>1. Line' = Line /\ UNCHANGED <<doc, cursor, history>>
    BY <1>5 DEF vars, Line
  <2>2. LineInv'
    BY <2>1 DEF LineInv, Chain, Shown, Parts
  <2> QED BY <2>1, <2>2
<1> QED BY <1>1, <1>2, <1>3, <1>4, <1>5 DEF Next

(* To its user the history is an undo stack: an edit drops what lies beyond *)
(* the shown document, and undo, redo and jumps show the very documents    *)
(* the edits had produced, though they are put together from parts         *)
(* (history.rs).                                                           *)
THEOREM HistoryImplementsUndoStack == Spec => ImplementsUndoStack
<1>1. Init => LineInv /\ Abstract!Init
  BY InitLine
<1>2. IInv /\ LineInv /\ [Next]_vars => LineInv' /\ [Abstract!Next]_(Abstract!vars)
  BY NextKeepsLine
<1> QED BY <1>1, <1>2, HistoryInvariant, PTL DEF Spec, ImplementsUndoStack, Abstract!Spec

-----------------------------------------------------------------------------
(***************************************************************************)
(* The journal rebuilds the document: Spec => []JournalReplays.            *)
(*                                                                         *)
(* Replayed and Ancestors are choices of recursive functions, so the first *)
(* lemmas give their equations (there is such a function, and only one).   *)
(* The invariant RunInv then says where a replay of the journal stands     *)
(* (Tracks): at the current state, with a node for each entry of the       *)
(* visible history above the node of the entry before (Spine); that one by *)
(* execution stands there too unless it stopped at an event; and that      *)
(* from the last allocating commit on its nodes allocate as the document   *)
(* does (NextIds), unless an allocation was undone.                        *)
(***************************************************************************)

(* A replay of the first n events of a journal. *)
Runs(g, j, x, n, f) ==
    f = [i \in 0..n |-> IF i = 0 THEN ReplayStart(g) ELSE ReplayStep(f[i - 1], j[i], x)]

LEMMA RunsValues ==
  ASSUME NEW g, NEW j, NEW x, NEW n \in Nat, NEW f, Runs(g, j, x, n, f)
  PROVE  /\ f[0] = ReplayStart(g)
         /\ \A i \in 1..n : f[i] = ReplayStep(f[i - 1], j[i], x)
<1>1. \A i \in 0..n : f[i] = IF i = 0 THEN ReplayStart(g) ELSE ReplayStep(f[i - 1], j[i], x)
  BY DEF Runs
<1>2. 0 \in 0..n /\ \A i \in 1..n : i \in 0..n /\ i # 0
  OBVIOUS
<1> QED BY <1>1, <1>2

(* There is one for every number of events. *)
LEMMA RunsExist ==
  ASSUME NEW g, NEW j, NEW x, NEW n \in Nat
  PROVE  \E f : Runs(g, j, x, n, f)
<1> DEFINE T == {m \in Nat : ~ \E f : Runs(g, j, x, m, f)}
<1>1. SUFFICES ASSUME T # {} PROVE FALSE
  OBVIOUS
<1>2. PICK m \in T : \A y \in T : m <= y
  <2>1. T \in SUBSET Nat
    OBVIOUS
  <2> HIDE DEF T
  <2> QED BY <1>1, <2>1, LeastExists
<1>3. CASE m = 0
  <2> DEFINE f == [i \in 0..0 |-> ReplayStart(g)]
  <2>1. \A i \in 0..0 : i = 0
    OBVIOUS
  <2>2. f = [i \in 0..0 |-> IF i = 0 THEN ReplayStart(g) ELSE ReplayStep(f[i - 1], j[i], x)]
    BY <2>1
  <2>3. Runs(g, j, x, 0, f)
    BY <2>2 DEF Runs
  <2> QED BY <1>2, <1>3, <2>3
<1>4. CASE m # 0
  <2>1. m - 1 \in Nat /\ m - 1 \notin T
    BY <1>2, <1>4
  <2>2. PICK f : Runs(g, j, x, m - 1, f)
    BY <2>1
  <2> DEFINE h == [i \in 0..m |-> IF i = m THEN ReplayStep(f[m - 1], j[m], x) ELSE f[i]]
  <2>3. \A i \in 0..m : h[i] = IF i = 0 THEN ReplayStart(g) ELSE ReplayStep(h[i - 1], j[i], x)
    <3> SUFFICES ASSUME NEW i \in 0..m
                 PROVE  h[i] = IF i = 0 THEN ReplayStart(g) ELSE ReplayStep(h[i - 1], j[i], x)
      OBVIOUS
    <3>1. CASE i = 0
      BY <3>1, <1>4, <2>1, <2>2, RunsValues
    <3>2. CASE i # 0 /\ i # m
      <4>1. i \in 1..m - 1 /\ i - 1 \in 0..m /\ i - 1 # m
        BY <3>2, <2>1
      <4>2. f[i] = ReplayStep(f[i - 1], j[i], x)
        BY <4>1, <2>1, <2>2, RunsValues
      <4> QED BY <3>2, <4>1, <4>2
    <3>3. CASE i = m
      <4>1. m - 1 \in 0..m /\ m - 1 # m /\ m \in 0..m
        BY <2>1
      <4> QED BY <3>3, <4>1, <1>4
    <3> QED BY <3>1, <3>2, <3>3
  <2>4. h = [i \in 0..m |-> IF i = 0 THEN ReplayStart(g) ELSE ReplayStep(h[i - 1], j[i], x)]
    <3>1. h = [i \in 0..m |-> h[i]]
      OBVIOUS
    <3> HIDE DEF h
    <3> QED BY <2>3, <3>1
  <2>5. Runs(g, j, x, m, h)
    <3> HIDE DEF h
    <3> QED BY <2>4 DEF Runs
  <2> QED BY <1>2, <2>5
<1> QED BY <1>3, <1>4

(* Journals that begin alike are replayed alike. *)
LEMMA RunsAgree ==
  ASSUME NEW g, NEW x, NEW j, NEW k, NEW n \in Nat, NEW m \in Nat, n <= m,
         \A i \in 1..n : j[i] = k[i],
         NEW f, NEW h, Runs(g, j, x, n, f), Runs(g, k, x, m, h)
  PROVE  \A i \in 0..n : f[i] = h[i]
<1> DEFINE T == {i \in 0..n : f[i] # h[i]}
<1>1. SUFFICES ASSUME T # {} PROVE FALSE
  OBVIOUS
<1>2. PICK i \in T : \A y \in T : i <= y
  <2>1. T \in SUBSET Nat
    OBVIOUS
  <2> HIDE DEF T
  <2> QED BY <1>1, <2>1, LeastExists
<1>3. f[0] = ReplayStart(g) /\ \A a \in 1..n : f[a] = ReplayStep(f[a - 1], j[a], x)
  BY RunsValues
<1>7. h[0] = ReplayStart(g) /\ \A a \in 1..m : h[a] = ReplayStep(h[a - 1], k[a], x)
  BY RunsValues
<1>4. i # 0 /\ i \in 1..n /\ i \in 1..m /\ i - 1 \in 0..n /\ i - 1 \notin T
  BY <1>2, <1>3, <1>7
<1>5. f[i - 1] = h[i - 1]
  BY <1>4
<1>6. f[i] = ReplayStep(f[i - 1], j[i], x) /\ h[i] = ReplayStep(h[i - 1], k[i], x)
  BY <1>4, <1>3, <1>7
<1> QED BY <1>2, <1>4, <1>5, <1>6

LEMMA ReplayedIs ==
  ASSUME NEW g, NEW j, Len(j) \in Nat, NEW x
  PROVE  \E f : Runs(g, j, x, Len(j), f) /\ Replayed(g, j, x) = f[Len(j)]
<1> DEFINE f == CHOOSE f : Runs(g, j, x, Len(j), f)
<1>1. Replayed(g, j, x) = f[Len(j)]
  BY DEF Replayed, Runs
<1>2. Runs(g, j, x, Len(j), f)
  BY RunsExist
<1> QED BY <1>1, <1>2

(* An empty journal rebuilds Genesis, and a journal one event longer is    *)
(* replayed by one step more.                                              *)
LEMMA ReplayedEmpty ==
  ASSUME NEW g, NEW x
  PROVE  Replayed(g, <<>>, x) = ReplayStart(g)
<1>1. PICK f : Runs(g, <<>>, x, 0, f) /\ Replayed(g, <<>>, x) = f[0]
  BY ReplayedIs
<1> QED BY <1>1, RunsValues

LEMMA ReplayedAppend ==
  ASSUME NEW g, NEW j \in Seq(Event), NEW e \in Event, NEW x
  PROVE  Replayed(g, Append(j, e), x) = ReplayStep(Replayed(g, j, x), e, x)
<1> DEFINE k == Append(j, e)
           n == Len(j)
<1>1. n \in Nat /\ Len(k) = n + 1 /\ (\A i \in 1..n : j[i] = k[i]) /\ k[n + 1] = e
  OBVIOUS
<1> HIDE DEF k, n
<1>2. PICK f : Runs(g, j, x, n, f) /\ Replayed(g, j, x) = f[n]
  BY <1>1, ReplayedIs DEF n
<1>3. PICK h : Runs(g, k, x, n + 1, h) /\ Replayed(g, k, x) = h[n + 1]
  <2>1. Len(k) \in Nat
    BY <1>1
  <2>2. \E h : Runs(g, k, x, Len(k), h) /\ Replayed(g, k, x) = h[Len(k)]
    BY <2>1, ReplayedIs
  <2> QED BY <1>1, <2>2
<1>4. n + 1 \in Nat /\ n <= n + 1 /\ n \in 0..n /\ n + 1 \in 1..n + 1 /\ (n + 1) - 1 = n
  BY <1>1
<1>5. f[n] = h[n]
  <2>1. \A i \in 0..n : f[i] = h[i]
    <3>1. PICK m \in Nat : m = n + 1
      BY <1>4
    <3>2. Runs(g, k, x, m, h) /\ n <= m
      BY <1>3, <1>4, <3>1
    <3>3. \A i \in 1..n : j[i] = k[i]
      BY <1>1
    <3>4. n \in Nat /\ Runs(g, j, x, n, f)
      BY <1>1, <1>2
    <3> QED BY <3>2, <3>3, <3>4, RunsAgree
  <2> QED BY <2>1, <1>4
<1>6. h[n + 1] = ReplayStep(h[(n + 1) - 1], k[n + 1], x)
  <2>1. \A i \in 1..n + 1 : h[i] = ReplayStep(h[i - 1], k[i], x)
    BY <1>3, <1>4, RunsValues
  <2> QED BY <2>1, <1>4
<1> QED BY <1>1, <1>2, <1>3, <1>4, <1>5, <1>6 DEF k

(* The parent of a node is an older one, Genesis has none. *)
Rooted(nodes) == /\ Len(nodes) \in Nat
                 /\ \A s \in 1..Len(nodes) : nodes[s].parent \in 0..s - 1

(* The recursion of Ancestors has a solution: what every set that holds a  *)
(* node and the parents of its nodes must hold.                            *)
ClosedUp(nodes, X) == \A s \in X : s # 0 => nodes[s].parent \in X
Above(nodes, n) == {m \in 1..Len(nodes) :
                       \A X \in SUBSET (0..Len(nodes)) :
                           n \in X /\ ClosedUp(nodes, X) => m \in X}
Ups(nodes, up) == up = [n \in 0..Len(nodes) |->
                           IF n = 0 THEN {} ELSE {n} \cup up[nodes[n].parent]]

LEMMA AboveIs ==
  ASSUME NEW nodes, Rooted(nodes)
  PROVE  /\ Above(nodes, 0) = {}
         /\ \A n \in 1..Len(nodes) :
               Above(nodes, n) = {n} \cup Above(nodes, nodes[n].parent)
<1>1. Len(nodes) \in Nat /\ \A s \in 1..Len(nodes) : nodes[s].parent \in 0..Len(nodes)
  BY DEF Rooted
<1>2. Above(nodes, 0) = {}
  <2>1. {0} \in SUBSET (0..Len(nodes)) /\ ClosedUp(nodes, {0})
    BY <1>1 DEF ClosedUp
  <2>2. \A m \in Above(nodes, 0) : m \in {0} /\ m \in 1..Len(nodes)
    BY <2>1 DEF Above
  <2> QED BY <2>2, <1>1
<1>3. ASSUME NEW n \in 1..Len(nodes)
      PROVE  Above(nodes, n) = {n} \cup Above(nodes, nodes[n].parent)
  <2> DEFINE p == nodes[n].parent
  <2>1. n # 0 /\ n \in 0..Len(nodes) /\ p \in 0..Len(nodes)
    BY <1>1
  <2>2. ASSUME NEW m \in Above(nodes, n), m # n PROVE m \in Above(nodes, p)
    <3>1. SUFFICES ASSUME NEW X \in SUBSET (0..Len(nodes)), p \in X, ClosedUp(nodes, X)
                   PROVE  m \in X
      BY DEF Above
    <3>2. X \cup {n} \in SUBSET (0..Len(nodes)) /\ ClosedUp(nodes, X \cup {n})
      BY <2>1, <3>1 DEF ClosedUp
    <3>3. m \in X \cup {n}
      BY <3>2 DEF Above
    <3> QED BY <3>3, <2>2
  <2>3. ASSUME NEW m \in Above(nodes, p) PROVE m \in Above(nodes, n)
    <3>1. SUFFICES ASSUME NEW X \in SUBSET (0..Len(nodes)), n \in X, ClosedUp(nodes, X)
                   PROVE  m \in X
      BY DEF Above
    <3>2. p \in X
      BY <2>1, <3>1 DEF ClosedUp
    <3> QED BY <3>1, <3>2 DEF Above
  <2>4. n \in Above(nodes, n)
    BY <2>1 DEF Above
  <2> QED BY <2>2, <2>3, <2>4
<1> QED BY <1>2, <1>3

LEMMA UpsExist == ASSUME NEW nodes, Rooted(nodes) PROVE \E up : Ups(nodes, up)
<1> DEFINE up == [n \in 0..Len(nodes) |-> Above(nodes, n)]
<1>1. \A n \in 0..Len(nodes) : up[n] = IF n = 0 THEN {} ELSE {n} \cup up[nodes[n].parent]
  <2> SUFFICES ASSUME NEW n \in 0..Len(nodes)
               PROVE  up[n] = IF n = 0 THEN {} ELSE {n} \cup up[nodes[n].parent]
    OBVIOUS
  <2>1. CASE n = 0
    BY <2>1, AboveIs
  <2>2. CASE n # 0
    <3>1. n \in 1..Len(nodes) /\ nodes[n].parent \in 0..Len(nodes)
      BY <2>2 DEF Rooted
    <3>2. Above(nodes, n) = {n} \cup Above(nodes, nodes[n].parent)
      BY <3>1, AboveIs
    <3> QED BY <2>2, <3>1, <3>2
  <2> QED BY <2>1, <2>2
<1>2. up = [n \in 0..Len(nodes) |-> up[n]]
  OBVIOUS
<1> HIDE DEF up
<1>3. Ups(nodes, up)
  BY <1>1, <1>2 DEF Ups
<1> QED BY <1>3

(* The ancestors of a node: itself and those of its parent. *)
LEMMA AncestorsAre ==
  ASSUME NEW nodes, Rooted(nodes)
  PROVE  /\ Ancestors(nodes, 0) = {}
         /\ \A s \in 1..Len(nodes) :
               Ancestors(nodes, s) = {s} \cup Ancestors(nodes, nodes[s].parent)
<1> DEFINE up == CHOOSE up : Ups(nodes, up)
<1>1. \A s : Ancestors(nodes, s) = up[s]
  BY DEF Ancestors, Ups
<1>2. Ups(nodes, up)
  BY UpsExist
<1> HIDE DEF up
<1>3. \A n \in 0..Len(nodes) : up[n] = IF n = 0 THEN {} ELSE {n} \cup up[nodes[n].parent]
  BY <1>2 DEF Ups
<1>4. 0 \in 0..Len(nodes) /\ \A s \in 1..Len(nodes) : s \in 0..Len(nodes) /\ s # 0
  BY DEF Rooted
<1> QED BY <1>1, <1>3, <1>4

(***************************************************************************)
(* The visible history in a replay.                                        *)
(***************************************************************************)

(* The states of a history, in its order. *)
Climbs(h) == \A k \in 1..Len(h) : StateAt(h, k - 1) < StateAt(h, k)
StatesOf(h, k) == {StateAt(h, i) : i \in 1..k}

LEMMA ClimbsFar ==
  ASSUME NEW h \in Seq(Entry), Climbs(h)
  PROVE  \A a, b \in 0..Len(h) : a < b => StateAt(h, a) < StateAt(h, b)
<1> SUFFICES ASSUME NEW a \in 0..Len(h) PROVE \A b \in 0..Len(h) : a < b => StateAt(h, a) < StateAt(h, b)
  OBVIOUS
<1> DEFINE T == {b \in 0..Len(h) : a < b /\ ~ (StateAt(h, a) < StateAt(h, b))}
<1>1. SUFFICES ASSUME T # {} PROVE FALSE
  OBVIOUS
<1>2. PICK b \in T : \A y \in T : b <= y
  <2>1. T \in SUBSET Nat
    OBVIOUS
  <2> HIDE DEF T
  <2> QED BY <1>1, <2>1, LeastExists
<1>3. b \in 1..Len(h) /\ b - 1 \in 0..Len(h) /\ b - 1 \notin T /\ a <= b - 1
  BY <1>2
<1>4. StateAt(h, a) \in Nat /\ StateAt(h, b) \in Nat /\ StateAt(h, b - 1) \in Nat
  BY <1>3, StateType
<1>5. StateAt(h, b - 1) < StateAt(h, b)
  BY <1>3 DEF Climbs
<1>6. CASE a = b - 1
  BY <1>2, <1>5, <1>6
<1>7. CASE a < b - 1
  <2>1. StateAt(h, a) < StateAt(h, b - 1)
    BY <1>3, <1>7
  <2> QED BY <1>2, <1>4, <1>5, <2>1
<1> QED BY <1>3, <1>6, <1>7

LEMMA CountStates ==
  ASSUME NEW h \in Seq(Entry), Climbs(h), NEW k \in 0..Len(h)
  PROVE  Cardinality(StatesOf(h, k)) = k
<1> DEFINE f == [i \in 1..k |-> StateAt(h, i)]
<1>1. \A a, b \in 1..k : a # b => f[a] # f[b]
  <2> SUFFICES ASSUME NEW a \in 1..k, NEW b \in 1..k, a < b PROVE f[a] # f[b]
    OBVIOUS
  <2>1. a \in 0..Len(h) /\ b \in 0..Len(h) /\ StateAt(h, a) < StateAt(h, b)
    BY ClimbsFar
  <2>2. StateAt(h, a) \in Nat /\ StateAt(h, b) \in Nat
    BY <2>1, StateType
  <2> QED BY <2>1, <2>2
<1>2. f \in Bijection(1..k, StatesOf(h, k))
  BY <1>1 DEF Bijection, Injection, Surjection, IsInjective, StatesOf
<1>3. IsFiniteSet(1..k) /\ Cardinality(1..k) = k
  <2>1. k \in Nat
    OBVIOUS
  <2> QED BY <2>1, FS_Interval
<1> HIDE DEF f
<1>4. Cardinality(StatesOf(h, k)) = Cardinality(1..k)
  BY <1>2, <1>3, FS_Bijection DEF ExistsBijection
<1> QED BY <1>3, <1>4

LEMMA PlaceOfState ==
  ASSUME NEW h \in Seq(Entry), Climbs(h), NEW k \in 0..Len(h)
  PROVE  Place(StatesOf(h, Len(h)), StateAt(h, k)) = k
<1>1. {t \in StatesOf(h, Len(h)) : t <= StateAt(h, k)} = StatesOf(h, k)
  <2>1. ASSUME NEW i \in 1..Len(h) PROVE (StateAt(h, i) <= StateAt(h, k)) <=> i <= k
    <3>1. StateAt(h, i) \in Nat /\ StateAt(h, k) \in Nat /\ i \in 0..Len(h)
      BY StateType
    <3>2. i < k => StateAt(h, i) < StateAt(h, k)
      BY <3>1, ClimbsFar
    <3>3. k < i => StateAt(h, k) < StateAt(h, i)
      BY <3>1, ClimbsFar
    <3>4. i = k \/ i < k \/ k < i
      OBVIOUS
    <3> QED BY <3>1, <3>2, <3>3, <3>4
  <2>2. \A i \in 1..k : i \in 1..Len(h)
    OBVIOUS
  <2> QED BY <2>1, <2>2 DEF StatesOf
<1> QED BY <1>1, CountStates DEF Place

Node == [parent : Nat, doc : Document, next : Nat \ {0}, proc : Seq(Procedure),
         branch : Nat]
ReplayState == [ok : BOOLEAN, cut : BOOLEAN, current : Nat, active : Nat,
                tails : Seq(Nat), nodes : Seq(Node)]

(* The nodes of a replay hold a history: each entry at the state its       *)
(* procedure committed, above the entry before it.                         *)
Holds(nodes, s, h, k) ==
    /\ nodes[s].parent = StateAt(h, k - 1)
    /\ nodes[s].doc = h[k].proc.post
    /\ nodes[s].proc = <<h[k].proc>>
    /\ nodes[s].branch = h[k].branch
Spine(h, nodes, g) ==
    /\ Rooted(nodes)
    /\ Len(nodes) >= 1
    /\ nodes[1].doc = g
    /\ Climbs(h)
    /\ \A k \in 1..Len(h) : /\ StateAt(h, k) \in 2..Len(nodes)
                            /\ Holds(nodes, StateAt(h, k), h, k)

LEMMA SpineStates ==
  ASSUME NEW h \in Seq(Entry), NEW nodes, NEW g, Spine(h, nodes, g)
  PROVE  /\ \A k \in 0..Len(h) : StateAt(h, k) \in 1..Len(nodes)
         /\ nodes[Genesis].parent = 0
<1>1. Len(nodes) \in Nat /\ Len(nodes) >= 1 /\ nodes[1].parent \in 0..1 - 1
  BY DEF Spine, Rooted
<1>2. ASSUME NEW k \in 0..Len(h) PROVE StateAt(h, k) \in 1..Len(nodes)
  <2>1. CASE k = 0
    BY <2>1, <1>1 DEF StateAt, Genesis
  <2>2. CASE k # 0
    BY <2>2, <1>1 DEF Spine
  <2> QED BY <2>1, <2>2
<1> QED BY <1>1, <1>2 DEF Genesis

(* The ancestors of a state of the history: the states up to it. *)
LEMMA SpineAncestors ==
  ASSUME NEW h \in Seq(Entry), NEW nodes, NEW g, Spine(h, nodes, g)
  PROVE  \A k \in 0..Len(h) : Ancestors(nodes, StateAt(h, k)) = {Genesis} \cup StatesOf(h, k)
<1> DEFINE T == {k \in 0..Len(h) :
                   Ancestors(nodes, StateAt(h, k)) # {Genesis} \cup StatesOf(h, k)}
<1>1. SUFFICES ASSUME T # {} PROVE FALSE
  OBVIOUS
<1>2. PICK k \in T : \A y \in T : k <= y
  <2>1. T \in SUBSET Nat
    OBVIOUS
  <2> HIDE DEF T
  <2> QED BY <1>1, <2>1, LeastExists
<1>3. /\ Rooted(nodes) /\ StateAt(h, k) \in 1..Len(nodes)
      /\ nodes[Genesis].parent = 0
  BY <1>2, SpineStates DEF Spine
<1>4. /\ Ancestors(nodes, 0) = {}
      /\ Ancestors(nodes, StateAt(h, k)) =
           {StateAt(h, k)} \cup Ancestors(nodes, nodes[StateAt(h, k)].parent)
  BY <1>3, AncestorsAre
<1>5. CASE k = 0
  <2>1. StateAt(h, k) = Genesis /\ StatesOf(h, k) = {}
    BY <1>5 DEF StateAt, StatesOf
  <2> QED BY <1>2, <1>3, <1>4, <2>1
<1>6. CASE k # 0
  <2>1. k \in 1..Len(h) /\ k - 1 \in 0..Len(h) /\ k - 1 \notin T
    BY <1>2, <1>6
  <2>2. nodes[StateAt(h, k)].parent = StateAt(h, k - 1)
    BY <2>1 DEF Spine, Holds
  <2>3. Ancestors(nodes, StateAt(h, k - 1)) = {Genesis} \cup StatesOf(h, k - 1)
    BY <2>1
  <2>4. StatesOf(h, k) = {StateAt(h, k)} \cup StatesOf(h, k - 1)
    <3>1. \A i : i \in 1..k <=> i = k \/ i \in 1..k - 1
      BY <2>1
    <3> QED BY <3>1 DEF StatesOf
  <2> QED BY <1>2, <1>4, <2>2, <2>3, <2>4
<1> QED BY <1>5, <1>6

LEMMA ReplayStateIs ==
  ASSUME NEW r \in ReplayState
  PROVE  r = [ok |-> r.ok, cut |-> r.cut, current |-> r.current, active |-> r.active,
              tails |-> r.tails, nodes |-> r.nodes]
BY DEF ReplayState

(* The steps of a replay that finds what it expects. *)
CommitFits(r, p, b, x, next, node) ==
    /\ r \in ReplayState /\ r.ok = TRUE
    /\ p.committed = Len(r.nodes) + 1 /\ Len(r.nodes) <= MaxCommits
    /\ p.base = r.current /\ b = r.active /\ r.current \in 1..Len(r.nodes)
    /\ r.active \in 1..Len(r.tails) /\ r.tails[r.active] = r.current
    /\ p.pre = r.nodes[r.current].doc /\ p.post # p.pre
    /\ x = FALSE => next = r.nodes[r.current].next
    /\ x = TRUE => Result(p.inv, p.pre, r.nodes[r.current].next)
                      = [doc |-> p.post, out |-> p.out, next |-> next]
    /\ node = [parent |-> r.current, doc |-> p.post, next |-> next, proc |-> <<p>>,
               branch |-> b]

CommitDone(r, p, b, x, node) ==
    ReplayStep(r, CommitEvent(p, b), x) =
      [ok |-> TRUE, cut |-> FALSE, current |-> p.committed, active |-> r.active,
       tails |-> [r.tails EXCEPT ![r.active] = p.committed],
       nodes |-> Append(r.nodes, node)]

LEMMA CommitReplays ==
  ASSUME NEW r, NEW p \in Procedure, NEW b \in Nat, NEW x \in BOOLEAN,
         NEW next \in Nat \ {0}, NEW node, CommitFits(r, p, b, x, next, node)
  PROVE  CommitDone(r, p, b, x, node)
<1> USE DEF CommitFits, CommitDone
<1> DEFINE e == CommitEvent(p, b)
           old == r.nodes[r.current]
           res == IF x THEN Result(e.proc.inv, old.doc, old.next)
                       ELSE [doc |-> e.proc.post, out |-> e.proc.out, next |-> old.next]
           good == /\ e.proc.committed = Len(r.nodes) + 1
                   /\ Len(r.nodes) <= MaxCommits
                   /\ e.proc.base = r.current
                   /\ e.branch = r.active
                   /\ r.tails[r.active] = r.current
                   /\ e.proc.pre = old.doc
                   /\ x => res.doc # old.doc
                   /\ res.out = e.proc.out
                   /\ res.doc = e.proc.post
           done == [r EXCEPT !.ok = good,
                     !.cut = FALSE,
                     !.current = e.proc.committed,
                     !.tails = [@ EXCEPT ![r.active] = e.proc.committed],
                     !.nodes = Append(@, [parent |-> r.current, doc |-> res.doc,
                                          next |-> res.next, proc |-> <<e.proc>>,
                                          branch |-> e.branch])]
<1>1. e.event = "commit" /\ e.proc = p /\ e.branch = b
  BY DEF CommitEvent
<1>2. ReplayStep(r, e, x) = done
  BY <1>1 DEF ReplayStep, ReplayCommit
<1>3. res = [doc |-> p.post, out |-> p.out, next |-> next]
  <2>1. CASE x = TRUE
    BY <2>1, <1>1
  <2>2. CASE x = FALSE
    BY <2>2, <1>1
  <2> QED BY <2>1, <2>2
<1>4. res.doc = p.post /\ res.out = p.out /\ res.next = next
  BY <1>3
<1> HIDE DEF res
<1>5. good = TRUE
  BY <1>1, <1>4
<1> HIDE DEF good, e
<1>6. [parent |-> r.current, doc |-> res.doc, next |-> res.next, proc |-> <<e.proc>>,
       branch |-> e.branch] = node
  BY <1>1, <1>4
<1>7. node \in Node
  BY DEF Node, Procedure, ReplayState
<1>8. done = [r EXCEPT !.ok = TRUE, !.cut = FALSE, !.current = p.committed,
                       !.tails = [r.tails EXCEPT ![r.active] = p.committed],
                       !.nodes = Append(r.nodes, node)]
  BY <1>1, <1>5, <1>6
<1> HIDE DEF done, e
<1>9. p.committed \in Nat
  BY DEF Procedure
<1>10. Append(r.nodes, node) \in Seq(Node)
  BY <1>7 DEF ReplayState
<1>11. [r.tails EXCEPT ![r.active] = p.committed] \in Seq(Nat)
  BY <1>9, ExceptSeq DEF ReplayState
<1>12. /\ done \in ReplayState
       /\ done.ok = TRUE /\ done.cut = FALSE /\ done.current = p.committed
       /\ done.active = r.active
       /\ done.tails = [r.tails EXCEPT ![r.active] = p.committed]
       /\ done.nodes = Append(r.nodes, node)
  BY <1>8, <1>9, <1>10, <1>11 DEF ReplayState
<1> QED BY <1>2, <1>12, ReplayStateIs DEF e

(* A replay that executes stops at a commit whose procedure does something *)
(* else than recorded, and a replay that stopped stays where it is.        *)
LEMMA CommitOrStop ==
  ASSUME NEW r \in ReplayState, r.ok = TRUE, NEW p, NEW b,
         ReplayStep(r, CommitEvent(p, b), TRUE).ok # FALSE
  PROVE  LET res == Result(p.inv, r.nodes[r.current].doc, r.nodes[r.current].next)
         IN  res.doc = p.post /\ res.out = p.out
<1> DEFINE e == CommitEvent(p, b)
           old == r.nodes[r.current]
           res == Result(p.inv, old.doc, old.next)
           good == /\ p.committed = Len(r.nodes) + 1
                   /\ Len(r.nodes) <= MaxCommits
                   /\ p.base = r.current
                   /\ b = r.active
                   /\ r.tails[r.active] = r.current
                   /\ p.pre = old.doc
                   /\ TRUE => res.doc # old.doc
                   /\ res.out = p.out
                   /\ res.doc = p.post
           done == [r EXCEPT !.ok = good,
                     !.cut = FALSE,
                     !.current = p.committed,
                     !.tails = [@ EXCEPT ![r.active] = p.committed],
                     !.nodes = Append(@, [parent |-> r.current, doc |-> res.doc,
                                          next |-> res.next, proc |-> <<p>>,
                                          branch |-> b])]
<1>1. e.event = "commit" /\ e.proc = p /\ e.branch = b
  BY DEF CommitEvent
<1>2. ReplayStep(r, e, TRUE) = done
  BY <1>1 DEF ReplayStep, ReplayCommit
<1> HIDE DEF good, res, e
<1>3. done.ok = good
  BY DEF ReplayState
<1>4. good \in BOOLEAN
  BY DEF good
<1>5. good = TRUE
  BY <1>2, <1>3, <1>4 DEF e
<1> QED BY <1>5 DEF good, res

LEMMA StoppedStays ==
  ASSUME NEW r, r.ok = FALSE, NEW e, NEW x
  PROVE  ReplayStep(r, e, x) = r
BY DEF ReplayStep

MoveFits(r, kind, to) ==
    /\ r \in ReplayState /\ r.ok = TRUE /\ ~r.cut
    /\ to # r.current /\ r.active \in 1..Len(r.tails)
    /\ to \in Ancestors(r.nodes, r.tails[r.active])
    /\ kind = "undo" => r.nodes[r.current].parent = to
    /\ kind = "redo" => r.nodes[to].parent = r.current

MoveDone(r, kind, to, x) ==
    ReplayStep(r, MoveEvent(kind, r.current, to, r.active), x) =
      [ok |-> TRUE, cut |-> FALSE, current |-> to, active |-> r.active,
       tails |-> r.tails, nodes |-> r.nodes]

LEMMA MoveReplays ==
  ASSUME NEW r, NEW kind, NEW to \in Nat, NEW x \in BOOLEAN, MoveFits(r, kind, to)
  PROVE  MoveDone(r, kind, to, x)
<1> USE DEF MoveFits, MoveDone
<1> DEFINE e == MoveEvent(kind, r.current, to, r.active)
           good == /\ ~r.cut
                   /\ e.from = r.current
                   /\ e.from # e.to \/ e.branch # r.active
                   /\ e.branch # r.active => e.kind = "jump"
                   /\ e.branch \in DOMAIN r.tails
                   /\ e.to \in Ancestors(r.nodes, r.tails[e.branch])
                   /\ e.kind = "undo" => r.nodes[e.from].parent = e.to
                   /\ e.kind = "redo" => r.nodes[e.to].parent = e.from
           done == [r EXCEPT !.ok = good, !.current = e.to, !.active = e.branch]
<1>1. /\ e.event = "move" /\ e.kind = kind /\ e.from = r.current /\ e.to = to
      /\ e.branch = r.active
  BY DEF MoveEvent
<1>2. ReplayStep(r, e, x) = done
  BY <1>1 DEF ReplayStep, ReplayMove
<1>3. DOMAIN r.tails = 1..Len(r.tails)
  BY DEF ReplayState
<1>4. good = TRUE
  BY <1>1, <1>3
<1> HIDE DEF good, e
<1>5. done = [r EXCEPT !.ok = TRUE, !.current = to, !.active = r.active]
  BY <1>1, <1>4
<1> HIDE DEF done
<1>6. /\ done \in ReplayState
      /\ done.ok = TRUE /\ done.cut = r.cut /\ done.current = to
      /\ done.active = r.active /\ done.tails = r.tails /\ done.nodes = r.nodes
  BY <1>5 DEF ReplayState
<1>7. r.cut = FALSE
  BY DEF ReplayState
<1> QED BY <1>2, <1>6, <1>7, ReplayStateIs DEF e

LEMMA CutReplays ==
  ASSUME NEW r \in ReplayState, r.ok = TRUE, ~r.cut, NEW x \in BOOLEAN,
         r.active \in 1..Len(r.tails), r.tails[r.active] # r.current,
         r.current \in Ancestors(r.nodes, r.tails[r.active]),
         Len(r.tails) + 1 <= MaxBranches
  PROVE  ReplayStep(r, CutEvent(r.current, r.tails[r.active], Len(r.tails) + 1, r.active), x) =
           [ok |-> TRUE, cut |-> TRUE, current |-> r.current, active |-> Len(r.tails) + 1,
            tails |-> Append(r.tails, r.current), nodes |-> r.nodes]
<1> DEFINE e == CutEvent(r.current, r.tails[r.active], Len(r.tails) + 1, r.active)
           good == /\ ~r.cut
                   /\ e.left = r.active
                   /\ e.fork = r.current
                   /\ r.tails[r.active] = e.tail
                   /\ e.fork # e.tail
                   /\ e.branch = Len(r.tails) + 1
                   /\ e.branch <= MaxBranches
                   /\ e.fork \in Ancestors(r.nodes, e.tail)
           done == [r EXCEPT !.ok = good, !.cut = TRUE, !.active = e.branch,
                             !.tails = Append(@, e.fork)]
<1>1. /\ e.event = "cut" /\ e.fork = r.current /\ e.tail = r.tails[r.active]
      /\ e.branch = Len(r.tails) + 1 /\ e.left = r.active
  BY DEF CutEvent
<1>2. ReplayStep(r, e, x) = done
  BY <1>1 DEF ReplayStep, ReplayCut
<1>3. good = TRUE
  BY <1>1
<1> HIDE DEF good, e
<1>4. done = [r EXCEPT !.ok = TRUE, !.cut = TRUE, !.active = Len(r.tails) + 1,
                       !.tails = Append(r.tails, r.current)]
  BY <1>1, <1>3
<1> HIDE DEF done
<1>5. Append(r.tails, r.current) \in Seq(Nat) /\ Len(r.tails) + 1 \in Nat
  BY DEF ReplayState
<1>6. /\ done \in ReplayState
      /\ done.ok = TRUE /\ done.cut = TRUE /\ done.current = r.current
      /\ done.active = Len(r.tails) + 1 /\ done.tails = Append(r.tails, r.current)
      /\ done.nodes = r.nodes
  BY <1>4, <1>5 DEF ReplayState
<1> QED BY <1>2, <1>6, ReplayStateIs DEF e

Run(x) == Replayed(genesis, journal, x)

(* The replay r is where the document is, and holds its history. *)
Tracks(r) ==
    /\ r \in ReplayState
    /\ r.ok = TRUE /\ r.cut = FALSE
    /\ r.current = current /\ r.active = active /\ r.tails = tails
    /\ Len(r.nodes) + 1 = nextState
    /\ Spine(history, r.nodes, genesis)

(* The ids that the journal gives out are given out by the state s: from   *)
(* there on, and so in the current state, a replay allocates as the        *)
(* document does.                                                          *)
GivenOutBy(s) ==
    \A i \in Commits : journal[i].proc.out # {} => journal[i].proc.committed <= s
NextIds(nodes) ==
    /\ GivenOutBy(current)
    /\ \A s \in 1..Len(nodes) : GivenOutBy(s) => nodes[s].next = nextId

RunInv ==
    /\ Len(journal) <= MaxEvents
    /\ Tracks(Run(FALSE))
    /\ Run(TRUE).ok = FALSE \/ Tracks(Run(TRUE))
    /\ \/ AllocationUndone(journal)
       \/ Tracks(Run(TRUE)) /\ NextIds(Run(TRUE).nodes)

(* What a replay that holds the history knows of the document. *)
LEMMA SpineDocuments ==
  ASSUME IInv, LineInv, NEW nodes, Spine(history, nodes, genesis)
  PROVE  /\ current = StateAt(history, cursor) /\ current \in 1..Len(nodes)
         /\ nodes[current].doc = doc
         /\ tails[active] = StateAt(history, Len(history))
         /\ Ancestors(nodes, tails[active]) = {Genesis} \cup StatesOf(history, Len(history))
         /\ \A k \in 0..Len(history) : StateAt(history, k) \in Ancestors(nodes, tails[active])
<1>1. /\ history \in Seq(Entry) /\ Len(history) \in Nat
      /\ cursor \in 0..Len(history)
  BY Indexes DEF IInv, TypeOK
<1>2. current = StateAt(history, cursor) /\ tails[active] = StateAt(history, Len(history))
  BY DEF IInv, HistoryIsBranch
<1>3. \A k \in 0..Len(history) : StateAt(history, k) \in 1..Len(nodes)
  BY <1>1, SpineStates
<1>4. Line[1] = genesis /\ \A i \in 1..Len(history) : Line[i + 1] = history[i].proc.post
  BY LineTypes DEF LineFacts, IInv
<1>5. nodes[StateAt(history, cursor)].doc = Line[cursor + 1]
  <2>1. CASE cursor = 0
    BY <2>1, <1>4 DEF StateAt, Genesis, Spine
  <2>2. CASE cursor # 0
    <3>1. cursor \in 1..Len(history)
      BY <1>1, <2>2
    <3>2. nodes[StateAt(history, cursor)].doc = history[cursor].proc.post
      BY <3>1 DEF Spine, Holds
    <3> QED BY <3>1, <3>2, <1>4
  <2> QED BY <2>1, <2>2
<1>6. \A k \in 0..Len(history) :
        Ancestors(nodes, StateAt(history, k)) = {Genesis} \cup StatesOf(history, k)
  BY <1>1, SpineAncestors
<1>7. Len(history) \in 0..Len(history)
  BY <1>1
<1>8. \A k \in 0..Len(history) : StateAt(history, k) \in {Genesis} \cup StatesOf(history, Len(history))
  <2> SUFFICES ASSUME NEW k \in 0..Len(history)
               PROVE  StateAt(history, k) \in {Genesis} \cup StatesOf(history, Len(history))
    OBVIOUS
  <2>1. CASE k = 0
    BY <2>1 DEF StateAt
  <2>2. CASE k # 0
    BY <2>2, <1>1 DEF StatesOf
  <2> QED BY <2>1, <2>2
<1>9. doc = Line[cursor + 1]
  BY DEF LineInv, Shown
<1> QED BY <1>1, <1>2, <1>3, <1>5, <1>6, <1>7, <1>8, <1>9

(* A replay that tracks the document verifies it. *)
LEMMA TrackedIsVerified ==
  ASSUME IInv, LineInv, Len(journal) <= MaxEvents, Tracks(Run(TRUE))
  PROVE  Verified
<1> DEFINE r == Run(TRUE)
           h == history
           states == StatesOf(h, Len(h))
<1>1. /\ history \in Seq(Entry) /\ Len(history) \in Nat
      /\ cursor \in 0..Len(history)
  BY Indexes DEF IInv, TypeOK
<1>2. Spine(history, r.nodes, genesis)
  BY DEF Tracks
<1>3. Climbs(h) /\ \A k \in 1..Len(h) : StateAt(h, k) \in 2..Len(r.nodes) /\ Holds(r.nodes, StateAt(h, k), h, k)
  BY <1>2 DEF Spine
<1>4. /\ current = StateAt(history, cursor) /\ r.nodes[current].doc = doc
      /\ Ancestors(r.nodes, tails[active]) = {Genesis} \cup states
  BY <1>2, SpineDocuments
<1>5. BranchPath(r) = states
  <2>1. Genesis \notin states
    <3>1. \A k \in 1..Len(h) : StateAt(h, k) # 1
      <4>1. \A k \in 1..Len(h) : StateAt(h, k) \in 2..Len(r.nodes)
        BY <1>3
      <4>2. Len(r.nodes) \in Nat
        BY <1>2 DEF Spine, Rooted
      <4> HIDE DEF r
      <4> QED BY <4>1, <4>2
    <3> QED BY <3>1 DEF StatesOf, Genesis
  <2>2. BranchPath(r) = ({Genesis} \cup states) \ {Genesis}
    <3>1. r.tails = tails /\ r.active = active
      BY DEF Tracks
    <3> HIDE DEF r
    <3> QED BY <1>4, <3>1 DEF BranchPath
  <2> QED BY <2>1, <2>2
<1>6. \A k \in 0..Len(h) : Place(states, StateAt(h, k)) = k
  BY <1>1, <1>3, PlaceOfState
<1>7. Cardinality(states) = Len(h)
  BY <1>1, <1>3, CountStates
<1>8. ASSUME NEW s \in states
      PROVE  /\ r.nodes[s].proc = <<history[Place(states, s)].proc>>
             /\ r.nodes[s].branch = history[Place(states, s)].branch
  <2>1. PICK k \in 1..Len(h) : s = StateAt(h, k)
    BY DEF StatesOf
  <2>2. Place(states, s) = k
    BY <1>1, <1>6, <2>1
  <2> QED BY <1>3, <2>1, <2>2 DEF Holds
<1>9. cursor = Place(states, current)
  BY <1>1, <1>4, <1>6
<1>10. Rebuilds(r, current, active, tails, nextState)
  BY DEF Rebuilds, Tracks
<1> HIDE DEF states
<1> QED BY <1>4, <1>5, <1>7, <1>8, <1>9, <1>10 DEF Verified, Run

(* A new document: its journal is empty. *)
LEMMA FirstFree ==
  ASSUME NEW n \in 1..MaxId, NEW d, d.objects = {n}
  PROVE  FirstFreeId(d) = n + 1
<1>1. MaxId \in Nat
  BY HistoryAssumption
<1>2. n + 1 \in 1..MaxId + 1 /\ (\A o \in d.objects : o < n + 1) /\ (n + 1) - 1 \in d.objects
  BY <1>1
<1>3. ASSUME NEW m \in 1..MaxId + 1, \A o \in d.objects : o < m, m = 1 \/ m - 1 \in d.objects
      PROVE  m = n + 1
  BY <1>1, <1>3
<1> QED BY <1>2, <1>3 DEF FirstFreeId

Fresh ==
    /\ genesis = doc /\ doc \in Document
    /\ \E n \in 1..MaxId : doc.objects = {n} /\ nextId = n + 1
    /\ history = <<>> /\ cursor = 0 /\ current = Genesis /\ nextState = Genesis + 1
    /\ journal = <<>> /\ active = Root /\ tails = <<Genesis>>

LEMMA FreshRuns == Fresh => RunInv
<1> SUFFICES ASSUME Fresh PROVE RunInv
  OBVIOUS
<1> USE DEF Fresh
<1>0. PICK n \in 1..MaxId : doc.objects = {n} /\ nextId = n + 1
  OBVIOUS
<1>1. \A x : Run(x) = ReplayStart(genesis)
  BY ReplayedEmpty DEF Run
<1> DEFINE r == ReplayStart(genesis)
<1>2. FirstFreeId(genesis) = nextId /\ nextId \in Nat \ {0}
  BY <1>0, FirstFree
<1>3. /\ r.ok = TRUE /\ r.cut = FALSE /\ r.current = current /\ r.active = active
      /\ r.tails = tails /\ Len(r.nodes) = 1
      /\ r.nodes[1].parent = 0 /\ r.nodes[1].doc = genesis
      /\ r.nodes[1].next = nextId
  BY <1>2 DEF ReplayStart
<1>4. r \in ReplayState
  <2> DEFINE node == [parent |-> 0, doc |-> genesis, next |-> nextId, proc |-> <<>>, branch |-> Root]
  <2>1. node \in Node
    BY <1>2 DEF Node, Root
  <2>2. r = [ok |-> TRUE, cut |-> FALSE, current |-> Genesis, active |-> Root,
             tails |-> <<Genesis>>, nodes |-> <<node>>]
    BY <1>2 DEF ReplayStart
  <2> HIDE DEF node
  <2>3. <<node>> \in Seq(Node) /\ <<Genesis>> \in Seq(Nat)
    BY <2>1 DEF Genesis
  <2> HIDE DEF r
  <2> QED BY <2>2, <2>3 DEF ReplayState, Genesis, Root
<1> HIDE DEF r
<1>5. Spine(history, r.nodes, genesis)
  BY <1>3 DEF Spine, Rooted, Climbs
<1>6. Tracks(r)
  BY <1>3, <1>4, <1>5 DEF Tracks, Genesis
<1>7. NextIds(r.nodes)
  BY <1>3 DEF NextIds, GivenOutBy, Commits
<1>8. Len(journal) <= MaxEvents
  BY HistoryAssumption
<1> QED BY <1>1, <1>6, <1>7, <1>8 DEF RunInv, r

LEMMA NextFreshRuns == Fresh' => RunInv'
BY FreshRuns, PTL

(* A history with the same entries is held by the same nodes. *)
LEMMA SpineSame ==
  ASSUME NEW h, NEW k, Len(h) \in Nat, Len(k) = Len(h),
         \A i \in 1..Len(h) : k[i].proc = h[i].proc /\ k[i].branch = h[i].branch,
         NEW nodes, NEW g, Spine(h, nodes, g)
  PROVE  Spine(k, nodes, g) /\ \A i \in 0..Len(h) : StateAt(k, i) = StateAt(h, i)
<1>1. \A i \in 0..Len(h) : i # 0 => i \in 1..Len(h)
  OBVIOUS
<1>2. \A i \in 0..Len(h) : StateAt(k, i) = StateAt(h, i)
  BY <1>1 DEF StateAt
<1>3. \A i \in 1..Len(h) : i \in 0..Len(h) /\ i - 1 \in 0..Len(h)
  OBVIOUS
<1>4. Climbs(k)
  BY <1>2, <1>3 DEF Spine, Climbs
<1>5. ASSUME NEW i \in 1..Len(h)
      PROVE  StateAt(k, i) \in 2..Len(nodes) /\ Holds(nodes, StateAt(k, i), k, i)
  <2>1. StateAt(k, i) = StateAt(h, i) /\ StateAt(k, i - 1) = StateAt(h, i - 1)
    BY <1>2, <1>3
  <2>2. StateAt(h, i) \in 2..Len(nodes) /\ Holds(nodes, StateAt(h, i), h, i)
    BY DEF Spine
  <2> QED BY <2>1, <2>2 DEF Holds
<1> QED BY <1>2, <1>4, <1>5 DEF Spine

(* An entry appended behind one of the history is held by one node more. *)
LEMMA SpineGrows ==
  ASSUME NEW h \in Seq(Entry), NEW k \in Seq(Entry), NEW c \in 0..Len(h), Len(k) = c + 1,
         \A i \in 1..c : k[i].proc = h[i].proc /\ k[i].branch = h[i].branch,
         NEW nodes \in Seq(Node), NEW g, Spine(h, nodes, g), NEW node \in Node,
         k[c + 1].proc.committed = Len(nodes) + 1,
         node.parent = StateAt(h, c), node.doc = k[c + 1].proc.post,
         node.proc = <<k[c + 1].proc>>, node.branch = k[c + 1].branch
  PROVE  Spine(k, Append(nodes, node), g)
<1> DEFINE grown == Append(nodes, node)
           n == Len(nodes)
<1>1. /\ n \in Nat /\ n >= 1 /\ c \in Nat
      /\ grown \in Seq(Node) /\ Len(grown) = n + 1 /\ grown[n + 1] = node
      /\ \A s \in 1..n : grown[s] = nodes[s]
  BY DEF Spine
<1>2. \A i \in 0..Len(h) : StateAt(h, i) \in 1..n
  BY SpineStates
<1> HIDE DEF grown, n
<1>3. \A i \in 0..c : StateAt(k, i) = StateAt(h, i) /\ i \in 0..Len(h)
  <2>1. \A i \in 0..c : i # 0 => i \in 1..c
    OBVIOUS
  <2> QED BY <2>1 DEF StateAt
<1>4. StateAt(k, c + 1) = n + 1
  BY <1>1 DEF StateAt, n
<1>5. \A i \in 1..c + 1 : i \in 1..c \/ i = c + 1
  BY <1>1
<1>6. \A i \in 1..c : i \in 0..c /\ i - 1 \in 0..c /\ i \in 1..Len(h)
  BY <1>1
<1>7. c \in 0..c /\ (c + 1) - 1 = c
  BY <1>1
<1>8. StateAt(h, c) \in 1..n
  BY <1>2
<1>9. Rooted(grown)
  <2>1. \A s \in 1..n : nodes[s].parent \in 0..s - 1
    BY DEF Spine, Rooted, n
  <2>2. node.parent \in 0..(n + 1) - 1
    BY <1>1, <1>8
  <2>3. \A s \in 1..n + 1 : s \in 1..n \/ s = n + 1
    BY <1>1
  <2>4. ASSUME NEW s \in 1..n + 1 PROVE grown[s].parent \in 0..s - 1
    <3>1. CASE s \in 1..n
      BY <3>1, <1>1, <2>1
    <3>2. CASE s = n + 1
      BY <3>2, <1>1, <2>2
    <3> QED BY <3>1, <3>2, <2>3
  <2>5. Len(grown) = n + 1 /\ Len(grown) \in Nat
    BY <1>1
  <2> QED BY <2>4, <2>5 DEF Rooted
<1>10. grown[1].doc = g
  <2>1. 1 \in 1..n
    BY <1>1
  <2> QED BY <1>1, <2>1 DEF Spine
<1>11. Climbs(k)
  <2>1. ASSUME NEW i \in 1..c PROVE StateAt(k, i - 1) < StateAt(k, i)
    <3>1. StateAt(h, i - 1) < StateAt(h, i)
      BY <1>6 DEF Spine, Climbs
    <3>2. StateAt(k, i) = StateAt(h, i) /\ StateAt(k, i - 1) = StateAt(h, i - 1)
      BY <1>3, <1>6
    <3> QED BY <3>1, <3>2
  <2>2. StateAt(k, c) < StateAt(k, c + 1)
    BY <1>1, <1>3, <1>4, <1>7, <1>8
  <2>3. ASSUME NEW i \in 1..c + 1 PROVE StateAt(k, i - 1) < StateAt(k, i)
    BY <1>5, <1>7, <2>1, <2>2
  <2> QED BY <2>3 DEF Climbs
<1>12. ASSUME NEW i \in 1..c + 1
       PROVE  StateAt(k, i) \in 2..n + 1 /\ Holds(grown, StateAt(k, i), k, i)
  <2>1. CASE i \in 1..c
    <3>1. /\ StateAt(k, i) = StateAt(h, i) /\ StateAt(k, i - 1) = StateAt(h, i - 1)
          /\ k[i].proc = h[i].proc /\ k[i].branch = h[i].branch
      BY <2>1, <1>3, <1>6
    <3>2. StateAt(h, i) \in 2..n /\ Holds(nodes, StateAt(h, i), h, i)
      BY <2>1, <1>6 DEF Spine, n
    <3>3. StateAt(h, i) \in 1..n /\ StateAt(h, i) \in 2..n + 1
      BY <3>2, <1>1
    <3>4. grown[StateAt(h, i)] = nodes[StateAt(h, i)]
      BY <3>3, <1>1
    <3> QED BY <3>1, <3>2, <3>3, <3>4 DEF Holds
  <2>2. CASE i = c + 1
    <3>1. grown[StateAt(k, i)] = node /\ StateAt(k, i - 1) = StateAt(h, c)
      BY <2>2, <1>1, <1>3, <1>4, <1>7
    <3>2. StateAt(k, i) \in 2..n + 1
      BY <2>2, <1>1, <1>4
    <3> QED BY <2>2, <3>1, <3>2 DEF Holds
  <2> QED BY <1>5, <2>1, <2>2
<1>13. Len(grown) >= 1
  BY <1>1
<1> QED BY <1>1, <1>9, <1>10, <1>11, <1>12, <1>13 DEF Spine, grown

(* The moves of Next, with what each kind of move promises. *)
LEMMA MoveKinds ==
  ASSUME TypeOK, Undo \/ Redo \/ \E to \in 0..Len(history) : JumpHistory(to)
  PROVE  \E kind \in {"undo", "redo", "jump"}, to \in 0..Len(history) :
            /\ to # cursor /\ MoveTo(kind, to)
            /\ kind = "undo" => to = cursor - 1
            /\ kind = "redo" => to = cursor + 1
<1>1. cursor \in 0..Len(history) /\ Len(history) \in Nat
  BY DEF TypeOK
<1>2. CASE Undo
  <2>1. cursor - 1 \in 0..Len(history) /\ cursor - 1 # cursor /\ MoveTo("undo", cursor - 1)
    BY <1>1, <1>2 DEF Undo
  <2> QED BY <2>1
<1>3. CASE Redo
  <2>1. cursor + 1 \in 0..Len(history) /\ cursor + 1 # cursor /\ MoveTo("redo", cursor + 1)
    BY <1>1, <1>3 DEF Redo
  <2> QED BY <2>1
<1>4. CASE \E to \in 0..Len(history) : JumpHistory(to)
  BY <1>4 DEF JumpHistory
<1> QED BY <1>2, <1>3, <1>4

LEMMA MoveTracks ==
  ASSUME IInv, LineInv, NEW kind \in {"undo", "redo", "jump"}, NEW to \in 0..Len(history),
         to # cursor, MoveTo(kind, to),
         kind = "undo" => to = cursor - 1, kind = "redo" => to = cursor + 1,
         NEW x \in BOOLEAN, Tracks(Run(x))
  PROVE  Tracks(Run(x))' /\ Run(x)'.nodes = Run(x).nodes
<1>1. PICK r : r = Run(x)
  OBVIOUS
<1>2. /\ r \in ReplayState /\ r.ok = TRUE /\ r.cut = FALSE /\ r.current = current
      /\ r.active = active /\ r.tails = tails /\ Len(r.nodes) + 1 = nextState
      /\ Spine(history, r.nodes, genesis)
  BY <1>1 DEF Tracks
<1>3. /\ history \in Seq(Entry) /\ Len(history) \in Nat /\ cursor \in 0..Len(history)
      /\ DOMAIN tails = 1..Len(tails) /\ active \in 1..Len(tails) /\ journal \in Seq(Event)
      /\ current \in Nat /\ active \in Nat
  BY Indexes DEF IInv, TypeOK
<1>4. /\ current = StateAt(history, cursor) /\ current \in 1..Len(r.nodes)
      /\ \A k \in 0..Len(history) : StateAt(history, k) \in Ancestors(r.nodes, tails[active])
  BY <1>2, SpineDocuments
<1>5. PICK s \in Nat : s = StateAt(history, to)
  BY <1>3, StateType
<1>6. s # r.current
  <2>1. \A a, b \in 0..Len(history) : a < b => StateAt(history, a) < StateAt(history, b)
    BY <1>2, <1>3, ClimbsFar DEF Spine
  <2>2. to < cursor \/ cursor < to
    BY <1>3
  <2> QED BY <2>1, <2>2, <1>2, <1>3, <1>4, <1>5
<1>7. \A k \in 1..Len(history) : r.nodes[StateAt(history, k)].parent = StateAt(history, k - 1)
  BY <1>2 DEF Spine, Holds
<1>8. kind = "undo" => r.nodes[r.current].parent = s
  <2> HAVE kind = "undo"
  <2>1. cursor \in 1..Len(history) /\ cursor - 1 = to
    BY <1>3
  <2> QED BY <2>1, <1>2, <1>4, <1>5, <1>7
<1>9. kind = "redo" => r.nodes[s].parent = r.current
  <2> HAVE kind = "redo"
  <2>1. to \in 1..Len(history) /\ to - 1 = cursor
    BY <1>3
  <2> QED BY <2>1, <1>2, <1>4, <1>5, <1>7
<1>10. s \in Ancestors(r.nodes, r.tails[r.active])
  BY <1>2, <1>4, <1>5
<1> DEFINE e == MoveEvent(kind, current, s, active)
<1>11. /\ journal' = Append(journal, e) /\ genesis' = genesis
       /\ UNCHANGED <<nextState, active, tails>>
       /\ cursor' = to /\ current' = s
  BY <1>5 DEF MoveTo
<1>12. e \in Event
  BY <1>3 DEF Event, MoveEvent
<1>13. Run(x)' = ReplayStep(r, e, x)
  <2>1. Replayed(genesis, Append(journal, e), x) = ReplayStep(Replayed(genesis, journal, x), e, x)
    <3> HIDE DEF e
    <3> QED BY <1>3, <1>12, ReplayedAppend
  <2> QED BY <2>1, <1>1, <1>11 DEF Run
<1>14. ReplayStep(r, MoveEvent(kind, r.current, s, r.active), x) =
         [ok |-> TRUE, cut |-> FALSE, current |-> s, active |-> r.active,
          tails |-> r.tails, nodes |-> r.nodes]
  <2>1. r.active \in 1..Len(r.tails)
    BY <1>2, <1>3
  <2>2. MoveFits(r, kind, s)
    BY <2>1, <1>2, <1>6, <1>8, <1>9, <1>10 DEF MoveFits
  <2>3. MoveDone(r, kind, s, x)
    BY <2>2, <1>5, MoveReplays
  <2> QED BY <2>3 DEF MoveDone
<1>15. PICK q : q = Run(x)'
  OBVIOUS
<1>16. q = [ok |-> TRUE, cut |-> FALSE, current |-> s, active |-> r.active,
            tails |-> r.tails, nodes |-> r.nodes]
  BY <1>2, <1>13, <1>14, <1>15
<1>17. q \in ReplayState
  BY <1>2, <1>16 DEF ReplayState
<1>18. Spine(history', r.nodes, genesis)
  <2>1. Rearranges
    BY <1>3, StateType, MoveStep DEF IInv
  <2>2. /\ Len(history') = Len(history)
        /\ \A i \in 1..Len(history) : /\ history'[i].proc = history[i].proc
                                      /\ history'[i].branch = history[i].branch
    BY <2>1 DEF Rearranges
  <2>3. PICK h : h = history'
    OBVIOUS
  <2> QED BY <2>2, <2>3, <1>2, <1>3, SpineSame
<1>19. Tracks(Run(x))'
  BY <1>2, <1>11, <1>15, <1>16, <1>17, <1>18 DEF Tracks
<1> QED BY <1>1, <1>15, <1>16, <1>19

LEMMA ProcedureIs ==
  ASSUME NEW p \in Procedure
  PROVE  p = [base |-> p.base, committed |-> p.committed, inv |-> p.inv, out |-> p.out,
              pre |-> p.pre, post |-> p.post]
BY DEF Procedure

LEMMA ResultIs ==
  ASSUME NEW inv \in Invocation, NEW d, NEW n
  PROVE  Result(inv, d, n) = [doc |-> Result(inv, d, n).doc, out |-> Result(inv, d, n).out,
                              next |-> Result(inv, d, n).next]
<1>1. inv.op \in {"paint", "create", "delete"}
  BY DEF Invocation, PaintWith, CreateObject, DeleteObject
<1> QED BY <1>1 DEF Result

LEMMA ConcatOne ==
  ASSUME NEW s \in Seq(Event), NEW a \in Event
  PROVE  s \o <<a>> = Append(s, a)
<1>1. s \o <<a>> \in Seq(Event) /\ Append(s, a) \in Seq(Event) /\ Len(s \o <<a>>) = Len(Append(s, a))
  OBVIOUS
<1>2. \A i \in 1..Len(Append(s, a)) : (s \o <<a>>)[i] = Append(s, a)[i]
  OBVIOUS
<1> QED BY <1>1, <1>2, SeqEqual

LEMMA ConcatTwo ==
  ASSUME NEW s \in Seq(Event), NEW a \in Event, NEW b \in Event
  PROVE  s \o <<a, b>> = Append(Append(s, a), b)
<1>1. /\ s \o <<a, b>> \in Seq(Event) /\ Append(Append(s, a), b) \in Seq(Event)
      /\ Len(s \o <<a, b>>) = Len(Append(Append(s, a), b))
  OBVIOUS
<1>2. \A i \in 1..Len(Append(Append(s, a), b)) : (s \o <<a, b>>)[i] = Append(Append(s, a), b)[i]
  OBVIOUS
<1> QED BY <1>1, <1>2, SeqEqual

(* What an edit appends to the journal. *)
LEMMA EditLogs ==
  ASSUME IInv, NEW inv \in Invocation, Execute(inv)
  PROVE  \E p \in Procedure :
            /\ Appends(p) /\ p.inv = inv /\ p.out = Result(inv, doc, nextId).out
            /\ journal' = journal \o CommitEvents(p)
            /\ doc' # doc /\ nextState - 1 <= MaxCommits /\ CommitBranch <= MaxBranches
            /\ Len(journal) + Len(CommitEvents(p)) <= MaxEvents
<1>1. PICK p \in Procedure : Appends(p) /\ p.inv = inv /\ p.out = Result(inv, doc, nextId).out
  BY EditStep DEF IInv
<1>2. doc' = Result(inv, doc, nextId).doc
  BY EditStep DEF IInv
<1> DEFINE proc == [base |-> current, committed |-> nextState, inv |-> inv,
                    out |-> Result(inv, doc, nextId).out, pre |-> doc,
                    post |-> Result(inv, doc, nextId).doc]
<1>3. p = proc
  <2>1. p.base = current /\ p.committed = nextState /\ p.pre = doc /\ p.post = doc'
    BY <1>1 DEF Appends
  <2> QED BY <2>1, <1>1, <1>2, ProcedureIs
<1>4. /\ journal' = journal \o CommitEvents(proc)
      /\ doc' # doc /\ nextState - 1 <= MaxCommits /\ CommitBranch <= MaxBranches
      /\ Len(journal) + Len(CommitEvents(proc)) <= MaxEvents
  BY DEF Execute
<1> HIDE DEF proc
<1> QED BY <1>1, <1>3, <1>4

(* Before the commit, the replay stands at the current state and at the    *)
(* tail of the branch of the commit: at once, or by the cut.               *)
ReadyFor(q, nodes) ==
    /\ q \in ReplayState /\ q.ok = TRUE
    /\ q.current = current /\ q.active = CommitBranch /\ q.nodes = nodes
    /\ CommitBranch \in 1..Len(q.tails) /\ q.tails[CommitBranch] = current
    /\ [q.tails EXCEPT ![CommitBranch] = nextState] = CommittedTails(nextState)

LEMMA EditReady ==
  ASSUME IInv, LineInv, CommitBranch <= MaxBranches, NEW p \in Procedure,
         NEW x \in BOOLEAN, Tracks(Run(x))
  PROVE  \E q : /\ ReadyFor(q, Run(x).nodes)
                /\ Replayed(genesis, journal \o CommitEvents(p), x)
                     = ReplayStep(q, CommitEvent(p, CommitBranch), x)
<1>1. PICK r : r = Run(x)
  OBVIOUS
<1>2. /\ r \in ReplayState /\ r.ok = TRUE /\ r.cut = FALSE /\ r.current = current
      /\ r.active = active /\ r.tails = tails
      /\ Spine(history, r.nodes, genesis)
  BY <1>1 DEF Tracks
<1>3. /\ DOMAIN tails = 1..Len(tails) /\ Len(tails) \in Nat /\ active \in 1..Len(tails)
      /\ journal \in Seq(Event) /\ tails \in Seq(Nat)
      /\ current \in Nat /\ nextState \in Nat /\ active \in Nat /\ tails[active] \in Nat
      /\ cursor \in 0..Len(history)
  BY Indexes DEF IInv, TypeOK
<1>4. current \in Ancestors(r.nodes, tails[active])
  <2>1. \A k \in 0..Len(history) : StateAt(history, k) \in Ancestors(r.nodes, tails[active])
    BY <1>2, SpineDocuments
  <2>2. current = StateAt(history, cursor)
    BY <1>2, SpineDocuments
  <2> QED BY <2>1, <2>2, <1>3
<1> DEFINE commit == CommitEvent(p, CommitBranch)
           cut == CutEvent(current, tails[active], Len(tails) + 1, active)
<1>5. CommitBranch \in Nat /\ commit \in Event
  <2>1. CommitBranch \in Nat
    BY <1>3 DEF CommitBranch
  <2> QED BY <2>1 DEF Event, CommitEvent
<1>6. cut \in Event
  BY <1>3 DEF Event, CutEvent
<1>7. CASE ~Forks
  <2>1. tails[active] = current /\ CommitBranch = active
        /\ CommitEvents(p) = <<commit>>
        /\ CommittedTails(nextState) = [tails EXCEPT ![active] = nextState]
    BY <1>7 DEF Forks, CommitBranch, CommitEvents, CommittedTails
  <2> HIDE DEF commit
  <2>2. journal \o CommitEvents(p) = Append(journal, commit)
    BY <2>1, <1>3, <1>5, ConcatOne
  <2>3. Replayed(genesis, Append(journal, commit), x) = ReplayStep(Run(x), commit, x)
    BY <1>3, <1>5, ReplayedAppend DEF Run
  <2>4. ReadyFor(r, Run(x).nodes)
    BY <1>1, <1>2, <1>3, <2>1 DEF ReadyFor
  <2> QED BY <1>1, <2>2, <2>3, <2>4 DEF commit
<1>8. CASE Forks
  <2>1. tails[active] # current /\ CommitBranch = Len(tails) + 1
        /\ CommitEvents(p) = <<cut, commit>>
        /\ CommittedTails(nextState) = Append(tails, nextState)
    BY <1>8 DEF Forks, CommitBranch, CommitEvents, CommittedTails
  <2> DEFINE log == Append(journal, cut)
  <2>2. ReplayStep(r, CutEvent(r.current, r.tails[r.active], Len(r.tails) + 1, r.active), x) =
          [ok |-> TRUE, cut |-> TRUE, current |-> r.current, active |-> Len(r.tails) + 1,
           tails |-> Append(r.tails, r.current), nodes |-> r.nodes]
    <3>1. r.active \in 1..Len(r.tails) /\ r.tails[r.active] # r.current
          /\ r.current \in Ancestors(r.nodes, r.tails[r.active])
          /\ Len(r.tails) + 1 <= MaxBranches
      BY <1>2, <1>3, <1>4, <2>1
    <3> QED BY <3>1, <1>2, CutReplays
  <2>3. PICK q : q = ReplayStep(r, cut, x)
    OBVIOUS
  <2>4. q = [ok |-> TRUE, cut |-> TRUE, current |-> current, active |-> Len(tails) + 1,
             tails |-> Append(tails, current), nodes |-> r.nodes]
    BY <1>2, <2>2, <2>3
  <2> HIDE DEF commit, cut, log
  <2>5. log \in Seq(Event) /\ Replayed(genesis, log, x) = q
    BY <1>1, <1>3, <1>6, <2>3, ReplayedAppend DEF log, Run
  <2>6. Replayed(genesis, Append(log, commit), x) = ReplayStep(q, commit, x)
    BY <1>5, <2>5, ReplayedAppend
  <2>7. journal \o CommitEvents(p) = Append(log, commit)
    <3>1. journal \o <<cut, commit>> = Append(Append(journal, cut), commit)
      BY <1>3, <1>5, <1>6, ConcatTwo
    <3> QED BY <3>1, <2>1 DEF log
  <2>8. ReadyFor(q, r.nodes)
    <3>1. /\ Append(tails, current) \in Seq(Nat)
          /\ Len(Append(tails, current)) = Len(tails) + 1
          /\ Append(tails, current)[Len(tails) + 1] = current
          /\ Len(tails) + 1 \in 1..Len(tails) + 1
      BY <1>3
    <3>2. [Append(tails, current) EXCEPT ![Len(tails) + 1] = nextState] = Append(tails, nextState)
      <4> DEFINE a == Append(tails, current)
                 b == [a EXCEPT ![Len(tails) + 1] = nextState]
                 c == Append(tails, nextState)
      <4>1. PICK n \in Nat : n = Len(tails) + 1
        BY <1>3
      <4>2. /\ c \in Seq(Nat) /\ Len(c) = n /\ c[n] = nextState
            /\ \A i \in 1..n : i # n => c[i] = tails[i] /\ a[i] = tails[i]
        BY <1>3, <4>1
      <4>3. a \in Seq(Nat) /\ Len(a) = n /\ n \in 1..Len(a)
        BY <3>1, <4>1
      <4> HIDE DEF a, c
      <4>4. /\ b \in Seq(Nat) /\ Len(b) = n
            /\ \A i \in 1..n : b[i] = IF i = n THEN nextState ELSE a[i]
        BY <1>3, <4>1, <4>3, ExceptSeq
      <4> HIDE DEF b
      <4>5. \A i \in 1..n : b[i] = c[i]
        BY <4>2, <4>4
      <4> QED BY <4>2, <4>4, <4>5, SeqEqual DEF a, b, c
    <3>3. q \in ReplayState
      BY <1>2, <1>3, <2>4, <3>1 DEF ReplayState
    <3> QED BY <2>1, <2>4, <3>1, <3>2, <3>3 DEF ReadyFor
  <2> QED BY <1>1, <2>6, <2>7, <2>8 DEF commit
<1> QED BY <1>7, <1>8

LEMMA ResultNext ==
  ASSUME NEW inv \in Invocation, NEW d, NEW n \in Nat \ {0}
  PROVE  Result(inv, d, n).next \in Nat \ {0}
<1>1. inv.op \in {"paint", "create", "delete"}
  BY DEF Invocation, PaintWith, CreateObject, DeleteObject
<1> QED BY <1>1 DEF Result

(* An edit that gives the same result from the parent's node is one node   *)
(* more, that allocates on from there.                                     *)
SameFrom(inv, n) == /\ Result(inv, doc, n).doc = Result(inv, doc, nextId).doc
                    /\ Result(inv, doc, n).out = Result(inv, doc, nextId).out

LEMMA EditTracks ==
  ASSUME IInv, LineInv, NEW inv \in Invocation, Execute(inv), NEW x \in BOOLEAN,
         Tracks(Run(x)), x = TRUE => SameFrom(inv, Run(x).nodes[current].next)
  PROVE  /\ Tracks(Run(x))'
         /\ \E node : /\ Run(x)'.nodes = Append(Run(x).nodes, node)
                      /\ x = TRUE => node.next =
                                        Result(inv, doc, Run(x).nodes[current].next).next
<1>1. PICK p \in Procedure :
         /\ Appends(p) /\ p.inv = inv /\ p.out = Result(inv, doc, nextId).out
         /\ journal' = journal \o CommitEvents(p)
         /\ doc' # doc /\ nextState - 1 <= MaxCommits /\ CommitBranch <= MaxBranches
  BY EditLogs
<1>2. /\ doc' = Result(inv, doc, nextId).doc /\ nextId' = Result(inv, doc, nextId).next
      /\ cursor' = cursor + 1 /\ current' = nextState /\ nextState' = nextState + 1
      /\ active' = CommitBranch /\ tails' = CommittedTails(nextState)
      /\ genesis' = genesis
  BY EditStep DEF IInv
<1>3. nextId' \in Nat \ {0} /\ nextState \in Nat /\ Len(history) \in Nat /\ history \in Seq(Entry)
      /\ history' \in Seq(Entry) /\ cursor \in 0..Len(history) /\ tails' \in Seq(Nat)
      /\ active' \in 1..Len(tails') /\ CommitBranch \in Nat
  <2>1. TypeOK'
    BY EditKeeps DEF IInv
  <2>2. DOMAIN tails' = 1..Len(tails')
    BY <2>1, LenProperties DEF TypeOK
  <2>3. CommitBranch \in Nat
    BY Indexes DEF CommitBranch, IInv
  <2> QED BY <2>1, <2>2, <2>3, Indexes DEF IInv, TypeOK
<1>4. PICK r : r = Run(x)
  OBVIOUS
<1>5. /\ r \in ReplayState /\ Len(r.nodes) + 1 = nextState /\ Spine(history, r.nodes, genesis)
      /\ x = TRUE => SameFrom(inv, r.nodes[current].next)
  BY <1>4 DEF Tracks
<1>6. current = StateAt(history, cursor) /\ current \in 1..Len(r.nodes) /\ r.nodes[current].doc = doc
  BY <1>5, SpineDocuments
<1>7. PICK q : /\ ReadyFor(q, r.nodes)
               /\ Run(x)' = ReplayStep(q, CommitEvent(p, CommitBranch), x)
  <2>1. PICK q : /\ ReadyFor(q, r.nodes)
                 /\ Replayed(genesis, journal \o CommitEvents(p), x)
                      = ReplayStep(q, CommitEvent(p, CommitBranch), x)
    BY <1>1, <1>4, EditReady
  <2> QED BY <2>1, <1>1, <1>2 DEF Run
<1>8. PICK next \in Nat \ {0} :
         next = IF x = TRUE THEN Result(inv, doc, r.nodes[current].next).next
                            ELSE r.nodes[current].next
  <2>1. r.nodes[current] \in Node
    BY <1>5, <1>6 DEF ReplayState
  <2>2. r.nodes[current].next \in Nat \ {0}
    BY <2>1 DEF Node
  <2> QED BY <2>2, ResultNext
<1> DEFINE node == [parent |-> current, doc |-> doc', next |-> next, proc |-> <<p>>,
                    branch |-> CommitBranch]
<1>9. p.base = current /\ p.committed = nextState /\ p.pre = doc /\ p.post = doc'
  BY <1>1 DEF Appends
<1>10. node \in Node
  <2>1. doc' \in Document /\ current \in Nat /\ <<p>> \in Seq(Procedure)
    BY <1>9 DEF Procedure
  <2> QED BY <2>1, <1>3 DEF Node
<1>11. ReplayStep(q, CommitEvent(p, CommitBranch), x) =
         [ok |-> TRUE, cut |-> FALSE, current |-> nextState, active |-> CommitBranch,
          tails |-> CommittedTails(nextState), nodes |-> Append(r.nodes, node)]
  <2>1. /\ q \in ReplayState /\ q.ok = TRUE
        /\ q.current = current /\ q.active = CommitBranch /\ q.nodes = r.nodes
        /\ CommitBranch \in 1..Len(q.tails) /\ q.tails[CommitBranch] = current
        /\ [q.tails EXCEPT ![CommitBranch] = nextState] = CommittedTails(nextState)
    BY <1>7 DEF ReadyFor
  <2>2. /\ p.committed = Len(q.nodes) + 1 /\ Len(q.nodes) <= MaxCommits
        /\ p.base = q.current /\ q.current \in 1..Len(q.nodes)
        /\ q.active \in 1..Len(q.tails) /\ q.tails[q.active] = q.current
        /\ p.pre = q.nodes[q.current].doc /\ p.post # p.pre
    <3>1. Len(r.nodes) <= MaxCommits
      <4>1. Len(r.nodes) \in Nat
        BY <1>5 DEF Spine, Rooted
      <4> QED BY <4>1, <1>1, <1>5
    <3> QED BY <2>1, <3>1, <1>1, <1>5, <1>6, <1>9
  <2>3. x = FALSE => next = q.nodes[q.current].next
    BY <2>1, <1>8
  <2>4. x = TRUE => Result(p.inv, p.pre, q.nodes[q.current].next)
                      = [doc |-> p.post, out |-> p.out, next |-> next]
    <3> HAVE x = TRUE
    <3>1. PICK n : n = r.nodes[current].next
      OBVIOUS
    <3>2. Result(p.inv, p.pre, q.nodes[q.current].next) = Result(inv, doc, n)
      BY <2>1, <3>1, <1>1, <1>5, <1>9
    <3>3. Result(inv, doc, n).doc = p.post /\ Result(inv, doc, n).out = p.out
      BY <3>1, <1>1, <1>2, <1>5, <1>9 DEF SameFrom
    <3>4. Result(inv, doc, n).next = next
      BY <3>1, <1>8
    <3> QED BY <3>2, <3>3, <3>4, ResultIs
  <2>5. node = [parent |-> q.current, doc |-> p.post, next |-> next, proc |-> <<p>>,
                branch |-> CommitBranch]
    BY <2>1, <1>9
  <2> HIDE DEF node
  <2>6. ReplayStep(q, CommitEvent(p, CommitBranch), x) =
           [ok |-> TRUE, cut |-> FALSE, current |-> p.committed, active |-> q.active,
            tails |-> [q.tails EXCEPT ![q.active] = p.committed],
            nodes |-> Append(q.nodes, node)]
    <3>1. PICK b \in Nat : b = CommitBranch
      BY <1>3
    <3>2. PICK m : m = node
      OBVIOUS
    <3>3. b = q.active /\ m = [parent |-> q.current, doc |-> p.post, next |-> next,
                              proc |-> <<p>>, branch |-> b]
      BY <2>1, <2>5, <3>1, <3>2
    <3>4. ReplayStep(q, CommitEvent(p, b), x) =
            [ok |-> TRUE, cut |-> FALSE, current |-> p.committed, active |-> q.active,
             tails |-> [q.tails EXCEPT ![q.active] = p.committed],
             nodes |-> Append(q.nodes, m)]
      <4>1. CommitFits(q, p, b, x, next, m)
        BY <2>1, <2>2, <2>3, <2>4, <3>3 DEF CommitFits
      <4>2. CommitDone(q, p, b, x, m)
        BY <4>1, <3>1, <1>8, CommitReplays
      <4> QED BY <4>2 DEF CommitDone
    <3> QED BY <3>1, <3>2, <3>4
  <2> QED BY <2>1, <2>6, <1>9
<1>12. node.next = next /\ node.parent = current /\ node.doc = doc' /\ node.proc = <<p>>
       /\ node.branch = CommitBranch
  OBVIOUS
<1> HIDE DEF node
<1>13. Spine(history', Append(r.nodes, node), genesis)
  <2>1. /\ Len(history') = cursor + 1
        /\ \A i \in 1..cursor : /\ history'[i].proc = history[i].proc
                                /\ history'[i].branch = history[i].branch
        /\ history'[cursor + 1].proc = p /\ history'[cursor + 1].branch = CommitBranch
    BY <1>1 DEF Appends
  <2>2. PICK h \in Seq(Entry) : h = history'
    BY <1>3
  <2>3. r.nodes \in Seq(Node)
    BY <1>5 DEF ReplayState
  <2>4. PICK c \in 0..Len(history) : c = cursor
    BY <1>3
  <2>5. /\ Len(h) = c + 1
        /\ \A i \in 1..c : h[i].proc = history[i].proc /\ h[i].branch = history[i].branch
        /\ h[c + 1].proc = p /\ h[c + 1].branch = CommitBranch
    BY <2>1, <2>2, <2>4
  <2>6. h[c + 1].proc.committed = Len(r.nodes) + 1 /\ node.parent = StateAt(history, c)
        /\ node.doc = h[c + 1].proc.post /\ node.proc = <<h[c + 1].proc>>
        /\ node.branch = h[c + 1].branch
    BY <2>4, <2>5, <1>5, <1>6, <1>9, <1>12
  <2>7. Spine(h, Append(r.nodes, node), genesis)
    BY <2>3, <2>5, <2>6, <1>3, <1>5, <1>10, SpineGrows
  <2> QED BY <2>2, <2>7
<1>14. PICK s : s = Run(x)'
  OBVIOUS
<1>15. s = [ok |-> TRUE, cut |-> FALSE, current |-> nextState, active |-> CommitBranch,
            tails |-> CommittedTails(nextState), nodes |-> Append(r.nodes, node)]
  BY <1>7, <1>11, <1>14
<1>16. Append(r.nodes, node) \in Seq(Node) /\ Len(Append(r.nodes, node)) = Len(r.nodes) + 1
       /\ Len(r.nodes) \in Nat
  BY <1>5, <1>10 DEF ReplayState
<1>17. s \in ReplayState
  BY <1>2, <1>3, <1>15, <1>16 DEF ReplayState
<1>18. Tracks(Run(x))'
  <2>1. s.ok = TRUE /\ s.cut = FALSE /\ s.current = current' /\ s.active = active'
        /\ s.tails = tails' /\ s.nodes = Append(r.nodes, node)
    BY <1>2, <1>15
  <2>2. Len(s.nodes) + 1 = nextState'
    BY <1>2, <1>5, <1>16, <2>1
  <2>3. Spine(history', s.nodes, genesis')
    BY <1>2, <1>13, <2>1
  <2> QED BY <1>14, <1>17, <2>1, <2>2, <2>3 DEF Tracks
<1>19. Run(x)'.nodes = Append(Run(x).nodes, node)
  BY <1>4, <1>14, <1>15
<1> QED BY <1>4, <1>8, <1>12, <1>18, <1>19

(* An edit whose recorded result the replay does not find stops it.        *)
LEMMA EditTracksOrStops ==
  ASSUME IInv, LineInv, NEW inv \in Invocation, Execute(inv), Tracks(Run(TRUE))
  PROVE  Run(TRUE)'.ok = FALSE \/ Tracks(Run(TRUE))'
<1> SUFFICES ASSUME Run(TRUE)'.ok # FALSE PROVE Tracks(Run(TRUE))'
  OBVIOUS
<1>1. PICK p \in Procedure :
         /\ Appends(p) /\ p.inv = inv /\ p.out = Result(inv, doc, nextId).out
         /\ journal' = journal \o CommitEvents(p) /\ CommitBranch <= MaxBranches
  BY EditLogs
<1>2. doc' = Result(inv, doc, nextId).doc /\ genesis' = genesis
  BY EditStep DEF IInv
<1>3. PICK nodes : nodes = Run(TRUE).nodes
  OBVIOUS
<1>4. nodes[current].doc = doc
  <2>1. Spine(history, nodes, genesis)
    BY <1>3 DEF Tracks
  <2> QED BY <2>1, SpineDocuments
<1>5. PICK q : /\ ReadyFor(q, nodes)
               /\ Run(TRUE)' = ReplayStep(q, CommitEvent(p, CommitBranch), TRUE)
  <2>1. PICK q : /\ ReadyFor(q, nodes)
                 /\ Replayed(genesis, journal \o CommitEvents(p), TRUE)
                      = ReplayStep(q, CommitEvent(p, CommitBranch), TRUE)
    BY <1>1, <1>3, EditReady
  <2> QED BY <2>1, <1>1, <1>2 DEF Run
<1>6. q \in ReplayState /\ q.ok = TRUE /\ q.current = current /\ q.nodes = nodes
  BY <1>5 DEF ReadyFor
<1>7. PICK b : b = CommitBranch
  OBVIOUS
<1>8. ReplayStep(q, CommitEvent(p, b), TRUE).ok # FALSE
  BY <1>5, <1>7
<1>9. /\ Result(p.inv, q.nodes[q.current].doc, q.nodes[q.current].next).doc = p.post
      /\ Result(p.inv, q.nodes[q.current].doc, q.nodes[q.current].next).out = p.out
  BY <1>6, <1>8, CommitOrStop
<1>10. p.post = doc'
  BY <1>1 DEF Appends
<1>11. SameFrom(inv, nodes[current].next)
  BY <1>1, <1>2, <1>4, <1>6, <1>9, <1>10 DEF SameFrom
<1> QED BY <1>3, <1>11, EditTracks

(* A replay that stopped does not go on with what an edit appends. *)
LEMMA EditStaysStopped ==
  ASSUME IInv, NEW inv \in Invocation, Execute(inv), Run(TRUE).ok = FALSE
  PROVE  Run(TRUE)'.ok = FALSE
<1>1. PICK p \in Procedure : journal' = journal \o CommitEvents(p)
  BY EditLogs
<1>2. genesis' = genesis
  BY EditStep DEF IInv
<1> DEFINE commit == CommitEvent(p, CommitBranch)
           cut == CutEvent(current, tails[active], Len(tails) + 1, active)
<1>3. journal \in Seq(Event) /\ commit \in Event /\ cut \in Event
  <2>1. /\ journal \in Seq(Event) /\ Len(tails) + 1 \in Nat /\ active \in Nat
        /\ current \in Nat /\ tails[active] \in Nat
    BY Indexes DEF IInv, TypeOK
  <2>2. CommitBranch \in Nat
    BY <2>1 DEF CommitBranch
  <2> QED BY <2>1, <2>2 DEF Event, CommitEvent, CutEvent
<1>4. CommitEvents(p) = IF Forks THEN <<cut, commit>> ELSE <<commit>>
  BY DEF CommitEvents, CommitBranch
<1>5. PICK r : r = Run(TRUE)
  OBVIOUS
<1> HIDE DEF commit, cut
<1>6. PICK j : j = journal
  OBVIOUS
<1>7. PICK g : g = genesis
  OBVIOUS
<1>8. j \in Seq(Event) /\ Replayed(g, j, TRUE) = r
  BY <1>3, <1>5, <1>6, <1>7 DEF Run
<1>9. \A k \in Seq(Event), e \in Event :
         Replayed(g, k, TRUE) = r => Replayed(g, Append(k, e), TRUE) = r
  <2> TAKE k \in Seq(Event), e \in Event
  <2> HAVE Replayed(g, k, TRUE) = r
  <2>1. Replayed(g, Append(k, e), TRUE) = ReplayStep(Replayed(g, k, TRUE), e, TRUE)
    BY ReplayedAppend
  <2>2. ReplayStep(r, e, TRUE) = r
    BY <1>5, StoppedStays
  <2> QED BY <2>1, <2>2
<1>10. \E k \in Seq(Event) : journal' = k /\ Replayed(g, k, TRUE) = r
  <2>1. CASE ~ Forks
    <3>1. journal' = Append(j, commit)
      BY <1>1, <1>3, <1>4, <1>6, <2>1, ConcatOne
    <3>2. Append(j, commit) \in Seq(Event)
      BY <1>3, <1>8
    <3> QED BY <3>1, <3>2, <1>3, <1>8, <1>9
  <2>2. CASE Forks
    <3>1. j \o <<cut, commit>> = Append(Append(j, cut), commit)
      BY <1>3, <1>8, ConcatTwo
    <3>2. Append(j, cut) \in Seq(Event) /\ Append(Append(j, cut), commit) \in Seq(Event)
      BY <1>3, <1>8
    <3>3. journal' = Append(Append(j, cut), commit)
      BY <3>1, <1>1, <1>4, <1>6, <2>2
    <3>4. Replayed(g, Append(j, cut), TRUE) = r
      BY <1>3, <1>8, <1>9
    <3>5. Replayed(g, Append(Append(j, cut), commit), TRUE) = r
      BY <3>2, <3>4, <1>3, <1>9
    <3> QED BY <3>2, <3>3, <3>5
  <2> QED BY <2>1, <2>2
<1> QED BY <1>2, <1>5, <1>7, <1>10 DEF Run

(* What the journal gave out stays given out. *)
LEMMA UndoneStays ==
  ASSUME TypeOK, journal' \in Seq(Event), Len(journal) <= Len(journal'),
         \A i \in 1..Len(journal) : journal'[i] = journal[i],
         AllocationUndone(journal)
  PROVE  AllocationUndone(journal')
<1>1. /\ DOMAIN journal = 1..Len(journal) /\ DOMAIN journal' = 1..Len(journal')
      /\ Len(journal) \in Nat /\ Len(journal') \in Nat
  BY Indexes, LenProperties
<1>2. PICK i, j \in 1..Len(journal) :
        /\ i < j
        /\ IsCommit(journal[i]) /\ journal[i].proc.out # {}
        /\ journal[j].event = "move"
        /\ journal[j].to < journal[i].proc.committed
  BY <1>1 DEF AllocationUndone
<1>3. i \in DOMAIN journal' /\ j \in DOMAIN journal' /\ journal'[i] = journal[i] /\ journal'[j] = journal[j]
  BY <1>1
<1> QED BY <1>2, <1>3 DEF AllocationUndone

LEMMA MoveAllocates ==
  ASSUME IInv, NEW kind \in {"undo", "redo", "jump"}, NEW to \in 0..Len(history),
         to # cursor, MoveTo(kind, to), ~ AllocationUndone(journal'),
         NEW nodes, NextIds(nodes)
  PROVE  /\ GivenOutBy(current)'
         /\ \A s \in 1..Len(nodes) : GivenOutBy(s)' => nodes[s].next = nextId'
<1>1. /\ journal \in Seq(Event) /\ DOMAIN journal = 1..Len(journal) /\ Len(journal) \in Nat
      /\ active \in Nat /\ current \in Nat /\ history \in Seq(Entry)
      /\ nextState \in Nat
  BY Indexes DEF IInv, TypeOK
<1>2. PICK t \in Nat : t = StateAt(history, to)
  BY <1>1, StateType
<1> DEFINE e == MoveEvent(kind, current, t, active)
           n == Len(journal)
<1>3. journal' = Append(journal, e) /\ current' = t /\ nextId' = nextId
  BY <1>2 DEF MoveTo
<1>4. e \in Event /\ ~ IsCommit(e) /\ e.event = "move" /\ e.to = t
  BY <1>1 DEF Event, MoveEvent, IsCommit
<1> HIDE DEF e
<1>5. /\ journal' \in Seq(Event) /\ DOMAIN journal' = 1..n + 1 /\ journal'[n + 1] = e
      /\ \A i \in 1..n : journal'[i] = journal[i]
  BY <1>1, <1>3, <1>4
<1>6. Commits' = Commits /\ \A i \in Commits : i \in 1..n /\ journal'[i] = journal[i]
  <2>1. \A i \in 1..n + 1 : i \in 1..n \/ i = n + 1
    BY <1>1
  <2>2. \A i \in 1..n : i \in 1..n + 1
    BY <1>1
  <2> HIDE DEF n
  <2>3. \A i \in DOMAIN journal' : IsCommit(journal'[i]) <=> i \in DOMAIN journal /\ IsCommit(journal[i])
    <3>1. \A i \in DOMAIN journal' : i = n + 1 => i \notin DOMAIN journal
      BY <1>1 DEF n
    <3> QED BY <2>1, <2>2, <3>1, <1>1, <1>4, <1>5 DEF n
  <2>4. \A i \in DOMAIN journal : i \in DOMAIN journal'
    BY <2>2, <1>1, <1>5 DEF n
  <2> QED BY <2>3, <2>4, <1>1, <1>5 DEF Commits, n
<1>7. ASSUME NEW i \in Commits, journal[i].proc.out # {} PROVE journal[i].proc.committed <= t
  <2>1. /\ i \in DOMAIN journal' /\ n + 1 \in DOMAIN journal' /\ i < n + 1
        /\ IsCommit(journal'[i]) /\ journal'[i] = journal[i]
    BY <1>1, <1>5, <1>6 DEF Commits
  <2>2. ~ (t < journal[i].proc.committed)
    BY <2>1, <1>4, <1>5, <1>7 DEF AllocationUndone
  <2>3. journal[i].proc.committed \in Nat
    <3>1. journal[i] \in Event /\ IsCommit(journal[i])
      BY <1>1, <1>6 DEF Commits
    <3>2. journal[i].proc \in Procedure
      BY <3>1, CommitHasProcedure
    <3> QED BY <3>2 DEF Procedure
  <2> QED BY <2>2, <2>3
<1>8. GivenOutBy(current)'
  BY <1>3, <1>6, <1>7 DEF GivenOutBy
<1>9. \A s : GivenOutBy(s)' <=> GivenOutBy(s)
  BY <1>6 DEF GivenOutBy
<1> QED BY <1>3, <1>8, <1>9 DEF NextIds

LEMMA EditAllocates ==
  ASSUME IInv, NEW inv \in Invocation, Execute(inv),
         NEW nodes \in Seq(Node), Len(nodes) + 1 = nextState, current \in 1..Len(nodes),
         NextIds(nodes), NEW node, node.next = nextId'
  PROVE  /\ GivenOutBy(current)'
         /\ \A s \in 1..Len(nodes) + 1 :
               GivenOutBy(s)' => Append(nodes, node)[s].next = nextId'
<1>1. PICK p \in Procedure : /\ Appends(p) /\ Logs(p) /\ p.inv = inv
                             /\ p.out = Result(inv, doc, nextId).out
  BY EditStep DEF IInv
<1>2. /\ nextId' = Result(inv, doc, nextId).next /\ current' = nextState
      /\ inv.op = "create" => nextId <= MaxId
  BY EditStep DEF IInv
<1>3. p.out = {} => nextId' = nextId
  <2>1. doc \in Document /\ nextId \in Nat \ {0}
    BY DEF IInv, TypeOK
  <2>2. \/ Result(inv, doc, nextId).next = nextId
        \/ Result(inv, doc, nextId).out = {nextId}
    BY <1>2, <2>1, ResultType
  <2> QED BY <1>1, <1>2, <2>2
<1>4. p.committed = nextState /\ nextState \in Nat /\ current \in Nat /\ Len(nodes) \in Nat
  <2>1. p.committed = nextState
    BY <1>1 DEF Appends
  <2>2. nextState \in Nat /\ current \in Nat
    BY DEF IInv, TypeOK
  <2> QED BY <2>1, <2>2
<1>5. /\ journal' \in Seq(Event) /\ Len(journal) <= Len(journal')
      /\ Len(journal) \in Nat /\ Len(journal') \in Nat
      /\ \A i \in 1..Len(journal) : journal'[i] = journal[i]
  <2>1. /\ journal' \in Seq(Event) /\ Len(journal) < Len(journal')
        /\ \A i \in 1..Len(journal) : journal'[i] = journal[i]
    BY <1>1 DEF Logs
  <2>2. Len(journal) \in Nat /\ Len(journal') \in Nat
    BY <2>1, Indexes, LenProperties DEF IInv
  <2> QED BY <2>1, <2>2
<1>6. /\ Commits \subseteq Commits'
      /\ \A i \in Commits' : /\ i \in 1..Len(journal')
                             /\ i <= Len(journal) => i \in Commits
      /\ \A i \in Commits : i \in 1..Len(journal) /\ journal'[i] = journal[i]
  BY <1>5, CommitsGrow DEF IInv
<1>7. ASSUME NEW i \in Commits', i \notin Commits PROVE journal'[i].proc = p
  <2>1. i \in 1..Len(journal') /\ i > Len(journal) /\ IsCommit(journal'[i])
    BY <1>5, <1>6, <1>7 DEF Commits
  <2>2. journal'[i] = CommitEvent(p, CommitBranch)
    BY <1>1, <2>1 DEF Logs
  <2> QED BY <2>2 DEF CommitEvent
<1>8. Len(journal') \in Commits' /\ Len(journal') \notin Commits
  <2>1. Len(journal) < Len(journal') /\ Len(journal') \in 1..Len(journal')
    BY <1>1, <1>5 DEF Logs
  <2>2. journal'[Len(journal')] = CommitEvent(p, CommitBranch)
    BY <1>1, <1>5, <2>1 DEF Logs
  <2>3. DOMAIN journal' = 1..Len(journal')
    BY <1>5, LenProperties
  <2>4. IsCommit(journal'[Len(journal')])
    BY <2>2 DEF IsCommit, CommitEvent
  <2>5. Len(journal') \notin 1..Len(journal)
    BY <2>1, <1>5
  <2> QED BY <2>1, <2>3, <2>4, <2>5, <1>6 DEF Commits
<1>9. ASSUME NEW i \in Commits PROVE journal[i].proc.committed \in Nat
  <2>1. journal \in Seq(Event) /\ DOMAIN journal = 1..Len(journal)
    BY Indexes DEF IInv, TypeOK
  <2>2. journal[i] \in Event /\ IsCommit(journal[i])
    BY <2>1 DEF Commits
  <2>3. journal[i].proc \in Procedure
    BY <2>2, CommitHasProcedure
  <2> QED BY <2>3 DEF Procedure
<1>10. GivenOutBy(current)'
  <2>1. \A i \in Commits : journal[i].proc.out # {} => journal[i].proc.committed <= current
    BY DEF NextIds, GivenOutBy
  <2>2. ASSUME NEW i \in Commits', journal'[i].proc.out # {}
        PROVE  journal'[i].proc.committed <= nextState
    <3>1. CASE i \in Commits
      <4>1. journal[i].proc.committed <= current /\ journal[i].proc.committed \in Nat
            /\ journal'[i] = journal[i]
        BY <3>1, <2>1, <2>2, <1>6, <1>9
      <4> QED BY <4>1, <1>4
    <3>2. CASE i \notin Commits
      BY <3>2, <1>4, <1>7
    <3> QED BY <3>1, <3>2
  <2> QED BY <1>2, <2>2 DEF GivenOutBy
<1>11. ASSUME NEW s \in 1..Len(nodes) + 1, GivenOutBy(s)'
       PROVE  Append(nodes, node)[s].next = nextId'
  <2>1. CASE s = Len(nodes) + 1
    BY <2>1, <1>4
  <2>2. CASE s # Len(nodes) + 1
    <3>1. s \in 1..Len(nodes) /\ s < nextState
      BY <2>2, <1>4
    <3>2. \A i \in Commits' : journal'[i].proc.out # {} => journal'[i].proc.committed <= s
      BY <1>11 DEF GivenOutBy
    <3>3. p.out = {}
      BY <3>1, <3>2, <1>4, <1>7, <1>8
    <3>4. GivenOutBy(s)
      BY <3>2, <1>6 DEF GivenOutBy
    <3>5. nodes[s].next = nextId
      BY <3>1, <3>4 DEF NextIds
    <3> QED BY <3>1, <3>3, <3>5, <1>3, <1>4
  <2> QED BY <2>1, <2>2
<1> QED BY <1>10, <1>11

LEMMA EditKeepsRun ==
  ASSUME IInv, LineInv, RunInv, NEW inv \in Invocation, Execute(inv)
  PROVE  RunInv'
<1>1. PICK p \in Procedure :
         /\ Appends(p) /\ Logs(p)
         /\ journal' \in Seq(Event) /\ Len(journal) <= Len(journal')
         /\ \A i \in 1..Len(journal) : journal'[i] = journal[i]
  <2>1. PICK p \in Procedure : Appends(p) /\ Logs(p)
    BY EditStep DEF IInv
  <2>2. Len(journal) \in Nat /\ Len(journal') \in Nat
    BY <2>1, Indexes, LenProperties DEF IInv, Logs
  <2> QED BY <2>1, <2>2 DEF Logs
<1>2. Len(journal') <= MaxEvents
  <2>1. PICK q \in Procedure :
          /\ journal' = journal \o CommitEvents(q)
          /\ Len(journal) + Len(CommitEvents(q)) <= MaxEvents
    BY EditLogs
  <2>2. journal \in Seq(Event) /\ CommitEvents(q) \in Seq(Event)
    <3>1. active \in Nat /\ Len(tails) + 1 \in Nat /\ current \in Nat /\ tails[active] \in Nat
          /\ journal \in Seq(Event)
      BY Indexes DEF IInv, TypeOK
    <3>2. /\ CommitEvent(q, active) \in Event /\ CommitEvent(q, Len(tails) + 1) \in Event
          /\ CutEvent(current, tails[active], Len(tails) + 1, active) \in Event
      BY <3>1 DEF Event, CommitEvent, CutEvent
    <3> QED BY <3>1, <3>2 DEF CommitEvents
  <2>3. Len(journal') = Len(journal) + Len(CommitEvents(q))
    BY <2>1, <2>2
  <2> QED BY <2>1, <2>3
<1>3. /\ Tracks(Run(FALSE))'
      /\ Run(TRUE)'.ok = FALSE \/ Tracks(Run(TRUE))'
  BY EditTracks, EditTracksOrStops, EditStaysStopped DEF RunInv
<1>4. AllocationUndone(journal) => AllocationUndone(journal')
  BY <1>1, UndoneStays DEF IInv
<1>5. ASSUME Tracks(Run(TRUE)), NextIds(Run(TRUE).nodes)
      PROVE  Tracks(Run(TRUE))' /\ NextIds(Run(TRUE).nodes)'
  <2>1. PICK nodes : nodes = Run(TRUE).nodes
    OBVIOUS
  <2>2. nodes \in Seq(Node) /\ Len(nodes) + 1 = nextState /\ Spine(history, nodes, genesis)
    BY <1>5, <2>1 DEF Tracks, ReplayState
  <2>3. current \in 1..Len(nodes)
    BY <2>2, SpineDocuments
  <2>4. nodes[current].next = nextId
    BY <1>5, <2>1, <2>3 DEF NextIds
  <2>5. PICK node : /\ Tracks(Run(TRUE))' /\ Run(TRUE)'.nodes = Append(nodes, node)
                    /\ node.next = nextId'
    <3>1. SameFrom(inv, Run(TRUE).nodes[current].next)
      BY <2>1, <2>4 DEF SameFrom
    <3>2. /\ Tracks(Run(TRUE))'
          /\ \E node : /\ Run(TRUE)'.nodes = Append(Run(TRUE).nodes, node)
                       /\ TRUE = TRUE => node.next =
                                  Result(inv, doc, Run(TRUE).nodes[current].next).next
      BY <1>5, <3>1, EditTracks
    <3>3. Result(inv, doc, Run(TRUE).nodes[current].next).next = nextId'
      BY <2>1, <2>4, EditStep DEF IInv
    <3> QED BY <3>2, <3>3, <2>1
  <2>6. /\ GivenOutBy(current)'
        /\ \A s \in 1..Len(nodes) + 1 :
              GivenOutBy(s)' => Append(nodes, node)[s].next = nextId'
    BY <1>5, <2>1, <2>2, <2>3, <2>5, EditAllocates
  <2>7. Len(Append(nodes, node)) = Len(nodes) + 1
    BY <2>2
  <2> QED BY <2>5, <2>6, <2>7 DEF NextIds
<1> QED BY <1>2, <1>3, <1>4, <1>5 DEF RunInv

LEMMA MoveKeepsRun ==
  ASSUME IInv, LineInv, RunInv, NEW kind \in {"undo", "redo", "jump"},
         NEW to \in 0..Len(history), to # cursor, MoveTo(kind, to),
         kind = "undo" => to = cursor - 1, kind = "redo" => to = cursor + 1
  PROVE  RunInv'
<1>1. LogsMove
  <2>1. history \in Seq(Entry)
    BY DEF IInv, TypeOK
  <2> QED BY <2>1, StateType, MoveStep DEF IInv
<1>2. Len(journal') <= MaxEvents
  <2>1. Len(journal) < MaxEvents /\ \E e : journal' = Append(journal, e)
    BY DEF MoveTo
  <2>2. journal \in Seq(Event) /\ Len(journal) \in Nat /\ MaxEvents \in Nat
    BY Indexes, HistoryAssumption DEF IInv, TypeOK
  <2>3. Len(journal') = Len(journal) + 1
    BY <2>1, <2>2
  <2> QED BY <2>1, <2>2, <2>3
<1>3. \A x \in BOOLEAN : Tracks(Run(x)) => Tracks(Run(x))' /\ Run(x)'.nodes = Run(x).nodes
  BY MoveTracks
<1>4. AllocationUndone(journal) => AllocationUndone(journal')
  BY <1>1, UndoneStays DEF IInv, LogsMove
<1>6. Run(TRUE).ok = FALSE => Run(TRUE)'.ok = FALSE
  <2> HAVE Run(TRUE).ok = FALSE
  <2>1. /\ journal \in Seq(Event) /\ active \in Nat /\ current \in Nat
        /\ StateAt(history, to) \in Nat
    BY Indexes, StateType DEF IInv, TypeOK
  <2>2. PICK e \in Event : journal' = Append(journal, e)
    <3>1. MoveEvent(kind, current, StateAt(history, to), active) \in Event
      BY <2>1 DEF Event, MoveEvent
    <3> QED BY <3>1 DEF MoveTo
  <2>3. Replayed(genesis, Append(journal, e), TRUE) = ReplayStep(Run(TRUE), e, TRUE)
    BY <2>1, ReplayedAppend DEF Run
  <2>4. genesis' = genesis
    BY DEF MoveTo
  <2>5. ReplayStep(Run(TRUE), e, TRUE) = Run(TRUE)
    BY StoppedStays
  <2> QED BY <2>2, <2>3, <2>4, <2>5 DEF Run
<1>5. ASSUME Tracks(Run(TRUE)), NextIds(Run(TRUE).nodes), ~ AllocationUndone(journal')
      PROVE  Tracks(Run(TRUE))' /\ NextIds(Run(TRUE).nodes)'
  <2>1. Tracks(Run(TRUE))' /\ Run(TRUE)'.nodes = Run(TRUE).nodes
    BY <1>3, <1>5
  <2>2. PICK nodes : nodes = Run(TRUE).nodes
    OBVIOUS
  <2>3. /\ GivenOutBy(current)'
        /\ \A s \in 1..Len(nodes) : GivenOutBy(s)' => nodes[s].next = nextId'
    BY <1>5, <2>2, MoveAllocates
  <2> QED BY <2>1, <2>2, <2>3 DEF NextIds
<1> QED BY <1>2, <1>3, <1>4, <1>5, <1>6 DEF RunInv

LEMMA ReleaseKeepsRun ==
  ASSUME IInv, LineInv, RunInv, ReleaseHistoryCache
  PROVE  RunInv'
<1>1. /\ Rearranges
      /\ UNCHANGED <<doc, nextId, cursor, current, nextState, journal, active, tails, genesis>>
  BY ReleaseStep DEF IInv, ReleaseHistoryCache
<1>2. /\ Len(history) \in Nat /\ Len(history') = Len(history)
      /\ \A i \in 1..Len(history) : /\ history'[i].proc = history[i].proc
                                    /\ history'[i].branch = history[i].branch
  BY <1>1, Indexes DEF Rearranges, IInv
<1>3. ASSUME NEW nodes, Spine(history, nodes, genesis) PROVE Spine(history', nodes, genesis)
  <2>1. PICK h : h = history'
    OBVIOUS
  <2> QED BY <2>1, <1>2, <1>3, SpineSame
<1>4. \A x : Run(x)' = Run(x)
  BY <1>1 DEF Run
<1>5. \A x : Tracks(Run(x)) => Tracks(Run(x))'
  BY <1>1, <1>3, <1>4 DEF Tracks
<1>6. \A s : GivenOutBy(s)' <=> GivenOutBy(s)
  BY <1>1 DEF GivenOutBy, Commits
<1>7. GivenOutBy(current)' <=> GivenOutBy(current)
  BY <1>1 DEF GivenOutBy, Commits
<1>8. NextIds(Run(TRUE).nodes) => NextIds(Run(TRUE).nodes)'
  BY <1>1, <1>4, <1>6, <1>7 DEF NextIds
<1> QED BY <1>1, <1>4, <1>5, <1>8 DEF RunInv

LEMMA NextKeepsRun == IInv /\ LineInv /\ RunInv /\ [Next]_vars => RunInv'
<1> SUFFICES ASSUME IInv, LineInv, RunInv, [Next]_vars PROVE RunInv'
  OBVIOUS
<1>1. CASE \E inv \in Invocation : Execute(inv)
  BY <1>1, EditKeepsRun
<1>2. CASE Undo \/ Redo \/ \E to \in 0..Len(history) : JumpHistory(to)
  <2>1. PICK kind \in {"undo", "redo", "jump"}, to \in 0..Len(history) :
            /\ to # cursor /\ MoveTo(kind, to)
            /\ kind = "undo" => to = cursor - 1
            /\ kind = "redo" => to = cursor + 1
    BY <1>2, MoveKinds DEF IInv
  <2> QED BY <2>1, MoveKeepsRun
<1>3. CASE ReleaseHistoryCache
  BY <1>3, ReleaseKeepsRun
<1>4. CASE NewCell
  <2>1. doc' \in Document
    BY <1>4, NewDocumentKeeps DEF IInv, TypeOK
  <2>2. nextId \in 1..MaxId /\ doc'.objects = {nextId} /\ nextId' = nextId + 1
    BY <1>4, HistoryAssumption DEF NewCell, IInv, TypeOK
  <2>3. Fresh'
    BY <1>4, <2>1, <2>2 DEF NewCell, Fresh
  <2> QED BY <2>3, NextFreshRuns
<1>5. CASE UNCHANGED vars
  BY <1>5 DEF vars, RunInv, Tracks, Run, NextIds, GivenOutBy, Commits
<1> QED BY <1>1, <1>2, <1>3, <1>4, <1>5 DEF Next

LEMMA InitRuns == Init => RunInv
<1> SUFFICES ASSUME Init PROVE RunInv
  OBVIOUS
<1>1. 1 \in 1..MaxId
  BY HistoryAssumption
<1>2. doc \in Document
  BY InitKeeps DEF IInv, TypeOK
<1>3. Fresh
  BY <1>1, <1>2 DEF Init, Fresh
<1> QED BY <1>3, FreshRuns

(* Along the recorded digests the journal rebuilds the document in every   *)
(* case, by execution unless an allocation was undone.                     *)
LEMMA RunInvariant == Spec => [](IInv /\ LineInv /\ RunInv)
<1>1. Init => LineInv /\ RunInv
  BY InitLine, InitRuns
<1>2. IInv /\ LineInv /\ RunInv /\ [Next]_vars => LineInv' /\ RunInv'
  BY NextKeepsLine, NextKeepsRun
<1> QED BY <1>1, <1>2, HistoryInvariant, PTL DEF Spec

(* The journal alone rebuilds the document, the visible history and every  *)
(* counter, whatever edits, moves, branches and released inverses led      *)
(* there, unless an allocation was undone: verify_journal_replay accepts   *)
(* every such document (journal.rs).                                       *)
THEOREM JournalRebuildsDocument == Spec => []JournalReplays
<1>1. IInv /\ LineInv /\ RunInv => JournalReplays
  BY TrackedIsVerified DEF RunInv, JournalReplays
<1> QED BY <1>1, RunInvariant, PTL

-----------------------------------------------------------------------------
(***************************************************************************)
(* What the files keep: FileSpec => []CleanMeansSaved and []SavedOpens.    *)
(*                                                                         *)
(* A file holds a state of the document (At), of which the invariants say  *)
(* what they say of the open one (Live): Sound gathers them for any state. *)
(* Only the visible history is not in the file; an open rebuilds it from   *)
(* the journal, and finds the entries that were there (RebuiltIs).         *)
(***************************************************************************)

Live == [doc |-> doc, next |-> nextId, history |-> history, cursor |-> cursor,
         current |-> current, nextState |-> nextState, journal |-> journal,
         active |-> active, tails |-> tails, genesis |-> genesis]

(* The state in a file, had it the history h. *)
At(f, h) == [doc |-> f.doc, next |-> f.next, history |-> h, cursor |-> f.cursor,
             current |-> f.current, nextState |-> f.nextState, journal |-> f.journal,
             active |-> f.active, tails |-> TailsFrom(f.journal, f.branches),
             genesis |-> f.genesis]

LineOf(st) == [k \in 1..Len(st.history) + 1 |->
                 IF k = 1 THEN st.genesis ELSE st.history[k - 1].proc.post]
CommitsOf(st) == {i \in DOMAIN st.journal : IsCommit(st.journal[i])}
Inverted(h) == \A i \in 1..Len(h) : h[i].change \in {Released, InverseOf(h[i].proc)}

Typed(st) ==
    /\ st.doc \in Document /\ st.next \in Nat \ {0} /\ st.history \in Seq(Entry)
    /\ st.cursor \in 0..Len(st.history) /\ st.current \in Nat /\ st.nextState \in Nat
    /\ st.journal \in Seq(Event) /\ st.active \in DOMAIN st.tails
    /\ st.tails \in Seq(Nat) /\ st.genesis \in Document
Ordered(st) ==
    /\ st.current = StateAt(st.history, st.cursor)
    /\ st.tails[st.active] = StateAt(st.history, Len(st.history))
    /\ \A i \in DOMAIN st.history :
          /\ st.history[i].proc.base = StateAt(st.history, i - 1)
          /\ \E j \in CommitsOf(st) :
                st.journal[j] = CommitEvent(st.history[i].proc, st.history[i].branch)
Numbered(st) ==
    /\ \A o \in st.genesis.objects \cup st.doc.objects : o < st.next
    /\ \A i \in CommitsOf(st) : \A o \in st.journal[i].proc.out :
          /\ o < st.next
          /\ o \notin st.genesis.objects
          /\ \A j \in CommitsOf(st) : j # i => o \notin st.journal[j].proc.out
KnownIds(st) ==
    \A i \in 1..Len(st.history) :
        \A o \in st.history[i].proc.pre.objects \cup st.history[i].proc.post.objects :
            o < st.next
Lined(st) ==
    /\ \A i \in 1..Len(st.history) : st.history[i].proc.pre = LineOf(st)[i]
    /\ st.doc = LineOf(st)[st.cursor + 1]
    /\ \A a, b \in 0..Len(st.history) :
          a < b /\ Wholes(st.history, a, b) = {} =>
             LineOf(st)[a + 1].objects = LineOf(st)[b + 1].objects
RunOf(st, x) == Replayed(st.genesis, st.journal, x)
TracksOf(r, st) ==
    /\ r \in ReplayState
    /\ r.ok = TRUE /\ r.cut = FALSE
    /\ r.current = st.current /\ r.active = st.active /\ r.tails = st.tails
    /\ Len(r.nodes) + 1 = st.nextState
    /\ Spine(st.history, r.nodes, st.genesis)
Replays(st) ==
    /\ Len(st.journal) <= MaxEvents
    /\ TracksOf(RunOf(st, FALSE), st)
    /\ RunOf(st, TRUE).ok = FALSE \/ TracksOf(RunOf(st, TRUE), st)
Sound(st) ==
    /\ Typed(st) /\ Inverted(st.history) /\ Ordered(st) /\ Numbered(st) /\ KnownIds(st)
    /\ Lined(st) /\ Replays(st)

GivenOut(st, s) ==
    \A i \in CommitsOf(st) : st.journal[i].proc.out # {} => st.journal[i].proc.committed <= s
Executes(st) ==
    /\ TracksOf(RunOf(st, TRUE), st)
    /\ GivenOut(st, st.current)
    /\ \A s \in 1..Len(RunOf(st, TRUE).nodes) :
          GivenOut(st, s) => RunOf(st, TRUE).nodes[s].next = st.next

(* The tails are what an open computes from the journal. *)
TailsLogged == tails = TailsFrom(journal, Len(tails))

LiveInv == IInv /\ LineInv /\ RunInv /\ TailsLogged

LEMMA LiveFields ==
  /\ Live.doc = doc /\ Live.next = nextId /\ Live.history = history /\ Live.cursor = cursor
  /\ Live.current = current /\ Live.nextState = nextState /\ Live.journal = journal
  /\ Live.active = active /\ Live.tails = tails /\ Live.genesis = genesis
BY DEF Live

LEMMA LiveSound ==
  /\ Sound(Live) <=> /\ IInv /\ LineInv /\ Len(journal) <= MaxEvents /\ Tracks(Run(FALSE))
                     /\ Run(TRUE).ok = FALSE \/ Tracks(Run(TRUE))
  /\ Executes(Live) <=> Tracks(Run(TRUE)) /\ NextIds(Run(TRUE).nodes)
<1> DEFINE st == Live
<1>1. /\ st.doc = doc /\ st.next = nextId /\ st.history = history /\ st.cursor = cursor
      /\ st.current = current /\ st.nextState = nextState /\ st.journal = journal
      /\ st.active = active /\ st.tails = tails /\ st.genesis = genesis
  BY LiveFields
<1> HIDE DEF st
<1>2. Typed(st) <=> TypeOK
  BY <1>1 DEF Typed, TypeOK
<1>3. CommitsOf(st) = Commits /\ LineOf(st) = Line
  BY <1>1 DEF CommitsOf, Commits, LineOf, Line
<1>4. Inverted(st.history) <=> Inverses
  BY <1>1 DEF Inverted, Inverses
<1>5. Ordered(st) <=> HistoryIsBranch
  BY <1>1, <1>3 DEF Ordered, HistoryIsBranch
<1>6. Numbered(st) <=> IdsNeverReused
  BY <1>1, <1>3 DEF Numbered, IdsNeverReused
<1>7. KnownIds(st) <=> IdsKnown
  BY <1>1 DEF KnownIds, IdsKnown
<1>8. Lined(st) <=> LineInv
  BY <1>1, <1>3 DEF Lined, LineInv, Chain, Shown, Parts
<1>9. \A x : RunOf(st, x) = Run(x)
  BY <1>1 DEF RunOf, Run
<1>10. \A r : TracksOf(r, st) <=> Tracks(r)
  BY <1>1 DEF TracksOf, Tracks
<1>11. \A s : GivenOut(st, s) <=> GivenOutBy(s)
  BY <1>1, <1>3 DEF GivenOut, GivenOutBy
<1>12. Executes(st) <=> Tracks(Run(TRUE)) /\ NextIds(Run(TRUE).nodes)
  BY <1>1, <1>9, <1>10, <1>11 DEF Executes, NextIds
<1>13. Replays(st) <=> /\ Len(journal) <= MaxEvents /\ Tracks(Run(FALSE))
                       /\ Run(TRUE).ok = FALSE \/ Tracks(Run(TRUE))
  BY <1>1, <1>9, <1>10 DEF Replays
<1>14. Sound(st) <=> IInv /\ LineInv /\ Replays(st)
  BY <1>2, <1>4, <1>5, <1>6, <1>7, <1>8 DEF Sound, IInv
<1> QED BY <1>12, <1>13, <1>14 DEF st

(* The invariants of the open document, said of its state. *)
LEMMA LiveIs ==
  LiveInv <=> /\ Sound(Live) /\ TailsLogged
              /\ AllocationUndone(journal) \/ Executes(Live)
BY LiveSound DEF LiveInv, RunInv
LEMMA NextLiveIs ==
  (LiveInv <=> /\ Sound(Live) /\ TailsLogged
               /\ AllocationUndone(journal) \/ Executes(Live))'
BY LiveIs, PTL

(* The tail of a branch is where its last event left it. *)
Latest(S) == CHOOSE i \in S : \A j \in S : j <= i
About(log, b) == {i \in DOMAIN log : log[i].event # "move" /\ log[i].branch = b}
LeftAt(e) == IF IsCommit(e) THEN e.proc.committed ELSE e.fork
TailOf(log, b) == IF About(log, b) = {} THEN Genesis ELSE LeftAt(log[Latest(About(log, b))])

LEMMA TailsAre ==
  ASSUME NEW log, NEW n
  PROVE  TailsFrom(log, n) = [b \in 1..n |-> TailOf(log, b)]
BY DEF TailsFrom, TailOf, About, Latest, LeftAt

LEMMA LatestIs ==
  ASSUME NEW n \in Nat, NEW S \in SUBSET (1..n), S # {}
  PROVE  Latest(S) \in S /\ \A i \in S : i <= Latest(S)
<1>1. \E i \in S : \A j \in S : j <= i
  <2>1. 1 \in Nat
    OBVIOUS
  <2> QED BY <2>1, GreatestExists
<1> QED BY <1>1 DEF Latest

LEMMA TailOfAppend ==
  ASSUME NEW j \in Seq(Event), NEW e \in Event, NEW b
  PROVE  TailOf(Append(j, e), b) =
           IF e.event = "move" \/ e.branch # b THEN TailOf(j, b) ELSE LeftAt(e)
<1> DEFINE k == Append(j, e)
           n == Len(j)
<1>1. /\ n \in Nat /\ Len(k) = n + 1 /\ DOMAIN j = 1..n /\ DOMAIN k = 1..n + 1
      /\ (\A i \in 1..n : k[i] = j[i]) /\ k[n + 1] = e
  OBVIOUS
<1> HIDE DEF k, n
<1>2. About(j, b) \in SUBSET (1..n) /\ About(k, b) \in SUBSET (1..n + 1) /\ n + 1 \in Nat
  BY <1>1 DEF About
<1>3. CASE e.event = "move" \/ e.branch # b
  <2>1. About(k, b) = About(j, b)
    <3>1. \A i : i \in 1..n + 1 <=> i \in 1..n \/ i = n + 1
      BY <1>1
    <3>2. n + 1 \notin 1..n
      BY <1>1
    <3> QED BY <1>1, <1>3, <3>1, <3>2 DEF About
  <2>2. CASE About(j, b) = {}
    <3>1. TailOf(j, b) = Genesis /\ TailOf(k, b) = Genesis
      BY <2>1, <2>2 DEF TailOf
    <3> QED BY <3>1, <1>3 DEF k
  <2>3. CASE About(j, b) # {}
    <3>1. Latest(About(j, b)) \in 1..n
      BY <1>1, <1>2, <2>3, LatestIs
    <3>2. k[Latest(About(j, b))] = j[Latest(About(j, b))]
      BY <1>1, <3>1
    <3>3. TailOf(k, b) = TailOf(j, b)
      BY <2>1, <2>3, <3>2 DEF TailOf
    <3> QED BY <1>3, <3>3 DEF k
  <2> QED BY <2>2, <2>3
<1>4. CASE ~ (e.event = "move" \/ e.branch # b)
  <2>1. n + 1 \in About(k, b)
    BY <1>1, <1>4 DEF About
  <2>2. Latest(About(k, b)) \in 1..n + 1 /\ n + 1 <= Latest(About(k, b))
    BY <1>2, <2>1, LatestIs
  <2>3. Latest(About(k, b)) = n + 1
    BY <1>1, <2>2
  <2>4. TailOf(k, b) = LeftAt(e)
    BY <1>1, <2>1, <2>3 DEF TailOf
  <2> QED BY <1>4, <2>4 DEF k
<1> QED BY <1>3, <1>4

LEMMA TailsPoints ==
  ASSUME NEW tls \in Seq(Nat), NEW log
  PROVE  tls = TailsFrom(log, Len(tls)) <=> \A b \in 1..Len(tls) : tls[b] = TailOf(log, b)
<1>1. tls = [b \in 1..Len(tls) |-> tls[b]]
  OBVIOUS
<1>2. PICK n : n = Len(tls)
  OBVIOUS
<1>3. TailsFrom(log, n) = [b \in 1..n |-> TailOf(log, b)]
  BY TailsAre
<1> QED BY <1>1, <1>2, <1>3

LEMMA NoTails == TailsFrom(<<>>, 1) = <<Genesis>>
<1>1. \A b : TailOf(<<>>, b) = Genesis
  BY DEF TailOf, About
<1>2. PICK tls : tls = <<Genesis>>
  OBVIOUS
<1>3. tls \in Seq(Nat) /\ Len(tls) = 1 /\ tls[1] = Genesis
  BY <1>2 DEF Genesis
<1>4. \A b \in 1..Len(tls) : tls[b] = TailOf(<<>>, b)
  BY <1>1, <1>3
<1>5. tls = TailsFrom(<<>>, Len(tls))
  BY <1>3, <1>4, TailsPoints
<1> QED BY <1>2, <1>3, <1>5

LEMMA EditKeepsTails ==
  ASSUME IInv, TailsLogged, NEW inv \in Invocation, Execute(inv)
  PROVE  TailsLogged'
<1>1. PICK p \in Procedure : journal' = journal \o CommitEvents(p) /\ p.committed = nextState
  BY EditLogs DEF Appends
<1>2. tails' = CommittedTails(nextState) /\ tails' \in Seq(Nat)
  BY EditStep, EditKeeps DEF IInv, TypeOK
<1>3. /\ journal \in Seq(Event) /\ tails \in Seq(Nat) /\ active \in 1..Len(tails)
      /\ Len(tails) \in Nat /\ nextState \in Nat /\ current \in Nat /\ tails[active] \in Nat
  BY Indexes DEF IInv, TypeOK
<1> DEFINE commit == CommitEvent(p, CommitBranch)
           cut == CutEvent(current, tails[active], Len(tails) + 1, active)
<1>4. CommitBranch \in Nat /\ (Forks => CommitBranch = Len(tails) + 1)
      /\ (~ Forks => CommitBranch = active)
  BY <1>3 DEF CommitBranch
<1>5. commit \in Event /\ cut \in Event
  BY <1>3, <1>4 DEF Event, CommitEvent, CutEvent
<1>6. /\ commit.event = "commit" /\ commit.branch = CommitBranch /\ LeftAt(commit) = nextState
      /\ cut.branch = Len(tails) + 1
  BY <1>1 DEF CommitEvent, CutEvent, LeftAt, IsCommit
<1>7. CommitEvents(p) = IF Forks THEN <<cut, commit>> ELSE <<commit>>
  BY DEF CommitEvents, CommitBranch
<1> HIDE DEF commit, cut
<1>8. \A b \in 1..Len(tails) : tails[b] = TailOf(journal, b)
  BY <1>3, TailsPoints DEF TailsLogged
<1>9. \A b \in 1..Len(tails') : tails'[b] = TailOf(journal', b)
  <2>1. CASE ~ Forks
    <3>1. journal' = Append(journal, commit)
      BY <1>1, <1>3, <1>5, <1>7, <2>1, ConcatOne
    <3>2. tails' = [tails EXCEPT ![active] = nextState]
      BY <1>2, <2>1 DEF CommittedTails
    <3>3. \A b : TailOf(Append(journal, commit), b) =
                   IF b # active THEN TailOf(journal, b) ELSE nextState
      BY <1>3, <1>4, <1>5, <1>6, <2>1, TailOfAppend
    <3> QED BY <1>3, <1>8, <3>1, <3>2, <3>3
  <2>2. CASE Forks
    <3> DEFINE log == Append(journal, cut)
    <3>1. log \in Seq(Event)
      BY <1>3, <1>5
    <3>2. journal' = Append(log, commit)
      BY <1>1, <1>3, <1>5, <1>7, <2>2, ConcatTwo
    <3>3. tails' = Append(tails, nextState)
      BY <1>2, <2>2 DEF CommittedTails
    <3>4. \A b : b # Len(tails) + 1 => TailOf(log, b) = TailOf(journal, b)
      BY <1>3, <1>5, <1>6, TailOfAppend
    <3> HIDE DEF log
    <3>5. \A b : TailOf(Append(log, commit), b) =
                   IF b # Len(tails) + 1 THEN TailOf(log, b) ELSE nextState
      BY <3>1, <1>4, <1>5, <1>6, <2>2, TailOfAppend
    <3>6. Len(tails') = Len(tails) + 1 /\ tails'[Len(tails) + 1] = nextState
          /\ \A b \in 1..Len(tails) : tails'[b] = tails[b]
      BY <1>3, <3>3
    <3>7. \A n \in Nat : \A b \in 1..n + 1 : b = n + 1 \/ (b \in 1..n /\ b # n + 1)
      OBVIOUS
    <3>8. \A b \in 1..Len(tails') : b = Len(tails) + 1
                                    \/ (b \in 1..Len(tails) /\ b # Len(tails) + 1)
      BY <1>3, <3>6, <3>7
    <3> QED BY <1>8, <3>2, <3>4, <3>5, <3>6, <3>8
  <2> QED BY <2>1, <2>2
<1>10. PICK tls \in Seq(Nat) : tls = tails'
  BY <1>2
<1>11. tls = TailsFrom(journal', Len(tls))
  BY <1>9, <1>10, TailsPoints
<1> QED BY <1>10, <1>11 DEF TailsLogged

LEMMA MoveKeepsTails ==
  ASSUME IInv, TailsLogged, NEW e \in Event, e.event = "move",
         journal' = Append(journal, e), tails' = tails
  PROVE  TailsLogged'
<1>1. journal \in Seq(Event) /\ tails \in Seq(Nat)
  BY DEF IInv, TypeOK
<1>2. \A b \in 1..Len(tails) : tails[b] = TailOf(journal, b)
  BY <1>1, TailsPoints DEF TailsLogged
<1>3. \A b : TailOf(Append(journal, e), b) = TailOf(journal, b)
  BY <1>1, TailOfAppend
<1>4. tails = TailsFrom(Append(journal, e), Len(tails))
  BY <1>1, <1>2, <1>3, TailsPoints
<1> QED BY <1>4 DEF TailsLogged

LEMMA NextKeepsTails == IInv /\ TailsLogged /\ [Next]_vars => TailsLogged'
<1> SUFFICES ASSUME IInv, TailsLogged, [Next]_vars PROVE TailsLogged'
  OBVIOUS
<1>1. CASE \E inv \in Invocation : Execute(inv)
  BY <1>1, EditKeepsTails
<1>2. CASE Undo \/ Redo \/ \E to \in 0..Len(history) : JumpHistory(to)
  <2>1. PICK kind \in {"undo", "redo", "jump"}, to \in 0..Len(history) : MoveTo(kind, to)
    BY <1>2, MoveKinds DEF IInv
  <2>2. /\ active \in Nat /\ current \in Nat /\ StateAt(history, to) \in Nat
    BY Indexes, StateType DEF IInv, TypeOK
  <2> DEFINE e == MoveEvent(kind, current, StateAt(history, to), active)
  <2>3. e \in Event /\ e.event = "move"
    BY <2>2 DEF Event, MoveEvent
  <2>4. journal' = Append(journal, e) /\ tails' = tails
    BY <2>1 DEF MoveTo
  <2> HIDE DEF e
  <2> QED BY <2>3, <2>4, MoveKeepsTails
<1>3. CASE ReleaseHistoryCache
  BY <1>3 DEF ReleaseHistoryCache, TailsLogged
<1>4. CASE NewCell
  <2>1. journal' = <<>> /\ tails' = <<Genesis>>
    BY <1>4 DEF NewCell
  <2>2. Len(tails') = 1
    BY <2>1
  <2> QED BY <2>1, <2>2, NoTails DEF TailsLogged
<1>5. CASE UNCHANGED vars
  BY <1>5 DEF vars, TailsLogged
<1> QED BY <1>1, <1>2, <1>3, <1>4, <1>5 DEF Next

-----------------------------------------------------------------------------
(* An open rebuilds the visible history from the nodes of a replay. *)

LEMMA SpinePath ==
  ASSUME NEW r, NEW h \in Seq(Entry), NEW g, Spine(h, r.nodes, g),
         r.tails[r.active] = StateAt(h, Len(h))
  PROVE  BranchPath(r) = StatesOf(h, Len(h))
<1>1. Len(h) \in 0..Len(h) /\ Len(h) \in Nat
  OBVIOUS
<1>2. PICK n : n = Len(h)
  OBVIOUS
<1>3. Ancestors(r.nodes, StateAt(h, n)) = {Genesis} \cup StatesOf(h, n)
  BY <1>1, <1>2, SpineAncestors
<1>4. \A k \in 1..n : StateAt(h, k) # 1
  <2>1. PICK m : m = Len(r.nodes)
    OBVIOUS
  <2>2. m \in Nat /\ \A k \in 1..n : StateAt(h, k) \in 2..m
    BY <1>2, <2>1 DEF Spine, Rooted
  <2> QED BY <2>2
<1>5. Genesis \notin StatesOf(h, n)
  BY <1>4 DEF StatesOf, Genesis
<1>6. BranchPath(r) = ({Genesis} \cup StatesOf(h, n)) \ {Genesis}
  BY <1>2, <1>3 DEF BranchPath
<1> QED BY <1>2, <1>5, <1>6

(* The same commits, with inverses that are the entries' own. *)
SameEntries(h, k) ==
    /\ k \in Seq(Entry) /\ Len(k) = Len(h) /\ Inverted(k)
    /\ \A i \in 1..Len(h) : k[i].proc = h[i].proc /\ k[i].branch = h[i].branch

LEMMA RebuiltIs ==
  ASSUME NEW f, NEW r, NEW h \in Seq(Entry), NEW g, Spine(h, r.nodes, g),
         r.tails[r.active] = StateAt(h, Len(h))
  PROVE  SameEntries(h, RebuiltHistory(f, r))
<1> DEFINE states == StatesOf(h, Len(h))
<1>1. BranchPath(r) = states
  BY SpinePath
<1>2. Len(h) \in Nat /\ Climbs(h)
  BY DEF Spine
<1>3. Cardinality(states) = Len(h)
  <2>1. Len(h) \in 0..Len(h)
    BY <1>2
  <2> QED BY <1>2, <2>1, CountStates
<1>4. \A i \in 1..Len(h) : (CHOOSE s \in states : Place(states, s) = i) = StateAt(h, i)
  <2> TAKE i \in 1..Len(h)
  <2>1. StateAt(h, i) \in states
    BY DEF StatesOf
  <2>2. \A s \in states : Place(states, s) = i => s = StateAt(h, i)
    <3> SUFFICES ASSUME NEW s \in states, Place(states, s) = i PROVE s = StateAt(h, i)
      OBVIOUS
    <3>1. PICK l \in 1..Len(h) : s = StateAt(h, l)
      BY DEF StatesOf
    <3>2. l \in 0..Len(h)
      BY <1>2
    <3>3. Place(states, s) = l
      BY <1>2, <3>1, <3>2, PlaceOfState
    <3> QED BY <3>1, <3>3
  <2>3. Place(states, StateAt(h, i)) = i
    <3>1. i \in 0..Len(h)
      BY <1>2
    <3> QED BY <1>2, <3>1, PlaceOfState
  <2> HIDE DEF states
  <2> QED BY <2>1, <2>2, <2>3
<1>5. \A i \in 1..Len(h) : /\ r.nodes[StateAt(h, i)].proc[1] = h[i].proc
                           /\ r.nodes[StateAt(h, i)].branch = h[i].branch
  BY DEF Spine, Holds
<1> DEFINE entry(i) ==
             [proc |-> h[i].proc, branch |-> h[i].branch,
              change |-> IF f.checkpoint THEN Released ELSE InverseOf(h[i].proc)]
<1>6. RebuiltHistory(f, r) = [i \in 1..Len(h) |-> entry(i)]
  <2> DEFINE at(i) == CHOOSE s \in states : Place(states, s) = i
  <2>1. RebuiltHistory(f, r) =
          [i \in 1..Len(h) |->
             [proc |-> r.nodes[at(i)].proc[1], branch |-> r.nodes[at(i)].branch,
              change |-> IF f.checkpoint THEN Released
                         ELSE InverseOf(r.nodes[at(i)].proc[1])]]
    <3> HIDE DEF states
    <3> QED BY <1>1, <1>3 DEF RebuiltHistory, InverseOf
  <2>2. \A i \in 1..Len(h) : at(i) = StateAt(h, i)
    BY <1>4
  <2> HIDE DEF at
  <2> QED BY <1>5, <2>1, <2>2
<1>7. \A i \in 1..Len(h) : entry(i) \in Entry
  <2> TAKE i \in 1..Len(h)
  <2>1. h[i].proc \in Procedure /\ h[i].branch \in Nat
    <3>1. h[i] \in Entry
      BY ElementOfSeq
    <3> QED BY <3>1 DEF Entry
  <2>2. InverseOf(h[i].proc) \in Change
    BY <2>1 DEF InverseOf, Change, Procedure
  <2> QED BY <2>1, <2>2 DEF Entry
<1>8. \A i \in 1..Len(h) : /\ entry(i).proc = h[i].proc /\ entry(i).branch = h[i].branch
                           /\ entry(i).change \in {Released, InverseOf(h[i].proc)}
  OBVIOUS
<1> HIDE DEF entry, states
<1>9. [i \in 1..Len(h) |-> entry(i)] \in [1..Len(h) -> Entry]
  BY <1>7
<1>10. PICK k : k = RebuiltHistory(f, r)
  OBVIOUS
<1>11. k \in Seq(Entry) /\ Len(k) = Len(h)
  BY <1>2, <1>6, <1>9, <1>10, FunctionIsSeq
<1>12. \A i \in 1..Len(h) : k[i] = entry(i)
  BY <1>6, <1>10
<1> QED BY <1>8, <1>10, <1>11, <1>12 DEF SameEntries, Inverted

LEMMA AtFields ==
  ASSUME NEW f, NEW h
  PROVE  /\ At(f, h).doc = f.doc /\ At(f, h).next = f.next /\ At(f, h).history = h
         /\ At(f, h).cursor = f.cursor /\ At(f, h).current = f.current
         /\ At(f, h).nextState = f.nextState /\ At(f, h).journal = f.journal
         /\ At(f, h).active = f.active /\ At(f, h).genesis = f.genesis
         /\ At(f, h).tails = TailsFrom(f.journal, f.branches)
BY DEF At

(* What is known of a state does not depend on which inverses are kept. *)
LEMMA SameEntriesSound ==
  ASSUME NEW f, NEW h, NEW k, Sound(At(f, h)), SameEntries(h, k)
  PROVE  Sound(At(f, k)) /\ (Executes(At(f, h)) => Executes(At(f, k)))
<1>1. PICK a, b : a = At(f, h) /\ b = At(f, k)
  OBVIOUS
<1>2. /\ a.history = h /\ b.history = k
      /\ a.doc = b.doc /\ a.next = b.next /\ a.cursor = b.cursor /\ a.current = b.current
      /\ a.nextState = b.nextState /\ a.journal = b.journal /\ a.active = b.active
      /\ a.tails = b.tails /\ a.genesis = b.genesis
  BY <1>1, AtFields
<1>3. Sound(a)
  BY <1>1
<1>4. /\ h \in Seq(Entry) /\ k \in Seq(Entry) /\ Len(h) \in Nat /\ Len(k) = Len(h)
      /\ DOMAIN h = 1..Len(h) /\ DOMAIN k = 1..Len(h)
      /\ \A i \in 1..Len(h) : k[i].proc = h[i].proc /\ k[i].branch = h[i].branch
  BY <1>2, <1>3, LenProperties DEF Sound, Typed, SameEntries
<1>5. \A i \in 0..Len(h) : StateAt(k, i) = StateAt(h, i)
  <2>1. \A i \in 0..Len(h) : i # 0 => i \in 1..Len(h)
    BY <1>4
  <2> QED BY <1>4, <2>1 DEF StateAt
<1>6. \A nodes, g : Spine(h, nodes, g) => Spine(k, nodes, g)
  BY <1>4, SpineSame
<1>7. Typed(b)
  BY <1>2, <1>3, <1>4 DEF Sound, Typed
<1>8. Inverted(b.history)
  BY <1>2 DEF SameEntries
<1>9. CommitsOf(b) = CommitsOf(a) /\ LineOf(b) = LineOf(a)
  <2>1. CommitsOf(b) = CommitsOf(a)
    BY <1>2 DEF CommitsOf
  <2>2. \A i \in 1..Len(h) + 1 : i # 1 => i - 1 \in 1..Len(h)
    BY <1>4
  <2> QED BY <2>1, <2>2, <1>2, <1>4 DEF LineOf
<1>10. Ordered(b)
  <2>1. a.cursor \in 0..Len(h) /\ Len(h) \in 0..Len(h)
        /\ \A i \in 1..Len(h) : i - 1 \in 0..Len(h)
    BY <1>2, <1>3, <1>4 DEF Sound, Typed
  <2> QED BY <1>2, <1>3, <1>4, <1>5, <1>9, <2>1 DEF Sound, Ordered
<1>11. Numbered(b)
  BY <1>2, <1>3, <1>9 DEF Sound, Numbered
<1>12. KnownIds(b)
  BY <1>2, <1>3, <1>4 DEF Sound, KnownIds
<1>13. Lined(b)
  <2>1. \A low, high \in 0..Len(h) : Wholes(k, low, high) = Wholes(h, low, high)
    <3> SUFFICES ASSUME NEW low \in 0..Len(h), NEW high \in 0..Len(h)
                 PROVE  Wholes(k, low, high) = Wholes(h, low, high)
      OBVIOUS
    <3>1. \A i \in low + 1..high : i \in 1..Len(h)
      BY <1>4
    <3> QED BY <1>4, <3>1 DEF Wholes
  <2> QED BY <1>2, <1>3, <1>4, <1>9, <2>1 DEF Sound, Lined
<1>14. \A r : TracksOf(r, a) => TracksOf(r, b)
  BY <1>2, <1>6 DEF TracksOf
<1>15. \A x : RunOf(b, x) = RunOf(a, x)
  BY <1>2 DEF RunOf
<1>16. Replays(b)
  BY <1>2, <1>3, <1>14, <1>15 DEF Sound, Replays
<1>17. Sound(b)
  BY <1>7, <1>8, <1>10, <1>11, <1>12, <1>13, <1>16 DEF Sound
<1>18. Executes(a) => Executes(b)
  BY <1>2, <1>9, <1>14, <1>15 DEF Executes, GivenOut
<1> QED BY <1>1, <1>17, <1>18

-----------------------------------------------------------------------------
(* Opening a file. *)

(* A file holds a sound state.  It was written after a verification, which *)
(* found that its journal executes unless an allocation was undone; a      *)
(* compacted copy is taken for what it is by the open alone.               *)
FileSound(f) ==
    /\ f.branches \in Nat /\ f.checkpoint \in BOOLEAN
    /\ \E h : /\ Sound(At(f, h))
              /\ \/ f.journal = <<>> /\ f.checkpoint = FALSE
                 \/ AllocationUndone(f.journal)
                 \/ Executes(At(f, h))

LEMMA OpenedTracks ==
  ASSUME NEW f, f.checkpoint \in BOOLEAN, NEW h, Sound(At(f, h)), Opens(f)
  PROVE  TracksOf(Rebuilt(f), At(f, h))
<1>1. PICK a : a = At(f, h)
  OBVIOUS
<1>2. a.genesis = f.genesis /\ a.journal = f.journal
  BY <1>1, AtFields
<1>3. Rebuilt(f).ok
  BY DEF Opens, Rebuilds
<1>4. Replays(a)
  BY <1>1 DEF Sound
<1>5. CASE f.checkpoint = TRUE
  <2>1. Rebuilt(f) = RunOf(a, FALSE)
    BY <1>2, <1>5 DEF Rebuilt, RunOf
  <2> QED BY <1>1, <1>4, <2>1 DEF Replays
<1>6. CASE f.checkpoint = FALSE
  <2>1. Rebuilt(f) = RunOf(a, TRUE)
    BY <1>2, <1>6 DEF Rebuilt, RunOf
  <2> QED BY <1>1, <1>3, <1>4, <2>1 DEF Replays
<1> QED BY <1>5, <1>6

(* A file without a journal executes if it opens. *)
LEMMA OpenedExecutes ==
  ASSUME NEW f, f.journal = <<>>, f.checkpoint = FALSE, NEW h, Sound(At(f, h)), Opens(f)
  PROVE  Executes(At(f, h))
<1>1. PICK a : a = At(f, h)
  OBVIOUS
<1>2. a.genesis = f.genesis /\ a.journal = <<>> /\ a.next = f.next /\ a.current = f.current
  BY <1>1, AtFields
<1>3. PICK r : r = Rebuilt(f)
  OBVIOUS
<1>4. RunOf(a, TRUE) = r /\ TracksOf(r, a)
  <2>1. f.checkpoint \in BOOLEAN
    OBVIOUS
  <2>2. TracksOf(r, a)
    BY <1>1, <1>3, <2>1, OpenedTracks
  <2> QED BY <1>2, <1>3, <2>2 DEF Rebuilt, RunOf
<1>5. r = ReplayStart(f.genesis)
  BY <1>2, <1>4, ReplayedEmpty DEF RunOf
<1>6. Len(r.nodes) = 1 /\ r.current = 1
  BY <1>5 DEF ReplayStart, Genesis
<1>7. r.nodes[r.current].next = f.next
  BY <1>3 DEF Opens, RebuiltNext
<1>8. CommitsOf(a) = {}
  BY <1>2 DEF CommitsOf
<1>9. \A s \in 1..Len(r.nodes) : s = 1
  BY <1>6
<1>10. Executes(a)
  BY <1>2, <1>4, <1>6, <1>7, <1>8, <1>9 DEF Executes, GivenOut
<1> QED BY <1>1, <1>10

LEMMA OpenKeepsLive ==
  ASSUME NEW f, FileSound(f), Adopt(f)
  PROVE  LiveInv'
<1>1. f.branches \in Nat /\ f.checkpoint \in BOOLEAN /\ Opens(f)
  BY DEF FileSound, Adopt
<1>2. PICK h : /\ Sound(At(f, h))
               /\ \/ f.journal = <<>> /\ f.checkpoint = FALSE
                  \/ AllocationUndone(f.journal)
                  \/ Executes(At(f, h))
  BY DEF FileSound
<1>3. AllocationUndone(f.journal) \/ Executes(At(f, h))
  BY <1>1, <1>2, OpenedExecutes
<1>4. PICK r : r = Rebuilt(f)
  OBVIOUS
<1>5. PICK k : k = RebuiltHistory(f, r)
  OBVIOUS
<1>6. SameEntries(h, k)
  <2>1. PICK a : a = At(f, h)
    OBVIOUS
  <2>2. a.history = h
    BY <2>1, AtFields
  <2>3. h \in Seq(Entry) /\ a.tails[a.active] = StateAt(h, Len(h))
    BY <1>2, <2>1, <2>2 DEF Sound, Typed, Ordered
  <2>4. TracksOf(r, a)
    BY <1>1, <1>2, <1>4, <2>1, OpenedTracks
  <2>5. Spine(h, r.nodes, a.genesis) /\ r.tails[r.active] = StateAt(h, Len(h))
    BY <2>2, <2>3, <2>4 DEF TracksOf
  <2> QED BY <1>5, <2>3, <2>5, RebuiltIs
<1>7. Sound(At(f, k)) /\ (Executes(At(f, h)) => Executes(At(f, k)))
  BY <1>2, <1>6, SameEntriesSound
<1>8. Live' = At(f, k)
  BY <1>4, <1>5 DEF Adopt, Live, At
<1>9. Sound(Live)'
  BY <1>7, <1>8
<1>10. (AllocationUndone(journal) \/ Executes(Live))'
  <2>1. journal' = f.journal
    BY DEF Adopt
  <2> QED BY <1>3, <1>7, <1>8, <2>1
<1>11. TailsLogged'
  <2>1. tails' = TailsFrom(f.journal, f.branches) /\ journal' = f.journal
    BY DEF Adopt
  <2>2. tails' \in Seq(Nat)
    <3>1. At(f, k).tails \in Seq(Nat) /\ At(f, k).tails = tails'
      BY <1>7, <2>1, AtFields DEF Sound, Typed
    <3> QED BY <3>1
  <2>3. Len(tails') = f.branches
    <3>1. DOMAIN tails' = 1..f.branches
      BY <2>1 DEF TailsFrom
    <3> QED BY <1>1, <2>2, <3>1
  <2> QED BY <2>1, <2>3 DEF TailsLogged
<1> QED BY <1>9, <1>10, <1>11, NextLiveIs

-----------------------------------------------------------------------------
(* Writing a file. *)

LEMMA WrittenFields ==
  ASSUME NEW sp, NEW due
  PROVE  LET f == Written(sp, due)
         IN  /\ f.genesis = genesis /\ f.journal = journal /\ f.doc = doc
             /\ f.current = current /\ f.cursor = cursor /\ f.active = active
             /\ f.savepoint = sp /\ f.next = nextId /\ f.nextState = nextState
             /\ f.branches = Len(tails) /\ f.checkpoint = due
BY DEF Written

LEMMA WrittenSound ==
  ASSUME LiveInv, NEW sp, NEW due \in BOOLEAN
  PROVE  FileSound(Written(sp, due))
<1>1. PICK f : f = Written(sp, due)
  OBVIOUS
<1>2. /\ f.genesis = genesis /\ f.journal = journal /\ f.doc = doc
      /\ f.current = current /\ f.cursor = cursor /\ f.active = active
      /\ f.next = nextId /\ f.nextState = nextState
      /\ f.branches = Len(tails) /\ f.checkpoint = due
  BY <1>1, WrittenFields
<1>3. TailsFrom(f.journal, f.branches) = tails
  BY <1>2 DEF LiveInv, TailsLogged
<1>4. At(f, history) = Live
  BY <1>2, <1>3 DEF At, Live
<1>5. Sound(Live) /\ (AllocationUndone(journal) \/ Executes(Live))
  BY LiveIs
<1>6. Len(tails) \in Nat
  BY Indexes DEF LiveInv, IInv
<1>7. FileSound(f)
  BY <1>2, <1>4, <1>5, <1>6 DEF FileSound
<1> QED BY <1>1, <1>7

LEMMA WrittenOpens ==
  ASSUME LiveInv, NEW sp \in 0..Len(Run(FALSE).nodes), NEW due \in BOOLEAN,
         ~ AllocationUndone(journal)
  PROVE  Opens(Written(sp, due))
<1>1. PICK f : f = Written(sp, due)
  OBVIOUS
<1>2. /\ f.genesis = genesis /\ f.journal = journal /\ f.doc = doc
      /\ f.current = current /\ f.cursor = cursor /\ f.active = active
      /\ f.savepoint = sp /\ f.next = nextId /\ f.nextState = nextState
      /\ f.branches = Len(tails) /\ f.checkpoint = due
  BY <1>1, WrittenFields
<1>3. TailsFrom(f.journal, f.branches) = tails
  BY <1>2 DEF LiveInv, TailsLogged
<1>4. Tracks(Run(FALSE)) /\ Tracks(Run(TRUE)) /\ NextIds(Run(TRUE).nodes)
      /\ Len(journal) <= MaxEvents
  BY DEF LiveInv, RunInv
<1>5. PICK r : r = Rebuilt(f)
  OBVIOUS
<1>6. Tracks(r) /\ (due = FALSE => NextIds(r.nodes))
  <2>1. CASE due = TRUE
    <3>1. r = Run(FALSE)
      BY <1>2, <1>5, <2>1 DEF Rebuilt, Run
    <3> QED BY <1>4, <2>1, <3>1
  <2>2. CASE due = FALSE
    <3>1. r = Run(TRUE)
      BY <1>2, <1>5, <2>2 DEF Rebuilt, Run
    <3> QED BY <1>4, <3>1
  <2> QED BY <2>1, <2>2
<1>7. Spine(history, r.nodes, genesis)
  BY <1>6 DEF Tracks
<1>8. /\ current = StateAt(history, cursor) /\ current \in 1..Len(r.nodes)
      /\ r.nodes[current].doc = doc /\ tails[active] = StateAt(history, Len(history))
  BY <1>7, SpineDocuments DEF LiveInv
<1>9. history \in Seq(Entry) /\ cursor \in 0..Len(history)
  BY DEF LiveInv, IInv, TypeOK
<1>10. BranchPath(r) = StatesOf(history, Len(history))
  <2>1. r.tails[r.active] = StateAt(history, Len(history))
    BY <1>6, <1>8 DEF Tracks
  <2> QED BY <1>7, <1>9, <2>1, SpinePath
<1>11. Place(BranchPath(r), current) = cursor
  <2>1. Climbs(history)
    BY <1>7 DEF Spine
  <2> QED BY <1>8, <1>9, <1>10, <2>1, PlaceOfState
<1>12. sp \in 0..Len(r.nodes)
  <2>1. PICK m, n : m = Len(r.nodes) /\ n = Len(Run(FALSE).nodes)
    OBVIOUS
  <2>2. m \in Nat /\ n \in Nat /\ m + 1 = nextState /\ n + 1 = nextState
    BY <1>4, <1>6, <2>1 DEF Tracks, Spine, Rooted
  <2>3. sp \in 0..n
    BY <2>1
  <2>4. m = n
    BY <2>2
  <2> QED BY <2>1, <2>3, <2>4
<1>13. RebuiltNext(f, r) = f.next
  <2>1. CASE due = TRUE
    BY <1>2, <2>1 DEF RebuiltNext
  <2>2. CASE due = FALSE
    <3>1. r.nodes[current].next = nextId
      BY <1>6, <1>8, <2>2 DEF NextIds
    <3>2. r.current = current
      BY <1>6 DEF Tracks
    <3> QED BY <1>2, <2>2, <3>1, <3>2 DEF RebuiltNext
  <2> QED BY <2>1, <2>2
<1>14. Rebuilds(r, f.current, f.active, TailsFrom(f.journal, f.branches), f.nextState)
  BY <1>2, <1>3, <1>6 DEF Rebuilds, Tracks
<1>15. Opens(f)
  BY <1>2, <1>4, <1>5, <1>8, <1>11, <1>12, <1>13, <1>14 DEF Opens
<1> QED BY <1>1, <1>15

LEMMA FirstFreeNumber ==
  ASSUME NEW d \in Document
  PROVE  FirstFreeId(d) \in Nat \ {0}
<1>1. MaxId \in Nat \ {0} /\ d.objects \in SUBSET (1..MaxId)
  BY HistoryAssumption DEF Document, Ids
<1> DEFINE fits(n) == (\A o \in d.objects : o < n) /\ (n = 1 \/ n - 1 \in d.objects)
<1>2. \E n \in 1..MaxId + 1 : fits(n)
  <2>1. CASE d.objects = {}
    <3>1. 1 \in 1..MaxId + 1
      BY <1>1
    <3> QED BY <2>1, <3>1
  <2>2. CASE d.objects # {}
    <3>1. PICK n \in d.objects : \A o \in d.objects : o <= n
      BY <1>1, <2>2, GreatestExists
    <3>2. n \in 1..MaxId /\ n + 1 \in 1..MaxId + 1 /\ (n + 1) - 1 = n
      BY <1>1, <3>1
    <3>3. \A o \in d.objects : o \in Nat /\ o < n + 1
      BY <1>1, <3>1
    <3> QED BY <3>1, <3>2, <3>3
  <2> HIDE DEF fits
  <2> QED BY <2>1, <2>2
<1>3. FirstFreeId(d) = CHOOSE n \in 1..MaxId + 1 : fits(n)
  BY DEF FirstFreeId
<1> HIDE DEF fits
<1>4. FirstFreeId(d) \in 1..MaxId + 1
  BY <1>2, <1>3
<1> QED BY <1>1, <1>4

LEMMA StartIs ==
  ASSUME NEW g \in Document
  PROVE  LET r == ReplayStart(g)
         IN  /\ r \in ReplayState /\ r.ok = TRUE /\ r.cut = FALSE /\ r.current = Genesis
             /\ r.active = Root /\ r.tails = <<Genesis>> /\ Len(r.nodes) = 1
             /\ Spine(<<>>, r.nodes, g)
<1> DEFINE node == [parent |-> 0, doc |-> g, next |-> FirstFreeId(g), proc |-> <<>>,
                    branch |-> Root]
<1>1. PICK r : r = ReplayStart(g)
  OBVIOUS
<1>2. r = [ok |-> TRUE, cut |-> FALSE, current |-> Genesis, active |-> Root,
           tails |-> <<Genesis>>, nodes |-> <<node>>]
  BY <1>1 DEF ReplayStart
<1>3. node \in Node
  BY FirstFreeNumber DEF Node, Root
<1>4. node.parent = 0 /\ node.doc = g
  OBVIOUS
<1> HIDE DEF node
<1>5. <<node>> \in Seq(Node) /\ <<Genesis>> \in Seq(Nat)
  BY <1>3 DEF Genesis
<1>6. r \in ReplayState
  BY <1>2, <1>5 DEF ReplayState, Genesis, Root
<1>7. Len(r.nodes) = 1 /\ r.nodes[1] = node
  BY <1>2
<1>8. Spine(<<>>, r.nodes, g)
  BY <1>4, <1>7 DEF Spine, Rooted, Climbs
<1> QED BY <1>1, <1>2, <1>6, <1>7, <1>8

LEMMA CompactedSound == ASSUME IInv PROVE FileSound(Compacted)
<1>1. PICK f : f = Compacted
  OBVIOUS
<1>2. PICK h, a : h = <<>> /\ a = At(f, h)
  OBVIOUS
<1>3. /\ f.genesis = doc /\ f.journal = <<>> /\ f.branches = 1 /\ f.checkpoint = FALSE
      /\ a.genesis = doc /\ a.journal = <<>> /\ a.doc = doc /\ a.current = Genesis
      /\ a.cursor = 0 /\ a.active = Root /\ a.next = nextId /\ a.nextState = Genesis + 1
      /\ a.tails = <<Genesis>> /\ a.history = <<>>
  BY <1>1, <1>2, NoTails DEF Compacted, At
<1>4. doc \in Document /\ nextId \in Nat \ {0}
  BY DEF IInv, TypeOK
<1>5. Typed(a)
  <2>1. /\ <<>> \in Seq(Entry) /\ <<>> \in Seq(Event) /\ <<Genesis>> \in Seq(Nat)
        /\ DOMAIN <<Genesis>> = 1..1
    BY DEF Genesis
  <2>2. 0 \in 0..Len(<<>>) /\ 1 \in 1..1
    OBVIOUS
  <2> QED BY <1>3, <1>4, <2>1, <2>2 DEF Typed, Genesis, Root
<1>6. Inverted(a.history)
  BY <1>3 DEF Inverted
<1>7. Ordered(a)
  <2>1. Len(a.history) = 0 /\ a.tails[a.active] = Genesis
    BY <1>3 DEF Root
  <2> QED BY <1>3, <2>1 DEF Ordered, StateAt
<1>8. Numbered(a)
  <2>1. CommitsOf(a) = {}
    BY <1>3 DEF CommitsOf
  <2>2. \A o \in doc.objects : o < nextId
    BY DEF IInv, IdsNeverReused
  <2> QED BY <1>3, <2>1, <2>2 DEF Numbered
<1>9. KnownIds(a)
  BY <1>3 DEF KnownIds
<1>10. Lined(a)
  <2>1. Len(a.history) = 0
    BY <1>3
  <2>2. LineOf(a)[1] = doc
    BY <1>3, <2>1 DEF LineOf
  <2> QED BY <1>3, <2>1, <2>2 DEF Lined
<1>11. Replays(a)
  <2>1. \A x : RunOf(a, x) = ReplayStart(doc)
    BY <1>3, ReplayedEmpty DEF RunOf
  <2>2. PICK r : r = ReplayStart(doc)
    OBVIOUS
  <2>3. TracksOf(r, a)
    BY <1>3, <1>4, <2>2, StartIs DEF TracksOf, Genesis
  <2>4. Len(a.journal) <= MaxEvents
    BY <1>3, HistoryAssumption
  <2> QED BY <2>1, <2>2, <2>3, <2>4 DEF Replays
<1>12. Sound(a)
  BY <1>5, <1>6, <1>7, <1>8, <1>9, <1>10, <1>11 DEF Sound
<1>13. FileSound(f)
  <2>1. Sound(At(f, h))
    BY <1>2, <1>12
  <2>2. f.branches \in Nat
    BY <1>3
  <2>3. f.checkpoint \in BOOLEAN
    BY <1>1 DEF Compacted
  <2> QED BY <2>1, <2>2, <2>3, <1>3 DEF FileSound
<1> QED BY <1>1, <1>13

-----------------------------------------------------------------------------
(* The invariant of the document and its files. *)

FileGood(k, f) ==
    /\ FileSound(f)
    /\ k # "recovery" => f.savepoint = f.current
    /\ k # "copy" => Opens(f) \/ AllocationUndone(f.journal)
FilesGood == /\ DOMAIN files = Kinds
             /\ \A k \in Kinds : files[k] # NoFile => FileGood(k, files[k])

(* The savepoint is the state, of the journal's, that is in the file at    *)
(* the path.                                                               *)
SavepointInFile ==
    /\ path \in {"none", "normal", "copy"}
    /\ savepoint \in 0..Len(Run(FALSE).nodes)
    /\ path # "none" => /\ savepoint # 0
                        /\ Run(FALSE).nodes[savepoint].doc = files[path].doc

FileInv == LiveInv /\ FilesGood /\ SavepointInFile

LEMMA NextKeepsLive == LiveInv /\ [Next]_vars => LiveInv'
<1>1. IInv /\ [Next]_vars => IInv'
  BY NextKeeps
<1>2. IInv /\ LineInv /\ [Next]_vars => LineInv'
  BY NextKeepsLine
<1> QED BY <1>1, <1>2, NextKeepsRun, NextKeepsTails DEF LiveInv

LEMMA LiveDocument ==
  LiveInv => /\ current \in 1..Len(Run(FALSE).nodes) /\ Len(Run(FALSE).nodes) \in Nat
             /\ Run(FALSE).nodes[current].doc = doc
<1> SUFFICES ASSUME LiveInv
             PROVE  /\ current \in 1..Len(Run(FALSE).nodes) /\ Len(Run(FALSE).nodes) \in Nat
                    /\ Run(FALSE).nodes[current].doc = doc
  OBVIOUS
<1>1. PICK nodes : nodes = Run(FALSE).nodes
  OBVIOUS
<1>2. Spine(history, nodes, genesis)
  BY <1>1 DEF LiveInv, RunInv, Tracks
<1>3. current \in 1..Len(nodes) /\ nodes[current].doc = doc
  BY <1>2, SpineDocuments DEF LiveInv
<1>4. Len(nodes) \in Nat
  BY <1>2 DEF Spine, Rooted
<1> QED BY <1>1, <1>3, <1>4
LEMMA NextLiveDocument ==
  (LiveInv => /\ current \in 1..Len(Run(FALSE).nodes) /\ Len(Run(FALSE).nodes) \in Nat
              /\ Run(FALSE).nodes[current].doc = doc)'
BY LiveDocument, PTL

(* No step but a new document or an open takes a node away or changes it. *)
LEMMA NodesStay ==
  ASSUME LiveInv, \/ \E inv \in Invocation : Execute(inv)
                  \/ Undo \/ Redo \/ \E to \in 0..Len(history) : JumpHistory(to)
                  \/ ReleaseHistoryCache
  PROVE  \E new : /\ new = Run(FALSE)'.nodes
                  /\ Len(Run(FALSE).nodes) <= Len(new) /\ Len(new) \in Nat
                  /\ \A s \in 1..Len(Run(FALSE).nodes) : new[s] = Run(FALSE).nodes[s]
<1>1. PICK nodes \in Seq(Node) : nodes = Run(FALSE).nodes
  BY DEF LiveInv, RunInv, Tracks, ReplayState
<1>2. PICK new : new = Run(FALSE)'.nodes
  OBVIOUS
<1>3. IInv /\ LineInv /\ Tracks(Run(FALSE)) /\ FALSE \in BOOLEAN /\ Len(nodes) \in Nat
  <2>1. IInv /\ LineInv /\ Tracks(Run(FALSE))
    BY DEF LiveInv, RunInv
  <2>2. Len(nodes) \in Nat
    OBVIOUS
  <2> QED BY <2>1, <2>2
<1>4. ASSUME NEW inv \in Invocation, Execute(inv)
      PROVE  \E node : new = Append(nodes, node)
  <2>1. \E node : Run(FALSE)'.nodes = Append(Run(FALSE).nodes, node)
    BY <1>3, <1>4, EditTracks
  <2> QED BY <1>1, <1>2, <2>1
<1>5. ASSUME Undo \/ Redo \/ \E to \in 0..Len(history) : JumpHistory(to)
      PROVE  new = nodes
  <2>1. PICK kind \in {"undo", "redo", "jump"}, to \in 0..Len(history) :
            /\ to # cursor /\ MoveTo(kind, to)
            /\ kind = "undo" => to = cursor - 1
            /\ kind = "redo" => to = cursor + 1
    BY <1>3, <1>5, MoveKinds DEF IInv
  <2>2. Run(FALSE)'.nodes = Run(FALSE).nodes
    BY <1>3, <2>1, MoveTracks
  <2> QED BY <1>1, <1>2, <2>2
<1>6. ASSUME ReleaseHistoryCache PROVE new = nodes
  <2>1. Run(FALSE)' = Run(FALSE)
    BY <1>6 DEF ReleaseHistoryCache, Run
  <2> QED BY <1>1, <1>2, <2>1
<1>7. new = nodes \/ \E node : new = Append(nodes, node)
  BY <1>4, <1>5, <1>6
<1>8. Len(nodes) <= Len(new) /\ Len(new) \in Nat /\ \A s \in 1..Len(nodes) : new[s] = nodes[s]
  BY <1>3, <1>7
<1> QED BY <1>1, <1>2, <1>8

LEMMA EditKeepsFiles == ASSUME FileInv, Edit PROVE FileInv'
<1>1. UNCHANGED <<files, path, savepoint>>
  BY DEF Edit
<1>2. Next
  BY DEF Edit, Next
<1>3. LiveInv'
  BY <1>2, NextKeepsLive DEF FileInv
<1>4. FilesGood'
  BY <1>1 DEF FileInv, FilesGood
<1>5. PICK nodes : nodes = Run(FALSE).nodes
  OBVIOUS
<1>6. PICK new : /\ new = Run(FALSE)'.nodes /\ Len(nodes) <= Len(new) /\ Len(new) \in Nat
                 /\ \A s \in 1..Len(nodes) : new[s] = nodes[s]
  BY <1>5, NodesStay DEF Edit, FileInv
<1>7. Len(nodes) \in Nat
  BY <1>5, LiveDocument DEF FileInv
<1>8. /\ path \in {"none", "normal", "copy"}
      /\ savepoint \in 0..Len(nodes)
      /\ path # "none" => savepoint # 0 /\ nodes[savepoint].doc = files[path].doc
  BY <1>5 DEF FileInv, SavepointInFile
<1>9. savepoint \in 0..Len(new) /\ (savepoint # 0 => new[savepoint] = nodes[savepoint])
  <2>1. \A m, l \in Nat : \A s \in 0..m : m <= l => s \in 0..l /\ (s # 0 => s \in 1..m)
    OBVIOUS
  <2>2. savepoint \in 0..Len(new) /\ (savepoint # 0 => savepoint \in 1..Len(nodes))
    BY <1>6, <1>7, <1>8, <2>1
  <2> QED BY <1>6, <2>2
<1>10. SavepointInFile'
  BY <1>1, <1>6, <1>8, <1>9 DEF SavepointInFile
<1> QED BY <1>3, <1>4, <1>10 DEF FileInv

LEMMA NewDocumentKeepsFiles == ASSUME FileInv, NewDocument PROVE FileInv'
<1>1. NewCell /\ path' = "none" /\ savepoint' = Genesis /\ files' = files
  BY DEF NewDocument
<1>2. LiveInv'
  BY <1>1, NextKeepsLive DEF FileInv, Next
<1>3. FilesGood'
  BY <1>1 DEF FileInv, FilesGood
<1>4. PICK n \in Nat : n = Len(Run(FALSE)'.nodes) /\ current' \in 1..n
  BY <1>2, NextLiveDocument
<1>5. current' = Genesis
  BY <1>1 DEF NewCell
<1>6. savepoint' \in 0..n
  <2>1. \A s \in 1..n : s \in 0..n
    OBVIOUS
  <2> QED BY <1>1, <1>4, <1>5, <2>1
<1>7. SavepointInFile'
  BY <1>1, <1>4, <1>6 DEF SavepointInFile
<1> QED BY <1>2, <1>3, <1>7 DEF FileInv

LEMMA WriteKeepsFiles ==
  ASSUME FilesGood, NEW k \in Kinds, NEW f, FileGood(k, f), Write(k, f)
  PROVE  /\ FilesGood' /\ files'[k] = f
         /\ \A l \in Kinds : l # k => files'[l] = files[l]
<1>1. files' = [files EXCEPT ![k] = f] /\ DOMAIN files = Kinds
  BY DEF Write, FilesGood
<1>2. /\ DOMAIN files' = Kinds /\ files'[k] = f
      /\ \A l \in Kinds : l # k => files'[l] = files[l]
  BY <1>1
<1> QED BY <1>2 DEF FilesGood

LEMMA UnchangedLive ==
  ASSUME LiveInv, UNCHANGED vars
  PROVE  LiveInv' /\ Run(FALSE)' = Run(FALSE)
<1>1. LiveInv'
  BY NextKeepsLive
<1>2. Run(FALSE)' = Run(FALSE)
  BY DEF vars, Run
<1> QED BY <1>1, <1>2

LEMMA SaveKeepsFiles == ASSUME FileInv, NEW due \in BOOLEAN, Save(due) PROVE FileInv'
<1> DEFINE f == Written(current, due)
<1>1. Write("normal", f) /\ path' = "normal" /\ savepoint' = current /\ UNCHANGED vars
  BY DEF Save
<1>2. LiveInv' /\ Run(FALSE)' = Run(FALSE)
  BY <1>1, UnchangedLive DEF FileInv
<1>3. PICK nodes : nodes = Run(FALSE).nodes
  OBVIOUS
<1>4. current \in 1..Len(nodes) /\ Len(nodes) \in Nat /\ nodes[current].doc = doc
  BY <1>3, LiveDocument DEF FileInv
<1>5. f.savepoint = current /\ f.current = current /\ f.journal = journal /\ f.doc = doc
  BY WrittenFields
<1>6. current \in 0..Len(nodes) /\ current # 0
  BY <1>4
<1>7. FileSound(f) /\ (~ AllocationUndone(journal) => Opens(f))
  BY <1>3, <1>6, WrittenSound, WrittenOpens DEF FileInv
<1> HIDE DEF f
<1>8. FileGood("normal", f)
  BY <1>5, <1>7 DEF FileGood
<1>9. FilesGood' /\ files'["normal"] = f
  BY <1>1, <1>8, WriteKeepsFiles DEF FileInv, Kinds
<1>10. SavepointInFile'
  BY <1>1, <1>2, <1>3, <1>4, <1>5, <1>6, <1>9 DEF SavepointInFile
<1> QED BY <1>2, <1>9, <1>10 DEF FileInv

LEMMA AutosaveKeepsFiles == ASSUME FileInv, NEW due \in BOOLEAN, Autosave(due) PROVE FileInv'
<1> DEFINE f == Written(savepoint, due)
<1>1. Write("recovery", f) /\ UNCHANGED <<vars, path, savepoint>>
  BY DEF Autosave
<1>2. LiveInv' /\ Run(FALSE)' = Run(FALSE)
  BY <1>1, UnchangedLive DEF FileInv
<1>3. SavepointInFile /\ savepoint \in 0..Len(Run(FALSE).nodes)
  BY DEF FileInv, SavepointInFile
<1>4. f.journal = journal
  BY WrittenFields
<1>5. FileSound(f) /\ (~ AllocationUndone(journal) => Opens(f))
  BY <1>3, WrittenSound, WrittenOpens DEF FileInv
<1> HIDE DEF f
<1>6. FileGood("recovery", f)
  BY <1>4, <1>5 DEF FileGood
<1>7. FilesGood' /\ \A l \in Kinds : l # "recovery" => files'[l] = files[l]
  BY <1>1, <1>6, WriteKeepsFiles DEF FileInv, Kinds
<1>8. path # "none" => files'[path] = files[path]
  BY <1>3, <1>7 DEF SavepointInFile, Kinds
<1>9. SavepointInFile'
  BY <1>1, <1>2, <1>3, <1>8 DEF SavepointInFile
<1> QED BY <1>2, <1>7, <1>9 DEF FileInv

LEMMA CompactKeepsFiles == ASSUME FileInv, WriteCompactedCopy PROVE FileInv'
<1> DEFINE f == Compacted
<1>1. path # "copy" /\ Write("copy", f) /\ UNCHANGED <<vars, path, savepoint>>
  BY DEF WriteCompactedCopy
<1>2. LiveInv' /\ Run(FALSE)' = Run(FALSE)
  BY <1>1, UnchangedLive DEF FileInv
<1>3. FileSound(f) /\ f.savepoint = f.current
  BY CompactedSound DEF FileInv, LiveInv, Compacted
<1> HIDE DEF f
<1>4. FileGood("copy", f)
  BY <1>3 DEF FileGood
<1>5. FilesGood' /\ \A l \in Kinds : l # "copy" => files'[l] = files[l]
  BY <1>1, <1>4, WriteKeepsFiles DEF FileInv, Kinds
<1>6. path # "none" => files'[path] = files[path]
  BY <1>1, <1>5 DEF FileInv, SavepointInFile, Kinds
<1>7. SavepointInFile'
  BY <1>1, <1>2, <1>6 DEF FileInv, SavepointInFile
<1> QED BY <1>2, <1>5, <1>7 DEF FileInv

LEMMA OpenKeepsFiles == ASSUME FileInv, NEW k \in Kinds, Open(k) PROVE FileInv'
<1> DEFINE f == files[k]
<1>1. k # "recovery" /\ f # NoFile /\ Adopt(f) /\ path' = k /\ savepoint' = f.savepoint
      /\ files' = files
  BY DEF Open
<1>2. FileSound(f) /\ f.savepoint = f.current
  BY <1>1 DEF FileInv, FilesGood, FileGood
<1>3. LiveInv'
  BY <1>1, <1>2, OpenKeepsLive
<1>4. FilesGood'
  BY <1>1 DEF FileInv, FilesGood
<1>5. doc' = f.doc /\ current' = f.current
  BY <1>1 DEF Adopt
<1>6. PICK nodes : nodes = Run(FALSE)'.nodes
  OBVIOUS
<1>7. current' \in 1..Len(nodes) /\ Len(nodes) \in Nat /\ nodes[current'].doc = doc'
  BY <1>3, <1>6, NextLiveDocument
<1>8. savepoint' \in 0..Len(nodes) /\ savepoint' # 0 /\ nodes[savepoint'].doc = files'[k].doc
  BY <1>1, <1>2, <1>5, <1>7
<1>9. path' \in {"none", "normal", "copy"}
  BY <1>1 DEF Kinds
<1>10. SavepointInFile'
  BY <1>1, <1>6, <1>8, <1>9 DEF SavepointInFile
<1> QED BY <1>3, <1>4, <1>10 DEF FileInv

LEMMA RecoveryKeepsFiles == ASSUME FileInv, OpenRecovery PROVE FileInv'
<1>1. files["recovery"] # NoFile /\ Adopt(files["recovery"]) /\ path' = "none"
      /\ savepoint' = 0 /\ files' = files
  BY DEF OpenRecovery, NoState
<1>2. FileSound(files["recovery"])
  BY <1>1 DEF FileInv, FilesGood, FileGood, Kinds
<1>3. LiveInv'
  BY <1>1, <1>2, OpenKeepsLive
<1>4. FilesGood'
  BY <1>1 DEF FileInv, FilesGood
<1>5. PICK n \in Nat : n = Len(Run(FALSE)'.nodes)
  BY <1>3, NextLiveDocument
<1>6. savepoint' \in 0..n
  BY <1>1
<1>7. SavepointInFile'
  BY <1>1, <1>5, <1>6 DEF SavepointInFile
<1> QED BY <1>3, <1>4, <1>7 DEF FileInv

LEMMA NextKeepsFiles == FileInv /\ [FileNext]_allVars => FileInv'
<1> SUFFICES ASSUME FileInv, [FileNext]_allVars PROVE FileInv'
  OBVIOUS
<1>1. CASE Edit
  BY <1>1, EditKeepsFiles
<1>2. CASE NewDocument
  BY <1>2, NewDocumentKeepsFiles
<1>3. CASE \E due \in BOOLEAN : Save(due) \/ Autosave(due)
  BY <1>3, SaveKeepsFiles, AutosaveKeepsFiles
<1>4. CASE WriteCompactedCopy
  BY <1>4, CompactKeepsFiles
<1>5. CASE \E k \in Kinds : Open(k)
  BY <1>5, OpenKeepsFiles
<1>6. CASE OpenRecovery
  BY <1>6, RecoveryKeepsFiles
<1>7. CASE UNCHANGED allVars
  <2>1. UNCHANGED vars /\ UNCHANGED <<files, path, savepoint>>
    BY <1>7 DEF allVars, fileVars
  <2>2. LiveInv' /\ Run(FALSE)' = Run(FALSE)
    BY <2>1, UnchangedLive DEF FileInv
  <2> QED BY <2>1, <2>2 DEF FileInv, FilesGood, SavepointInFile
<1> QED BY <1>1, <1>2, <1>3, <1>4, <1>5, <1>6, <1>7 DEF FileNext

LEMMA InitFiles == FileInit => FileInv
<1> SUFFICES ASSUME FileInit PROVE FileInv
  OBVIOUS
<1>1. Init /\ path = "none" /\ savepoint = Genesis /\ files = [k \in Kinds |-> NoFile]
  BY DEF FileInit
<1>2. TailsLogged
  <2>1. journal = <<>> /\ tails = <<Genesis>>
    BY <1>1 DEF Init
  <2>2. Len(tails) = 1
    BY <2>1
  <2> QED BY <2>1, <2>2, NoTails DEF TailsLogged
<1>3. LiveInv
  BY <1>1, <1>2, InitKeeps, InitLine, InitRuns DEF LiveInv
<1>4. FilesGood
  BY <1>1 DEF FilesGood
<1>5. PICK n \in Nat : n = Len(Run(FALSE).nodes) /\ current \in 1..n
  BY <1>3, LiveDocument
<1>6. savepoint \in 0..n
  <2>1. current = Genesis
    BY <1>1 DEF Init
  <2>2. \A s \in 1..n : s \in 0..n
    OBVIOUS
  <2> QED BY <1>1, <1>5, <2>1, <2>2
<1>7. SavepointInFile
  BY <1>1, <1>5, <1>6 DEF SavepointInFile
<1> QED BY <1>3, <1>4, <1>7 DEF FileInv

LEMMA FilesInvariant == FileSpec => []FileInv
BY InitFiles, NextKeepsFiles, PTL DEF FileSpec

(* A document shown as saved is the one in its file, for any edits, moves, *)
(* saves, copies, crashes and reopenings (core.rs, persistence.rs).        *)
THEOREM CleanIsSaved == FileSpec => []CleanMeansSaved
<1>1. FileInv => CleanMeansSaved
  <2> SUFFICES ASSUME FileInv, savepoint = current, path # "none"
               PROVE  files[path].doc = doc
    BY DEF CleanMeansSaved
  <2>1. Run(FALSE).nodes[current].doc = doc
    BY LiveDocument DEF FileInv
  <2>2. Run(FALSE).nodes[savepoint].doc = files[path].doc
    BY DEF FileInv, SavepointInFile
  <2> QED BY <2>1, <2>2
<1> QED BY <1>1, FilesInvariant, PTL

(* What save and autosave write opens again at the state and on the branch *)
(* it was written in, with or without a checkpoint, unless an allocation   *)
(* was undone in it (persistence.rs).                                      *)
THEOREM SavesOpenAgain == FileSpec => []SavedOpens
<1>1. FileInv => SavedOpens
  <2> SUFFICES ASSUME FileInv, NEW k \in {"normal", "recovery"}, files[k] # NoFile
               PROVE  Opens(files[k]) \/ AllocationUndone(files[k].journal)
    BY DEF SavedOpens
  <2>1. k \in Kinds /\ k # "copy"
    BY DEF Kinds
  <2> QED BY <2>1 DEF FileInv, FilesGood, FileGood
<1> QED BY <1>1, FilesInvariant, PTL

(* A document keeps its history, its ids and its journal through saves,    *)
(* recovery and reopening.                                                 *)
THEOREM ReopenedDocumentsAreWhole ==
  FileSpec => [](HistoryIsBranch /\ IdsNeverReused /\ JournalReplays)
<1>1. FileInv => HistoryIsBranch /\ IdsNeverReused /\ JournalReplays
  BY TrackedIsVerified DEF FileInv, LiveInv, IInv, RunInv, JournalReplays
<1> QED BY <1>1, FilesInvariant, PTL
=============================================================================
