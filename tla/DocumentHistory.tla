-------------------------- MODULE DocumentHistory --------------------------
(***************************************************************************)
(* The semantic history of one open document: the visible history with its *)
(* cursor, the append-only journal of commits, moves and branch cuts, the  *)
(* branch tails, and the allocation of stable object ids                   *)
(* (inkpod-core/src/{history,journal,core}.rs, primitive/executor.rs).     *)
(*                                                                         *)
(* A document is reduced to a paint (pixels, palette: what an edit that    *)
(* records only the part it changes touches) and a set of object ids       *)
(* (layers, planes, guides: edits that record the whole document and may   *)
(* allocate ids).  A digest is the document itself.  Procedure ids run in  *)
(* step with state ids (procedure = committed state - 1), event ids are    *)
(* positions of the journal and the next branch is Len(tails) + 1.         *)
(***************************************************************************)
EXTENDS Integers, Sequences, FiniteSets, SequencesExt

CONSTANTS Paint,        \* the paints of a document
          Blank,        \* the paint of a new cell
          Released,     \* an inverse whose memory was released (Option::None)
          MaxEvents,    \* MAX_JOURNAL_EVENTS
          MaxCommits,   \* MAX_JOURNAL_COMMITS
          MaxBranches,  \* MAX_JOURNAL_BRANCHES
          MaxId         \* bound of the model on stable ids

Genesis == 1
Root == 1

Ids == 1..MaxId
Document == [paint : Paint, objects : SUBSET Ids]

Change == [before : Document, after : Document]

ASSUME HistoryAssumption ==
    /\ Blank \in Paint
    /\ Released \notin Change
    /\ {MaxEvents, MaxCommits, MaxBranches, MaxId} \subseteq Nat \ {0}

VARIABLES doc,        \* Core::document
          nextId,     \* Core::next_id
          history,    \* Core::history
          cursor,     \* Core::history_cursor
          current,    \* Core::current_state
          nextState,  \* Core::next_state
          journal,    \* Core::journal
          active,     \* Core::active_branch
          tails,      \* Core::branch_tails
          genesis     \* Core::genesis

vars == <<doc, nextId, history, cursor, current, nextState, journal, active,
          tails, genesis>>

-----------------------------------------------------------------------------
(* Invocations and their results. *)

PaintWith(c) == [op |-> "paint", arg |-> c]
CreateObject == [op |-> "create", arg |-> 0]
DeleteObject(o) == [op |-> "delete", arg |-> o]

Invocation == {PaintWith(c) : c \in Paint} \cup {CreateObject}
                  \cup {DeleteObject(o) : o \in Ids}

(* An edit through begin_document_edit records the whole document; a pixel *)
(* or palette edit records its own part.                                   *)
Whole(inv) == inv.op # "paint"

Result(inv, d, next) ==
    CASE inv.op = "paint" -> [doc |-> [d EXCEPT !.paint = inv.arg],
                              out |-> {}, next |-> next]
      [] inv.op = "create" -> [doc |-> [d EXCEPT !.objects = @ \cup {next}],
                               out |-> {next}, next |-> next + 1]
      [] inv.op = "delete" -> [doc |-> [d EXCEPT !.objects = @ \ {inv.arg}],
                               out |-> {}, next |-> next]

Procedure == [base : Nat, committed : Nat, inv : Invocation, out : SUBSET Ids,
              pre : Document, post : Document]
Entry == [proc : Procedure, branch : Nat, change : Change \cup {Released}]

CommitEvent(p, b) == [event |-> "commit", proc |-> p, branch |-> b]
MoveEvent(k, s, d, b) == [event |-> "move", kind |-> k, from |-> s, to |-> d,
                          branch |-> b]
CutEvent(f, t, b, left) == [event |-> "cut", fork |-> f, tail |-> t,
                            branch |-> b, left |-> left]

Event == [event : {"commit"}, proc : Procedure, branch : Nat]
             \cup [event : {"move"}, kind : {"undo", "redo", "jump"},
                   from : Nat, to : Nat, branch : Nat]
             \cup [event : {"cut"}, fork : Nat, tail : Nat, branch : Nat,
                   left : Nat]

IsCommit(e) == e.event = "commit"

-----------------------------------------------------------------------------
(* Replay: the journal rebuilt from Genesis.  A node per state id.         *)

(* max_stable_id of the Genesis document, advanced past. *)
FirstFreeId(d) == CHOOSE n \in 1..MaxId + 1 :
                      /\ \A o \in d.objects : o < n
                      /\ n = 1 \/ n - 1 \in d.objects

ReplayStart(g) ==
    [ok |-> TRUE, cut |-> FALSE, current |-> Genesis, active |-> Root,
     tails |-> <<Genesis>>,
     nodes |-> <<[parent |-> 0, doc |-> g, next |-> FirstFreeId(g),
                  proc |-> <<>>, branch |-> Root]>>]

Ancestors(nodes, s) ==
    LET up[n \in 0..Len(nodes)] ==
            IF n = 0 THEN {} ELSE {n} \cup up[nodes[n].parent]
    IN  up[s]

ReplayCommit(r, e, execute) ==
    LET node == r.nodes[r.current]
        res == IF execute THEN Result(e.proc.inv, node.doc, node.next)
                          ELSE [doc |-> e.proc.post, out |-> e.proc.out,
                                next |-> node.next]
        good == /\ e.proc.committed = Len(r.nodes) + 1
                /\ Len(r.nodes) <= MaxCommits
                /\ e.proc.base = r.current
                /\ e.branch = r.active
                /\ r.tails[r.active] = r.current
                /\ e.proc.pre = node.doc
                /\ execute => res.doc # node.doc
                /\ res.out = e.proc.out
                /\ res.doc = e.proc.post
    IN  [r EXCEPT !.ok = good,
                  !.cut = FALSE,
                  !.current = e.proc.committed,
                  !.tails = [@ EXCEPT ![r.active] = e.proc.committed],
                  !.nodes = Append(@, [parent |-> r.current, doc |-> res.doc,
                                       next |-> res.next, proc |-> <<e.proc>>,
                                       branch |-> e.branch])]

ReplayMove(r, e) ==
    LET good == /\ ~r.cut
                /\ e.from = r.current
                /\ e.from # e.to \/ e.branch # r.active
                /\ e.branch # r.active => e.kind = "jump"
                /\ e.branch \in DOMAIN r.tails
                /\ e.to \in Ancestors(r.nodes, r.tails[e.branch])
                /\ e.kind = "undo" => r.nodes[e.from].parent = e.to
                /\ e.kind = "redo" => r.nodes[e.to].parent = e.from
    IN  [r EXCEPT !.ok = good, !.current = e.to, !.active = e.branch]

ReplayCut(r, e) ==
    LET good == /\ ~r.cut
                /\ e.left = r.active
                /\ e.fork = r.current
                /\ r.tails[r.active] = e.tail
                /\ e.fork # e.tail
                /\ e.branch = Len(r.tails) + 1
                /\ e.branch <= MaxBranches
                /\ e.fork \in Ancestors(r.nodes, e.tail)
    IN  [r EXCEPT !.ok = good, !.cut = TRUE, !.active = e.branch,
                  !.tails = Append(@, e.fork)]

ReplayStep(r, e, execute) ==
    CASE ~r.ok -> r
      [] r.ok /\ e.event = "commit" -> ReplayCommit(r, e, execute)
      [] r.ok /\ e.event = "move" -> ReplayMove(r, e)
      [] r.ok /\ e.event = "cut" -> ReplayCut(r, e)

(* rebuild_runtime_from_journal executes every procedure;                  *)
(* rebuild_runtime_from_checkpoint only follows the recorded digests.      *)
Replayed(g, j, execute) ==
    LET run[i \in 0..Len(j)] ==
            IF i = 0 THEN ReplayStart(g)
            ELSE ReplayStep(run[i - 1], j[i], execute)
    IN  run[Len(j)]

(* The states of the active branch after Genesis, and the place of a state *)
(* among them (ids grow along a branch).                                   *)
BranchPath(r) == Ancestors(r.nodes, r.tails[r.active]) \ {Genesis}
Place(path, s) == Cardinality({t \in path : t <= s})

(* What a rebuilt runtime must agree on with the Core (or the file's META) *)
(* it is rebuilt for: the high-watermarks.                                 *)
Rebuilds(r, cur, act, tls, next) ==
    /\ r.ok
    /\ ~r.cut
    /\ r.current = cur
    /\ r.active = act
    /\ r.tails = tls
    /\ Len(r.nodes) + 1 = next

(* verify_journal_replay: the replay, and then the document, the cursor    *)
(* and the skeleton of the visible history.                                *)
Verified ==
    LET r == Replayed(genesis, journal, TRUE)
        path == BranchPath(r)
    IN  /\ Len(journal) <= MaxEvents
        /\ Rebuilds(r, current, active, tails, nextState)
        /\ r.nodes[current].doc = doc
        /\ Cardinality(path) = Len(history)
        /\ \A s \in path :
              LET entry == history[Place(path, s)]
              IN  /\ r.nodes[s].proc = <<entry.proc>>
                  /\ r.nodes[s].branch = entry.branch
        /\ cursor = Place(path, current)

-----------------------------------------------------------------------------
(* The cache of inverses. *)

CacheReady == \A i \in DOMAIN history : history[i].change # Released

(* ensure_history_cache succeeds, and the history it leaves. *)
CacheRestorable == CacheReady \/ Verified

CachedHistory ==
    IF CacheReady THEN history
    ELSE [i \in DOMAIN history |->
             [history[i] EXCEPT !.change = [before |-> history[i].proc.pre,
                                            after |-> history[i].proc.post]]]

ReleaseHistoryCache ==
    /\ Verified
    /\ history' = [i \in DOMAIN history |->
                      [history[i] EXCEPT !.change = Released]]
    /\ UNCHANGED <<doc, nextId, cursor, current, nextState, journal, active,
                   tails, genesis>>

-----------------------------------------------------------------------------
(* Commits. *)

StateAt(h, k) == IF k = 0 THEN Genesis ELSE h[k].proc.committed

Forks == tails[active] # current
CommitBranch == IF Forks THEN Len(tails) + 1 ELSE active

(* Mutant of CommitEvents: the cut is forgotten. *)
UncutCommitEvents(p) == <<CommitEvent(p, active)>>

(* prepare_canonical_commit: a commit below the tail of its branch cuts a  *)
(* new branch first.                                                       *)
CommitEvents(p) ==
    IF Forks
    THEN <<CutEvent(current, tails[active], Len(tails) + 1, active),
           CommitEvent(p, Len(tails) + 1)>>
    ELSE <<CommitEvent(p, active)>>

(* Mutant of CommittedTails: the commit also becomes the tail of the branch *)
(* that was left.                                                          *)
OverwrittenTails(s) ==
    IF Forks THEN Append([tails EXCEPT ![active] = s], s)
             ELSE [tails EXCEPT ![active] = s]

(* publish_canonical_commit *)
CommittedTails(s) ==
    IF Forks THEN Append(tails, s) ELSE [tails EXCEPT ![active] = s]

(* Mutant of Kept: the truncation is off by one and keeps a redo entry. *)
KeptBeyond(h) == SubSeq(h, 1, IF cursor < Len(h) THEN cursor + 1 ELSE cursor)

(* history.truncate(history_cursor) *)
Kept(h) == SubSeq(h, 1, cursor)

(* An edit, through execute_canonical (paint) or through the staged Core   *)
(* of execute_canonical_invocation_internal, whose allocate_state restores *)
(* the cache of inverses first.  A result equal to the document publishes  *)
(* nothing.                                                                *)
Execute(inv) ==
    LET res == Result(inv, doc, nextId)
        proc == [base |-> current, committed |-> nextState, inv |-> inv,
                 out |-> res.out, pre |-> doc, post |-> res.doc]
        base == IF Whole(inv) THEN CachedHistory ELSE history
    IN  /\ inv.op = "create" => nextId <= MaxId
        /\ inv.op = "delete" => inv.arg \in doc.objects
        /\ Whole(inv) => CacheRestorable
        /\ res.doc # doc
        /\ nextState - 1 <= MaxCommits
        /\ Len(journal) + Len(CommitEvents(proc)) <= MaxEvents
        /\ CommitBranch <= MaxBranches
        /\ doc' = res.doc
        /\ nextId' = res.next
        /\ history' = Append(Kept(base),
                             [proc |-> proc, branch |-> CommitBranch,
                              change |-> [before |-> doc, after |-> res.doc]])
        /\ cursor' = cursor + 1
        /\ current' = nextState
        /\ nextState' = nextState + 1
        /\ journal' = journal \o CommitEvents(proc)
        /\ active' = CommitBranch
        /\ tails' = CommittedTails(nextState)
        /\ UNCHANGED genesis

-----------------------------------------------------------------------------
(* Moves along the visible history. *)

Wholes(h, low, high) == {k \in low + 1..high : Whole(h[k].proc.inv)}

(* The document after the inverses of to+1..from were applied, last first: *)
(* the entry applied last decides each part it records.                    *)
Undone(h, d, from, to) ==
    LET parts == Wholes(h, to, from)
    IN  [paint |-> h[to + 1].change.before.paint,
         objects |-> IF parts = {} THEN d.objects
                     ELSE LET k == CHOOSE k \in parts : \A l \in parts : k <= l
                          IN  h[k].change.before.objects]

(* The document after the changes of from+1..to were applied in order. *)
Redone(h, d, from, to) ==
    LET parts == Wholes(h, from, to)
    IN  [paint |-> h[to].change.after.paint,
         objects |-> IF parts = {} THEN d.objects
                     ELSE LET k == CHOOSE k \in parts : \A l \in parts : l <= k
                          IN  h[k].change.after.objects]

(* Mutant of Moved: a jump applies only the entry nearest its target. *)
MovedOnce(h, d, from, to) ==
    IF to < from THEN Undone(h, d, to + 1, to) ELSE Redone(h, d, to - 1, to)

Moved(h, d, from, to) ==
    IF to < from THEN Undone(h, d, from, to) ELSE Redone(h, d, from, to)

(* Mutant of MoveTo: a move also rewinds the allocation of stable ids. *)
RewindingMoveTo(kind, to) ==
    /\ CacheRestorable
    /\ Len(journal) < MaxEvents
    /\ history' = CachedHistory
    /\ doc' = Moved(CachedHistory, doc, cursor, to)
    /\ cursor' = to
    /\ current' = StateAt(history, to)
    /\ journal' = Append(journal,
                         MoveEvent(kind, current, StateAt(history, to), active))
    /\ nextId' = FirstFreeId(doc')
    /\ UNCHANGED <<nextState, active, tails, genesis>>

(* The common part of undo, redo and jump_history. *)
MoveTo(kind, to) ==
    /\ CacheRestorable
    /\ Len(journal) < MaxEvents
    /\ history' = CachedHistory
    /\ doc' = Moved(CachedHistory, doc, cursor, to)
    /\ cursor' = to
    /\ current' = StateAt(history, to)
    /\ journal' = Append(journal,
                         MoveEvent(kind, current, StateAt(history, to), active))
    /\ UNCHANGED <<nextId, nextState, active, tails, genesis>>

Undo == cursor > 0 /\ MoveTo("undo", cursor - 1)

Redo == cursor < Len(history) /\ MoveTo("redo", cursor + 1)

JumpHistory(to) == to # cursor /\ MoveTo("jump", to)

(* new_cell with reset_history and reset_journal: stable ids stay          *)
(* monotonic across documents, everything else starts over.                *)
NewCell ==
    /\ nextId <= MaxId
    /\ doc' = [paint |-> Blank, objects |-> {nextId}]
    /\ nextId' = nextId + 1
    /\ history' = <<>>
    /\ cursor' = 0
    /\ current' = Genesis
    /\ nextState' = Genesis + 1
    /\ journal' = <<>>
    /\ active' = Root
    /\ tails' = <<Genesis>>
    /\ genesis' = doc'

Init ==
    /\ doc = [paint |-> Blank, objects |-> {1}]
    /\ nextId = 2
    /\ history = <<>>
    /\ cursor = 0
    /\ current = Genesis
    /\ nextState = Genesis + 1
    /\ journal = <<>>
    /\ active = Root
    /\ tails = <<Genesis>>
    /\ genesis = doc

Next == \/ \E inv \in Invocation : Execute(inv)
        \/ Undo
        \/ Redo
        \/ \E to \in 0..Len(history) : JumpHistory(to)
        \/ ReleaseHistoryCache
        \/ NewCell

Spec == Init /\ [][Next]_vars

-----------------------------------------------------------------------------
(* Properties. *)

TypeOK ==
    /\ doc \in Document
    /\ nextId \in Nat \ {0}
    /\ history \in Seq(Entry)
    /\ cursor \in 0..Len(history)
    /\ current \in Nat
    /\ nextState \in Nat
    /\ journal \in Seq(Event)
    /\ active \in DOMAIN tails
    /\ tails \in Seq(Nat)
    /\ genesis \in Document

Commits == {i \in DOMAIN journal : IsCommit(journal[i])}

(* The visible history is one branch of the journal: its entries are       *)
(* commits of the journal, each on the state of the one before it, the     *)
(* last one is the tail of the active branch and the current state is the  *)
(* one at the cursor (history.rs keeps cursor, state and tail in four      *)
(* places that only a whole replay compares).                              *)
HistoryIsBranch ==
    /\ current = StateAt(history, cursor)
    /\ tails[active] = StateAt(history, Len(history))
    /\ \A i \in DOMAIN history :
          /\ history[i].proc.base = StateAt(history, i - 1)
          /\ \E j \in Commits :
                journal[j] = CommitEvent(history[i].proc, history[i].branch)

(* A stable id is given out once in the life of a document, on whatever    *)
(* branch (docs/file-format.md, non-reusing namespace): no two commits     *)
(* share an output id, and the cursor is beyond all of them.               *)
IdsNeverReused ==
    /\ \A o \in genesis.objects \cup doc.objects : o < nextId
    /\ \A i \in Commits : \A o \in journal[i].proc.out :
          /\ o < nextId
          /\ o \notin genesis.objects
          /\ \A j \in Commits : j # i => o \notin journal[j].proc.out

(* An allocation was undone: the one case in which replay, which restarts  *)
(* the allocation from the parent state, and the live cursor, which never  *)
(* goes back, give out different ids.                                      *)
AllocationUndone(log) ==
    \E i, j \in DOMAIN log :
        /\ i < j
        /\ IsCommit(log[i]) /\ log[i].proc.out # {}
        /\ log[j].event = "move"
        /\ log[j].to < log[i].proc.committed

(* The journal alone rebuilds the document, the visible history and every  *)
(* counter after any sequence of edits, moves and branches, unless an      *)
(* allocation was undone: then verify_journal_replay may refuse a document *)
(* that is in order, and with it every save and every restored inverse.    *)
JournalReplays == Verified \/ AllocationUndone(journal)

(* A step only appends to the journal, and leaves the tails of the         *)
(* branches it does not extend: nothing committed is lost by an edit below *)
(* the tail.  Only a new document starts over.                             *)
KeepsBranches ==
    /\ IsPrefix(journal, journal')
    /\ \A b \in DOMAIN tails :
          \/ tails'[b] = tails[b]
          \/ b = active /\ ~Forks
    /\ active' # active => tails'[active'] = nextState

BranchesKept == [][KeepsBranches \/ NewCell]_vars

(* The history shows its user a line of documents: undo, redo and jumps    *)
(* only choose among them, an edit drops the ones beyond the shown one.    *)
(* The document, rebuilt from recorded parts, is the one of the line.      *)
Line == [k \in 1..Len(history) + 1 |->
            IF k = 1 THEN genesis ELSE history[k - 1].proc.post]

Abstract == INSTANCE UndoStack
            WITH Doc <- Document, line <- Line, at <- cursor + 1, shown <- doc

ImplementsUndoStack == Abstract!Spec
=============================================================================
