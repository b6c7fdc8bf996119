------------------------------- MODULE CoreHost -------------------------------
(***************************************************************************)
(* The engine thread of the Windows application and the save fence         *)
(* (apps/windows/app/core_host.cpp, file_io_controller.cpp, inkpod-core/   *)
(* src/file_io/apply.rs, persistence_task.rs).  The UI thread queues edits,*)
(* strokes and file jobs for a session in one of its generations, and      *)
(* waits for the engine when it creates, rebinds or closes a session.  The *)
(* engine takes the first item of its queue that it may process and polls  *)
(* the file jobs it has started; I/O workers prepare and install files.    *)
(* What belongs to the engine thread alone changes in one step per item.   *)
(***************************************************************************)
EXTENDS Integers, FiniteSets, SequencesExt

CONSTANTS Session,      \* document sessions
          Generation,   \* generations a session can be bound in
          MaxWork,      \* kMaximumQueuedWork
          ReservedWork, \* kReservedStrokeControlWork
          MaxJobs,      \* kMaximumFileIoJobs
          MaxRequests   \* bound of the model on what the UI asks for

ASSUME HostAssumption ==
    /\ Generation \subseteq Nat \ {0}
    /\ {MaxWork, ReservedWork, MaxJobs, MaxRequests} \subseteq Nat

VARIABLES published, \* by session: the binding, accepting_work, pending_operations
          entries,   \* by session: the engine's binding, stroke and install fence
          cores,     \* by session: revision, savepoint, file authority, fence
          disk,      \* by session: the revision in the document's file, or None
          work,      \* the queue
          inputs,    \* file_io_inputs by token
          stopping,  \* set when the UI shuts the host down
          engine,    \* whether the engine thread runs
          ui,        \* the call the UI thread waits in
          requests   \* what the UI has asked for so far

vars == <<published, entries, cores, disk, work, inputs, stopping, engine, ui,
          requests>>

None == 0
Free == [op |-> "none", session |-> None, to |-> None, status |-> "done"]

Tokens == DOMAIN inputs

(* The stamp a save or open captures: everything that must be the same     *)
(* when its result is applied.                                             *)
Stamp(s) == <<cores[s].rev, cores[s].saved, cores[s].authority>>

-----------------------------------------------------------------------------
(* What the engine may process. *)

IsControl(w) == w.kind \in {"rebind", "close"}

(* FindEntry *)
Bound(w) == entries[w.session].gen = w.gen

(* HasTransitionControlLocked *)
Transition(w) == \E i \in DOMAIN work : /\ IsControl(work[i])
                                        /\ work[i].session = w.session
                                        /\ work[i].gen = w.gen

(* HasFileIoInputLocked *)
HasInput(w) == \E t \in Tokens : /\ inputs[t].session = w.session
                                 /\ inputs[t].gen = w.gen

Fenced(w) == entries[w.session].fence # None
Stroking(w) == entries[w.session].stroke

Stroke == {"begin", "append", "end", "cancel"}

(* Mutant of CanProcess: a control does not wait for file jobs. *)
CanProcessEarly(w) ==
    \/ w.kind = "create"
    \/ w.kind = "io" /\ w.token \notin Tokens
    \/ ~Bound(w)
    \/ IsControl(w) /\ ~Stroking(w) /\ ~Fenced(w)
    \/ w.kind = "edit" /\ ~Fenced(w) /\ ~(Stroking(w) /\ w.defer)
    \/ w.kind \in Stroke /\ ~Fenced(w)
    \/ w.kind = "io" /\ ~Fenced(w)
                     /\ (stopping \/ Transition(w) \/ ~Stroking(w))

(* CanProcess: what would change a document waits while its file is being  *)
(* installed, what a stroke must not be mixed with waits for its end, and  *)
(* a control waits for both and for every file job of its binding.         *)
CanProcess(w) ==
    \/ w.kind = "create"
    \/ w.kind = "io" /\ w.token \notin Tokens
    \/ ~IsControl(w) /\ ~Bound(w)
    \/ IsControl(w) /\ ~HasInput(w) /\ (Bound(w) => ~Stroking(w) /\ ~Fenced(w))
    \/ w.kind = "edit" /\ ~Fenced(w) /\ ~(Stroking(w) /\ w.defer)
    \/ w.kind \in Stroke /\ ~Fenced(w)
    \/ w.kind = "io" /\ ~Fenced(w)
                     /\ (stopping \/ Transition(w) \/ ~Stroking(w))

(* The first item that can be processed leaves the queue. *)
Turn(i) == /\ engine = "running"
           /\ CanProcess(work[i])
           /\ \A j \in 1..i - 1 : ~CanProcess(work[j])
           /\ work' = RemoveAt(work, i)

Idle == /\ engine = "running"
        /\ \A i \in DOMAIN work : ~CanProcess(work[i])

(* CompletePending; a binding that is no longer published has no count. *)
Complete(w) ==
    published' = IF published[w.session].gen # w.gen THEN published
                 ELSE [published EXCEPT ![w.session].pending =
                          IF @ > w.units THEN @ - w.units ELSE 0]

-----------------------------------------------------------------------------
(* The UI thread. *)

Asks == /\ ui = Free
        /\ requests < MaxRequests
        /\ requests' = requests + 1

(* The work of the session in its published generation. *)
Work(kind, s) == [kind |-> kind, session |-> s, gen |-> published[s].gen,
                  units |-> 1, token |-> None, defer |-> TRUE, to |-> None]

(* What every Push does first; a full queue takes it back and refuses.     *)
Accept(s) == /\ Asks
             /\ published[s].accepting
             /\ published' = [published EXCEPT ![s].pending = @ + 1]

PushEdit(s, defer) ==
    /\ Accept(s)
    /\ Len(work) < MaxWork
    /\ work' = Append(work, [Work("edit", s) EXCEPT !.defer = defer])
    /\ UNCHANGED <<entries, cores, disk, inputs, stopping, engine, ui>>

(* An append joins an append of its session at the end of the queue. *)
Joins(w) == /\ w.kind = "append"
            /\ work # <<>>
            /\ [Last(work) EXCEPT !.units = w.units] = w

PushStroke(s, kind) ==
    LET w == Work(kind, s)
        limit == IF kind = "append" THEN MaxWork ELSE MaxWork + ReservedWork
    IN  /\ Accept(s)
        /\ Joins(w) \/ Len(work) < limit
        /\ work' = IF Joins(w) THEN [work EXCEPT ![Len(work)].units = @ + 1]
                   ELSE Append(work, w)
        /\ UNCHANGED <<entries, cores, disk, inputs, stopping, engine, ui>>

(* EnqueueFileIo.  A token is used once; here a number of no live input is *)
(* as good, for an input goes only after its work item.                    *)
EnqueueFileIo(s, kind) ==
    /\ Accept(s)
    /\ Len(work) < MaxWork
    /\ \E t \in 1..MaxJobs \ Tokens :
          /\ \A u \in 1..t - 1 : u \in Tokens
          /\ work' = Append(work, [Work("io", s) EXCEPT !.token = t])
          /\ inputs' = [u \in Tokens \cup {t} |->
                 IF u \in Tokens THEN inputs[u]
                 ELSE [session |-> s, gen |-> published[s].gen, kind |-> kind,
                       units |-> 1, active |-> FALSE, cancelled |-> FALSE,
                       stage |-> "new", stamp |-> <<>>]]
    /\ UNCHANGED <<entries, cores, disk, stopping, engine, ui>>

(* FileIoController::Cancel *)
CancelFileIo(t) ==
    /\ Asks
    /\ ~inputs[t].cancelled
    /\ inputs' = [inputs EXCEPT ![t].cancelled = TRUE]
    /\ UNCHANGED <<published, entries, cores, disk, work, stopping, engine, ui>>

(* Control: the item is queued and the UI thread waits for its answer.     *)
Control(w) ==
    /\ Asks
    /\ Len(work) < MaxWork + ReservedWork
    /\ work' = Append(work, w)
    /\ ui' = [op |-> w.kind, session |-> w.session, to |-> w.to, status |-> "waits"]
    /\ UNCHANGED <<entries, cores, disk, inputs, stopping, engine>>

CreateSession(s, g) ==
    /\ published[s].gen = None
    /\ Control([Work("create", s) EXCEPT !.to = g])
    /\ UNCHANGED published

(* RebindSession and CloseSession stop the acceptance of work first. *)
Transit(s, kind, g) ==
    /\ published[s].accepting
    /\ published' = [published EXCEPT ![s].accepting = FALSE]
    /\ Control([Work(kind, s) EXCEPT !.to = g])

RebindSession(s, g) == g # published[s].gen /\ Transit(s, "rebind", g)

CloseSession(s) == Transit(s, "close", None)

(* The waiting call returns: what is published follows the engine. *)
Return ==
    /\ ui.status \in {"ok", "failed"}
    /\ published' =
           IF ui.status = "failed"
           THEN [published EXCEPT ![ui.session].accepting = @ \/ ui.op # "create"]
           ELSE [published EXCEPT ![ui.session] =
                    [gen |-> ui.to, accepting |-> ui.op # "close",
                     pending |-> IF ui.op = "rebind" THEN @.pending ELSE 0]]
    /\ ui' = Free
    /\ UNCHANGED <<entries, cores, disk, work, inputs, stopping, engine, requests>>

(* Stop, and the join that waits for the engine thread. *)
Stop ==
    /\ Asks
    /\ published' = [s \in Session |-> [published[s] EXCEPT !.accepting = FALSE]]
    /\ stopping' = TRUE
    /\ ui' = [Free EXCEPT !.op = "stop", !.status = "waits"]
    /\ UNCHANGED <<entries, cores, disk, work, inputs, engine>>

Stopped ==
    /\ ui.op = "stop"
    /\ engine = "gone"
    /\ ui.status = "waits"
    /\ ui' = [ui EXCEPT !.status = "done"]
    /\ UNCHANGED <<published, entries, cores, disk, work, inputs, stopping,
                   engine, requests>>

(* FileIoController::Poll: the timer answers what a prepared job asks for, *)
(* which the UI thread does not do while it waits for the engine.          *)
Answer(t) ==
    /\ ui = Free
    /\ inputs[t].stage = "asking"
    /\ ~inputs[t].cancelled
    /\ \E to \in {"agreed", "failed"} : inputs' = [inputs EXCEPT ![t].stage = to]
    /\ UNCHANGED <<published, entries, cores, disk, work, stopping, engine, ui,
                   requests>>

-----------------------------------------------------------------------------
(* The engine thread: edits, strokes and controls. *)

(* The Core's own fence: no document operation while its file is being     *)
(* installed or a stroke is under way.                                     *)
Editable(s) == ~cores[s].pending /\ ~entries[s].stroke

ProcessEdit ==
    /\ \E i \in DOMAIN work :
          LET w == work[i]
          IN  /\ w.kind = "edit"
              /\ Turn(i)
              /\ Complete(w)
              /\ cores' = IF Bound(w) /\ Editable(w.session)
                          THEN [cores EXCEPT ![w.session].rev = @ + 1] ELSE cores
    /\ UNCHANGED <<entries, disk, inputs, stopping, engine, ui, requests>>

(* A stroke that cannot go on is cancelled. *)
ProcessStroke ==
    /\ \E i \in DOMAIN work, ok \in BOOLEAN :
          LET w == work[i]
              s == w.session
              goes == ok /\ IF w.kind = "begin" THEN Editable(s)
                            ELSE entries[s].stroke
          IN  /\ w.kind \in Stroke
              /\ Turn(i)
              /\ Complete(w)
              /\ entries' = IF ~Bound(w) THEN entries
                            ELSE [entries EXCEPT ![s].stroke =
                                     goes /\ w.kind \in {"begin", "append"}]
              /\ cores' = IF Bound(w) /\ goes /\ w.kind = "end"
                          THEN [cores EXCEPT ![s].rev = @ + 1] ELSE cores
    /\ UNCHANGED <<disk, inputs, stopping, engine, ui, requests>>

NoEntry == [gen |-> None, stroke |-> FALSE, fence |-> None]
NewCore == [rev |-> 1, saved |-> None, authority |-> 1, pending |-> FALSE]

(* ProcessControl: a session may fail to be created, and a Core to be      *)
(* destroyed; its entry then stays, and the answer says so.                *)
ProcessControl ==
    /\ \E i \in DOMAIN work, ok \in BOOLEAN :
          LET w == work[i]
              s == w.session
              good == IF w.kind = "rebind" THEN Bound(w)
                      ELSE ok /\ (w.kind = "create" \/ Bound(w))
          IN  /\ w.kind = "create" \/ IsControl(w)
              /\ Turn(i)
              /\ ui' = [ui EXCEPT !.status = IF good THEN "ok" ELSE "failed"]
              /\ entries' =
                     CASE ~good -> entries
                       [] good /\ w.kind = "rebind" ->
                             [entries EXCEPT ![s].gen = w.to]
                       [] good /\ w.kind = "close" ->
                             [entries EXCEPT ![s] = NoEntry]
                       [] good /\ w.kind = "create" ->
                             [entries EXCEPT ![s] = [NoEntry EXCEPT !.gen = w.to]]
              /\ cores' = IF good /\ w.kind = "create"
                          THEN [cores EXCEPT ![s] = NewCore] ELSE cores
              /\ disk' = IF good /\ w.kind = "create"
                         THEN [disk EXCEPT ![s] = None] ELSE disk
    /\ UNCHANGED <<published, inputs, stopping, engine, requests>>

(* Mutant of Transitioning: only a closing session gives up its stroke. *)
TransitioningClosed(s) == \E i \in DOMAIN work : /\ work[i].kind = "close"
                                                 /\ work[i].session = s
                                                 /\ Bound(work[i])

(* TransitioningActiveStroke *)
Transitioning(s) == \E i \in DOMAIN work : /\ IsControl(work[i])
                                           /\ work[i].session = s
                                           /\ Bound(work[i])

GivesUpStroke(s) ==
    /\ entries[s].stroke
    /\ entries' = [entries EXCEPT ![s].stroke = FALSE]
    /\ UNCHANGED <<published, cores, disk, work, inputs, stopping, engine, ui,
                   requests>>

CancelForTransition(s) == Idle /\ Transitioning(s) /\ GivesUpStroke(s)

(* One session of CancelAllActiveStrokes. *)
CancelForShutdown(s) == Idle /\ stopping /\ GivesUpStroke(s)

(* PublishDuePreviews gives up a stroke it cannot show. *)
PreviewFails(s) == engine = "running" /\ GivesUpStroke(s)

Exit ==
    /\ Idle
    /\ stopping
    /\ work = <<>>
    /\ Tokens = {}
    /\ \A s \in Session : ~entries[s].stroke
    /\ engine' = "gone"
    /\ entries' = [s \in Session |-> NoEntry]
    /\ UNCHANGED <<published, cores, disk, work, inputs, stopping, ui, requests>>

-----------------------------------------------------------------------------
(* The engine thread: file jobs. *)

(* A job is stepped when its item is taken, and again when its poll is due. *)
IoTurn(t) ==
    \/ \E i \in DOMAIN work : /\ work[i].kind = "io"
                              /\ work[i].token = t
                              /\ Turn(i)
    \/ engine = "running" /\ inputs[t].active /\ UNCHANGED work

HostCancels(t) == stopping \/ Transition(inputs[t])
Cancelled(t) == HostCancels(t) \/ inputs[t].cancelled \/ ~Bound(inputs[t])

StrokeAfter(t) == Stroking(inputs[t]) /\ ~HostCancels(t)

(* Mutant of Served: another job's installation is not waited for. *)
ServedUnfenced(t) == Bound(inputs[t]) => ~StrokeAfter(t)

(* A stroke, or the installation of another job, keeps the job waiting. *)
Served(t) ==
    Bound(inputs[t]) => /\ ~StrokeAfter(t)
                        /\ entries[inputs[t].session].fence \in {None, t}

(* The entry of the session after the step, with this fence. *)
FenceWith(t, fence) ==
    entries' = IF ~Bound(inputs[t]) THEN entries
               ELSE [entries EXCEPT ![inputs[t].session].stroke = StrokeAfter(t),
                                    ![inputs[t].session].fence = fence]

FenceOf(t) == entries[inputs[t].session].fence
Unfenced(t) == IF FenceOf(t) = t THEN None ELSE FenceOf(t)

(* Pending: the operation is kept, at this stage. *)
Pends(t, stage, stamp) ==
    /\ inputs' = [inputs EXCEPT ![t].active = TRUE, ![t].stage = stage, ![t].stamp = stamp,
                                ![t].cancelled = @ \/ HostCancels(t)]
    /\ UNCHANGED published

(* The operation has its status: it is counted and dropped. *)
Ends(t) == /\ inputs' = Restrict(inputs, Tokens \ {t})
           /\ Complete(inputs[t])

IoWaits(t) ==
    /\ IoTurn(t)
    /\ ~Served(t)
    /\ inputs' = [inputs EXCEPT ![t].active = TRUE]
    /\ FenceWith(t, FenceOf(t))
    /\ UNCHANGED <<published, cores, disk, stopping, engine, ui, requests>>

(* Step submits the job, which captures what it is for; it may be refused. *)
IoSubmits(t) ==
    /\ IoTurn(t)
    /\ Served(t)
    /\ inputs[t].stage = "new"
    /\ ~Cancelled(t)
    /\ \/ /\ ~cores[inputs[t].session].pending
          /\ Pends(t, "preparing", Stamp(inputs[t].session))
       \/ Ends(t)
    /\ FenceWith(t, Unfenced(t))
    /\ UNCHANGED <<cores, disk, stopping, engine, ui, requests>>

(* The job runs, or its question is not answered: nothing to do but keep   *)
(* the fence of an installation.                                           *)
IoPolls(t) ==
    /\ IoTurn(t)
    /\ Served(t)
    /\ \/ inputs[t].stage \in {"preparing", "asking"} /\ ~Cancelled(t)
       \/ inputs[t].stage = "installing"
    /\ Pends(t, inputs[t].stage, inputs[t].stamp)
    /\ FenceWith(t, FenceOf(t))
    /\ UNCHANGED <<cores, disk, stopping, engine, ui, requests>>

(* Step asks the UI thread whether what was read may be opened: the        *)
(* document may change until it is applied.  A revert does not ask.        *)
IoAsks(t) ==
    /\ IoTurn(t)
    /\ Served(t)
    /\ inputs[t].kind = "open" /\ inputs[t].stage = "prepared"
    /\ ~Cancelled(t)
    /\ Pends(t, "asking", inputs[t].stamp)
    /\ FenceWith(t, FenceOf(t))
    /\ UNCHANGED <<cores, disk, stopping, engine, ui, requests>>

(* A cancelled or failed job that installs nothing ends. *)
IoGivesUp(t) ==
    /\ IoTurn(t)
    /\ Served(t)
    /\ \/ /\ Cancelled(t)
          /\ inputs[t].stage \in {"new", "preparing", "prepared", "asking", "agreed"}
       \/ inputs[t].stage = "failed"
    /\ Ends(t)
    /\ FenceWith(t, Unfenced(t))
    /\ UNCHANGED <<cores, disk, stopping, engine, ui, requests>>

Fresh(t) == inputs[t].stamp = Stamp(inputs[t].session)

(* apply, prepared: a save is fenced in and handed to an I/O worker, an    *)
(* opened document replaces the Core's; a result for another state of the  *)
(* document than the captured one is refused.                              *)
IoApplies(t) ==
    LET s == inputs[t].session
    IN  /\ IoTurn(t)
        /\ Served(t)
        /\ inputs[t].stage \in {"prepared", "agreed"}
        /\ ~Cancelled(t)
        /\ \/ /\ inputs[t].kind = "save"
              /\ Fresh(t)
              /\ Pends(t, "installing", inputs[t].stamp)
              /\ FenceWith(t, t)
              /\ cores' = [cores EXCEPT ![s].pending = TRUE]
              /\ UNCHANGED disk
           \/ /\ inputs[t].kind = "open"
              /\ Fresh(t)
              /\ ~cores[s].pending
              /\ Ends(t)
              /\ FenceWith(t, Unfenced(t))
              /\ cores' = [cores EXCEPT ![s] =
                              [rev |-> @.rev + 1, saved |-> @.rev + 1,
                               authority |-> @.authority + 1, pending |-> FALSE]]
              /\ disk' = [disk EXCEPT ![s] = cores[s].rev + 1]
           \/ /\ Fresh(t) => inputs[t].kind = "open" /\ cores[s].pending
              /\ Ends(t)
              /\ FenceWith(t, Unfenced(t))
              /\ UNCHANGED <<cores, disk>>
        /\ UNCHANGED <<stopping, engine, ui, requests>>

(* Mutant of Finalized: only a successful installation lifts the fence.    *)
FinalizedIfInstalled(t) ==
    LET s == inputs[t].session
    IN  CASE inputs[t].stage = "installed" /\ Fresh(t) ->
               [cores[s] EXCEPT !.saved = cores[s].rev, !.pending = FALSE,
                                !.authority = @ + 1]
          [] inputs[t].stage = "undone" -> cores[s]
          [] inputs[t].stage = "repaired" -> [cores[s] EXCEPT !.authority = @ + 1]
          [] inputs[t].stage = "revoked" ->
               [cores[s] EXCEPT !.saved = None, !.pending = FALSE]
          [] OTHER -> cores[s]

(* apply, installing: a success commits the save if nothing has changed    *)
(* since it was prepared, an installation that was undone lifts the fence  *)
(* and adopts the restored files as authority, and one that may have left  *)
(* anything revokes the path.  Left out: after an installation Core checks *)
(* again what the worker that made it has checked (its document, format,   *)
(* path and files); if it found otherwise, it would not lift the fence.    *)
Finalized(t) ==
    LET s == inputs[t].session
    IN  CASE inputs[t].stage = "installed" /\ Fresh(t) ->
               [cores[s] EXCEPT !.saved = cores[s].rev, !.pending = FALSE,
                                !.authority = @ + 1]
          [] inputs[t].stage = "undone" -> [cores[s] EXCEPT !.pending = FALSE]
          [] inputs[t].stage = "repaired" -> [cores[s] EXCEPT !.authority = @ + 1,
                                                    !.pending = FALSE]
          [] inputs[t].stage = "revoked" ->
               [cores[s] EXCEPT !.saved = None, !.pending = FALSE]
          [] OTHER -> cores[s]

IoFinalizes(t) ==
    /\ IoTurn(t)
    /\ Served(t)
    /\ inputs[t].stage \in {"installed", "undone", "repaired", "revoked"}
    /\ Ends(t)
    /\ FenceWith(t, Unfenced(t))
    /\ cores' = [cores EXCEPT ![inputs[t].session] = Finalized(t)]
    /\ UNCHANGED <<disk, stopping, engine, ui, requests>>

ProcessFileIo(t) ==
    \/ IoWaits(t) \/ IoSubmits(t) \/ IoPolls(t) \/ IoAsks(t) \/ IoGivesUp(t)
    \/ IoApplies(t) \/ IoFinalizes(t)

-----------------------------------------------------------------------------
(* The I/O workers. *)

Prepare(t) ==
    /\ inputs[t].stage = "preparing"
    /\ \E to \in {"prepared", "failed"} : inputs' = [inputs EXCEPT ![t].stage = to]
    /\ UNCHANGED <<published, entries, cores, disk, work, stopping, engine, ui,
                   requests>>

Install(t) ==
    LET s == inputs[t].session
    IN  /\ inputs[t].stage = "installing"
        /\ \/ /\ inputs' = [inputs EXCEPT ![t].stage = "installed"]
              /\ disk' = [disk EXCEPT ![s] = inputs[t].stamp[1]]
           \/ /\ \E to \in {"undone", "repaired"} :
                    inputs' = [inputs EXCEPT ![t].stage = to]
              /\ UNCHANGED disk
           \/ /\ inputs' = [inputs EXCEPT ![t].stage = "revoked"]
              /\ disk' = [disk EXCEPT ![s] = None]
        /\ UNCHANGED <<published, entries, cores, work, stopping, engine, ui,
                       requests>>

-----------------------------------------------------------------------------
Init ==
    /\ published = [s \in Session |-> [gen |-> None, accepting |-> FALSE,
                                       pending |-> 0]]
    /\ entries = [s \in Session |-> NoEntry]
    /\ cores = [s \in Session |-> NewCore]
    /\ disk = [s \in Session |-> None]
    /\ work = <<>>
    /\ inputs = <<>>
    /\ stopping = FALSE
    /\ engine = "running"
    /\ ui = Free
    /\ requests = 0

UI == \/ \E s \in Session :
            \/ \E defer \in BOOLEAN : PushEdit(s, defer)
            \/ \E kind \in Stroke : PushStroke(s, kind)
            \/ \E kind \in {"save", "open"} : EnqueueFileIo(s, kind)
            \/ \E g \in Generation : CreateSession(s, g) \/ RebindSession(s, g)
            \/ CloseSession(s)
      \/ \E t \in Tokens : CancelFileIo(t)
      \/ Stop

Engine == \/ ProcessEdit
          \/ ProcessStroke
          \/ ProcessControl
          \/ \E s \in Session : CancelForTransition(s) \/ CancelForShutdown(s)
          \/ \E t \in Tokens : ProcessFileIo(t)
          \/ Exit

Next == \/ UI
        \/ Return
        \/ Stopped
        \/ Engine
        \/ \E s \in Session : PreviewFails(s)
        \/ \E t \in Tokens : Answer(t) \/ Prepare(t) \/ Install(t)

Spec == Init /\ [][Next]_vars

(* The engine loop takes an item, or gives up a stroke or leaves when there*)
(* is none to take, and polls every job that is due, in each round; a      *)
(* worker ends each job, a call that was answered returns, and the timer   *)
(* of the UI thread answers a job once no call keeps the thread waiting.   *)
Fairness ==
    /\ WF_vars(\/ ProcessEdit \/ ProcessStroke \/ ProcessControl \/ Exit
               \/ \E s \in Session : CancelForTransition(s) \/ CancelForShutdown(s))
    /\ \A t \in 1..MaxJobs :
          /\ WF_vars(t \in Tokens /\ ProcessFileIo(t))
          /\ WF_vars(t \in Tokens /\ (Prepare(t) \/ Install(t)))
          /\ WF_vars(t \in Tokens /\ Answer(t))
    /\ WF_vars(Return \/ Stopped)

FairSpec == Spec /\ Fairness

-----------------------------------------------------------------------------
(* Properties. *)

(* What the Core takes for saved is what its file holds, once no           *)
(* installation is under way: nothing that happens between the capture of  *)
(* a save, its installation and its last apply makes a document look saved *)
(* that is not, or leaves an installed save without its Core's consent.    *)
SavedIsInstalled ==
    \A s \in Session :
        \/ cores[s].saved = disk[s]
        \/ \E t \in Tokens : /\ inputs[t].session = s
                             /\ inputs[t].stage \in {"installed", "revoked"}

(* The edits and strokes of s that wait in a queue, and what they count.   *)
Edits(q, s) == {i \in DOMAIN q : q[i].session = s /\ q[i].kind \in Stroke \cup {"edit"}}
Units(q, s) == SumFunctionOnSet([i \in DOMAIN q |-> q[i].units], Edits(q, s))
Jobs(s) == {t \in Tokens : inputs[t].session = s}

(* Work waits only for a published binding, and pending_operations counts  *)
(* it: a session that is rebound or closed leaves no work behind for the   *)
(* generation that follows, and none is counted for ever.                  *)
PendingCountsWork ==
    \A s \in Session :
        /\ \A i \in Edits(work, s) : work[i].gen = published[s].gen
        /\ \A t \in Jobs(s) : inputs[t].gen = published[s].gen
        /\ published[s].pending = Units(work, s) + Cardinality(Jobs(s))

(* The UI thread never waits for ever: a control waits for strokes and     *)
(* file jobs that wait for strokes, fences and each other.                 *)
ControlReturns == ui.status = "waits" ~> ui.status # "waits"

(* A file job ends unless the user goes on drawing, and every fence lifts: *)
(* whatever an installation comes to, its document can be edited again.    *)
(* It rests on Core finding an installed pair as the worker left it.       *)
FileIoEnds ==
    /\ \A t \in 1..MaxJobs :
          t \in Tokens ~> \/ t \notin Tokens
                          \/ Stroking(inputs[t])
    /\ \A s \in Session :
          cores[s].pending \/ entries[s].fence # None
              ~> ~cores[s].pending /\ entries[s].fence = None
=============================================================================
