# Verification of inkpod

inkpod is a Windows drawing and ink-and-paint program: a Rust core
(`rust/inkpod-core`), a file I/O library (`rust/inkpod-io`), formats and codecs
(`rust/inkpod-format`, `rust/inkpod-image`), a C ABI (`rust/inkpod-ffi`) and a C++
application (`apps/windows`). This directory holds TLA+ models of the parts whose
correctness depends on order, failure and concurrency, the TLC configurations that
check them and TLAPS proofs about them. All line numbers refer to the source of this
repository.

## 1. Inventory

| Component | State it keeps | Operations | What is hard | What must hold |
|---|---|---|---|---|
| Recoverable pair publication (`inkpod-io/src/pair.rs`) | Journal, commit and rollback markers, token-private stages and backups on disk; the set `pair_owners` | `prepare_pair_*`, `install_with_outcome`, `recover_pairs`, drop of a prepared pair | Crash at any step, failing rollback, other programs in the directory, several documents on one pair | A save takes effect on both files or on neither; reports are truthful; foreign files survive; interrupted saves are resolved |
| Executor and jobs (`inkpod-io/src/executor.rs`, `job.rs`, `manager.rs`) | Bounded queue, `stopped`, weak controls, progress, results | `submit`, `submit_images`, `cancel`, `shutdown`, `shutdown_and_wait` | Lost wake-ups, yielding lanes on a full queue, cancellation racing completion, shutdown racing submission | Bounded queue, no starvation, results before terminal states, shutdown misses nothing, join returns |
| File locks and transactions (`file_lock.rs`, `transaction.rs`) | Weak map of mutexes keyed by path and by identity | `with_file_locks`, replace, discard | Lock order over two kinds of key, hard links, cancellation while waiting | Mutual exclusion per file, no deadlock |
| Image cache (`cache.rs`, `image.rs`) | Encoded, decoded and target budgets, LRU, leases | reserve, insert, lookup, evict, invalidate, lease drop | Reservations concurrent with eviction and lease drops | Budgets never exceeded, no charge without an owner, pinned entries stay |
| Companion discovery, authority (`companion.rs`, `authority.rs`) | Inventories under a namespace observer, tokens | discover, resolve identity | Stale inventories | A cached answer equals a fresh one |
| Recovery artifacts (`inkpod-io/src/recovery.rs`, `inkpod-core/src/file_io/recovery.rs`, `main_window_runtime.cpp`, `document_session.cpp`) | Attempts on disk (native file and metadata), the artifact of the open document, of each cell that was left, reservations | autosave, leave a cell, associate, discard, save, revert, import, close | A crash between native file and metadata; completions that come after the session went on | Recorded work stays recorded until it is saved or given up; an attempt is never associated with another document |
| File jobs and the save fence (`inkpod-core/src/file_io/{job,prepare,apply}.rs`, `persistence_task.rs`) | Pair authority of a Core, fence, prepared results | open, save, install, apply, authority repair | The document changes between fence and apply; stale completions | Savepoints advance only with an installed pair; no save is applied to another document state |
| Journal, history, savepoints (`journal.rs`, `history.rs`, `core.rs`, `primitive/executor.rs`) | Visible history and cursor, append-only journal, branch tails, id cursor, recorded inverses, savepoint | edit, undo, redo, jump, release and rebuild of inverses, new cell | Long call sequences; inverses that record parts only; branch cuts inside a commit; ids that are never taken back | Cursor, history, journal, tails and document agree; the journal replays to the document; clean means saved |
| Native persistence (`persistence.rs`, `persistence_task.rs`, `genesis.rs`) | The native file of a document, recovery copies, compacted copies | save, autosave, write a compacted copy, open, open recovery | The counters a file keeps against the ones replay rebuilds | What was saved opens again, in the state it was saved in |
| Sequence residents and switching (`sequence_io.rs`, `target_cache.rs`, `session.rs`) | Resident cells, validated targets | switch at once, prepared switch, adopt | Edits and autosaves while a switch is prepared; a refused exchange | The old cell stays active until success; its unsaved work is recorded or resident |
| Core host and sessions (`core_host.cpp`, `document_session.cpp`, `file_io_controller.cpp`) | Engine thread, work queue, bindings by generation | post, cancel, close | Work for a binding that was replaced | Stale work never reaches a new document |
| Formats, codecs, drawing, InkScript, C ABI, UI, renderer | data | sequential or pure | data transformation | not protocol properties |

How they interact: the application posts work to the engine thread of `CoreHost`; a
Core prepares file jobs, whose closures run on the executor of the one `IoManager`. A
job takes file locks and the owner of a pair; its result is polled, taken and applied
on the engine thread. Documents share nothing but the manager (locks, owners, cache,
queue) and the disk. The application is a single instance per user
(`apps/windows/app/activation.cpp`), so other processes appear only as other programs.

`PROJECT.json` lists every component with its status, and every hazard with its line
and the properties that would catch it.

## 2. Plan

Done, in this order:

1. `PairInstall` with its abstract specification `AtomicPair`, and their proofs.
2. `IoExecutor`, and its proofs.
3. `FileLocks`, and the proof of exclusion.
4. `ImageCache`, and its proofs (sums over owners in `FiniteSums`).
5. `DocumentHistory` with its abstract specification `UndoStack`, and their proofs; on
   top of it `DocumentFile` (what files keep of a document), and its proofs.
6. `CoreHost`: the engine thread, its queue, the sessions' generations and the save
   fence; file jobs are prepared and installed by workers, as units of `IoExecutor`, and
   what an installation does to the pair is `PairInstall`; and its proofs.
7. `RecoveryArtifacts`: what becomes of unsaved work through autosaves, switches of cells,
   saves, reverts and imports; and its proofs.

Left: the preparation of a switch in Core (target cache and resident bank), the composition
of `CoreHost` with `AtomicPair` in one state space, InkScript's batch front end.

## 3. Modules

| Module | Contents |
|---|---|
| `AtomicPair` | What a save promises: `value` changes only by `Commit`, both members at once; a refused save stays refused |
| `PairInstall` | `pair.rs` on the Windows backend, step by step, with crash, failure and interference; the properties; mutants |
| `PairInstallInv` | The inductive invariant in two layers |
| `PairInstallProofs` | Proofs: types, reports and commit; the directory invariant; refinement; foreign files, stages, what documents see |
| `IoExecutor` | `executor.rs`, `job.rs`, the submissions of `manager.rs` |
| `IoExecutorProofs` | Its safety properties, and that no wakeup is lost |
| `FileLocks` | `file_lock.rs`, `transaction.rs` |
| `FileLocksProofs` | Types, mutual exclusion, no ring of waiting transactions |
| `ImageCache` | `cache.rs`, `image.rs`, the reads of `manager.rs` |
| `FiniteSums` | Sums over finite sets and induction over numbers, for the proofs about budgets and counts |
| `ImageCacheProofs` | What is served, and the budgets |
| `UndoStack` | What undo promises: a line of documents with a cursor |
| `DocumentHistory` | `history.rs`, `journal.rs`, `core.rs`, `primitive/executor.rs` |
| `DocumentProofs` | Its invariants; that it implements `UndoStack`; that the journal replays; what files keep |
| `DocumentFile` | `persistence.rs`, `persistence_task.rs`; extends `DocumentHistory` |
| `CoreHost` | `core_host.cpp`, `file_io_controller.cpp`, `file_io/{job,apply}.rs` |
| `CoreHostProofs` | What is saved, and what the pending operations count |
| `RecoveryArtifacts` | `main_window_runtime.cpp`, `document_session.cpp`, `recovery.rs` |
| `RecoveryArtifactsProofs` | Its three safety properties |
| `MCPairInstall`, `MCIoExecutor`, `MCFileLocks`, `MCImageCache` | Values for TLC, symmetry |

An operator whose comment says "Mutant of X" is not part of the specification. It has
X's parameters and shows a plausible slip in X; replacing X by it must break a property
of a run (`PROJECT.json`, "mutants").

### PairInstall

*State.* `dir` is the directory at the two member names and the five deterministic
marker names; `priv[t]` holds the token-private stages and backups of save t; `rec[t]`
is the record of save t (the originals it names). A file has a physical identity
(`kind`, `by`) and contents (`val`), which is exactly what stamps and digests tell
apart. `owner`, `step`, `op`, `cur`, `mem`, `cls`, `todo`, `stamps`, `overwrite` are
the locals of the one job that owns the pair: `PairOwner::acquire` refuses every other
job. `opened` and `seen` are the documents and the pair each believes is on disk;
`reading` are the opens that have recovered the pair, released the owner and not read
it yet. `outcome` and `done` are history.

*Actions.* One per file operation or check that can fail. `Look`, `Recover*` are
`recover_pairs_owned` and `recover_record`; `PrepareBegins` to `Seal` are
`prepare_pair_with_expectation`; `ScratchRemoves` is `Scratch::drop`; `InstallBegins`,
`Mark*`, `Inst*`, `Final`, `Commit*` are `install_outcome_inner` with
`publish_rollback_marker`, `install_member_exact` and `publish_commit_marker`; `Undo`
to `Restored` are `rollback_install_record`; `Clean*` are `cleanup` and
`cleanup_with_stamps`; `PreparedDropped` is `PreparedPair::drop`. `ReadPair` is the part
of opening after `recover_pairs`. Its reads and rereads of both stamps are one step:
the code accepts only if both stamps are unchanged at the end, under both locks.
`Crash` loses everything in memory; `External` lets another program replace, delete or
rewrite a member, or add a companion candidate.

*Abstractions.* Only the Windows backend: rename without overwrite is atomic, a check
and delete go through one handle. A failed rename has no effect. A crash is a process
crash: what was renamed is there. A marker stage may be torn by a crash (`CrashTears`).
Tokens never repeat (the code uses process id and counter). Read-only members, paths
and symbolic links are not modelled. Other programs touch members and the directory,
not the evidence files. Opening a new document is reading a pair of two absent members.
`publish_rollback_marker_inner` can write a missing rollback stage again during crash
recovery. That branch is left out because it is never taken here: a record that has to
be rolled back already has its marker (`Marks` in `PairInstallInv` is the reason).

*Bounds.* `MaxSaves` saves, `MaxCrashes` crashes, `MaxFaults` failing operations
(`IoError` counts only failures whose check would have passed), `MaxExt` interferences.
Two saves are needed for a save over the result of an earlier one; two crashes for a
crash in recovery; two faults for a rollback that itself fails.

### IoExecutor

*State.* `queue` and `stopped` are `QueueState`; `at`, `unit`, `file`, `got` are the
program counter and locals of each worker; `progress`, `next`, `remaining`, `results`
are the shared state of a job; `phase` tells whether a submission was checked, admitted
or refused; `joiner` is the caller of `shutdown_and_wait`.

*Actions.* Each is what happens under one lock or as one atomic access: `Check` and
`Enqueue` are separate because `check_running` releases the queue before `enqueue`
takes it; `Poll`, `Yield` are `worker_loop`; `Start` to `Final` are the closures of
`submit_with_context` and `submit_images_with_context`. What a unit does is open: it
completes, fails or, if it sees the flag, is cancelled.

*Abstractions.* Mutexes are fair, spurious wake-ups only poll again and are left out.
Results are never taken. Child contexts, cleanup jobs without a result, `set_phase` and
`set_work` are not modelled. `shutdown_and_wait` has one caller, as in
`inkpod-ffi/src/file_io/exports.rs`. `CHECK_DEADLOCK FALSE` because workers may wait for
ever for work, or have all exited.

### FileLocks

*State.* `entries` is the table of weak references, `owners` the strong references of
each task and `held` its guards, so that a mutex lives as long as a task owns it and a
key may get a second mutex when the first one died. `file` is what each path names on
disk; `poisoned` are the mutexes whose holder panicked.

*Actions.* `Begin` to `Enter` are `with_file_locks` and `LockedTransaction`: acquire the
mutexes of the paths in their order, read which physical file each path names
(`Identify`), acquire the identities in their order, act. `Cancel` is the cancellation a
waiting task polls; `WriteAtomic`, `Remove`, `Rename` are what an action does to the
identities while others wait for them; `Panic` leaves by unwinding; `MeetPoison` is the
refusal of the next one. Identities another program changes, and reads of other
programs, are not modelled. Bounds: two paths per transaction, two transactions in all;
four paths, with links in the same and in the opposite order of the paths.

### ImageCache

*State.* `entries` and `order` are the cache and its LRU list; allocations are not
counted but owned: budgets are computed (`Images`, `Encoded`, `Decoded`) from the leases
that exist (`leases` of consumers, `mine` of workers) and the entries, which is what the
reference counts in the code amount to. `disk[f]` are the versions another program has
written; the index is the stamp.

*Actions.* One per step under the cache's mutex or outside of it: `Open` to
`InsertBytes` read a file in chunks between two checks of its stamp and verify it in a
second pass; `Reserve*`, `Evict`, `Refuse`, `Admit` make room; `Decode`, `Derive`,
`Collect`, `Charge` are the decoded, derived and sequence charges (all allocations of a
sequence render are of one size, so that `MaxSequences` stands for the limit on their
number and for the one on their bytes, whichever is reached first); `Upgrade` and `Retain` are
`retain_exact`; `Drop`, `Discard`, `Invalidate` are the consumers; `WriteOutside` is the
other program. `FileLocks` is taken as given: two workers do not read one file.

### DocumentHistory, UndoStack

*State.* The fields of `Core` under their names: `history` and `history_cursor`, the
journal with its commits, moves and branch cuts, `branch_tails`, `active_branch`,
`current_state`, `next_state`, `next_id` and the genesis. A document is a paint (what an
edit that records only its own part changes) and a set of object ids (what an edit that
records the whole document changes, and where ids are allocated); a digest is the
document. Limits of the journal are constants of the code and small numbers here.

*Actions.* `Execute` (an edit: branch cut if it forks, commit, tail, cursor), `Undo`,
`Redo`, `JumpHistory`, `ReleaseHistoryCache` (inverses are dropped, and rebuilt by replay
when next needed), `NewCell`. `Replayed` folds the journal into a document, history and
tails as `journal.rs` does; `Verified` is the comparison of a replay with the live Core
that saving and rebuilding make.

`UndoStack` is the reference: `Edit` drops what is beyond the cursor and appends, `Move`
only moves the cursor.

### DocumentFile

*State.* `files` are the normal file, the recovery copy and the compacted copy, each the
journal with the counters META, GENS, PROC and CKPT keep; `savepoint` and `path` are the
Core's. *Actions.* `Save`, `Autosave` (verified first; a checkpoint when due, or when the
byte and work counters that are not modelled say so), `WriteCompactedCopy`, `Open`,
`OpenRecovery`, `NewDocument`. `Opens(f)` is every comparison that opening makes. A crash
loses the Core and keeps the files, so it is an `Open`. Publication is atomic here: that
is what `PairInstall` shows.

### CoreHost

*State.* `published` is what the UI thread sees of a session (binding, acceptance,
pending operations), `entries` the engine's record of it, `cores` the revision, savepoint
and file authority of its Core, `disk` the revision in its file, `work` the engine queue,
`inputs` the file jobs the engine polls, `ui` the call the UI thread waits in.

*Actions.* The UI posts edits, strokes and file jobs, cancels jobs, creates, rebinds and
closes sessions and stops the host. The engine takes the first item it may process
(`CanProcess`), cancels what a transition or the shutdown has to cancel, and advances a
job (`ProcessFileIo`: wait for strokes and fences, submit, ask the UI thread before an open
is applied, take the fence, apply with the stamp compared, finalize). The UI thread's timer
gives the `Answer`, unless the thread waits in a call. A session may fail to be created and a
Core to be destroyed (`ProcessControl`). Workers `Prepare` and `Install`. What belongs to the
engine thread alone changes in one step per item.

*Abstractions.* One UI thread is the only producer, as in the application. File jobs are
saves and opens. Reusing a token after it was released is harmless and the model does so.
Queries, snapshots, views, notifications, metrics, InkScript and autosave (which takes no
fence) are not modelled. After an installation `apply.rs` (176-200) checks once more what the
worker that made it has checked: the document's id and format, the path, and the items. If
one of these checks failed, `apply` would return its error with the fence still up; the model
takes them to succeed, so `FileIoEnds` and `FencesLift` say nothing of that case.

### RecoveryArtifacts

*State.* `active` is the open cell of a sequence, `ver[c]` and `saved[c]` the version of a
cell in memory and at its savepoint, `resident` the inactive cells Core keeps ready.
`shell` is the artifact of the open document with its generation, `retained[c]` the shell
a cell was left with, `binding[c]` and `reserved` are `sequence_autosaves_` and
`sequence_autosave_reservations_`. `jobs` are the session's file jobs with what they
captured when they were asked for (`current` is false once the persistence epoch has
advanced); `art[a]` is an attempt on disk (nothing, the native file, both files, gone) and
`cleanup` the attempts that wait for their discard. `owed` and `imported` are history: the
newest version of a cell that was recorded since the cell was last safe, and the cells whose
recorded work an import has taken (those it closes, and the open one when its work was
recorded with the discarded association alone).

*Actions.* `Autosave`, `Write`, `AutosaveDone` are `QueueAutosave`, `write_recovery` (two
installations) and the completion with its checks of epoch, generation and document.
`ResidentSwitch` is `TryResidentSequenceReplacement`: the autosave is queued and the
documents change at once; `RefusedSwitch` is a refusal after the autosave was queued;
`ResidentDone` publishes the reserved artifact. `Switch`, `Fence`, `SwitchDone` are
`QueueResolvedSequenceReplacement` and `CompleteSequenceSwitchAuthority`. `Save`,
`Revert`, `Import` with their completions, and `Close` with the user's approval, discard
artifacts. `Fail` is a job that fails, is cancelled or refused by the fence; `Discard` is
one discard with a proof, which may fail. A crash loses the memory and keeps the files,
so what must survive it is stated of every state.

*Abstractions.* A version stands for everything Core would have to preserve
(`sequence_source_recovery_required`: also clean edits of the editor and redo tails). A
job captures its document when it is asked for: edits before its preparation are an edit
before the command. Attempt paths are fresh (they hold a GUID). The limits of 64 reservations
and 10000 associations (`document_session.cpp` 323, 345, 410) are left out: the model is of
sessions below them. At the limit of associations a reserved artifact may be refused when it
is published, and the completion does not take its reservation back
(`main_window_runtime.cpp` 13348-13357); `ReservationsMatchJobs` says nothing of that case. An
import names the same
cells again. Closing is one step, and a discard it cannot make leaves the session open.
Left out: other programs, the Light Table, opening another document in the session,
sessions opened from a recovery file, failed allocations, a prepared switch to a cell
that is bound to an artifact and no longer resident, and the shell that is retained when
the reservation is refused (the next leave overwrites it).

## 4. Runs

| Run | Bounds | Shows |
|---|---|---|
| `pair_crash` | 2 documents, 2 saves, 2 crashes, 1 fault, torn stages | `ImplementsAtomicPair`, `OldPairRecoverable`; `DocumentsSeeWholeSaves` for a document that reads while another saves, fails or crashes |
| `pair_live` | 2 saves, 2 crashes | `StagesOwned`: crashes alone leave no stage without its record; `Resolves`: the next open or save resolves what a crash left |
| `pair_ends` | 1 document, 1 save, 1 crash, 2 faults, 1 interference | `OwnerReleased`: every job lets go of the pair; `OnlyKnownFilesRemoved`: what others put in a member's place is never removed unseen; `OutcomeTruthful`, `RecoveryComplete`, `CommitFinal` |
| `pair_scratch` | 1 fault | violation of `StagesOwned` (first finding) |
| `exec` | 2 workers, a closure, a batch of 3, queue of 2 | `FairTurns`, `ProgressCoherent`, `OutcomeFaithful`, `StoppedCancels`, `ShutdownDrains`, `EndedForGood`, `AdmittedEnds`, `DrainReturns` |
| `locks` | 2 tasks, 4 paths, 4 identities, 2 transactions | `Exclusive`, `Finishes` (no ring of waiting transactions), `PoisonPasses` |
| `cache` | 2 workers, 2 files, up to 3 versions, 2 images, 4 encoded and 3 decoded bytes | `ServesContent`, `BudgetsKept`, `PixelsOfBytes`, `KeepsPinned` |
| `doc_history` | 4 commits, 6 events, 3 branches, 3 ids | `HistoryIsBranch`, `IdsNeverReused`, `JournalReplays`, `BranchesKept`, `ImplementsUndoStack` |
| `doc_file` | 6 edits and writes, 2 commits, 4 events, 2 ids | `CleanMeansSaved`, `SavedOpens` |
| `doc_reopens` | the same, without checkpoints | violation of `SavedReopens` (second finding) |
| `core_host` | 1 session, 2 generations, queue of 2, 2 jobs, 5 requests | `SavedIsInstalled`, `PendingCountsWork`, `ControlReturns`, `FileIoEnds` |
| `recovery` | 2 cells, 5 commands, 2 failures | `PublishedKept`, `AssociationsSound`, `ReservationsMatchJobs` |

*Why the bounds are enough.* Executor: as many lanes as workers and as queue places (every
worker holds a continuation and the queue is full), more files than lanes, a single
closure waiting behind a batch. Locks: two transactions over two paths each are what a
ring needs; a third identity appears when a write replaces a file. Cache: the budgets hold
less than what the workers want at once, so reservations fail, evict and meet pinned
entries; one file is rewritten between chunks. History: a branch cut in the middle of a
branch, with a commit on either side and a jump between them, needs three branches and
four commits. Files: create, undo, save, open and edit again fit in six steps. Host: a
queue of two with one reserved place is full with one edit; five requests are a stroke, a
save, an edit and a rebinding in any order. Recovery: edit, leave, enter, edit and leave again
(while the first autosave of the cell runs, failed, or was just published) are five commands. Pairs: one failing operation with
two documents, since two need the undoing of an installation to fail as well; that case is
in `pair_ends`, and for the refinement it is proved. Symmetry is used in runs without liveness
only; the permuted documents and workers are alike.

*Fairness.* `FairSpec` of PairInstall has `WF_vars(Worker)`: a job runs on a thread of
the pool that nothing but file locks and cancellation can hold up, and no step waits for
the user. Opening, saving, crashing and interference are not fair. `FairSpec` of
IoExecutor has weak fairness per worker step (threads run, and units of work end) and of
the join; submitting, cancelling and shutting down are not fair. `LiveSpec` of FileLocks
has weak fairness per task: threads run and actions end; beginning, cancelling and
panicking are not fair. `FairSpec` of CoreHost: the engine loop
does one thing for its queue in each round (it takes the first item it may, gives up a
stroke, or leaves) and polls due jobs, workers end what they do, a call that was answered
returns, and the timer of the UI thread answers a job unless a call keeps the thread waiting
(the preflight of an open compares files and shows no dialog). The user is not fair, and may
draw for ever: `FileIoEnds` exempts a job that waits for a stroke.

*Deadlock* is switched off where the system may rightly stop: workers that wait for work
or have left, tasks that have run all their transactions, a document at the limits of its
journal, a host that was shut down, a document that was closed.

*Findings.* (1) A removal that fails while `Scratch` undoes a preparation is ignored, and
the journal is removed after it: a deterministic stage stays without a record, and later
opens and saves of the pair stop there, against the comment at `pair.rs` 436-438. (2) An
object is created, the creation is undone (or left on another branch) and the document is
saved. Undo does not take the stable id back, so META keeps the live cursor
(`persistence.rs` 368); saving verifies the journal without comparing it. Replay starts
every procedure from its parent's cursor (`journal.rs` 1265), so opening finds a smaller
one and refuses the file (`persistence.rs` 541), unless the file has a checkpoint. This
contradicts `docs/architecture.md` 2097 and the watermark of `docs/file-format.md`
282-289. `JournalReplays` and `SavedOpens` are therefore stated for journals without an
undone allocation. After a second allocation on top of the undone one, even verification
fails, and the document can be neither saved nor have its inverses rebuilt.

*Remarks that are no findings.* The comment at `pair.rs` 836-839 says that crash recovery
takes two replacements for completed; `recover_record` rolls them back, as
`docs/file-format.md` 1343 says. A compacted copy keeps the live id cursor, and opening
compares it with the ids in its document (`persistence.rs` 205): after the newest object
was created and deleted again the copy cannot be opened. `Compacted` and `Opens` model
both sides; nothing in the repository says that such a copy opens.
Importing a sequence (`main_window_runtime.cpp` 11125-11133, also by automatic discovery)
drops the resident cells of the old catalog and discards the artifacts of all cells without
asking; when the open document was entered through its cell's artifact (edit a, leave it,
return), its own unsaved work is no longer recorded until the next autosave.
`docs/architecture.md` 2157-2159 says an artifact is retained until explicit discard or a
successful normal save; whether an import is such a discard is a matter of reading, and
`PublishedKept` excepts what the import takes: the cells it closes, and the open one in the
case above. It still covers an open document with an artifact of its own. An autosave of a document that was entered through
its cell's artifact discards that artifact while the cell's binding still names it; when
the cell is left and entered again, the autosave's own artifact is no longer named by
anything and stays in the list of the next start, even after a save. Nothing is lost by it.

*A limit of `DocumentsSeeWholeSaves`.* Between recovering and reading, an open holds no
owner. If in that gap another document's installation fails and its undoing fails too
(two faults), the reader finds the new native member and no raster, and accepts it. A
raster that is there is compared with the native contents, which excludes other
mixtures. The evidence stays, the next open or save restores the old pair, and a save of
the reader then meets changed stamps and asks for confirmation. `pair_crash` therefore
has one fault; no comment of the source promises more.

## 5. Proofs

The theorems hold for every value of the constants that satisfies the named assumption of
each module; TLC evaluates the assumptions in the runs.

**PairInstall** (`PairAssumption`: bounds are natural numbers, `Nobody` is no document; any
set of documents).

*With any interference* (any `MaxExt`):

- `TypeCorrect`: `[]TypeOK`. `TypeInv` adds that a job past recovery's first look has an
  owner and a token that was handed out, and that a save still has a token to take.
- `Truthful`, `RecoveryIsComplete`, `CommitIsFinal`, from `FateInv`: `PendingInv` (a save
  on its way to its commit marker is neither committed nor reported), `DecidedInv` (an
  undo runs only for a save that is not committed, unless it stops at the marker),
  `UncommittedInv` (members are moved only while there is no commit marker) and
  `EvidenceInv` (cleaning knows every marker that is left).
- `ForeignFilesSurvive`: `Spec => OnlyKnownFilesRemoved`. From its token on, a save that was
  not confirmed works on the record of what its document last saw (`KnownInv`, for the steps
  `Expecting`): closing is refused while the document owns the pair, and nothing else writes
  `seen` of a document whose job is under way. A restored backup replaces nothing.

*When no other program touches the pair* (`MaxExt = 0`):

- `SafeAlways`: `[](TypeInv /\ FateInv /\ PairInv)`. `PairInv` ties the markers to the
  members (`Marks`: with a commit marker both members are replaced; without one and
  without a rollback marker both are the originals; with a rollback marker each can be
  restored) and says what each step may rely on (`StepInv`: e.g. all backups exist while
  members are swapped). `OldPairRecoverable` and the refinement are not inductive without
  it: whether the restoration in progress ends in the old pair depends on `cls` and `mem`.
- `OldPairIsRecoverable`: `[]OldPairRecoverable`.
- `Refinement`: `Spec => ImplementsAtomicPair`. The mapping takes the recorded originals
  while a record is in doubt and the directory otherwise (`PairValue`); `CommitMove` is
  the commit, reports are refusals, every other step is a stutter. `Frame` and `Moves`
  split the steps that cannot disturb the mapping from those that need an argument.
- `CrashesLeaveNoOrphan` (and `MaxFaults = 0`): `[]StagesOwned`. Without a phase marker there
  is no marker stage either, and an interrupted preparation has every stage it made on its
  list (`StageInv`). With one failing removal it is false, which is the first finding.
- `WholeSavesSeen` (and `MaxFaults` at most 1): `[]DocumentsSeeWholeSaves`, from five invariants
  (`SightInv`). The value of the pair and every record are those of one committed save
  (`WholeInv`). Nothing but a failing operation stops a swap: each member is where the step
  expects it (`ExactInv`), and so is what undoing needs (`UndoInv`). While a document waits to
  read, the members belong together unless a swap or its undoing is under way (`ReadInv`);
  the one failure is then spent, so the undoing ends under the locks it holds. Nothing is seen
  but the pair, a new pair whose save is committed, or verified stamps of an old one (`SeenInv`).
  The hypothesis is the limit described above: with a second failure the property is false.

**FileLocks** (`LocksAssumption`: finitely many tasks, paths and identities are ordered
numbers). `FileTransactionsExclude`: `[]Exclusive`. A task that acts has locked a mutex of
each of its paths and of each identity they name (`ActsAlone`); the mutex of a key is one,
because every mutex that is owned is the one the table lists (`OwnedListed`, `OnePerKey`:
a new mutex is made only when no task owns the old one); two tasks hold no mutex together
(`HeldApart`). Writes, removals and renames change identities only of files whose keys
the task holds.
`NobodyWaitsInARing`: `[]NoRing`, while there are transactions one of them can take its
next step. From `Ordered`: whatever a transaction holds comes before whatever it still
waits for, and in its first round it wants paths only, which come before all identities.
If everyone waited, take one for whose key the fewest others wait at a later key (`After`):
the holder of its mutex waits for a later key itself (`HolderIsLater`), and fewer do
after that. Tasks are finite in number, which is all the argument needs of them; paths
and hard links are arbitrary.

**DocumentHistory** (`HistoryAssumption`). `VisibleHistoryIsBranch`, `StableIdsAreUnique`,
`EditsKeepBranches` from one inductive invariant: every recorded inverse is the change of
its procedure or released (`Inverses`), the document is the state at the cursor, ids in
documents and commits are below the cursor `nextId` and in at most one commit
(`IdsKnown`). `EditStep` and `MoveStep` say once what an edit and a move do; the rest of
the proof uses only these. Verification by replay only guards actions: these proofs hold
for each of its answers.
`HistoryImplementsUndoStack`: the line is genesis and the states after each entry, the
refinement rests on the chain of entries (each starts where the one before ended) and on
a lemma that undoing over several entries (the paint of the first, the objects of the
last that records whole documents) gives the state of the target.
`JournalRebuildsDocument`: `[]JournalReplays`. `Replayed` and `Ancestors` are choices of
recursive functions; their equations are proved first (such a function exists, and two of
them agree: a least place where they differ would not be least). `RunInv` then says where a
replay stands after each step: at the current state, with the active branch, tails and a
node for every state given out (`Tracks`), and the visible history is a path of nodes
(`Spine`: each entry's node has the node of the entry before it for parent and holds what
the entry produced), which makes a tail the descendant of every state an undo or jump may
reach. A replay that executes the procedures again gives out ids from its parent's node,
the document from its own cursor, which an undo does not take back. From the last commit
that allocated, the nodes on the path agree with the cursor (`NextIds`); once an allocation
was undone they need not, and such a replay tracks the document or has stopped.

**DocumentFile** (`HistoryAssumption`, `FileAssumption`). `CleanIsSaved`:
`[]CleanMeansSaved`, `SavesOpenAgain`: `[]SavedOpens`, under `FileSpec`. A file holds a state
of the document, so the invariants of the open document are said of any state (`Sound`,
shown to be the same as before for the open one: `LiveIs`), and a file is good when some
visible history makes its state sound (`FileGood`). Saves hand the state over as it is
(the tails an open computes are the live ones: `TailsLogged`, kept by every edit because a
commit is the last event of its branch). An open rebuilds the history from the nodes of the
replay and finds the same entries in the same places (`RebuiltIs`), only with all inverses
or none, on which `Sound` does not depend (`SameEntriesSound`). A compacted copy is sound as
soon as it opens. `SavepointInFile`: the node of the savepoint holds what is in the file at
the path, and no step but a new document or an open takes a node away (`NodesStay`), which
is why no later edit can make the document look saved. The state ids are what carries the
proof: with the cursor in their place the invariant is not inductive, since an edit below
the tail gives the old position to another document. `ReopenedDocumentsAreWhole`: the
history, the ids and the journal stay in order through saves, recovery and reopening.

**IoExecutor** (`ExecutorAssumption`: a finite, non-empty set of workers, `Capacity > 0`,
any number of files per batch; `"no job"` is no job). All safety properties of the run,
from one inductive invariant. The lanes of a job are its closures in
the queue (`Places`, counted by lemmas on append, tail and concatenation) and the workers
inside one of them (`Team`); `LaneInv` equates them with `remaining`, says a single
closure is in one place, and that a job has ended exactly when nothing of it is left. A
file that was taken and has no result is in the hands of one worker (`ResultInv`,
`HolderInv`, `Apart`), so the last lane to leave finds every result published, and
counted: `LastLaneSawAll`. The counters equal the sets they stand for (`ProgressInv`:
`reading` is the number of readers, `completed` of published and tallied files, `queued`
what is neither), which is also why no `saturating_sub` ever saturates and `TypeOK` holds.
`EndIsForGood` follows because a worker never holds a closure of a job that has ended.
`TurnsAreFair`: a closure at place i of the queue was passed at most `Capacity - i` times
(`PlaceInv`), because every closure that begins moves it one place ahead, and a lane that
yields goes behind it.
`NoWorkIsSleptOn`: `[]NoWakeupLost`. A worker sleeps only while the queue is empty and
nobody has stopped the pool (`SleepInv`: the test and the wait are one step under the mutex,
and both `enqueue` and `shutdown` wake everybody under it). With `LaneInv`, a job that has
not ended has a worker inside it, or a closure in the queue with every worker running.

**ImageCache** (`CacheAssumption`: finitely many workers and files, budgets and sizes are
natural numbers). `Serves` and `SharesBytes` from `IInv`: every source that an entry, a lease
or a worker names is what its file held under its stamp (`Faithful`), no two sources share a
generation, the pixels of an entry are of its bytes, and what a worker has read so far agrees
with the file as long as the stamp it took first is still the file's. `Bounded` and `Pinned`
from `Inv`, which adds the budgets and what they need: a budget is a number of owners times
a size (`FiniteSums`), so a step is judged by the owners it adds and drops (`Grown`,
`DecodedGrows`). Not inductive without `ChargeInv`: between the admission of a sequence
allocation and its charge, leases are dropped and unpinned entries may become more, but
the worker is inside the mutex, so what it is going to evict stays cached and unpinned, and
what that frees covers the charge.

**CoreHost** (`HostAssumption`: generations and limits are natural numbers; any sessions).
Three layers. `HostInv`: the UI waits in one call at most, and the item of that call is the last
of the queue; what the engine has bound is what is published, except between the engine's
answer and the return of the call, and then nothing of the session is left in the queue or
among the jobs. `Files`: a job that installs holds the fence of its session, and the Core stays
as it was captured; so the apply that ends it finds the stamp it took, and a session
without an installation has its savepoint in its file: `Saved`. `CountInv`: the pending
operations are the sum of the units of the session's edits and strokes in the queue and of its
jobs (a sum over queue positions, `FiniteSums`): `Counted`. The count is a sum of what is
there and not of what happened, so a joined append, a deferred item and a cancelled job
need no history.
`FencesLift`: `[]FencesHeld`. A fence is up, and a Core waits, exactly for one job in one of
its installing stages, and every way out of those stages takes both away. `FenceInv` gives the
job of a fence; that a Core waits only for such a job is an invariant of its own (`Pended`).
`NobodyWaitsForNobody`: `[]NobodyWaits`. A control waits for its session's stroke, fence
and jobs, a job for the stroke and for another job's fence, an edit or a stroke for the
fence. Each job has exactly one item in the queue until it was looked at and is polled from
then on (`ItemsInv`, `Polled`), nobody draws in a fenced session (`FenceStops`), and the
call the UI waits in has its item in the queue (`WaitInv`). So a blocked control is
behind a fence, whose job is polled and served; or behind a stroke, which its transition
takes away; or behind a job, which the transition cancels, and a cancelled job waits for
fences only, not even for the answer that the waiting UI thread cannot give. `Stop` is the same with `stopping` in place of the transition. The control is the
last item of the queue, so everything in front of it must be shown to move, and not only it.

**RecoveryArtifacts** (`RecoveryAssumption`: finitely many cells, bounds are natural
numbers). `RecordedWorkIsKept`, `AssociationsAreSound`, `ReservationsAreOfJobs` from one
inductive invariant in layers. `Queue`: saves, reverts and imports are alone, there is one
switch and one autosave of the open document at a time, and a reservation keeps the
binding of its cell as its job found it; so the attempt of a job that ends is always
published: within what is modelled, the code never takes the branch that gives it up.
`Versions`: the savepoint is below what is recorded, that below what is in memory, and a
job that will replace an artifact has captured at least what is recorded; this is where it
matters that an autosave starts only when no other job runs. `Names`: an attempt is
nobody's before its job ends, and one job's only. `Keep`: every cell with recorded work
has a complete attempt, new enough, that no discard waits for and no job will give up; and
while an older autosave of the open document is still current, there is one besides the
artifact that this autosave will replace. Without the last part `PublishedKept` is not
inductive: a newer version recorded by a switch that Core refused, and an autosave asked
for before it, may end in either order.

*Only model-checked:* all liveness properties (`Resolves`, `OwnerReleased`, `AdmittedEnds`,
`DrainReturns`, `Finishes`, `PoisonPasses`, `ControlReturns`, `FileIoEnds`): liveness under
fairness and `ENABLED` are beyond the prover. What those of the executor, the locks and the
host need besides fairness is proved: that nothing is ever stuck (`NoWorkIsSleptOn`,
`NobodyWaitsInARing`, `NobodyWaitsForNobody`, `FencesLift`). That steps which go on also
come to an end is what TLC checks on the small instances. The library's induction theorems take an
operator as a parameter, which no installed prover can instantiate; `FiniteSums` therefore
states induction about sets of numbers (`AllNaturals`) and proves with it what the folds
behind sums compute, and `DocumentProofs` uses least counterexamples. RECURSIVE operators
would cost a module the SMT backend: none uses them.

## 6. Not modelled

Listed with reasons in `PROJECT.json`. Pixel arithmetic, codecs and rendering are data
transformations with golden tests; the user interface and packaging have no protocol
of their own; the backends are system calls whose promises are built into PairInstall.
The Core side of sequence switching and InkScript's batch are protocols that the plan
still has. A second caller of `shutdown_and_wait` (`executor.rs` 82) would return early;
the application has one caller, and so has the model. The size of the repository is
mostly in drawing, InkScript and formats, which is why the share of its lines that the
models cover is small.
