------------------------------ MODULE IoExecutor ------------------------------
(***************************************************************************)
(* The file I/O workers: rust/inkpod-io/src/executor.rs (a bounded queue   *)
(* and a fixed set of threads), the two ways of submitting work to it in   *)
(* manager.rs (submit, one closure; submit_images, lanes that share a list *)
(* of files and yield after each) and the job handles of job.rs.           *)
(*                                                                         *)
(* A step is what happens under one lock or as one atomic access.  What a  *)
(* unit of work does is left open: it ends as completed, failed (an error, *)
(* Shutdown or a panic that is caught) or, when it sees the flag, cancelled*)
(***************************************************************************)
EXTENDS Naturals, Sequences, FiniteSets

CONSTANTS
  Worker,     \* the threads of the pool
  Job,        \* the submissions
  Files,      \* Files[j]: the files of an image batch, 0 for a single closure
  Capacity    \* queue_capacity

ASSUME ExecutorAssumption ==
  /\ IsFiniteSet(Worker) /\ Worker # {} /\ Capacity \in Nat \ {0}
  /\ Files \in [Job -> Nat] /\ "no job" \notin Job

VARIABLES
  queue,      \* QueueState.work: the job each waiting closure belongs to
  stopped,    \* QueueState.stopped
  at,         \* where each worker is
  unit,       \* the job of the closure it holds
  file,       \* the file it took from the batch
  got,        \* how its unit ended
  phase,      \* what has become of each submission
  cancelled,  \* the jobs whose cancellation flag is set
  progress,   \* JobProgress, what a poll sees
  next,       \* batch: the next file to take
  remaining,  \* batch: the lanes that have not left
  results,    \* JobOutput, BatchOutput: what was published of each file
  joiner,     \* the caller of shutdown_and_wait
  passed      \* history: closures begun while a single closure waited

pool   == <<queue, stopped, joiner, passed>>
worker == <<at, unit, file, got>>
jobs   == <<phase, cancelled, progress, next, remaining, results>>
vars == <<queue, stopped, at, unit, file, got, phase, cancelled, progress, next,
          remaining, results, joiner, passed>>

NoJob == "no job"
Ending == {"completed", "failed", "cancelled"}
State == {"queued", "running"} \cup Ending
At == {"poll", "wait", "start", "index", "count", "check", "act", "publish", "tally",
       "yield", "leave", "final", "exited"}

Single(j) == Files[j] = 0
Slot(j) == IF Single(j) THEN {1} ELSE 1..Files[j]
Least(m, n) == IF m <= n THEN m ELSE n
Lanes(j) == IF Single(j) THEN 1
            ELSE Least(Least(Cardinality(Worker), Capacity), Files[j])

Waiting(q) == {q[i] : i \in DOMAIN q}
Ended(j) == progress[j].state \in Ending

Init ==
  /\ queue = <<>> /\ stopped = FALSE /\ joiner = "no" /\ passed = [j \in Job |-> 0]
  /\ at = [w \in Worker |-> "poll"] /\ unit = [w \in Worker |-> NoJob]
  /\ file = [w \in Worker |-> 0] /\ got = [w \in Worker |-> "none"]
  /\ phase = [j \in Job |-> "new"] /\ cancelled = {}
  /\ progress = [j \in Job |-> [state |-> "queued", queued |-> 0, reading |-> 0,
                                completed |-> 0, failed |-> 0, cancelled |-> 0]]
  /\ next = [j \in Job |-> 1] /\ remaining = [j \in Job |-> Lanes(j)]
  /\ results = [j \in Job |-> [i \in Slot(j) |-> "none"]]

\* Condvar::notify_all.  (A spurious wake-up would only poll the queue again.)
NotifyAll == at' = [w \in Worker |-> IF at[w] = "wait" THEN "poll" ELSE at[w]]

-----------------------------------------------------------------------------
(***************************************************************************)
(* The submitter.                                                          *)
(***************************************************************************)
\* check_running, then the counters of a batch.
Check(j) ==
  /\ phase[j] = "new"
  /\ IF j \in cancelled \/ stopped
     THEN phase' = [phase EXCEPT ![j] = "refused"] /\ UNCHANGED progress
     ELSE /\ phase' = [phase EXCEPT ![j] = "checked"]
          /\ progress' = [progress EXCEPT ![j].queued = Files[j]]
  /\ UNCHANGED <<pool, worker, cancelled, next, remaining, results>>

\* Executor::enqueue: all the closures of a submission, or none.
Fits(j) == Lanes(j) <= Capacity - Len(queue)
Append_(j) == /\ queue' = queue \o [i \in 1..Lanes(j) |-> j]
              /\ phase' = [phase EXCEPT ![j] = "admitted"]
\* Mutants of Enqueue: stopped is only looked at by check_running; a sleeping
\* worker is not woken.
EnqueueUnchecked(j) ==
  /\ phase[j] = "checked"
  /\ IF Fits(j) THEN Append_(j) /\ NotifyAll
     ELSE phase' = [phase EXCEPT ![j] = "refused"] /\ UNCHANGED <<queue, at>>
  /\ UNCHANGED <<stopped, joiner, passed, unit, file, got, cancelled, progress, next,
                 remaining, results>>
EnqueueSilently(j) ==
  /\ phase[j] = "checked"
  /\ IF ~stopped /\ Fits(j) THEN Append_(j)
     ELSE phase' = [phase EXCEPT ![j] = "refused"] /\ UNCHANGED queue
  /\ UNCHANGED <<stopped, joiner, passed, worker, cancelled, progress, next, remaining,
                 results>>
Enqueue(j) ==
  /\ phase[j] = "checked"
  /\ IF ~stopped /\ Fits(j) THEN Append_(j) /\ NotifyAll
     ELSE phase' = [phase EXCEPT ![j] = "refused"] /\ UNCHANGED <<queue, at>>
  /\ UNCHANGED <<stopped, joiner, passed, unit, file, got, cancelled, progress, next,
                 remaining, results>>

\* JobContext::cancel, or the handle is dropped.
Cancel(j) ==
  /\ j \notin cancelled /\ cancelled' = cancelled \cup {j}
  /\ UNCHANGED <<pool, worker, phase, progress, next, remaining, results>>

\* Mutant of Stop: sleeping workers are not woken.
StopSilently == /\ stopped' = TRUE
                /\ cancelled' = cancelled \cup {j \in Job : phase[j] = "admitted"}
                /\ UNCHANGED <<queue, passed, worker, phase, progress, next, remaining,
                               results>>
Stop == /\ stopped' = TRUE
        /\ cancelled' = cancelled \cup {j \in Job : phase[j] = "admitted"}
        /\ NotifyAll
        /\ UNCHANGED <<queue, passed, unit, file, got, phase, progress, next, remaining,
                       results>>
\* IoManager::shutdown, or the last manager is dropped.
Shutdown == ~stopped /\ Stop /\ UNCHANGED joiner
\* shutdown_and_wait, by its one caller.
ShutdownAndWait == joiner = "no" /\ Stop /\ joiner' = "joining"
JoinReturns ==
  /\ joiner = "joining" /\ \A w \in Worker : at[w] = "exited"
  /\ joiner' = "returned"
  /\ UNCHANGED <<queue, stopped, passed, worker, jobs>>

-----------------------------------------------------------------------------
(***************************************************************************)
(* worker_loop.                                                            *)
(***************************************************************************)
Goto(w, s) == at' = [at EXCEPT ![w] = s]
\* A closure begins: every single closure still waiting in q was passed.
Begins(q) == passed' = [j \in Job |-> IF Single(j) /\ j \in Waiting(q)
                                      THEN passed[j] + 1 ELSE passed[j]]

\* Mutant of Poll: a stopped worker leaves the accepted work behind.
PollStopsFirst(w) ==
  /\ at[w] = "poll"
  /\ IF stopped THEN Goto(w, "exited") /\ UNCHANGED <<queue, unit, passed>>
     ELSE IF queue # <<>>
     THEN /\ unit' = [unit EXCEPT ![w] = Head(queue)] /\ queue' = Tail(queue)
          /\ Begins(Tail(queue)) /\ Goto(w, "start")
     ELSE Goto(w, "wait") /\ UNCHANGED <<queue, unit, passed>>
  /\ UNCHANGED <<stopped, joiner, file, got, jobs>>
Poll(w) ==
  /\ at[w] = "poll"
  /\ \/ /\ queue # <<>>
        /\ unit' = [unit EXCEPT ![w] = Head(queue)] /\ queue' = Tail(queue)
        /\ Begins(Tail(queue)) /\ Goto(w, "start")
     \/ /\ queue = <<>>
        /\ Goto(w, IF stopped THEN "exited" ELSE "wait") /\ UNCHANGED <<queue, unit, passed>>
  /\ UNCHANGED <<stopped, joiner, file, got, jobs>>

\* A lane goes to the back of the queue, its worker to the closure at the front.
\* Mutant of Yield: the worker goes on with its own lane.
YieldNot(w) ==
  /\ at[w] = "yield" /\ Begins(queue) /\ Goto(w, "start")
  /\ UNCHANGED <<queue, stopped, joiner, unit, file, got, jobs>>
Yield(w) ==
  /\ at[w] = "yield" /\ Goto(w, "start")
  /\ \/ /\ queue # <<>>
        /\ unit' = [unit EXCEPT ![w] = Head(queue)]
        /\ queue' = Append(Tail(queue), unit[w]) /\ Begins(Tail(queue))
     \/ queue = <<>> /\ UNCHANGED <<queue, unit, passed>>
  /\ UNCHANGED <<stopped, joiner, file, got, jobs>>

-----------------------------------------------------------------------------
(***************************************************************************)
(* The closures of submit and submit_images.                               *)
(***************************************************************************)
Drops(w) == unit' = [unit EXCEPT ![w] = NoJob] /\ file' = [file EXCEPT ![w] = 0]
            /\ got' = [got EXCEPT ![w] = "none"]
Holds(w) == UNCHANGED <<unit, file, got>>

Start(w) ==
  LET j == unit[w] IN
  /\ at[w] = "start"
  /\ progress' = [progress EXCEPT ![j].state = "running"]
  /\ Goto(w, IF Single(j) THEN "check" ELSE "index") /\ Holds(w)
  /\ UNCHANGED <<pool, phase, cancelled, next, remaining, results>>

Index(w) ==
  LET j == unit[w] IN
  /\ at[w] = "index" /\ next' = [next EXCEPT ![j] = @ + 1]
  /\ IF next[j] <= Files[j]
     THEN file' = [file EXCEPT ![w] = next[j]] /\ Goto(w, "count")
     ELSE UNCHANGED file /\ Goto(w, "leave")
  /\ UNCHANGED <<pool, unit, got, phase, cancelled, progress, remaining, results>>

Count(w) ==
  LET p == progress[unit[w]] IN
  /\ at[w] = "count"
  /\ progress' = [progress EXCEPT ![unit[w]] =
       [p EXCEPT !.queued = IF p.queued = 0 THEN 0 ELSE p.queued - 1,
                 !.reading = p.reading + 1]]
  /\ Goto(w, "check") /\ Holds(w)
  /\ UNCHANGED <<pool, phase, cancelled, next, remaining, results>>

\* check_cancelled, before the action or the file is read.
CheckCancelled(w) ==
  /\ at[w] = "check"
  /\ \/ /\ unit[w] \in cancelled
        /\ got' = [got EXCEPT ![w] = "cancelled"] /\ Goto(w, "publish")
     \/ unit[w] \notin cancelled /\ Goto(w, "act") /\ UNCHANGED got
  /\ UNCHANGED <<pool, unit, file, jobs>>

\* The action checks the flag again wherever it likes.
Act(w) ==
  /\ at[w] = "act"
  /\ \E e \in Ending : /\ e = "cancelled" => unit[w] \in cancelled
                       /\ got' = [got EXCEPT ![w] = e]
  /\ Goto(w, "publish")
  /\ UNCHANGED <<pool, unit, file, jobs>>

SlotOf(w) == IF Single(unit[w]) THEN 1 ELSE file[w]
\* Mutant of Publish: nothing is published of a cancelled unit.
PublishUnlessCancelled(w) ==
  /\ at[w] = "publish"
  /\ results' = IF got[w] = "cancelled" THEN results
                ELSE [results EXCEPT ![unit[w]][SlotOf(w)] = got[w]]
  /\ Goto(w, "tally") /\ Holds(w)
  /\ UNCHANGED <<pool, phase, cancelled, progress, next, remaining>>
Publish(w) ==
  /\ at[w] = "publish"
  /\ results' = [results EXCEPT ![unit[w]][SlotOf(w)] = got[w]]
  /\ Goto(w, "tally") /\ Holds(w)
  /\ UNCHANGED <<pool, phase, cancelled, progress, next, remaining>>

AddOne(n, cond) == IF cond THEN n + 1 ELSE n
\* Mutant of TallyBatch: an error does not reach the counters.
TallyBatchForgets(w) ==
  LET p == progress[unit[w]] IN
  progress' = [progress EXCEPT ![unit[w]] =
    [p EXCEPT !.reading = p.reading - 1, !.completed = p.completed + 1,
              !.cancelled = AddOne(p.cancelled, got[w] = "cancelled")]]
TallyBatch(w) ==
  LET p == progress[unit[w]] IN
  progress' = [progress EXCEPT ![unit[w]] =
    [p EXCEPT !.reading = p.reading - 1, !.completed = p.completed + 1,
              !.failed = AddOne(p.failed, got[w] = "failed"),
              !.cancelled = AddOne(p.cancelled, got[w] = "cancelled")]]
Tally(w) ==
  LET j == unit[w] IN
  /\ at[w] = "tally"
  /\ \/ /\ Single(j)
        /\ progress' = [progress EXCEPT ![j].state = got[w]]
        /\ Drops(w) /\ Goto(w, "poll")
     \/ /\ ~Single(j)
        /\ TallyBatch(w)
        /\ file' = [file EXCEPT ![w] = 0] /\ got' = [got EXCEPT ![w] = "none"]
        /\ UNCHANGED unit /\ Goto(w, "yield")
  /\ UNCHANGED <<pool, phase, cancelled, next, remaining, results>>

\* The lane that finds no file leaves; the last one to leave ends the batch.
\* Mutant of Leave: the first one ends it.
LeaveFirst(w) ==
  LET j == unit[w] IN
  /\ at[w] = "leave" /\ remaining' = [remaining EXCEPT ![j] = @ - 1]
  /\ IF remaining[j] = Lanes(j) THEN Goto(w, "final") /\ Holds(w)
                                ELSE Goto(w, "poll") /\ Drops(w)
  /\ UNCHANGED <<pool, phase, cancelled, progress, next, results>>
Leave(w) ==
  LET j == unit[w] IN
  /\ at[w] = "leave" /\ remaining' = [remaining EXCEPT ![j] = @ - 1]
  /\ IF remaining[j] = 1 THEN Goto(w, "final") /\ Holds(w)
                         ELSE Goto(w, "poll") /\ Drops(w)
  /\ UNCHANGED <<pool, phase, cancelled, progress, next, results>>

Final(w) ==
  LET p == progress[unit[w]] IN
  /\ at[w] = "final"
  /\ progress' = [progress EXCEPT ![unit[w]].state =
       IF p.cancelled # 0 THEN "cancelled" ELSE IF p.failed # 0 THEN "failed"
       ELSE "completed"]
  /\ Drops(w) /\ Goto(w, "poll")
  /\ UNCHANGED <<pool, phase, cancelled, next, remaining, results>>

-----------------------------------------------------------------------------
Submit == \E j \in Job : Check(j) \/ Enqueue(j) \/ Cancel(j)
Step(w) == \/ Poll(w) \/ Yield(w) \/ Start(w) \/ Index(w) \/ Count(w)
           \/ CheckCancelled(w) \/ Act(w) \/ Publish(w) \/ Tally(w) \/ Leave(w)
           \/ Final(w)
Close == Shutdown \/ ShutdownAndWait \/ JoinReturns

Next == Submit \/ Close \/ \E w \in Worker : Step(w)

Spec == Init /\ [][Next]_vars
\* The threads run, and the unit they run ends; a caller blocked in join goes on
\* when it can.  Nobody has to submit, cancel or shut down anything.
FairSpec == Spec /\ (\A w \in Worker : WF_vars(Step(w))) /\ WF_vars(JoinReturns)

-----------------------------------------------------------------------------
Held(w) == at[w] \notin {"poll", "wait", "exited"}

\* What QueueState, a worker and a JobProgress can be.
TypeOK ==
  /\ queue \in Seq(Job) /\ stopped \in BOOLEAN /\ at \in [Worker -> At]
  /\ unit \in [Worker -> Job \cup {NoJob}]
  /\ file \in [Worker -> Nat]
  /\ \A w \in Worker : Held(w) <=> unit[w] \in Job
  /\ got \in [Worker -> Ending \cup {"none"}]
  /\ phase \in [Job -> {"new", "checked", "admitted", "refused"}] /\ cancelled \subseteq Job
  /\ progress \in [Job -> [state : State, queued : Nat, reading : Nat, completed : Nat,
                           failed : Nat, cancelled : Nat]]
  /\ next \in [Job -> Nat] /\ remaining \in [Job -> Nat] /\ passed \in [Job -> Nat]
  /\ DOMAIN results = Job
  /\ \A j \in Job : results[j] \in [Slot(j) -> Ending \cup {"none"}]
  /\ joiner \in {"no", "joining", "returned"}

\* Continuations never push the queue beyond its capacity ("preserves the queue
\* bound even when it is full", executor.rs:130).
QueueBounded == Len(queue) <= Capacity

\* A batch cannot starve a single closure: fewer than Capacity closures begin
\* while it waits, however many files the batches still have.
FairTurns == \A j \in Waiting(queue) : passed[j] < Capacity

\* A poll never shows a file as done whose result cannot be taken yet, and every
\* file of a batch is counted once, as queued, being read or done.
ProgressCoherent ==
  \A j \in Job : LET p == progress[j] IN
    /\ ~Single(j) /\ phase[j] = "admitted" => p.queued + p.reading + p.completed = Files[j]
    /\ p.failed + p.cancelled <= p.completed
    /\ p.completed <= Cardinality({i \in Slot(j) : results[j][i] # "none"})

\* "Publish the result before the terminal state becomes observable" (manager.rs:219):
\* a job seen to have ended has every result, and ended as the results say.
Verdict(j) == IF \E i \in Slot(j) : results[j][i] = "cancelled" THEN "cancelled"
              ELSE IF \E i \in Slot(j) : results[j][i] = "failed" THEN "failed"
              ELSE "completed"
OutcomeFaithful ==
  \A j \in Job : Ended(j) => /\ \A i \in Slot(j) : results[j][i] # "none"
                             /\ progress[j].state = Verdict(j)

\* Shutdown misses no job: whatever raced with it was either refused or cancelled.
StoppedCancels == stopped => \A j \in Job : phase[j] = "admitted" => j \in cancelled

\* When shutdown_and_wait returns no accepted work is left behind unfinished.
ShutdownDrains == joiner = "returned" =>
                    queue = <<>> /\ \A j \in Job : phase[j] = "admitted" => Ended(j)

\* A job that has ended never runs again, and its results stay as they were.
EndedForGood == [][\A j \in Job : Ended(j) => /\ progress'[j] = progress[j]
                                             /\ results'[j] = results[j]]_vars

\* Every submission that was accepted comes to an end, shutdown or not.
AdmittedEnds == \A j \in Job : phase[j] = "admitted" ~> Ended(j)

\* shutdown_and_wait returns.
DrainReturns == joiner = "joining" ~> joiner = "returned"
=============================================================================
