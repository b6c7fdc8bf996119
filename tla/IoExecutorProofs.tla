-------------------------- MODULE IoExecutorProofs --------------------------
(***************************************************************************)
(* The executor for any workers, jobs, files and queue capacity: types,    *)
(* QueueBounded, StoppedCancels, OutcomeFaithful, ProgressCoherent,        *)
(* ShutdownDrains and EndedForGood.                                        *)
(*                                                                         *)
(* The argument.  A job has as many lanes as it has closures waiting in    *)
(* the queue and workers at work on it (Alive); for a batch that is its    *)
(* counter remaining, for a single closure it is one until the end         *)
(* (LaneInv).  A file that was taken and has no result is in the hands of  *)
(* one worker (ResultInv, HolderInv).  So when the last lane has left,     *)
(* every file has its result and every result was counted, which is what   *)
(* the final state is made from; and a job that has ended has no lane left *)
(* that could touch it again.                                              *)
(*                                                                         *)
(* A worker sleeps only while the queue is empty and nobody has stopped    *)
(* the pool (SleepInv), so admitted work is always in the hands of a       *)
(* worker that runs, or in front of one (NoWorkIsSleptOn).                 *)
(***************************************************************************)
EXTENDS IoExecutor, FiniteSetTheorems, SequenceTheorems, TLAPS

-----------------------------------------------------------------------------
(* Counting the places of a job in a queue. *)

Places(q, j) == {i \in 1..Len(q) : q[i] = j}

LEMMA HeadFirst ==
  ASSUME NEW S, NEW q \in Seq(S), q # <<>>
  PROVE  Len(q) \in Nat \ {0} /\ Head(q) = q[1] /\ Head(q) \in S
BY EmptySeq

LEMMA PlacesFinite ==
  ASSUME NEW S, NEW q \in Seq(S), NEW j
  PROVE  IsFiniteSet(Places(q, j)) /\ Cardinality(Places(q, j)) \in Nat
<1>1. IsFiniteSet(1..Len(q))
  BY FS_Interval, LenProperties
<1>2. Places(q, j) \in SUBSET (1..Len(q))
  BY DEF Places
<1> QED BY <1>1, <1>2, FS_Subset, FS_CardinalityType

LEMMA PlacesAppend ==
  ASSUME NEW S, NEW q \in Seq(S), NEW x \in S, NEW j
  PROVE  Cardinality(Places(Append(q, x), j)) =
             Cardinality(Places(q, j)) + (IF x = j THEN 1 ELSE 0)
<1>1. /\ Len(Append(q, x)) = Len(q) + 1 /\ Len(q) \in Nat
      /\ \A i \in 1..Len(q) : Append(q, x)[i] = q[i]
      /\ Append(q, x)[Len(q) + 1] = x
  OBVIOUS
<1>2. IsFiniteSet(Places(q, j)) /\ Cardinality(Places(q, j)) \in Nat
  BY PlacesFinite
<1>3. CASE x = j
  <2>1. Places(Append(q, x), j) = Places(q, j) \cup {Len(q) + 1}
    BY <1>1, <1>3 DEF Places
  <2>2. Len(q) + 1 \notin Places(q, j)
    BY <1>1 DEF Places
  <2> QED BY <1>2, <1>3, <2>1, <2>2, FS_AddElement
<1>4. CASE x # j
  <2>1. Places(Append(q, x), j) = Places(q, j)
    BY <1>1, <1>4 DEF Places
  <2> QED BY <1>2, <1>4, <2>1
<1> QED BY <1>3, <1>4

LEMMA PlacesTail ==
  ASSUME NEW S, NEW q \in Seq(S), q # <<>>, NEW j
  PROVE  Cardinality(Places(q, j)) =
             Cardinality(Places(Tail(q), j)) + (IF Head(q) = j THEN 1 ELSE 0)
<1> DEFINE A == Places(Tail(q), j)
           B == Places(q, j) \ {1}
           f == [i \in A |-> i + 1]
<1>1. /\ Tail(q) \in Seq(S) /\ Len(Tail(q)) = Len(q) - 1 /\ Len(q) \in Nat \ {0}
      /\ \A i \in 1..Len(Tail(q)) : Tail(q)[i] = q[i + 1]
      /\ Head(q) = q[1]
  BY HeadTailProperties, EmptySeq
<1>2. /\ IsFiniteSet(A) /\ Cardinality(A) \in Nat
      /\ IsFiniteSet(Places(q, j)) /\ Cardinality(Places(q, j)) \in Nat
  BY <1>1, PlacesFinite
<1>3. \A i \in A : i \in 1..Len(q) - 1 /\ i + 1 \in B
  BY <1>1 DEF Places
<1>4. \A k \in B : k \in 2..Len(q) /\ k - 1 \in A /\ (k - 1) + 1 = k
  <2> SUFFICES ASSUME NEW k \in B PROVE k \in 2..Len(q) /\ k - 1 \in A /\ (k - 1) + 1 = k
    OBVIOUS
  <2>1. k \in 1..Len(q) /\ k # 1 /\ q[k] = j
    BY DEF Places
  <2>2. k \in 2..Len(q) /\ k - 1 \in 1..Len(Tail(q)) /\ (k - 1) + 1 = k
    BY <2>1, <1>1
  <2>3. Tail(q)[k - 1] = j
    BY <2>1, <2>2, <1>1
  <2> QED BY <2>2, <2>3 DEF Places
<1> HIDE DEF A, B
<1>5. f \in Bijection(A, B)
  <2>1. f \in [A -> B]
    BY <1>3
  <2>2. \A a, b \in A : f[a] = f[b] => a = b
    BY <1>3
  <2>3. \A k \in B : \E a \in A : f[a] = k
    BY <1>4
  <2> QED BY <2>1, <2>2, <2>3 DEF Bijection, Injection, Surjection, IsInjective
<1>6. Cardinality(B) = Cardinality(A)
  BY <1>2, <1>5, FS_Bijection DEF ExistsBijection
<1>7. Cardinality(B) = IF 1 \in Places(q, j) THEN Cardinality(Places(q, j)) - 1
                                             ELSE Cardinality(Places(q, j))
  BY <1>2, FS_RemoveElement DEF B
<1>8. 1 \in Places(q, j) <=> Head(q) = j
  BY <1>1 DEF Places
<1> QED BY <1>2, <1>6, <1>7, <1>8 DEF A

LEMMA PlacesCopies ==
  ASSUME NEW S, NEW q \in Seq(S), NEW x \in S, NEW n \in Nat, NEW j
  PROVE  Cardinality(Places(q \o [i \in 1..n |-> x], j)) =
             Cardinality(Places(q, j)) + (IF x = j THEN n ELSE 0)
<1> DEFINE copies == [i \in 1..n |-> x]
<1>0. copies \in [1..n -> S]
  OBVIOUS
<1>1. copies \in Seq(S) /\ Len(copies) = n /\ \A i \in 1..n : copies[i] = x
  BY <1>0
<1> HIDE DEF copies
<1>2. /\ Len(q \o copies) = Len(q) + n /\ Len(q) \in Nat
      /\ \A i \in 1..Len(q) + n : (q \o copies)[i] = IF i <= Len(q) THEN q[i] ELSE x
  <2>1. \A i \in 1..Len(q) + n : i > Len(q) => i - Len(q) \in 1..n
    BY LenProperties
  <2>2. /\ Len(q \o copies) = Len(q) + Len(copies)
        /\ \A i \in 1..Len(q) + Len(copies) :
              (q \o copies)[i] = IF i <= Len(q) THEN q[i] ELSE copies[i - Len(q)]
    BY <1>1, ConcatProperties
  <2> QED BY <1>1, <2>1, <2>2, LenProperties
<1>3. IsFiniteSet(Places(q, j)) /\ Cardinality(Places(q, j)) \in Nat
  BY PlacesFinite
<1>4. CASE x = j
  <2>1. Places(q \o copies, j) = Places(q, j) \cup (Len(q) + 1..Len(q) + n)
    BY <1>2, <1>4 DEF Places
  <2>2. Places(q, j) \cap (Len(q) + 1..Len(q) + n) = {}
    BY <1>2 DEF Places
  <2> DEFINE a == Len(q) + 1
             b == Len(q) + n
             A == Places(q, j)
             B == a..b
  <2>3. IsFiniteSet(B) /\ Cardinality(B) = n
    <3>1. a \in Int /\ b \in Int /\ b - a + 1 = n /\ (a > b <=> n = 0)
      BY <1>2
    <3> HIDE DEF a, b
    <3>2. IsFiniteSet(a..b) /\ Cardinality(a..b) = IF a > b THEN 0 ELSE b - a + 1
      BY <3>1, FS_Interval
    <3> QED BY <3>1, <3>2
  <2>4. Cardinality(Places(q \o copies, j)) = Cardinality(Places(q, j)) + n
    <3>1. A \cap B = {} /\ IsFiniteSet(A)
      BY <2>2, <1>3
    <3> HIDE DEF A, B
    <3>2. Cardinality(A \cup B) = Cardinality(A) + Cardinality(B) - Cardinality(A \cap B)
      BY <2>3, <3>1, FS_Union
    <3>3. Cardinality(A \cap B) = 0
      BY <3>1, FS_EmptySet
    <3> QED BY <1>3, <2>1, <2>3, <3>2, <3>3 DEF A, B
  <2> QED BY <2>4, <1>4 DEF copies
<1>5. CASE x # j
  <2>1. Places(q \o copies, j) = Places(q, j)
    BY <1>2, <1>5 DEF Places
  <2> QED BY <1>3, <1>5, <2>1 DEF copies
<1> QED BY <1>4, <1>5

-----------------------------------------------------------------------------
(***************************************************************************)
(* The inductive invariant.                                                *)
(***************************************************************************)
\* The lanes of a job: closures that wait, workers at work on it; the worker that
\* left it last and still has to write its end is not one of them.
Waits(j) == Cardinality(Places(queue, j))
Team(j) == {w \in Worker : unit[w] = j /\ at[w] # "final"}
Closers(j) == {w \in Worker : unit[w] = j /\ at[w] = "final"}
Alive(j) == Waits(j) + Cardinality(Team(j))
Quiet(j) == Alive(j) = 0 /\ Closers(j) = {}

PoolInv ==
  /\ QueueBounded /\ StoppedCancels
  /\ \A w \in Worker : at[w] = "exited" => stopped /\ queue = <<>>
  /\ joiner # "no" => stopped
  /\ joiner = "returned" => \A w \in Worker : at[w] = "exited"

Lane(j) ==
  /\ phase[j] # "admitted" => Quiet(j) /\ ~Ended(j) /\ remaining[j] = Lanes(j)
  /\ phase[j] = "admitted" =>
       /\ Single(j) => Closers(j) = {} /\ Alive(j) = IF Ended(j) THEN 0 ELSE 1
       /\ ~Single(j) => remaining[j] = Alive(j)
       /\ Ended(j) <=> Quiet(j)
  /\ Closers(j) # {} => Alive(j) = 0
  /\ \A w, v \in Closers(j) : w = v
LaneInv == \A j \in Job : Lane(j)

Taking == {"count", "check", "act", "publish", "tally"}

Holding(w) ==
  /\ phase[unit[w]] = "admitted"
  /\ at[w] \in {"index", "count", "yield", "leave", "final"} => ~Single(unit[w])
  /\ Single(unit[w]) \/ at[w] \notin Taking => file[w] = 0
  /\ ~Single(unit[w]) /\ at[w] \in Taking =>
       /\ file[w] \in 1..Files[unit[w]] /\ file[w] < next[unit[w]]
       /\ at[w] # "tally" => results[unit[w]][file[w]] = "none"
  /\ at[w] \in {"publish", "tally"} => got[w] \in Ending
  /\ at[w] = "tally" => results[unit[w]][SlotOf(w)] = got[w]
  /\ at[w] \in {"leave", "final"} => next[unit[w]] > Files[unit[w]]

Owns(w) == IF Held(w) THEN Holding(w) ELSE file[w] = 0
HolderInv == \A w \in Worker : Owns(w)

Apart == \A w, v \in Worker :
  Held(w) /\ Held(v) /\ w # v /\ unit[w] = unit[v] =>
    /\ ~Single(unit[w])
    /\ file[w] = file[v] => file[w] = 0

Tallying(j, i) == \E w \in Worker : unit[w] = j /\ file[w] = i /\ at[w] = "tally"
Counted(j, e) == \E i \in 1..Files[j] : results[j][i] = e /\ ~Tallying(j, i)

ResultsOf(j) ==
  /\ next[j] # 0
  /\ phase[j] # "admitted" => /\ next[j] = 1 /\ progress[j].failed = 0
                              /\ progress[j].cancelled = 0
                              /\ \A i \in Slot(j) : results[j][i] = "none"
  /\ \A i \in 1..Files[j] :
       /\ i >= next[j] => results[j][i] = "none"
       /\ i < next[j] /\ results[j][i] = "none" =>
            \E w \in Worker : unit[w] = j /\ file[w] = i
  /\ ~Single(j) => /\ progress[j].cancelled # 0 <=> Counted(j, "cancelled")
                   /\ progress[j].failed # 0 <=> Counted(j, "failed")
ResultInv == \A j \in Job : ResultsOf(j)

Counting(j) == {w \in Worker : unit[w] = j /\ at[w] = "count"}
Readers(j) == {w \in Worker : unit[w] = j /\ at[w] \in {"check", "act", "publish", "tally"}}
Done(j) == {i \in Slot(j) : results[j][i] # "none" /\ ~Tallying(j, i)}

CountsOf(j) == LET p == progress[j] IN
  /\ Single(j) => p.completed = 0 /\ p.failed = 0 /\ p.cancelled = 0
  /\ ~Single(j) => /\ p.reading = Cardinality(Readers(j))
                   /\ p.completed = Cardinality(Done(j))
                   /\ p.failed + p.cancelled <= p.completed
  /\ ~Single(j) /\ phase[j] \in {"checked", "admitted"} =>
       /\ p.queued + Least(next[j] - 1, Files[j]) = Files[j] + Cardinality(Counting(j))
       /\ p.queued + p.reading + p.completed = Files[j]
ProgressInv == \A j \in Job : CountsOf(j)

IInv == TypeOK /\ ProgressInv /\ PoolInv /\ LaneInv /\ HolderInv /\ Apart /\ ResultInv /\ OutcomeFaithful

-----------------------------------------------------------------------------
(***************************************************************************)
(* Lanes.                                                                  *)
(***************************************************************************)
LEMMA LanesType ==
  ASSUME NEW j \in Job
  PROVE  Lanes(j) \in Nat \ {0}
<1>1. Cardinality(Worker) \in Nat \ {0}
  BY ExecutorAssumption, FS_CardinalityType, FS_EmptySet
<1>2. CASE Single(j)
  BY <1>2 DEF Lanes
<1>3. CASE ~Single(j)
  <2>1. Files[j] \in Nat \ {0} /\ Capacity \in Nat \ {0}
    BY <1>3, ExecutorAssumption DEF Single
  <2> QED BY <1>1, <1>3, <2>1 DEF Lanes, Least
<1> QED BY <1>2, <1>3

LEMMA TeamFinite ==
  ASSUME NEW j
  PROVE  /\ IsFiniteSet(Team(j)) /\ Cardinality(Team(j)) \in Nat
         /\ Cardinality(Team(j)) = 0 <=> Team(j) = {}
<1>1. Team(j) \in SUBSET Worker
  BY DEF Team
<1>2. IsFiniteSet(Team(j))
  BY <1>1, ExecutorAssumption, FS_Subset
<1> QED BY <1>2, FS_CardinalityType, FS_EmptySet

LEMMA AliveType ==
  ASSUME TypeOK, NEW j
  PROVE  /\ Waits(j) \in Nat /\ Alive(j) \in Nat
         /\ Alive(j) = 0 <=> Places(queue, j) = {} /\ Team(j) = {}
<1>1. IsFiniteSet(Places(queue, j)) /\ Waits(j) \in Nat
  BY PlacesFinite DEF TypeOK, Waits
<1>2. Waits(j) = 0 <=> Places(queue, j) = {}
  BY <1>1, FS_EmptySet DEF Waits
<1> QED BY <1>1, <1>2, TeamFinite DEF Alive

\* The job a worker holds is accepted and has not ended.
LEMMA HolderBusy ==
  ASSUME TypeOK, LaneInv, NEW w \in Worker, Held(w)
  PROVE  /\ unit[w] \in Job /\ phase[unit[w]] = "admitted" /\ ~Ended(unit[w])
         /\ at[w] # "final" => w \in Team(unit[w]) /\ Alive(unit[w]) # 0
<1>1. unit[w] \in Job
  BY DEF TypeOK
<1>2. w \in Team(unit[w]) \/ w \in Closers(unit[w])
  BY DEF Team, Closers
<1>3. ~Quiet(unit[w])
  BY <1>2, AliveType DEF Quiet
<1>4. phase[unit[w]] = "admitted"
  BY <1>1, <1>3 DEF LaneInv, Lane
<1>5. ~Ended(unit[w])
  BY <1>1, <1>3, <1>4 DEF LaneInv, Lane
<1>6. at[w] # "final" => w \in Team(unit[w])
  BY <1>2 DEF Closers
<1> QED BY <1>1, <1>4, <1>5, <1>6, AliveType

\* A job in the queue is accepted and has not ended.
LEMMA WaiterBusy ==
  ASSUME TypeOK, LaneInv, NEW i \in 1..Len(queue)
  PROVE  /\ queue[i] \in Job /\ phase[queue[i]] = "admitted" /\ ~Ended(queue[i])
         /\ Alive(queue[i]) # 0
<1>1. queue[i] \in Job
  BY ElementOfSeq DEF TypeOK
<1>2. i \in Places(queue, queue[i])
  BY DEF Places
<1>3. Alive(queue[i]) # 0
  BY <1>2, AliveType
<1> QED BY <1>1, <1>3 DEF LaneInv, Lane, Quiet

\* A single closure is in one place.
LEMMA SingleInOnePlace ==
  ASSUME TypeOK, LaneInv, NEW j \in Job, Single(j)
  PROVE  /\ \A w, v \in Worker : unit[w] = j /\ unit[v] = j => w = v
         /\ \A w \in Worker : unit[w] = j => Places(queue, j) = {}
<1>1. /\ Waits(j) \in Nat /\ Alive(j) = Waits(j) + Cardinality(Team(j))
      /\ IsFiniteSet(Team(j)) /\ Cardinality(Team(j)) \in Nat
  BY AliveType, TeamFinite DEF Alive
<1>2. Closers(j) = {} /\ Alive(j) <= 1
  <2>1. CASE phase[j] = "admitted"
    BY <2>1, <1>1 DEF LaneInv, Lane
  <2>2. CASE phase[j] # "admitted"
    BY <2>2, <1>1 DEF LaneInv, Lane, Quiet
  <2> QED BY <2>1, <2>2
<1>3. \A w \in Worker : unit[w] = j => w \in Team(j)
  BY <1>2 DEF Team, Closers
<1>4. ASSUME NEW w \in Worker, unit[w] = j
      PROVE  Cardinality(Team(j)) = 1 /\ Waits(j) = 0
  <2>1. Cardinality(Team(j)) # 0
    BY <1>3, <1>4, TeamFinite
  <2> QED BY <2>1, <1>1, <1>2
<1>5. ASSUME NEW w \in Worker, NEW v \in Worker, unit[w] = j, unit[v] = j
      PROVE  w = v
  <2>1. PICK x : Team(j) = {x}
    BY <1>1, <1>4, <1>5, FS_Singleton
  <2> QED BY <2>1, <1>3, <1>5
<1>6. ASSUME NEW w \in Worker, unit[w] = j PROVE Places(queue, j) = {}
  <2>1. Waits(j) = 0 /\ IsFiniteSet(Places(queue, j))
    BY <1>4, <1>6, PlacesFinite DEF TypeOK
  <2> QED BY <2>1, FS_EmptySet DEF Waits
<1> QED BY <1>5, <1>6

-----------------------------------------------------------------------------
(***************************************************************************)
(* Types.                                                                  *)
(***************************************************************************)
\* JobProgress
Counts == [state : State, queued : Nat, reading : Nat, completed : Nat, failed : Nat,
           cancelled : Nat]

USE DEF Ending, State, At, NoJob

LEMMA SubmitTypes ==
  ASSUME TypeOK, NEW j \in Job, Check(j) \/ Enqueue(j) \/ Cancel(j)
  PROVE  TypeOK'
<1>0. /\ queue \in Seq(Job) /\ at \in [Worker -> At] /\ unit \in [Worker -> Job \cup {NoJob}]
      /\ phase \in [Job -> {"new", "checked", "admitted", "refused"}]
      /\ \A v \in Worker : Held(v) <=> unit[v] \in Job
  BY DEF TypeOK
<1>1. CASE Check(j)
  <2>1. progress' \in [Job -> Counts]
    <3>1. progress \in [Job -> Counts]
      BY DEF TypeOK, Counts
    <3>2. [progress[j] EXCEPT !.queued = Files[j]] \in Counts
      BY <3>1, ExecutorAssumption DEF Counts
    <3>3. progress' = progress \/
          progress' = [progress EXCEPT ![j] = [progress[j] EXCEPT !.queued = Files[j]]]
      BY <1>1 DEF Check
    <3> QED BY <3>1, <3>2, <3>3
  <2>2. phase' \in [Job -> {"new", "checked", "admitted", "refused"}]
    BY <1>0, <1>1 DEF Check
  <2> QED BY <1>1, <2>1, <2>2 DEF TypeOK, Check, Held, Counts, pool, worker
<1>2. CASE Enqueue(j)
  <2>1. queue' \in Seq(Job)
    <3>1. Lanes(j) \in Nat
      BY LanesType
    <3>2. [i \in 1..Lanes(j) |-> j] \in [1..Lanes(j) -> Job]
      OBVIOUS
    <3>3. [i \in 1..Lanes(j) |-> j] \in Seq(Job)
      BY <3>1, <3>2
    <3>4. queue' = queue \/ queue' = queue \o [i \in 1..Lanes(j) |-> j]
      BY <1>2 DEF Enqueue, Append_
    <3> DEFINE copies == [i \in 1..Lanes(j) |-> j]
    <3>5. copies \in Seq(Job) /\ (queue' = queue \/ queue' = queue \o copies)
      BY <3>3, <3>4
    <3> HIDE DEF copies
    <3>6. queue \o copies \in Seq(Job)
      BY <1>0, <3>5, ConcatProperties
    <3> QED BY <1>0, <3>5, <3>6
  <2>2. at' \in [Worker -> At] /\ \A w \in Worker : Held(w)' <=> Held(w)
    <3>1. at' = at \/ NotifyAll
      BY <1>2 DEF Enqueue
    <3> QED BY <1>0, <3>1 DEF NotifyAll, Held
  <2>3. phase' \in [Job -> {"new", "checked", "admitted", "refused"}]
    BY <1>0, <1>2 DEF Enqueue, Append_
  <2> QED BY <1>2, <2>1, <2>2, <2>3 DEF TypeOK, Enqueue
<1>3. CASE Cancel(j)
  BY <1>3 DEF TypeOK, Cancel, Held, pool, worker
<1> QED BY <1>1, <1>2, <1>3

LEMMA CloseTypes ==
  ASSUME TypeOK, Close
  PROVE  TypeOK'
<1>0. /\ queue \in Seq(Job) /\ at \in [Worker -> At] /\ unit \in [Worker -> Job \cup {NoJob}]
      /\ phase \in [Job -> {"new", "checked", "admitted", "refused"}]
      /\ \A v \in Worker : Held(v) <=> unit[v] \in Job
  BY DEF TypeOK
<1>1. CASE Stop /\ joiner' \in {"no", "joining", "returned"}
  <2>1. at' \in [Worker -> At] /\ \A w \in Worker : Held(w)' <=> Held(w)
    BY <1>0, <1>1 DEF Stop, NotifyAll, Held
  <2> QED BY <1>1, <2>1 DEF TypeOK, Stop
<1>2. CASE JoinReturns
  BY <1>2 DEF TypeOK, JoinReturns, Held, worker, jobs
<1> QED BY <1>1, <1>2 DEF Close, Shutdown, ShutdownAndWait, TypeOK

LEMMA LoopTypes ==
  ASSUME TypeOK, NEW w \in Worker, Poll(w) \/ Yield(w)
  PROVE  TypeOK'
<1>0. /\ queue \in Seq(Job) /\ at \in [Worker -> At] /\ unit \in [Worker -> Job \cup {NoJob}]
      /\ phase \in [Job -> {"new", "checked", "admitted", "refused"}]
      /\ \A v \in Worker : Held(v) <=> unit[v] \in Job
  BY DEF TypeOK
<1>1. queue # <<>> => Head(queue) \in Job /\ Tail(queue) \in Seq(Job)
  BY HeadTailProperties DEF TypeOK
<1>2. ASSUME NEW q, Begins(q) PROVE passed' \in [Job -> Nat]
  <2>1. passed \in [Job -> Nat]
    BY DEF TypeOK
  <2>2. passed' = [j \in Job |-> IF Single(j) /\ j \in Waiting(q) THEN passed[j] + 1
                                                                 ELSE passed[j]]
    BY <1>2 DEF Begins
  <2>3. \A j \in Job : (IF Single(j) /\ j \in Waiting(q) THEN passed[j] + 1
                                                        ELSE passed[j]) \in Nat
    BY <2>1
  <2> QED BY <2>2, <2>3
<1>3. passed' \in [Job -> Nat]
  <2>1. CASE UNCHANGED passed
    BY <2>1 DEF TypeOK
  <2>2. CASE Begins(Tail(queue))
    BY <2>2, <1>2
  <2> QED BY <2>1, <2>2 DEF Poll, Yield
<1>4. CASE Poll(w)
  <2>1. at' \in [Worker -> At]
    BY <1>0, <1>4 DEF Poll, Goto
  <2>3. unit' \in [Worker -> Job \cup {NoJob}]
    BY <1>0, <1>1, <1>4 DEF Poll
  <2>4. queue' \in Seq(Job)
    BY <1>0, <1>1, <1>4 DEF Poll
  <2>2. \A v \in Worker : Held(v)' <=> unit'[v] \in Job
    BY <1>0, <1>1, <1>4 DEF Poll, Goto, Held
  <2> QED BY <1>3, <1>4, <2>1, <2>2, <2>3, <2>4 DEF TypeOK, Poll, jobs
<1>5. CASE Yield(w)
  <2>0. unit[w] \in Job
    BY <1>0, <1>5 DEF Yield, Held
  <2>1. at' \in [Worker -> At]
    BY <1>0, <1>5 DEF Yield, Goto
  <2>3. unit' \in [Worker -> Job \cup {NoJob}]
    <3>1. unit' = unit \/ (queue # <<>> /\ unit' = [unit EXCEPT ![w] = Head(queue)])
      BY <1>5 DEF Yield
    <3> QED BY <1>0, <1>1, <3>1
  <2>4. queue' \in Seq(Job)
    <3>1. queue' = queue \/ (queue # <<>> /\ queue' = Append(Tail(queue), unit[w]))
      BY <1>5 DEF Yield
    <3>2. queue # <<>> => Append(Tail(queue), unit[w]) \in Seq(Job)
      BY <1>1, <2>0, AppendProperties
    <3> QED BY <1>0, <3>1, <3>2
  <2>2. \A v \in Worker : Held(v)' <=> unit'[v] \in Job
    BY <1>0, <1>1, <1>5, <2>0 DEF Yield, Goto, Held
  <2> QED BY <1>3, <1>5, <2>1, <2>2, <2>3, <2>4 DEF TypeOK, Yield, jobs
<1> QED BY <1>4, <1>5

LEMMA CountsTaken ==
  ASSUME NEW p \in Counts, NEW n \in Nat, NEW r \in Nat
  PROVE  LET q == [p EXCEPT !.queued = n, !.reading = r] IN
         /\ q \in Counts /\ q.state = p.state /\ q.queued = n /\ q.reading = r
         /\ q.completed = p.completed /\ q.failed = p.failed /\ q.cancelled = p.cancelled
BY DEF Counts

LEMMA CountsDone ==
  ASSUME NEW p \in Counts, NEW r \in Nat, NEW d \in Nat, NEW f \in Nat, NEW c \in Nat
  PROVE  LET q == [p EXCEPT !.reading = r, !.completed = d, !.failed = f, !.cancelled = c] IN
         /\ q \in Counts /\ q.state = p.state /\ q.queued = p.queued /\ q.reading = r
         /\ q.completed = d /\ q.failed = f /\ q.cancelled = c
<1> DEFINE q2 == [p EXCEPT !.reading = r, !.completed = d]
           q  == [q2 EXCEPT !.failed = f, !.cancelled = c]
<1>1. /\ q2 \in Counts /\ q2.state = p.state /\ q2.queued = p.queued
      /\ q2.reading = r /\ q2.completed = d
  BY DEF Counts
<1> HIDE DEF q2
<1>2. /\ q \in Counts /\ q.state = q2.state /\ q.queued = q2.queued
      /\ q.reading = q2.reading /\ q.completed = q2.completed
      /\ q.failed = f /\ q.cancelled = c
  BY <1>1 DEF Counts
<1> QED BY <1>1, <1>2 DEF q2

LEMMA ClosureTypes ==
  ASSUME TypeOK, ProgressInv, LaneInv, HolderInv, NEW w \in Worker,
         \/ Start(w) \/ Index(w) \/ Count(w) \/ CheckCancelled(w) \/ Act(w)
         \/ Publish(w) \/ Tally(w) \/ Leave(w) \/ Final(w)
  PROVE  TypeOK'
<1> DEFINE j == unit[w]
<1>0. /\ at \in [Worker -> At] /\ unit \in [Worker -> Job \cup {NoJob}]
      /\ file \in [Worker -> Nat] /\ got \in [Worker -> Ending \cup {"none"}]
      /\ \A v \in Worker : Held(v) <=> unit[v] \in Job
      /\ next \in [Job -> Nat] /\ remaining \in [Job -> Nat]
      /\ DOMAIN results = Job
      /\ \A k \in Job : results[k] \in [Slot(k) -> Ending \cup {"none"}]
      /\ NoJob \notin Job
  BY ExecutorAssumption DEF TypeOK
<1>n. next \in [Job -> Nat]
  BY DEF TypeOK
<1>f. file \in [Worker -> Nat] /\ got \in [Worker -> Ending \cup {"none"}]
  BY DEF TypeOK
<1>p. progress \in [Job -> Counts]
  BY DEF TypeOK, Counts
<1>1. Held(w) /\ j \in Job
  BY <1>0 DEF Held, Start, Index, Count, CheckCancelled, Act, Publish, Tally, Leave, Final
<1>2. /\ queue' = queue /\ stopped' = stopped /\ joiner' = joiner /\ passed' = passed
      /\ phase' = phase /\ cancelled' = cancelled
  BY DEF Start, Index, Count, CheckCancelled, Act, Publish, Tally, Leave, Final, pool, jobs
<1>3. ASSUME NEW q \in Counts, progress' = [progress EXCEPT ![j] = q]
      PROVE  progress' \in [Job -> Counts]
  BY <1>1, <1>3, <1>p
<1>4. progress' \in [Job -> Counts]
  <2> DEFINE p == progress[j]
  <2>0. p \in Counts
    BY <1>1, <1>p
  <2>1. CASE progress' = progress
    BY <2>1, <1>p
  <2>2. CASE Start(w) \/ Final(w)
    <3>1. \A s \in State : [p EXCEPT !.state = s] \in Counts
      BY <2>0 DEF Counts
    <3>2. \E s \in State : progress' = [progress EXCEPT ![j] = [p EXCEPT !.state = s]]
      <4>1. CASE Start(w)
        BY <4>1 DEF Start
      <4>2. CASE Final(w)
        <5> DEFINE e == IF p.cancelled # 0 THEN "cancelled" ELSE IF p.failed # 0 THEN "failed"
                        ELSE "completed"
        <5>1. progress' = [progress EXCEPT ![j] = [p EXCEPT !.state = e]]
          BY <4>2 DEF Final
        <5> QED BY <5>1
      <4> QED BY <2>2, <4>1, <4>2
    <3> QED BY <1>3, <3>1, <3>2
  <2>3. CASE Count(w)
    <3> DEFINE n == IF p.queued = 0 THEN 0 ELSE p.queued - 1
    <3>1. progress' = [progress EXCEPT ![j] = [p EXCEPT !.queued = n, !.reading = p.reading + 1]]
      BY <2>3 DEF Count
    <3>2. [p EXCEPT !.queued = n, !.reading = p.reading + 1] \in Counts
      <4>1. n \in Nat /\ p.reading + 1 \in Nat
        BY <2>0 DEF Counts
      <4> HIDE DEF n, p
      <4> QED BY <2>0, <4>1, CountsTaken
    <3> QED BY <1>3, <3>1, <3>2
  <2>4. CASE Tally(w) /\ Single(j)
    <3>1. progress' = [progress EXCEPT ![j] = [p EXCEPT !.state = got[w]]]
      BY <2>4 DEF Tally
    <3>2. got[w] \in Ending
      BY <1>1, <2>4 DEF HolderInv, Owns, Holding, Tally
    <3>3. [p EXCEPT !.state = got[w]] \in Counts
      BY <2>0, <3>2 DEF Counts
    <3> QED BY <1>3, <3>1, <3>3
  <2>5. CASE Tally(w) /\ ~Single(j)
    <3> DEFINE q == [p EXCEPT !.reading = p.reading - 1, !.completed = p.completed + 1,
                              !.failed = AddOne(p.failed, got[w] = "failed"),
                              !.cancelled = AddOne(p.cancelled, got[w] = "cancelled")]
    <3>1. progress' = [progress EXCEPT ![j] = q]
      <4>1. TallyBatch(w)
        BY <2>5 DEF Tally
      <4> QED BY <4>1 DEF TallyBatch
    <3>2. p.reading - 1 \in Nat
      <4>1. w \in Readers(j) /\ Readers(j) \in SUBSET Worker
        BY <2>5 DEF Tally, Readers
      <4>2. IsFiniteSet(Readers(j))
        BY <4>1, ExecutorAssumption, FS_Subset
      <4>3. Cardinality(Readers(j)) \in Nat \ {0}
        BY <4>1, <4>2, FS_CardinalityType, FS_EmptySet
      <4>4. p.reading = Cardinality(Readers(j))
        BY <1>1, <2>5 DEF ProgressInv, CountsOf
      <4> QED BY <4>3, <4>4
    <3>3. q \in Counts
      <4>2. /\ AddOne(p.failed, got[w] = "failed") \in Nat
            /\ AddOne(p.cancelled, got[w] = "cancelled") \in Nat
        BY <2>0 DEF Counts, AddOne
      <4> DEFINE r == p.reading - 1
                 d == p.completed + 1
                 f == AddOne(p.failed, got[w] = "failed")
                 c == AddOne(p.cancelled, got[w] = "cancelled")
      <4>3. r \in Nat /\ d \in Nat /\ f \in Nat /\ c \in Nat
        BY <2>0, <3>2, <4>2 DEF Counts
      <4> HIDE DEF p, r, d, f, c
      <4>4. [p EXCEPT !.reading = r, !.completed = d, !.failed = f, !.cancelled = c] \in Counts
        BY <2>0, <4>3, CountsDone
      <4> QED BY <4>4 DEF r, d, f, c
    <3> HIDE DEF q
    <3> QED BY <1>3, <3>1, <3>3
  <2>6. \/ progress' = progress \/ Start(w) \/ Final(w) \/ Count(w) \/ Tally(w)
    BY DEF Index, CheckCancelled, Act, Publish, Leave, jobs
  <2> QED BY <2>1, <2>2, <2>3, <2>4, <2>5, <2>6
<1>5. \E s \in At : /\ at' = [at EXCEPT ![w] = s]
                   /\ \/ unit' = unit /\ s \notin {"poll", "wait", "exited"}
                      \/ unit' = [unit EXCEPT ![w] = NoJob] /\ s = "poll"
  <2>1. CASE Start(w)
    BY <2>1 DEF Start, Goto, Holds, Drops
  <2>2. CASE Index(w)
    BY <2>2 DEF Index, Goto, Holds, Drops
  <2>3. CASE Count(w)
    BY <2>3 DEF Count, Goto, Holds, Drops
  <2>4. CASE CheckCancelled(w)
    BY <2>4 DEF CheckCancelled, Goto, Holds, Drops
  <2>5. CASE Act(w)
    BY <2>5 DEF Act, Goto, Holds, Drops
  <2>6. CASE Publish(w)
    BY <2>6 DEF Publish, Goto, Holds, Drops
  <2>7. CASE Tally(w)
    BY <2>7 DEF Tally, Goto, Holds, Drops
  <2>8. CASE Leave(w)
    BY <2>8 DEF Leave, Goto, Holds, Drops
  <2>9. CASE Final(w)
    BY <2>9 DEF Final, Goto, Holds, Drops
  <2> QED BY <2>1, <2>2, <2>3, <2>4, <2>5, <2>6, <2>7, <2>8, <2>9
<1>a. at' \in [Worker -> At] /\ unit' \in [Worker -> Job \cup {NoJob}]
  <2> HIDE DEF At
  <2> QED BY <1>0, <1>5
<1>b. \A v \in Worker : Held(v)' <=> unit'[v] \in Job
  BY <1>0, <1>1, <1>5 DEF Held
<1>6. file' \in [Worker -> Nat] /\ got' \in [Worker -> Ending \cup {"none"}]
  <2>1. CASE Start(w)
    BY <1>0, <1>1, <2>1 DEF Start, Goto, Holds, Drops
  <2>2. CASE Index(w)
    <3>1. got' = got /\ (file' = file \/ file' = [file EXCEPT ![w] = next[j]])
      BY <2>2 DEF Index
    <3> QED BY <1>0, <1>1, <3>1
  <2>3. CASE Count(w)
    BY <1>0, <1>1, <2>3 DEF Count, Goto, Holds, Drops
  <2>4. CASE CheckCancelled(w)
    BY <1>0, <1>1, <2>4 DEF CheckCancelled, Goto, Holds, Drops
  <2>5. CASE Act(w)
    BY <1>0, <1>1, <2>5 DEF Act, Goto, Holds, Drops
  <2>6. CASE Publish(w)
    BY <1>0, <1>1, <2>6 DEF Publish, Goto, Holds, Drops
  <2>7. CASE Tally(w)
    <3>1. file' = [file EXCEPT ![w] = 0] /\ got' = [got EXCEPT ![w] = "none"]
      BY <2>7 DEF Tally, Drops
    <3> QED BY <1>0, <3>1
  <2>8. CASE Leave(w)
    <3>1. \/ file' = file /\ got' = got
          \/ file' = [file EXCEPT ![w] = 0] /\ got' = [got EXCEPT ![w] = "none"]
      BY <2>8 DEF Leave, Holds, Drops
    <3> QED BY <1>f, <3>1
  <2>9. CASE Final(w)
    BY <1>0, <1>1, <2>9 DEF Final, Goto, Holds, Drops
  <2> QED BY <2>1, <2>2, <2>3, <2>4, <2>5, <2>6, <2>7, <2>8, <2>9
<1>7. next' \in [Job -> Nat]
  <2>1. next' = next \/ next' = [next EXCEPT ![j] = next[j] + 1]
    <3>1. CASE Index(w)
      BY <3>1 DEF Index
    <3>2. CASE ~Index(w)
      BY <3>2 DEF Start, Count, CheckCancelled, Act, Publish, Tally, Leave, Final, jobs
    <3> QED BY <3>1, <3>2
  <2>2. next[j] + 1 \in Nat
    BY <1>n, <1>1
  <2> HIDE DEF j
  <2> QED BY <1>n, <2>1, <2>2
<1>8. remaining' \in [Job -> Nat]
  <2>1. CASE Leave(w)
    <3>1. ~Single(j) /\ phase[j] = "admitted" /\ Alive(j) \in Nat \ {0}
      <4>1. ~Single(j)
        BY <1>1, <2>1 DEF HolderInv, Owns, Holding, Leave
      <4> QED BY <1>1, <2>1, <4>1, HolderBusy, AliveType DEF Leave
    <3>2. remaining[j] \in Nat \ {0}
      BY <1>1, <3>1 DEF LaneInv, Lane
    <3>3. remaining' = [remaining EXCEPT ![j] = remaining[j] - 1] /\ remaining[j] - 1 \in Nat
      BY <2>1, <3>2 DEF Leave
    <3> QED BY <1>0, <1>1, <3>3
  <2>2. CASE ~Leave(w)
    BY <1>0, <2>2 DEF Start, Index, Count, CheckCancelled, Act, Publish, Tally, Final, jobs
  <2> QED BY <2>1, <2>2
<1>9. /\ DOMAIN results' = Job
      /\ \A k \in Job : results'[k] \in [Slot(k) -> Ending \cup {"none"}]
  <2>1. CASE Publish(w)
    BY <1>0, <1>1, <2>1 DEF Publish
  <2>2. CASE ~Publish(w)
    BY <1>0, <2>2 DEF Start, Index, Count, CheckCancelled, Act, Leave, Tally, Final, jobs
  <2> QED BY <2>1, <2>2
<1> QED
  BY <1>2, <1>4, <1>a, <1>b, <1>6, <1>7, <1>8, <1>9 DEF TypeOK, Counts

-----------------------------------------------------------------------------
(***************************************************************************)
(* The pool and the lanes are kept.                                        *)
(***************************************************************************)
LEMMA WorkersFinite ==
  ASSUME NEW T, T \subseteq Worker
  PROVE  IsFiniteSet(T) /\ Cardinality(T) \in Nat /\ (Cardinality(T) = 0 <=> T = {})
BY ExecutorAssumption, FS_Subset, FS_CardinalityType, FS_EmptySet

LEMMA WorkersAdd ==
  ASSUME NEW T, T \subseteq Worker, NEW w \in Worker, w \notin T
  PROVE  Cardinality(T \cup {w}) = Cardinality(T) + 1
BY WorkersFinite, FS_AddElement

LEMMA WorkersDrop ==
  ASSUME NEW T, T \subseteq Worker, NEW w \in T
  PROVE  Cardinality(T \ {w}) = Cardinality(T) - 1
BY WorkersFinite, FS_RemoveElement

LEMMA LaneFrame ==
  ASSUME NEW j \in Job, Lane(j), Waits(j)' = Waits(j), Team(j)' = Team(j),
         Closers(j)' = Closers(j), Ended(j)' <=> Ended(j),
         phase'[j] = "admitted" <=> phase[j] = "admitted", remaining'[j] = remaining[j]
  PROVE  Lane(j)'
<1>1. Alive(j)' = Alive(j)
  BY DEF Alive
<1>2. Quiet(j)' <=> Quiet(j)
  BY <1>1 DEF Quiet
<1> QED BY <1>1, <1>2 DEF Lane

LEMMA TeamsFrame ==
  ASSUME NEW j,
         \A w \in Worker : unit'[w] = unit[w] /\ (at'[w] = "final" <=> at[w] = "final")
  PROVE  Team(j)' = Team(j) /\ Closers(j)' = Closers(j)
BY DEF Team, Closers

LEMMA SubmitLanes ==
  ASSUME TypeOK, LaneInv, NEW j \in Job, Check(j) \/ Enqueue(j) \/ Cancel(j)
  PROVE  LaneInv'
<1> SUFFICES ASSUME NEW k \in Job PROVE Lane(k)'
  BY DEF LaneInv
<1>1. Lane(k)
  BY DEF LaneInv
<1>2. Team(k)' = Team(k) /\ Closers(k)' = Closers(k)
  <2>1. unit' = unit /\ (at' = at \/ NotifyAll)
    BY DEF Check, Enqueue, Cancel, worker
  <2>2. at \in [Worker -> At]
    BY DEF TypeOK
  <2> QED BY <2>1, <2>2, TeamsFrame DEF NotifyAll
<1>3. remaining' = remaining
  BY DEF Check, Enqueue, Cancel
<1>4. Ended(k)' <=> Ended(k)
  <2>1. CASE progress' = progress
    BY <2>1 DEF Ended
  <2>2. CASE progress' = [progress EXCEPT ![j].queued = Files[j]]
    <3>1. progress[k] \in Counts /\ progress \in [Job -> Counts]
      BY DEF TypeOK, Counts
    <3>2. progress'[k].state = progress[k].state
      BY <2>2, <3>1 DEF Counts
    <3> QED BY <3>2 DEF Ended
  <2> QED BY <2>1, <2>2 DEF Check, Enqueue, Cancel
<1>5. phase \in [Job -> {"new", "checked", "admitted", "refused"}] /\ queue \in Seq(Job)
  BY DEF TypeOK
<1>6. CASE queue' = queue /\ (phase'[k] = "admitted" <=> phase[k] = "admitted")
  BY <1>1, <1>2, <1>3, <1>4, <1>6, LaneFrame DEF Waits
<1>7. CASE Check(j) \/ Cancel(j)
  BY <1>5, <1>6, <1>7 DEF Check, Cancel, pool
<1>8. CASE Enqueue(j) /\ ~(~stopped /\ Fits(j))
  BY <1>5, <1>6, <1>8 DEF Enqueue
<1>9. CASE Enqueue(j) /\ ~stopped /\ Fits(j)
  <2>1. /\ phase[j] = "checked" /\ phase' = [phase EXCEPT ![j] = "admitted"]
        /\ queue' = queue \o [i \in 1..Lanes(j) |-> j]
    BY <1>9 DEF Enqueue, Append_
  <2>2. Lanes(j) \in Nat \ {0}
    BY LanesType
  <2>3. Waits(k)' = Waits(k) + (IF j = k THEN Lanes(j) ELSE 0)
    BY <1>5, <2>1, <2>2, PlacesCopies DEF Waits
  <2>4. CASE k # j
    <3>1. Waits(k)' = Waits(k)
      BY <2>3, <2>4, AliveType
    <3> QED BY <1>1, <1>2, <1>3, <1>4, <1>5, <2>1, <2>4, <3>1, LaneFrame
  <2>5. CASE k = j
    <3>1. Quiet(j) /\ ~Ended(j) /\ remaining[j] = Lanes(j)
      BY <1>1, <2>1, <2>5 DEF Lane
    <3>2. Waits(j) = 0 /\ Cardinality(Team(j)) = 0 /\ Closers(j) = {}
      BY <3>1, AliveType, TeamFinite DEF Quiet, Alive
    <3>3. Alive(j)' = Lanes(j)
      BY <1>2, <2>2, <2>3, <2>5, <3>2 DEF Alive
    <3>4. Single(j) => Lanes(j) = 1
      BY DEF Lanes
    <3>5. Closers(j)' = {} /\ ~Ended(j)' /\ remaining'[j] = Lanes(j) /\ phase'[j] = "admitted"
      BY <1>2, <1>3, <1>4, <1>5, <2>1, <2>5, <3>1, <3>2
    <3> QED BY <2>2, <2>5, <3>3, <3>4, <3>5 DEF Lane, Quiet
  <2> QED BY <2>4, <2>5
<1> QED BY <1>7, <1>8, <1>9

LEMMA CloseLanes ==
  ASSUME TypeOK, LaneInv, Close
  PROVE  LaneInv'
<1> SUFFICES ASSUME NEW k \in Job PROVE Lane(k)'
  BY DEF LaneInv
<1>1. /\ unit' = unit /\ queue' = queue /\ phase' = phase /\ remaining' = remaining
      /\ progress' = progress /\ (at' = at \/ NotifyAll)
  BY DEF Close, Shutdown, ShutdownAndWait, JoinReturns, Stop, worker, jobs
<1>2. Team(k)' = Team(k) /\ Closers(k)' = Closers(k)
  <2>1. at \in [Worker -> At]
    BY DEF TypeOK
  <2> QED BY <1>1, <2>1, TeamsFrame DEF NotifyAll
<1> QED BY <1>1, <1>2, LaneFrame DEF LaneInv, Waits, Ended

LEMMA LoopLanes ==
  ASSUME TypeOK, LaneInv, NEW w \in Worker, Poll(w) \/ Yield(w)
  PROVE  LaneInv'
<1> SUFFICES ASSUME NEW k \in Job PROVE Lane(k)'
  BY DEF LaneInv
<1>1. Lane(k)
  BY DEF LaneInv
<1>2. /\ queue \in Seq(Job) /\ at \in [Worker -> At] /\ unit \in [Worker -> Job \cup {NoJob}]
      /\ Held(w) <=> unit[w] \in Job
  BY DEF TypeOK
<1>3. /\ phase' = phase /\ remaining' = remaining /\ (Ended(k)' <=> Ended(k))
  BY DEF Poll, Yield, jobs, Ended
<1>4. CASE queue' = queue /\ unit' = unit
  <2>1. \A v \in Worker : at'[v] = "final" <=> at[v] = "final"
    BY <1>2, <1>4 DEF Poll, Yield, Goto
  <2> QED BY <1>1, <1>3, <1>4, <2>1, TeamsFrame, LaneFrame DEF Waits
<1>5. CASE queue # <<>> /\ Poll(w)
  <2> DEFINE h == Head(queue)
  <2>1. /\ unit' = [unit EXCEPT ![w] = h] /\ queue' = Tail(queue)
        /\ at' = [at EXCEPT ![w] = "start"] /\ at[w] = "poll"
    BY <1>5 DEF Poll, Goto
  <2>2. h \in Job /\ unit[w] \notin Job
    BY <1>2, <1>5, <2>1, HeadTailProperties DEF Held
  <2>3. Waits(k) = Waits(k)' + (IF h = k THEN 1 ELSE 0)
    BY <1>2, <1>5, <2>1, PlacesTail DEF Waits
  <2>4. Waits(k)' \in Nat
    <3>1. queue' \in Seq(Job)
      BY <1>2, <1>5, <2>1, HeadTailProperties
    <3> QED BY <3>1, PlacesFinite DEF Waits
  <2>5. Closers(k)' = Closers(k)
    BY <1>2, <2>1 DEF Closers
  <2>6. CASE k = h
    <3>1. Team(k)' = Team(k) \cup {w} /\ w \notin Team(k) /\ Team(k) \subseteq Worker
      BY <1>2, <2>1, <2>2, <2>6 DEF Team
    <3>2. Cardinality(Team(k)') = Cardinality(Team(k)) + 1
      BY <3>1, WorkersAdd
    <3>3. Alive(k)' = Alive(k)
      BY <2>3, <2>4, <2>6, <3>2, TeamFinite DEF Alive
    <3>4. Quiet(k)' <=> Quiet(k)
      BY <2>5, <3>3 DEF Quiet
    <3> QED BY <1>1, <1>3, <2>5, <3>3, <3>4 DEF Lane
  <2>7. CASE k # h
    <3>1. Team(k)' = Team(k)
      BY <1>2, <2>1, <2>2, <2>7 DEF Team
    <3> QED BY <1>1, <1>3, <2>3, <2>4, <2>5, <2>7, <3>1, LaneFrame
  <2> QED BY <2>6, <2>7
<1>6. CASE queue # <<>> /\ Yield(w)
  <2> DEFINE h == Head(queue)
             j == unit[w]
  <2>1. /\ unit' = [unit EXCEPT ![w] = h] /\ queue' = Append(Tail(queue), j)
        /\ at' = [at EXCEPT ![w] = "start"] /\ at[w] = "yield"
    BY <1>6 DEF Yield, Goto
  <2>2. h \in Job /\ j \in Job /\ Tail(queue) \in Seq(Job)
    BY <1>2, <1>6, <2>1, HeadTailProperties DEF Held
  <2>3. /\ Waits(k) = Cardinality(Places(Tail(queue), k)) + (IF h = k THEN 1 ELSE 0)
        /\ Cardinality(Places(Tail(queue), k)) \in Nat
    BY <1>2, <1>6, <2>2, PlacesTail, PlacesFinite DEF Waits
  <2>4. Waits(k)' = Cardinality(Places(Tail(queue), k)) + (IF j = k THEN 1 ELSE 0)
    <3> DEFINE t == Tail(queue)
    <3>1. Cardinality(Places(Append(t, j), k)) = Cardinality(Places(t, k))
                                                   + (IF j = k THEN 1 ELSE 0)
      <4>1. t \in Seq(Job) /\ j \in Job
        BY <2>2
      <4> HIDE DEF j, t
      <4> QED BY <4>1, PlacesAppend
    <3> QED BY <2>1, <3>1 DEF Waits
  <2>5. Closers(k)' = Closers(k)
    BY <1>2, <2>1 DEF Closers
  <2>6. Team(k) \subseteq Worker /\ (w \in Team(k) <=> j = k)
    BY <2>1 DEF Team
  <2>7. CASE (h = k) <=> (j = k)
    <3>1. Team(k)' = Team(k)
      BY <1>2, <2>1, <2>7 DEF Team
    <3> QED BY <1>1, <1>3, <2>3, <2>4, <2>5, <2>7, <3>1, LaneFrame
  <2>8. CASE h = k /\ j # k
    <3>1. Team(k)' = Team(k) \cup {w}
      BY <1>2, <2>1, <2>8 DEF Team
    <3>2. Cardinality(Team(k)') = Cardinality(Team(k)) + 1
      BY <2>6, <2>8, <3>1, WorkersAdd
    <3>3. Alive(k)' = Alive(k)
      BY <2>3, <2>4, <2>8, <3>2, TeamFinite DEF Alive
    <3>4. Quiet(k)' <=> Quiet(k)
      BY <2>5, <3>3 DEF Quiet
    <3> QED BY <1>1, <1>3, <2>5, <3>3, <3>4 DEF Lane
  <2>9. CASE h # k /\ j = k
    <3>1. Team(k)' = Team(k) \ {w}
      BY <1>2, <2>1, <2>9 DEF Team
    <3>2. Cardinality(Team(k)') = Cardinality(Team(k)) - 1
      BY <2>6, <2>9, <3>1, WorkersDrop
    <3>3. Alive(k)' = Alive(k)
      BY <2>3, <2>4, <2>9, <3>2, TeamFinite DEF Alive
    <3>4. Quiet(k)' <=> Quiet(k)
      BY <2>5, <3>3 DEF Quiet
    <3> QED BY <1>1, <1>3, <2>5, <3>3, <3>4 DEF Lane
  <2> QED BY <2>7, <2>8, <2>9
<1> QED BY <1>4, <1>5, <1>6 DEF Poll, Yield

LEMMA ClosureLanes ==
  ASSUME TypeOK, LaneInv, HolderInv, NEW w \in Worker,
         \/ Start(w) \/ Index(w) \/ Count(w) \/ CheckCancelled(w) \/ Act(w)
         \/ Publish(w) \/ Tally(w) \/ Leave(w) \/ Final(w)
  PROVE  LaneInv'
<1> DEFINE j == unit[w]
<1> SUFFICES ASSUME NEW k \in Job PROVE Lane(k)'
  BY DEF LaneInv
<1>1. Lane(k)
  BY DEF LaneInv
<1>2. /\ at \in [Worker -> At] /\ unit \in [Worker -> Job \cup {NoJob}]
      /\ NoJob \notin Job /\ remaining \in [Job -> Nat]
  BY ExecutorAssumption DEF TypeOK
<1>p. progress \in [Job -> Counts] /\ progress[k] \in Counts
  BY DEF TypeOK, Counts
<1>3. Held(w) /\ j \in Job
  <2>1. Held(w)
    BY DEF Held, Start, Index, Count, CheckCancelled, Act, Publish, Tally, Leave, Final
  <2> QED BY <2>1 DEF TypeOK
<1>4. queue' = queue /\ phase' = phase
  BY DEF Start, Index, Count, CheckCancelled, Act, Publish, Tally, Leave, Final, pool, jobs
<1>w. Waits(k)' = Waits(k)
  BY <1>4 DEF Waits
<1>5. phase[j] = "admitted" /\ ~Ended(j) /\ (at[w] # "final" => w \in Team(j) /\ Alive(j) # 0)
  BY <1>3, HolderBusy
<1>6. CASE /\ \A v \in Worker : unit'[v] = unit[v] /\ (at'[v] = "final" <=> at[v] = "final")
           /\ remaining' = remaining /\ (Ended(k)' <=> Ended(k))
  BY <1>1, <1>4, <1>w, <1>6, TeamsFrame, LaneFrame
<1>7. CASE k # j /\ ~(Tally(w) /\ ~Single(j))
  <2>1. Ended(k)' <=> Ended(k)
    BY <1>3, <1>p, <1>7 DEF Ended, Start, Index, Count, CheckCancelled, Act, Publish, Tally,
                            Leave, Final, jobs
  <2>2. remaining'[k] = remaining[k]
    BY <1>2, <1>7 DEF Start, Index, Count, CheckCancelled, Act, Publish, Tally, Leave, Final, jobs
  <2>3. \A v \in Worker : v # w => unit'[v] = unit[v] /\ at'[v] = at[v]
    BY <1>2 DEF Start, Index, Count, CheckCancelled, Act, Publish, Tally, Leave, Final,
                Goto, Holds, Drops
  <2>4. unit'[w] # k
    BY <1>2, <1>7 DEF Start, Index, Count, CheckCancelled, Act, Publish, Tally, Leave, Final,
                Goto, Holds, Drops
  <2>5. Team(k)' = Team(k) /\ Closers(k)' = Closers(k)
    BY <1>7, <2>3, <2>4 DEF Team, Closers
  <2> QED BY <1>1, <1>4, <1>w, <2>1, <2>2, <2>5, LaneFrame
<1>8. CASE Index(w) \/ CheckCancelled(w) \/ Act(w) \/ Publish(w)
  BY <1>2, <1>6, <1>8 DEF Index, CheckCancelled, Act, Publish, Goto, Holds, Ended, jobs
<1>9. CASE k = j /\ (Start(w) \/ Count(w))
  <2>1. Ended(k)' <=> Ended(k)
    BY <1>p, <1>5, <1>9 DEF Start, Count, Ended, Counts
  <2> QED BY <1>2, <1>6, <1>9, <2>1 DEF Start, Count, Goto, Holds
<1>10. CASE Tally(w) /\ ~Single(j)
  <2>1. Ended(k)' <=> Ended(k)
    <3>1. TallyBatch(w)
      BY <1>10 DEF Tally
    <3>2. progress'[k].state = progress[k].state
      BY <1>p, <3>1 DEF TallyBatch, Counts
    <3> QED BY <3>2 DEF Ended
  <2> QED BY <1>2, <1>6, <1>10, <2>1 DEF Tally, Goto
<1>11. CASE k = j /\ Tally(w) /\ Single(j)
  <2>1. /\ at[w] = "tally" /\ progress' = [progress EXCEPT ![j].state = got[w]]
        /\ unit' = [unit EXCEPT ![w] = NoJob] /\ at' = [at EXCEPT ![w] = "poll"]
    BY <1>11 DEF Tally, Drops, Goto
  <2>2. got[w] \in Ending
    BY <1>3, <2>1 DEF HolderInv, Owns, Holding
  <2>3. Ended(k)'
    BY <1>p, <1>11, <2>1, <2>2 DEF Ended, Counts
  <2>4. Team(k)' = Team(k) \ {w} /\ w \in Team(k) /\ Closers(k)' = Closers(k)
    BY <1>2, <1>3, <1>11, <2>1 DEF Team, Closers
  <2>5. Closers(k) = {} /\ Alive(k) = 1
    BY <1>1, <1>5, <1>11 DEF Lane
  <2>6. Cardinality(Team(k)') = Cardinality(Team(k)) - 1
    BY <2>4, WorkersDrop DEF Team
  <2>7. Alive(k)' = 0
    BY <1>w, <2>5, <2>6, AliveType, TeamFinite DEF Alive
  <2> QED BY <1>4, <1>5, <1>11, <2>3, <2>4, <2>5, <2>7 DEF Lane, Quiet
<1>12. CASE k = j /\ Leave(w)
  <2>1. /\ at[w] = "leave" /\ remaining' = [remaining EXCEPT ![j] = remaining[j] - 1]
        /\ progress' = progress
    BY <1>12 DEF Leave
  <2>2. ~Single(j) /\ Closers(k) = {} /\ remaining[k] = Alive(k) /\ Alive(k) \in Nat \ {0}
    <3>1. ~Single(j)
      BY <1>3, <2>1 DEF HolderInv, Owns, Holding
    <3> QED BY <1>1, <1>5, <1>12, <2>1, <3>1, AliveType DEF Lane
  <2>3. Team(k)' = Team(k) \ {w} /\ w \in Team(k)
    <3>1. (unit' = [unit EXCEPT ![w] = NoJob] /\ at' = [at EXCEPT ![w] = "poll"]) \/
          (unit' = unit /\ at' = [at EXCEPT ![w] = "final"])
      BY <1>12 DEF Leave, Drops, Holds, Goto
    <3>2. w \in Team(k)
      BY <1>12, <2>1 DEF Team
    <3>3. w \notin Team(k)'
      BY <1>2, <1>5, <3>1 DEF Team
    <3>4. ASSUME NEW v \in Worker, v # w PROVE v \in Team(k)' <=> v \in Team(k)
      BY <1>2, <3>1, <3>4 DEF Team
    <3>5. Team(k) \subseteq Worker /\ Team(k)' \subseteq Worker
      BY DEF Team
    <3> HIDE DEF Team
    <3> QED BY <3>2, <3>3, <3>4, <3>5
  <2>4. Cardinality(Team(k)') = Cardinality(Team(k)) - 1
    BY <2>3, WorkersDrop DEF Team
  <2>5. Alive(k)' = Alive(k) - 1
    BY <1>w, <2>4, AliveType, TeamFinite DEF Alive
  <2>6. remaining'[k] = Alive(k)'
    BY <1>2, <1>12, <2>1, <2>2, <2>5
  <2>7. ~Ended(k)' /\ phase'[k] = "admitted"
    BY <1>4, <1>5, <1>12, <2>1 DEF Ended
  <2>8. CASE remaining[k] = 1
    <3>1. unit' = unit /\ at' = [at EXCEPT ![w] = "final"]
      BY <1>12, <2>8 DEF Leave, Holds, Goto
    <3>2. Closers(k)' = {w}
      BY <1>2, <1>12, <2>2, <3>1 DEF Closers
    <3>3. Alive(k)' = 0
      BY <2>2, <2>5, <2>8
    <3> QED BY <1>12, <2>2, <2>6, <2>7, <3>2, <3>3 DEF Lane, Quiet
  <2>9. CASE remaining[k] # 1
    <3>1. unit' = [unit EXCEPT ![w] = NoJob] /\ at' = [at EXCEPT ![w] = "poll"]
      BY <1>12, <2>9 DEF Leave, Drops, Goto
    <3>2. Closers(k)' = {}
      BY <1>2, <1>12, <2>2, <3>1 DEF Closers
    <3>3. Alive(k)' # 0
      BY <2>2, <2>5, <2>9
    <3> QED BY <1>12, <2>2, <2>6, <2>7, <3>2, <3>3 DEF Lane, Quiet
  <2> QED BY <2>8, <2>9
<1>13. CASE k = j /\ Final(w)
  <2>1. /\ at[w] = "final" /\ unit' = [unit EXCEPT ![w] = NoJob]
        /\ at' = [at EXCEPT ![w] = "poll"] /\ remaining' = remaining
    BY <1>13 DEF Final, Drops, Goto
  <2>2. w \in Closers(k) /\ ~Single(j)
    BY <1>3, <1>13, <2>1 DEF Closers, HolderInv, Owns, Holding
  <2>3. Closers(k)' = {} /\ Team(k)' = Team(k)
    BY <1>1, <1>2, <1>13, <2>1, <2>2 DEF Closers, Team, Lane
  <2>4. Alive(k) = 0 /\ Alive(k)' = 0 /\ remaining[k] = 0
    BY <1>1, <1>5, <1>13, <1>w, <2>2, <2>3 DEF Lane, Alive
  <2>5. Ended(k)'
    <3>1. PICK e \in Ending : progress' = [progress EXCEPT ![j].state = e]
      <4> DEFINE p == progress[j]
                 e == IF p.cancelled # 0 THEN "cancelled" ELSE IF p.failed # 0 THEN "failed"
                      ELSE "completed"
      <4>1. progress' = [progress EXCEPT ![j].state = e]
        BY <1>13 DEF Final
      <4> QED BY <4>1
    <3> QED BY <1>p, <1>13, <3>1 DEF Ended, Counts
  <2> QED BY <1>4, <1>5, <1>13, <2>1, <2>2, <2>3, <2>4, <2>5 DEF Lane, Quiet
<1> QED BY <1>7, <1>8, <1>9, <1>10, <1>11, <1>12, <1>13

LEMMA PoolKept ==
  ASSUME TypeOK, PoolInv, Next
  PROVE  PoolInv'
<1>1. /\ queue \in Seq(Job) /\ at \in [Worker -> At] /\ Capacity \in Nat /\ Len(queue) \in Nat
      /\ phase \in [Job -> {"new", "checked", "admitted", "refused"}]
  BY ExecutorAssumption, LenProperties DEF TypeOK
<1>2. /\ Len(queue) <= Capacity
      /\ stopped => \A j \in Job : phase[j] = "admitted" => j \in cancelled
      /\ \A w \in Worker : at[w] = "exited" => stopped /\ queue = <<>>
      /\ joiner # "no" => stopped
      /\ joiner = "returned" => \A w \in Worker : at[w] = "exited"
  BY DEF PoolInv, QueueBounded, StoppedCancels
<1>3. ASSUME NEW j \in Job, Check(j) \/ Cancel(j) PROVE PoolInv'
  <2>1. /\ queue' = queue /\ stopped' = stopped /\ joiner' = joiner /\ at' = at
        /\ cancelled \subseteq cancelled'
        /\ \A k \in Job : phase'[k] = "admitted" => phase[k] = "admitted"
    BY <1>1, <1>3 DEF Check, Cancel, pool, worker
  <2> QED BY <1>2, <2>1 DEF PoolInv, QueueBounded, StoppedCancels
<1>4. ASSUME NEW j \in Job, Enqueue(j) PROVE PoolInv'
  <2>1. stopped' = stopped /\ joiner' = joiner /\ cancelled' = cancelled
    BY <1>4 DEF Enqueue
  <2>2. CASE ~stopped /\ Fits(j)
    <3> DEFINE n == Lanes(j)
               copies == [i \in 1..n |-> j]
    <3>1. queue' = queue \o copies /\ NotifyAll /\ n <= Capacity - Len(queue) /\ n \in Nat
      BY <1>4, <2>2, LanesType DEF Enqueue, Append_, Fits
    <3>2. copies \in Seq(Job) /\ Len(copies) = n
      <4> HIDE DEF n
      <4>1. copies \in [1..n -> Job]
        OBVIOUS
      <4> QED BY <3>1, <4>1
    <3>3. Len(queue') = Len(queue) + n
      <4> HIDE DEF copies, n
      <4> QED BY <1>1, <3>1, <3>2, ConcatProperties
    <3>4. Len(queue') <= Capacity
      <4> HIDE DEF copies, n
      <4> QED BY <1>1, <3>1, <3>3
    <3>5. ~stopped' /\ \A w \in Worker : at'[w] # "exited"
      BY <1>1, <1>2, <2>1, <2>2, <3>1 DEF NotifyAll
    <3>6. joiner' # "returned" /\ joiner' = "no"
      BY <1>2, <2>1, <2>2
    <3> QED BY <3>4, <3>5, <3>6 DEF PoolInv, QueueBounded, StoppedCancels
  <2>3. CASE ~(~stopped /\ Fits(j))
    <3>1. queue' = queue /\ at' = at /\ \A k \in Job : phase'[k] = "admitted" => phase[k] = "admitted"
      BY <1>1, <1>4, <2>3 DEF Enqueue
    <3> QED BY <1>2, <2>1, <3>1 DEF PoolInv, QueueBounded, StoppedCancels
  <2> QED BY <2>2, <2>3
<1>5. CASE Stop /\ (joiner' = joiner \/ (joiner = "no" /\ joiner' = "joining"))
  <2>1. /\ queue' = queue /\ stopped' = TRUE /\ phase' = phase
        /\ \A j \in Job : phase'[j] = "admitted" => j \in cancelled'
        /\ \A w \in Worker : at'[w] = "exited" <=> at[w] = "exited"
    BY <1>1, <1>5 DEF Stop, NotifyAll
  <2>2. joiner' = "returned" => joiner = "returned"
    BY <1>5
  <2> QED BY <1>2, <2>1, <2>2 DEF PoolInv, QueueBounded, StoppedCancels
<1>6. CASE JoinReturns
  BY <1>2, <1>6 DEF JoinReturns, worker, jobs, PoolInv, QueueBounded, StoppedCancels
<1>7. ASSUME NEW w \in Worker, Poll(w) \/ Yield(w) PROVE PoolInv'
  <2>1. /\ stopped' = stopped /\ joiner' = joiner /\ phase' = phase /\ cancelled' = cancelled
        /\ at[w] # "exited"
    BY <1>7 DEF Poll, Yield, jobs
  <2>2. CASE queue # <<>>
    <3>1. Len(queue') <= Len(queue)
      <4>1. Len(Tail(queue)) = Len(queue) - 1 /\ Tail(queue) \in Seq(Job)
        BY <1>1, <2>2, HeadTailProperties
      <4>2. CASE Poll(w)
        BY <1>1, <2>2, <4>1, <4>2 DEF Poll
      <4>3. CASE Yield(w)
        <5>1. unit[w] \in Job
          BY <4>3 DEF Yield, TypeOK, Held
        <5>2. Len(Append(Tail(queue), unit[w])) = Len(queue)
          BY <1>1, <4>1, <5>1, AppendProperties
        <5> QED BY <1>1, <2>2, <4>3, <5>2 DEF Yield
      <4> QED BY <1>7, <4>2, <4>3
    <3>2. Len(queue') <= Capacity
      <4>1. Len(queue') \in Nat
        <5>1. queue' \in Seq(Job)
          BY <1>7, LoopTypes DEF TypeOK
        <5> QED BY <5>1, LenProperties
      <4> QED BY <1>1, <1>2, <3>1, <4>1
    <3>3. at' = [at EXCEPT ![w] = "start"]
      BY <1>7, <2>2 DEF Poll, Yield, Goto
    <3>4. \A v \in Worker : at'[v] # "exited"
      BY <1>1, <1>2, <2>2, <3>3
    <3> QED BY <1>2, <2>1, <2>2, <3>2, <3>4 DEF PoolInv, QueueBounded, StoppedCancels
  <2>3. CASE queue = <<>>
    <3>1. queue' = queue
      BY <1>7, <2>3 DEF Poll, Yield
    <3>2. \A v \in Worker : at'[v] = "exited" => at[v] = "exited" \/ stopped
      BY <1>1, <1>7, <2>3 DEF Poll, Yield, Goto
    <3>3. \A v \in Worker : at[v] = "exited" => at'[v] = "exited"
      BY <1>1, <1>7, <2>1, <2>3 DEF Poll, Yield, Goto
    <3> QED BY <1>2, <2>1, <2>3, <3>1, <3>2, <3>3 DEF PoolInv, QueueBounded, StoppedCancels
  <2> QED BY <2>2, <2>3
<1>8. ASSUME NEW w \in Worker,
             \/ Start(w) \/ Index(w) \/ Count(w) \/ CheckCancelled(w) \/ Act(w)
             \/ Publish(w) \/ Tally(w) \/ Leave(w) \/ Final(w)
      PROVE  PoolInv'
  <2>1. /\ queue' = queue /\ stopped' = stopped /\ joiner' = joiner
        /\ phase' = phase /\ cancelled' = cancelled
    BY <1>8 DEF Start, Index, Count, CheckCancelled, Act, Publish, Tally, Leave, Final, pool, jobs
  <2>2. \E s \in At \ {"exited"} : at' = [at EXCEPT ![w] = s] /\ at[w] # "exited"
    BY <1>8 DEF Start, Index, Count, CheckCancelled, Act, Publish, Tally, Leave, Final, Goto
  <2>3. \A v \in Worker : at'[v] = "exited" <=> at[v] = "exited"
    BY <1>1, <2>2
  <2> QED BY <1>2, <2>1, <2>3 DEF PoolInv, QueueBounded, StoppedCancels
<1> QED BY <1>3, <1>4, <1>5, <1>6, <1>7, <1>8
        DEF Next, Submit, Close, Shutdown, ShutdownAndWait, Step

-----------------------------------------------------------------------------
(***************************************************************************)
(* What the workers hold is kept.                                          *)
(***************************************************************************)
LEMMA OwnsFrame ==
  ASSUME NEW v \in Worker, Owns(v), Held(v)' <=> Held(v), file'[v] = file[v],
         Held(v) =>
           /\ at'[v] = at[v] /\ unit'[v] = unit[v] /\ got'[v] = got[v]
           /\ phase'[unit[v]] = phase[unit[v]]
           /\ next[unit[v]] \in Nat /\ next'[unit[v]] \in Nat
           /\ Files[unit[v]] \in Nat /\ file[v] \in Nat
           /\ next[unit[v]] <= next'[unit[v]]
           /\ results'[unit[v]][file[v]] = results[unit[v]][file[v]]
           /\ results'[unit[v]][SlotOf(v)] = results[unit[v]][SlotOf(v)]
  PROVE  Owns(v)'
<1>1. CASE ~Held(v)
  BY <1>1 DEF Owns
<1>2. CASE Held(v)
  <2>1. SlotOf(v)' = SlotOf(v) /\ (Single(unit[v])' <=> Single(unit[v]))
    BY <1>2 DEF SlotOf, Single
  <2>2. Holding(v)'
    BY <1>2, <2>1 DEF Owns, Holding
  <2> QED BY <1>2, <2>2 DEF Owns
<1> QED BY <1>1, <1>2

LEMMA ApartFrame ==
  ASSUME Apart,
         \A v \in Worker : Held(v)' => /\ Held(v) /\ unit'[v] = unit[v]
                                       /\ file'[v] = file[v] \/ file'[v] = 0
  PROVE  Apart'
<1> SUFFICES ASSUME NEW x \in Worker, NEW y \in Worker, Held(x)', Held(y)', x # y,
                    unit'[x] = unit'[y]
             PROVE  ~Single(unit'[x]) /\ (file'[x] = file'[y] => file'[x] = 0)
  BY DEF Apart, Single
<1>1. /\ Held(x) /\ Held(y) /\ unit[x] = unit[y] /\ unit'[x] = unit[x]
      /\ file'[x] = file[x] \/ file'[x] = 0
      /\ file'[y] = file[y] \/ file'[y] = 0
  OBVIOUS
<1>2. ~Single(unit[x]) /\ (file[x] = file[y] => file[x] = 0)
  BY <1>1 DEF Apart
<1> QED BY <1>1, <1>2

LEMMA IdleHands ==
  ASSUME TypeOK, LaneInv, HolderInv, Submit \/ Close
  PROVE  HolderInv' /\ (Apart => Apart')
<1>1. /\ at \in [Worker -> At] /\ phase \in [Job -> {"new", "checked", "admitted", "refused"}]
      /\ next \in [Job -> Nat] /\ file \in [Worker -> Nat] /\ Files \in [Job -> Nat]
  BY ExecutorAssumption DEF TypeOK
<1>2. /\ unit' = unit /\ file' = file /\ got' = got /\ next' = next /\ results' = results
      /\ at' = at \/ NotifyAll
  BY DEF Submit, Check, Enqueue, Cancel, Close, Shutdown, ShutdownAndWait, JoinReturns, Stop,
         worker, jobs
<1>3. \A v \in Worker : (Held(v)' <=> Held(v)) /\ (Held(v) => at'[v] = at[v])
  BY <1>1, <1>2 DEF NotifyAll, Held
<1>4. \A k \in Job : phase[k] = "admitted" => phase'[k] = "admitted"
  BY <1>1 DEF Submit, Check, Enqueue, Append_, Cancel, Close, Shutdown, ShutdownAndWait,
              JoinReturns, Stop, jobs
<1>5. ASSUME NEW v \in Worker PROVE Owns(v)'
  <2>1. Owns(v)
    BY DEF HolderInv
  <2>2. Held(v) => unit[v] \in Job /\ phase[unit[v]] = "admitted"
    BY HolderBusy
  <2> QED BY <1>1, <1>2, <1>3, <1>4, <2>1, <2>2, OwnsFrame
<1>6. Apart => Apart'
  BY <1>2, <1>3, ApartFrame
<1> QED BY <1>5, <1>6 DEF HolderInv

LEMMA LoopHands ==
  ASSUME TypeOK, LaneInv, HolderInv, Apart, NEW w \in Worker, Poll(w) \/ Yield(w)
  PROVE  HolderInv' /\ Apart'
<1>1. /\ at \in [Worker -> At] /\ unit \in [Worker -> Job \cup {NoJob}]
      /\ queue \in Seq(Job) /\ next \in [Job -> Nat] /\ file \in [Worker -> Nat]
      /\ Files \in [Job -> Nat]
      /\ Held(w) <=> unit[w] \in Job
  BY ExecutorAssumption DEF TypeOK
<1>2. /\ file' = file /\ got' = got /\ next' = next /\ results' = results /\ phase' = phase
      /\ file[w] = 0 /\ Owns(w)
      /\ at[w] = "yield" => ~Single(unit[w])
  <2>1. Owns(w)
    BY DEF HolderInv
  <2>2. file[w] = 0 /\ (at[w] = "yield" => ~Single(unit[w]))
    BY <2>1 DEF Owns, Holding, Held, Taking, Poll, Yield
  <2> QED BY <2>1, <2>2 DEF Poll, Yield, jobs
<1>3. \A v \in Worker : v # w => unit'[v] = unit[v] /\ at'[v] = at[v] /\ (Held(v)' <=> Held(v))
  BY <1>1 DEF Poll, Yield, Goto, Held
<1>4. ASSUME NEW v \in Worker, v # w PROVE Owns(v)'
  <2>1. Owns(v)
    BY DEF HolderInv
  <2>2. Held(v) => unit[v] \in Job
    BY DEF TypeOK
  <2>3. /\ (Held(v)' <=> Held(v)) /\ file'[v] = file[v]
        /\ at'[v] = at[v] /\ unit'[v] = unit[v] /\ got'[v] = got[v]
    BY <1>2, <1>3, <1>4
  <2>4. ASSUME Held(v)
        PROVE  /\ phase'[unit[v]] = phase[unit[v]]
               /\ next[unit[v]] \in Nat /\ next'[unit[v]] \in Nat
               /\ Files[unit[v]] \in Nat /\ file[v] \in Nat
               /\ next[unit[v]] <= next'[unit[v]]
               /\ results'[unit[v]][file[v]] = results[unit[v]][file[v]]
               /\ results'[unit[v]][SlotOf(v)] = results[unit[v]][SlotOf(v)]
    <3>1. next[unit[v]] \in Nat /\ Files[unit[v]] \in Nat /\ file[v] \in Nat
      BY <1>1, <2>2, <2>4
    <3> QED BY <1>2, <3>1
  <2> QED BY <2>1, <2>3, <2>4, OwnsFrame
<1>5. CASE queue = <<>> /\ Poll(w)
  <2>1. ~Held(w)'
    BY <1>1, <1>5 DEF Poll, Goto, Held
  <2>2. Owns(w)'
    BY <1>2, <2>1 DEF Owns
  <2>3. Apart'
    BY <1>2, <1>3, <2>1, ApartFrame
  <2> QED BY <1>4, <2>2, <2>3 DEF HolderInv
<1>6. CASE queue = <<>> /\ Yield(w)
  <2>1. unit' = unit /\ at' = [at EXCEPT ![w] = "start"] /\ at[w] = "yield"
    BY <1>6 DEF Yield, Goto
  <2>2. at'[w] = "start" /\ Held(w) /\ Held(w)'
    BY <1>1, <2>1 DEF Held
  <2>3. phase[unit[w]] = "admitted"
    BY <2>2, HolderBusy
  <2>4. Holding(w)'
    BY <1>2, <2>1, <2>2, <2>3 DEF Holding, Taking
  <2>5. Owns(w)'
    BY <2>2, <2>4 DEF Owns
  <2>6. \A v \in Worker : Held(v)' => /\ Held(v) /\ unit'[v] = unit[v]
                                      /\ file'[v] = file[v] \/ file'[v] = 0
    BY <1>2, <1>3, <2>1, <2>2
  <2>7. Apart'
    BY <2>6, ApartFrame
  <2> QED BY <1>4, <2>5, <2>7 DEF HolderInv
<1>7. CASE queue # <<>>
  <2> DEFINE h == Head(queue)
  <2>1. h \in Job /\ h = queue[1] /\ 1 \in 1..Len(queue) /\ 1 \in Places(queue, h)
    <3>1. Len(queue) \in Nat \ {0} /\ h = queue[1] /\ h \in Job
      BY <1>1, <1>7, HeadFirst
    <3> QED BY <3>1 DEF Places
  <2>2. phase[h] = "admitted"
    BY <2>1, WaiterBusy
  <2>3. unit' = [unit EXCEPT ![w] = h] /\ at' = [at EXCEPT ![w] = "start"]
    BY <1>7 DEF Poll, Yield, Goto
  <2>4. at'[w] = "start" /\ Held(w)' /\ unit'[w] = h
    BY <1>1, <2>3 DEF Held
  <2>5. Holding(w)'
    BY <1>2, <2>2, <2>4 DEF Holding, Taking
  <2>6. Owns(w)'
    BY <2>4, <2>5 DEF Owns
  <2>7. \A v \in Worker : unit[v] = h => ~Single(h)
    BY <2>1, SingleInOnePlace
  <2>8. ASSUME NEW x \in Worker, NEW y \in Worker, Held(x)', Held(y)', x # y,
               unit'[x] = unit'[y]
        PROVE  ~Single(unit'[x]) /\ (file'[x] = file'[y] => file'[x] = 0)
    <3>1. CASE x = w
      BY <1>2, <1>3, <2>4, <2>7, <2>8, <3>1
    <3>2. CASE y = w
      BY <1>2, <1>3, <2>4, <2>7, <2>8, <3>2
    <3>3. CASE x # w /\ y # w
      BY <1>2, <1>3, <2>8, <3>3 DEF Apart
    <3> QED BY <3>1, <3>2, <3>3
  <2>9. Apart'
    BY <2>8 DEF Apart, Single
  <2> QED BY <1>4, <2>6, <2>9 DEF HolderInv
<1> QED BY <1>5, <1>6, <1>7

LEMMA ClosureHands ==
  ASSUME TypeOK, TypeOK', LaneInv, HolderInv, Apart, ResultInv, NEW w \in Worker,
         \/ Start(w) \/ Index(w) \/ Count(w) \/ CheckCancelled(w) \/ Act(w)
         \/ Publish(w) \/ Tally(w) \/ Leave(w) \/ Final(w)
  PROVE  HolderInv' /\ Apart'
<1> DEFINE j == unit[w]
           f == file[w]
<1>1. /\ at \in [Worker -> At] /\ unit \in [Worker -> Job \cup {NoJob}]
      /\ next \in [Job -> Nat] /\ next' \in [Job -> Nat] /\ file \in [Worker -> Nat]
      /\ got \in [Worker -> Ending \cup {"none"}]
      /\ Files \in [Job -> Nat] /\ DOMAIN results = Job /\ NoJob \notin Job
  BY ExecutorAssumption DEF TypeOK
<1>n. next \in [Job -> Nat] /\ next' \in [Job -> Nat] /\ Files \in [Job -> Nat]
  BY <1>1
<1>2. Held(w) /\ j \in Job /\ Holding(w) /\ phase[j] = "admitted"
  <2>1. Held(w)
    BY DEF Held, Start, Index, Count, CheckCancelled, Act, Publish, Tally, Leave, Final
  <2> QED BY <2>1, HolderBusy DEF HolderInv, Owns
<1>3. phase' = phase
  BY DEF Start, Index, Count, CheckCancelled, Act, Publish, Tally, Leave, Final, jobs
<1>4. \A v \in Worker : v # w => /\ at'[v] = at[v] /\ unit'[v] = unit[v] /\ got'[v] = got[v]
                                 /\ file'[v] = file[v] /\ (Held(v)' <=> Held(v))
  BY <1>1 DEF Start, Index, Count, CheckCancelled, Act, Publish, Tally, Leave, Final,
              Goto, Holds, Drops, Held
<1>5. \A k \in Job : next[k] <= next'[k]
  <2>1. next' = next \/ next' = [next EXCEPT ![j] = next[j] + 1]
    <3>1. CASE Index(w)
      BY <3>1 DEF Index
    <3>2. CASE ~Index(w)
      BY <3>2 DEF Start, Count, CheckCancelled, Act, Publish, Tally, Leave, Final, jobs
    <3> QED BY <3>1, <3>2
  <2>2. ASSUME NEW k \in Job PROVE next[k] <= next'[k]
    <3>1. next[k] \in Nat /\ (next'[k] = next[k] \/ next'[k] = next[k] + 1)
      <4> HIDE DEF j
      <4>1. CASE k = j
        BY <1>n, <2>1, <4>1
      <4>2. CASE k # j
        BY <1>n, <2>1, <4>2
      <4> QED BY <4>1, <4>2
    <3> QED BY <3>1
  <2> QED BY <2>2
<1>6. ASSUME NEW v \in Worker, v # w, Held(v), NEW i, i \in {file[v], SlotOf(v)}
      PROVE  results'[unit[v]][i] = results[unit[v]][i]
  <2>1. CASE Publish(w)
    <3>1. results' = [results EXCEPT ![j] = [results[j] EXCEPT ![SlotOf(w)] = got[w]]]
      BY <2>1 DEF Publish
    <3>0. DOMAIN results = Job /\ unit[v] \in Job
      BY <1>6 DEF TypeOK
    <3>2. CASE unit[v] # j
      BY <3>0, <3>1, <3>2
    <3>3. CASE unit[v] = j
      <4>1. ~Single(j) /\ (file[v] = f => f = 0)
        BY <1>2, <1>6, <3>3 DEF Apart
      <4>2. f \in 1..Files[j]
        BY <1>2, <2>1, <4>1 DEF Holding, Taking, Publish
      <4>3. SlotOf(w) = f /\ SlotOf(v) = file[v]
        BY <3>3, <4>1 DEF SlotOf
      <4>4. f # 0
        BY <1>n, <1>2, <4>2
      <4>5. i # SlotOf(w)
        BY <1>6, <4>1, <4>3, <4>4
      <4> QED BY <3>0, <3>1, <3>3, <4>5
    <3> QED BY <3>2, <3>3
  <2>2. CASE ~Publish(w)
    BY <2>2 DEF Start, Index, Count, CheckCancelled, Act, Tally, Leave, Final, jobs
  <2> QED BY <2>1, <2>2
<1>7. ASSUME NEW v \in Worker, v # w PROVE Owns(v)'
  <2>1. Owns(v)
    BY DEF HolderInv
  <2>2. Held(v) => unit[v] \in Job
    BY DEF TypeOK
  <2>3. ASSUME Held(v)
        PROVE  /\ phase'[unit[v]] = phase[unit[v]]
               /\ next[unit[v]] \in Nat /\ next'[unit[v]] \in Nat
               /\ Files[unit[v]] \in Nat /\ file[v] \in Nat
               /\ next[unit[v]] <= next'[unit[v]]
               /\ results'[unit[v]][file[v]] = results[unit[v]][file[v]]
               /\ results'[unit[v]][SlotOf(v)] = results[unit[v]][SlotOf(v)]
    <3>1. next[unit[v]] \in Nat /\ next'[unit[v]] \in Nat /\ Files[unit[v]] \in Nat
          /\ file[v] \in Nat /\ next[unit[v]] <= next'[unit[v]]
      BY <1>1, <1>5, <2>2, <2>3
    <3> QED BY <1>3, <1>6, <1>7, <2>3, <3>1
  <2> QED BY <1>4, <1>7, <2>1, <2>3, OwnsFrame
<1>8. CASE Start(w)
  <2>1. /\ at'[w] = (IF Single(j) THEN "check" ELSE "index") /\ unit' = unit /\ file' = file
        /\ got' = got /\ f = 0
    BY <1>1, <1>2, <1>8 DEF Start, Goto, Holds, Holding, Taking
  <2>2. Holding(w)' /\ Held(w)'
    BY <1>2, <1>3, <2>1 DEF Holding, Held, Taking, Single
  <2>3. Apart'
    BY <1>2, <1>4, <2>1, ApartFrame
  <2> QED BY <1>7, <2>2, <2>3 DEF HolderInv, Owns
<1>9. CASE Index(w)
  <2>1. /\ at[w] = "index" /\ f = 0 /\ ~Single(j) /\ unit' = unit /\ results' = results
        /\ next'[j] = next[j] + 1
    BY <1>1, <1>2, <1>9 DEF Index, Holding, Taking
  <2>2. /\ next[j] \in Nat \ {0} /\ Files[j] \in Nat
        /\ \A i \in 1..Files[j] : i >= next[j] => results[j][i] = "none"
    <3>1. ResultsOf(j) /\ next[j] \in Nat /\ Files[j] \in Nat
      BY <1>n, <1>2 DEF ResultInv
    <3> QED BY <3>1 DEF ResultsOf
  <2>3. CASE next[j] <= Files[j]
    <3>1. file'[w] = next[j] /\ at'[w] = "count"
      <4>1. file' = [file EXCEPT ![w] = next[j]] /\ at' = [at EXCEPT ![w] = "count"]
        BY <1>9, <2>3 DEF Index, Goto
      <4> QED BY <1>1, <4>1
    <3>2. next[j] \in 1..Files[j] /\ results[j][next[j]] = "none" /\ next[j] < next[j] + 1
      BY <2>2, <2>3
    <3>3. Holding(w)' /\ Held(w)'
      BY <1>2, <1>3, <2>1, <3>1, <3>2 DEF Holding, Held, Taking, Single
    <3>4. ASSUME NEW x \in Worker, Held(x)', x # w, unit'[x] = j
          PROVE  file'[x] # next[j]
      <4>1. Held(x) /\ unit[x] = j /\ file'[x] = file[x] /\ Holding(x)
        BY <1>4, <3>4 DEF HolderInv, Owns
      <4>2. file[x] = 0 \/ file[x] < next[j]
        BY <2>1, <4>1 DEF Holding
      <4> QED BY <2>2, <4>1, <4>2
    <3>5. ASSUME NEW x \in Worker, NEW y \in Worker, Held(x)', Held(y)', x # y,
                 unit'[x] = unit'[y]
          PROVE  ~Single(unit'[x]) /\ (file'[x] = file'[y] => file'[x] = 0)
      <4>1. CASE x = w
        BY <2>1, <3>1, <3>4, <3>5, <4>1
      <4>2. CASE y = w
        BY <2>1, <3>1, <3>4, <3>5, <4>2
      <4>3. CASE x # w /\ y # w
        BY <1>4, <3>5, <4>3 DEF Apart
      <4> QED BY <4>1, <4>2, <4>3
    <3>6. Apart'
      BY <3>5 DEF Apart, Single
    <3> QED BY <1>7, <3>3, <3>6 DEF HolderInv, Owns
  <2>4. CASE ~(next[j] <= Files[j])
    <3>1. file' = file /\ at'[w] = "leave" /\ got' = got
      <4>1. file' = file /\ at' = [at EXCEPT ![w] = "leave"] /\ got' = got
        BY <1>9, <2>4 DEF Index, Goto
      <4> QED BY <1>1, <4>1
    <3>2. next'[j] > Files[j]
      BY <2>1, <2>2, <2>4
    <3>3. Holding(w)' /\ Held(w)'
      BY <1>2, <1>3, <2>1, <3>1, <3>2 DEF Holding, Held, Taking, Single
    <3>4. Apart'
      BY <1>2, <1>4, <2>1, <3>1, ApartFrame
    <3> QED BY <1>7, <3>3, <3>4 DEF HolderInv, Owns
  <2> QED BY <2>3, <2>4
<1>10. CASE Count(w) \/ CheckCancelled(w) \/ Act(w)
  <2>1. /\ unit' = unit /\ file' = file /\ next' = next /\ results' = results
        /\ at'[w] \in {"check", "act", "publish"} /\ at[w] \in {"count", "check", "act"}
        /\ at[w] = "count" => at'[w] = "check"
        /\ at'[w] = "publish" => got'[w] \in Ending
    BY <1>1, <1>10 DEF Count, CheckCancelled, Act, Goto, Holds, jobs
  <2>2. Holding(w)' /\ Held(w)'
    BY <1>2, <1>3, <2>1 DEF Holding, Held, Taking, Single
  <2>3. Apart'
    BY <1>2, <1>4, <2>1, ApartFrame
  <2> QED BY <1>7, <2>2, <2>3 DEF HolderInv, Owns
<1>11. CASE Publish(w)
  <2>1. /\ unit' = unit /\ file' = file /\ next' = next /\ got' = got
        /\ at'[w] = "tally" /\ at[w] = "publish"
        /\ results' = [results EXCEPT ![j][SlotOf(w)] = got[w]]
    BY <1>1, <1>11 DEF Publish, Goto, Holds
  <2>2. SlotOf(w) \in DOMAIN results[j] /\ SlotOf(w)' = SlotOf(w)
    <3>1. DOMAIN results[j] = Slot(j)
      BY <1>2 DEF TypeOK
    <3>2. SlotOf(w) \in Slot(j)
      BY <1>2, <2>1 DEF Holding, Taking, SlotOf, Slot
    <3> QED BY <2>1, <3>1, <3>2 DEF SlotOf, Single
  <2>3. results'[j][SlotOf(w)] = got[w]
    BY <1>1, <1>2, <2>1, <2>2
  <2>4. Holding(w)' /\ Held(w)'
    BY <1>2, <1>3, <2>1, <2>2, <2>3 DEF Holding, Held, Taking, Single
  <2>5. Apart'
    BY <1>2, <1>4, <2>1, ApartFrame
  <2> QED BY <1>7, <2>4, <2>5 DEF HolderInv, Owns
<1>12. CASE (Tally(w) /\ Single(j)) \/ (Leave(w) /\ remaining[j] # 1) \/ Final(w)
  <2>1. file'[w] = 0 /\ ~Held(w)'
    BY <1>1, <1>12 DEF Tally, Leave, Final, Drops, Goto, Held
  <2>2. Apart'
    BY <1>4, <2>1, ApartFrame
  <2> QED BY <1>7, <2>1, <2>2 DEF HolderInv, Owns
<1>13. CASE Tally(w) /\ ~Single(j)
  <2>1. file'[w] = 0 /\ at'[w] = "yield" /\ unit' = unit
    BY <1>1, <1>13 DEF Tally, Goto
  <2>2. Holding(w)' /\ Held(w)'
    BY <1>2, <1>3, <1>13, <2>1 DEF Holding, Held, Taking, Single
  <2>3. Apart'
    BY <1>2, <1>4, <2>1, ApartFrame
  <2> QED BY <1>7, <2>2, <2>3 DEF HolderInv, Owns
<1>14. CASE Leave(w) /\ remaining[j] = 1
  <2>1. file' = file /\ at'[w] = "final" /\ at[w] = "leave" /\ unit' = unit /\ next' = next
    BY <1>1, <1>14 DEF Leave, Goto, Holds
  <2>2. Holding(w)' /\ Held(w)'
    BY <1>2, <1>3, <2>1 DEF Holding, Held, Taking, Single
  <2>3. Apart'
    BY <1>2, <1>4, <2>1, ApartFrame
  <2> QED BY <1>7, <2>2, <2>3 DEF HolderInv, Owns
<1> QED BY <1>8, <1>9, <1>10, <1>11, <1>12, <1>13, <1>14

-----------------------------------------------------------------------------
(***************************************************************************)
(* The results are kept.                                                   *)
(***************************************************************************)
Taken(j, i) == \E w \in Worker : unit[w] = j /\ file[w] = i

\* A worker that has no file in its hands, or another job's, does not matter.
SameHand(v, k) == \/ file[v] = 0 /\ file'[v] = 0
                  \/ unit[v] # k /\ unit'[v] # k
                  \/ /\ unit'[v] = unit[v] /\ file'[v] = file[v]
                     /\ at'[v] = "tally" <=> at[v] = "tally"

LEMMA HandsFrame ==
  ASSUME NEW k \in Job, \A v \in Worker : SameHand(v, k), NEW i \in 1..Files[k]
  PROVE  (Tallying(k, i)' <=> Tallying(k, i)) /\ (Taken(k, i)' <=> Taken(k, i))
<1>0. Files[k] \in Nat
  BY ExecutorAssumption
<1>1. i # 0
  BY <1>0
<1>2. \A v \in Worker : /\ (unit'[v] = k /\ file'[v] = i) <=> (unit[v] = k /\ file[v] = i)
                        /\ unit[v] = k /\ file[v] = i => (at'[v] = "tally" <=> at[v] = "tally")
  BY <1>1 DEF SameHand
<1>3. Tallying(k, i)' <=> Tallying(k, i)
  BY <1>2 DEF Tallying
<1>4. Taken(k, i)' <=> Taken(k, i)
  BY <1>2 DEF Taken
<1> QED BY <1>3, <1>4

LEMMA ResultsFrame ==
  ASSUME NEW k \in Job, ResultsOf(k), \A v \in Worker : SameHand(v, k),
         next'[k] = next[k], results'[k] = results[k],
         phase'[k] # "admitted" => phase[k] # "admitted",
         progress'[k].failed = progress[k].failed,
         progress'[k].cancelled = progress[k].cancelled
  PROVE  ResultsOf(k)'
<1>1. \A i \in 1..Files[k] : (Tallying(k, i)' <=> Tallying(k, i)) /\ (Taken(k, i)' <=> Taken(k, i))
  BY HandsFrame
<1>2. \A i \in 1..Files[k] : i < next[k] /\ results[k][i] = "none" => Taken(k, i)
  BY DEF ResultsOf, Taken
<1>3. \A i \in 1..Files[k] : i < next'[k] /\ results'[k][i] = "none" => Taken(k, i)'
  BY <1>1, <1>2
<1>4. \A e : Counted(k, e)' <=> Counted(k, e)
  BY <1>1 DEF Counted
<1> QED BY <1>3, <1>4 DEF ResultsOf, Taken, Single

LEMMA IdleResults ==
  ASSUME TypeOK, HolderInv, ResultInv,
         Submit \/ Close \/ \E w \in Worker : Poll(w) \/ Yield(w)
  PROVE  ResultInv'
<1> SUFFICES ASSUME NEW k \in Job PROVE ResultsOf(k)'
  BY DEF ResultInv
<1>1. /\ at \in [Worker -> At] /\ unit \in [Worker -> Job \cup {NoJob}]
      /\ phase \in [Job -> {"new", "checked", "admitted", "refused"}]
  BY DEF TypeOK
<1>2. next' = next /\ results' = results /\ file' = file
  BY DEF Submit, Check, Enqueue, Cancel, Close, Shutdown, ShutdownAndWait, JoinReturns, Stop,
         Poll, Yield, worker, jobs
<1>3. phase'[k] # "admitted" => phase[k] # "admitted"
  BY <1>1 DEF Submit, Check, Enqueue, Append_, Cancel, Close, Shutdown, ShutdownAndWait,
              JoinReturns, Stop, Poll, Yield, jobs
<1>4. progress'[k].failed = progress[k].failed /\ progress'[k].cancelled = progress[k].cancelled
  <2>1. CASE progress' = progress
    BY <2>1
  <2>2. ASSUME NEW j \in Job, Check(j), progress' # progress
        PROVE  /\ progress'[k].failed = progress[k].failed
               /\ progress'[k].cancelled = progress[k].cancelled
    <3>1. progress' = [progress EXCEPT ![j].queued = Files[j]]
      BY <2>2 DEF Check
    <3>2. progress \in [Job -> Counts]
      BY DEF TypeOK, Counts
    <3> QED BY <3>1, <3>2 DEF Counts
  <2> QED BY <2>1, <2>2 DEF Submit, Enqueue, Cancel, Close, Shutdown, ShutdownAndWait,
                            JoinReturns, Stop, Poll, Yield, jobs
<1>5. ASSUME NEW v \in Worker PROVE SameHand(v, k)
  <2>1. CASE unit' = unit /\ (at'[v] = "tally" <=> at[v] = "tally")
    BY <1>2, <2>1 DEF SameHand
  <2>2. CASE Submit \/ Close
    <3>1. unit' = unit /\ (at' = at \/ NotifyAll)
      BY <2>2 DEF Submit, Check, Enqueue, Cancel, Close, Shutdown, ShutdownAndWait, JoinReturns,
                  Stop, worker
    <3> QED BY <1>1, <2>1, <3>1 DEF NotifyAll
  <2>3. ASSUME NEW w \in Worker, Poll(w) \/ Yield(w) PROVE SameHand(v, k)
    <3>1. CASE v = w
      <4>1. file[w] = 0
        <5>1. Owns(w)
          BY DEF HolderInv
        <5> QED BY <2>3, <5>1 DEF Owns, Holding, Held, Taking, Poll, Yield
      <4> QED BY <1>2, <3>1, <4>1 DEF SameHand
    <3>2. CASE v # w
      <4>1. unit'[v] = unit[v] /\ at'[v] = at[v]
        BY <1>1, <2>3, <3>2 DEF Poll, Yield, Goto
      <4> QED BY <1>2, <4>1 DEF SameHand
    <3> QED BY <3>1, <3>2
  <2> QED BY <2>2, <2>3
<1> QED BY <1>2, <1>3, <1>4, <1>5, ResultsFrame DEF ResultInv

LEMMA ClosureResults ==
  ASSUME TypeOK, LaneInv, HolderInv, Apart, ResultInv, NEW w \in Worker,
         \/ Start(w) \/ Index(w) \/ Count(w) \/ CheckCancelled(w) \/ Act(w)
         \/ Publish(w) \/ Tally(w) \/ Leave(w) \/ Final(w)
  PROVE  ResultInv'
<1> DEFINE j == unit[w]
<1>f. PICK f : f = file[w]
  OBVIOUS
<1> USE <1>f
<1> SUFFICES ASSUME NEW k \in Job PROVE ResultsOf(k)'
  BY DEF ResultInv
<1>1. /\ at \in [Worker -> At] /\ unit \in [Worker -> Job \cup {NoJob}]
      /\ file \in [Worker -> Nat] /\ NoJob \notin Job
  BY ExecutorAssumption DEF TypeOK
<1>n. next \in [Job -> Nat] /\ Files[k] \in Nat /\ DOMAIN results = Job
  BY ExecutorAssumption DEF TypeOK
<1>p. progress \in [Job -> Counts]
  BY DEF TypeOK, Counts
<1>2. Held(w) /\ j \in Job /\ Holding(w) /\ phase[j] = "admitted"
  <2>1. Held(w)
    BY DEF Held, Start, Index, Count, CheckCancelled, Act, Publish, Tally, Leave, Final
  <2> QED BY <2>1, HolderBusy DEF HolderInv, Owns
<1>3. phase' = phase /\ ResultsOf(k)
  BY DEF Start, Index, Count, CheckCancelled, Act, Publish, Tally, Leave, Final, jobs, ResultInv
<1>4. \A v \in Worker : v # w => /\ at'[v] = at[v] /\ unit'[v] = unit[v] /\ file'[v] = file[v]
  BY <1>1 DEF Start, Index, Count, CheckCancelled, Act, Publish, Tally, Leave, Final,
              Goto, Holds, Drops
<1>5. \A v \in Worker : v # w => SameHand(v, k)
  BY <1>4 DEF SameHand
<1>6. /\ \/ next' = next
         \/ next' = [next EXCEPT ![j] = next[j] + 1]
      /\ \/ results' = results
         \/ results' = [results EXCEPT ![j] = [results[j] EXCEPT ![SlotOf(w)] = got[w]]]
  <2>1. CASE Index(w)
    BY <2>1 DEF Index
  <2>2. CASE Publish(w)
    BY <2>2 DEF Publish
  <2>3. CASE ~Index(w) /\ ~Publish(w)
    BY <2>3 DEF Start, Count, CheckCancelled, Act, Tally, Leave, Final, jobs
  <2> QED BY <2>1, <2>2, <2>3
<1>7. CASE k # j
  <2>1. next'[k] = next[k] /\ results'[k] = results[k]
    BY <1>n, <1>6, <1>7
  <2>2. unit'[w] # k
    BY <1>1, <1>7 DEF Start, Index, Count, CheckCancelled, Act, Publish, Tally, Leave, Final,
                      Holds, Drops
  <2>3. progress'[k] = progress[k]
    BY <1>p, <1>7 DEF Start, Index, Count, CheckCancelled, Act, Publish, Tally, TallyBatch,
                      Leave, Final, jobs
  <2>4. SameHand(w, k)
    BY <1>7, <2>2 DEF SameHand
  <2> QED BY <1>3, <1>5, <2>1, <2>3, <2>4, ResultsFrame
<1>8. CASE k = j /\ ~Index(w) /\ ~Publish(w) /\ ~(Tally(w) /\ ~Single(j))
  <2>1. next' = next /\ results' = results
    BY <1>8 DEF Start, Count, CheckCancelled, Act, Tally, Leave, Final, jobs
  <2>2. /\ progress'[k].failed = progress[k].failed
        /\ progress'[k].cancelled = progress[k].cancelled
    <3>1. CASE Count(w)
      BY <1>p, <1>8, <3>1 DEF Count, Counts
    <3>2. CASE ~Count(w)
      BY <1>p, <1>8, <3>2 DEF Start, CheckCancelled, Act, Tally, Leave, Final, jobs, Counts
    <3> QED BY <3>1, <3>2
  <2>3. SameHand(w, k)
    <3>1. CASE Start(w) \/ Count(w) \/ CheckCancelled(w) \/ Act(w)
      BY <1>1, <3>1 DEF Start, Count, CheckCancelled, Act, Goto, Holds, SameHand
    <3>2. CASE Tally(w) /\ Single(j)
      BY <1>1, <1>2, <3>2 DEF Tally, Drops, Holding, SameHand
    <3>3. CASE Leave(w) \/ Final(w)
      BY <1>1, <1>2, <3>3 DEF Leave, Final, Drops, Holds, Holding, Taking, SameHand
    <3> QED BY <1>8, <3>1, <3>2, <3>3
  <2> QED BY <1>3, <1>5, <2>1, <2>2, <2>3, ResultsFrame
<1>9. CASE k = j /\ Index(w)
  <2>1. /\ at[w] = "index" /\ f = 0 /\ ~Single(j) /\ unit' = unit /\ results' = results
        /\ progress' = progress /\ next' = [next EXCEPT ![j] = next[j] + 1]
        /\ at' = [at EXCEPT ![w] = IF next[j] <= Files[j] THEN "count" ELSE "leave"]
    BY <1>2, <1>9 DEF Index, Holding, Taking, Goto, jobs
  <2>2. next[k] \in Nat \ {0} /\ next'[k] = next[k] + 1
    <3>1. next[k] # 0
      BY <1>3 DEF ResultsOf
    <3> QED BY <1>n, <1>9, <2>1, <3>1
  <2>3. ASSUME NEW i \in 1..Files[k] PROVE Tallying(k, i)' <=> Tallying(k, i)
    <3>1. at[w] # "tally" /\ at'[w] # "tally"
      BY <1>1, <2>1
    <3> QED BY <1>4, <3>1 DEF Tallying
  <2>4. ASSUME NEW i \in 1..Files[k]
        PROVE  /\ i >= next'[k] => results'[k][i] = "none"
               /\ i < next'[k] /\ results'[k][i] = "none" => Taken(k, i)'
    <3>1. /\ i >= next[k] => results[k][i] = "none"
          /\ i < next[k] /\ results[k][i] = "none" => Taken(k, i)
      BY <1>3 DEF ResultsOf, Taken
    <3>2. Taken(k, i) => Taken(k, i)'
      <4>1. SUFFICES ASSUME NEW v \in Worker, unit[v] = k, file[v] = i PROVE Taken(k, i)'
        BY DEF Taken
      <4>2. i # 0
        BY <1>n
      <4>3. v # w
        BY <2>1, <4>1, <4>2
      <4> QED BY <1>4, <4>1, <4>3 DEF Taken
    <3>3. CASE i = next[k]
      <4>1. next[j] <= Files[j]
        BY <1>9, <1>n, <3>3
      <4>2. file'[w] = i /\ unit'[w] = k
        BY <1>1, <1>9, <2>1, <3>3, <4>1 DEF Index
      <4>3. Taken(k, i)'
        BY <4>2 DEF Taken
      <4> QED BY <2>2, <3>3, <4>3
    <3>4. CASE i # next[k]
      BY <1>n, <2>1, <2>2, <3>1, <3>2, <3>4
    <3> QED BY <3>3, <3>4
  <2>5. \A e : Counted(k, e)' <=> Counted(k, e)
    BY <2>1, <2>3 DEF Counted
  <2> QED BY <1>2, <1>3, <1>9, <2>1, <2>2, <2>4, <2>5 DEF ResultsOf, Taken, Single
<1>10. CASE k = j /\ Publish(w) /\ Single(j)
  <2>1. next' = next /\ progress' = progress /\ Files[k] = 0
    BY <1>10 DEF Publish, Single
  <2>2. next'[k] # 0
    BY <1>3, <2>1 DEF ResultsOf
  <2> QED BY <1>2, <1>3, <1>10, <2>1, <2>2 DEF ResultsOf, Single
<1>11. CASE k = j /\ Publish(w) /\ ~Single(j)
  <2>1. /\ at[w] = "publish" /\ at' = [at EXCEPT ![w] = "tally"] /\ unit' = unit /\ file' = file
        /\ next' = next /\ progress' = progress
        /\ results' = [results EXCEPT ![j] = [results[j] EXCEPT ![f] = got[w]]]
    BY <1>11 DEF Publish, Goto, Holds, SlotOf
  <2>2. /\ f \in 1..Files[j] /\ f < next[j] /\ results[j][f] = "none" /\ got[w] \in Ending
    BY <1>2, <1>11, <2>1 DEF Holding, Taking
  <2>3. \A i : i # f => results'[k][i] = results[k][i]
    BY <1>n, <1>11, <2>1
  <2>4. results'[k][f] = got[w]
    <3>1. f \in DOMAIN results[j]
      BY <1>2, <1>11, <2>2 DEF TypeOK, Slot
    <3> QED BY <1>n, <1>11, <2>1, <3>1
  <2>5. Tallying(k, f)'
    BY <1>1, <1>11, <2>1 DEF Tallying
  <2>6. ASSUME NEW i, i # f PROVE Tallying(k, i)' <=> Tallying(k, i)
    BY <1>1, <2>1, <2>6 DEF Tallying
  <2>7. \A e \in Ending : Counted(k, e)' <=> Counted(k, e)
    <3>1. ASSUME NEW e \in Ending, Counted(k, e)' PROVE Counted(k, e)
      <4>1. PICK i \in 1..Files[k] : results'[k][i] = e /\ ~Tallying(k, i)'
        BY <3>1 DEF Counted
      <4>2. i # f
        BY <2>5, <4>1
      <4> QED BY <2>3, <2>6, <4>1, <4>2 DEF Counted
    <3>2. \A e \in Ending : Counted(k, e) => Counted(k, e)'
      BY <1>11, <2>2, <2>3, <2>6 DEF Counted
    <3> QED BY <3>1, <3>2
  <2>8. ASSUME NEW i \in 1..Files[k]
        PROVE  /\ i >= next'[k] => results'[k][i] = "none"
               /\ i < next'[k] /\ results'[k][i] = "none" => Taken(k, i)'
    <3>1. /\ i >= next[k] => results[k][i] = "none"
          /\ i < next[k] /\ results[k][i] = "none" => Taken(k, i)
      BY <1>3 DEF ResultsOf, Taken
    <3>2. Taken(k, i)' <=> Taken(k, i)
      BY <2>1 DEF Taken
    <3>3. CASE i = f
      <4>1. ~(i >= next'[k])
        BY <1>n, <1>11, <2>1, <2>2, <3>3
      <4> QED BY <2>2, <2>4, <3>3, <4>1
    <3>4. CASE i # f
      BY <2>1, <2>3, <3>1, <3>2, <3>4
    <3> QED BY <3>3, <3>4
  <2> QED BY <1>2, <1>3, <1>11, <2>1, <2>7, <2>8 DEF ResultsOf, Taken, Single
<1>12. CASE k = j /\ Tally(w) /\ ~Single(j)
  <2>1. /\ at[w] = "tally" /\ at' = [at EXCEPT ![w] = "yield"] /\ unit' = unit
        /\ file' = [file EXCEPT ![w] = 0] /\ next' = next /\ results' = results
    BY <1>12 DEF Tally, Goto
  <2>2. /\ f \in 1..Files[j] /\ results[j][f] = got[w] /\ got[w] \in Ending /\ f # 0
    BY <1>2, <1>n, <1>12, <2>1 DEF Holding, Taking, SlotOf
  <2>3. Tallying(k, f)
    BY <1>12, <2>1 DEF Tallying
  <2>4. ~Tallying(k, f)'
    <3>1. SUFFICES ASSUME NEW v \in Worker, unit'[v] = k, file'[v] = f, at'[v] = "tally"
                   PROVE  FALSE
      BY DEF Tallying
    <3>2. v # w
      BY <1>1, <2>1, <3>1
    <3>3. Held(v) /\ unit[v] = j /\ file[v] = f
      BY <1>4, <1>12, <3>1, <3>2 DEF Held
    <3> QED BY <1>2, <2>2, <3>2, <3>3 DEF Apart
  <2>5. ASSUME NEW i \in 1..Files[k], i # f PROVE Tallying(k, i)' <=> Tallying(k, i)
    <3>0. i # 0
      BY <1>n
    <3>1. file[w] # i /\ file'[w] # i
      BY <1>1, <2>1, <2>5, <3>0
    <3> QED BY <1>4, <3>1 DEF Tallying
  <2>6. ASSUME NEW e PROVE Counted(k, e)' <=> (Counted(k, e) \/ got[w] = e)
    <3>1. Counted(k, e)' => Counted(k, e) \/ got[w] = e
      BY <1>12, <2>1, <2>2, <2>5 DEF Counted
    <3>2. Counted(k, e) => Counted(k, e)'
      BY <2>1, <2>3, <2>5 DEF Counted
    <3>3. got[w] = e => Counted(k, e)'
      BY <1>12, <2>1, <2>2, <2>4 DEF Counted
    <3> QED BY <3>1, <3>2, <3>3
  <2>7. /\ progress'[k].failed # 0 <=> (progress[k].failed # 0 \/ got[w] = "failed")
        /\ progress'[k].cancelled # 0 <=> (progress[k].cancelled # 0 \/ got[w] = "cancelled")
    <3> DEFINE p == progress[j]
               r == p.reading - 1
               d == p.completed + 1
               x == AddOne(p.failed, got[w] = "failed")
               c == AddOne(p.cancelled, got[w] = "cancelled")
    <3>1. progress' = [progress EXCEPT ![j] = [p EXCEPT !.reading = r, !.completed = d,
                                                        !.failed = x, !.cancelled = c]]
      <4>1. TallyBatch(w)
        BY <1>12 DEF Tally
      <4> QED BY <4>1 DEF TallyBatch
    <3>2. progress'[k].failed = x /\ progress'[k].cancelled = c
      <4> HIDE DEF r, d, x, c
      <4> QED BY <1>p, <1>12, <3>1 DEF Counts
    <3>3. p.failed \in Nat /\ p.cancelled \in Nat
      BY <1>p, <1>12 DEF Counts
    <3> QED BY <1>12, <3>2, <3>3 DEF AddOne
  <2>8. ASSUME NEW i \in 1..Files[k], i < next'[k], results'[k][i] = "none"
        PROVE  Taken(k, i)'
    <3>1. PICK v \in Worker : unit[v] = k /\ file[v] = i
      BY <1>3, <2>1, <2>8 DEF ResultsOf
    <3>2. v # w
      BY <1>12, <2>1, <2>2, <2>8, <3>1
    <3> QED BY <1>4, <3>1, <3>2 DEF Taken
  <2>9. \A i \in 1..Files[k] : i >= next'[k] => results'[k][i] = "none"
    BY <1>3, <2>1 DEF ResultsOf
  <2> QED BY <1>2, <1>3, <1>12, <2>1, <2>6, <2>7, <2>8, <2>9 DEF ResultsOf, Taken, Single
<1> QED BY <1>7, <1>8, <1>9, <1>10, <1>11, <1>12

-----------------------------------------------------------------------------
(***************************************************************************)
(* The counters are kept.                                                  *)
(***************************************************************************)
Reading == {"check", "act", "publish", "tally"}
\* A worker that neither joins nor leaves those who count or read a file of k.
SameCrew(v, k) ==
  /\ (unit'[v] = k /\ at'[v] = "count") <=> (unit[v] = k /\ at[v] = "count")
  /\ (unit'[v] = k /\ at'[v] \in Reading) <=> (unit[v] = k /\ at[v] \in Reading)

LEMMA CountsFrame ==
  ASSUME NEW k \in Job, CountsOf(k), \A v \in Worker : SameCrew(v, k),
         ~Single(k) => Done(k)' = Done(k),
         next'[k] = next[k], phase'[k] \in {"checked", "admitted"} => phase[k] \in {"checked", "admitted"},
         progress'[k].queued = progress[k].queued, progress'[k].reading = progress[k].reading,
         progress'[k].completed = progress[k].completed,
         progress'[k].failed = progress[k].failed,
         progress'[k].cancelled = progress[k].cancelled
  PROVE  CountsOf(k)'
<1>1. Counting(k)' = Counting(k) /\ Readers(k)' = Readers(k)
  BY DEF SameCrew, Counting, Readers, Reading
<1> QED BY <1>1 DEF CountsOf, Single, Least

LEMMA SingleFrame ==
  ASSUME NEW k \in Job, CountsOf(k), Single(k),
         progress'[k].completed = progress[k].completed,
         progress'[k].failed = progress[k].failed,
         progress'[k].cancelled = progress[k].cancelled
  PROVE  CountsOf(k)'
BY DEF CountsOf, Single

LEMMA DoneFrame ==
  ASSUME NEW k \in Job, \A v \in Worker : SameHand(v, k), results'[k] = results[k], ~Single(k)
  PROVE  Done(k)' = Done(k)
<1>1. \A i \in 1..Files[k] : Tallying(k, i)' <=> Tallying(k, i)
  BY HandsFrame
<1>2. Slot(k) = 1..Files[k] /\ Slot(k)' = Slot(k)
  BY DEF Slot, Single
<1> QED BY <1>1, <1>2 DEF Done

LEMMA DoneFinite ==
  ASSUME NEW k \in Job, NEW D, D \subseteq Slot(k)
  PROVE  IsFiniteSet(D) /\ Cardinality(D) \in Nat
<1>1. IsFiniteSet(Slot(k))
  <2>1. Files[k] \in Nat
    BY ExecutorAssumption
  <2>2. IsFiniteSet(1..Files[k])
    BY <2>1, FS_Interval
  <2> QED BY <2>2, FS_Singleton DEF Slot
<1> QED BY <1>1, FS_Subset, FS_CardinalityType

LEMMA IdleProgress ==
  ASSUME TypeOK, HolderInv, LaneInv, ResultInv, ProgressInv,
         Submit \/ Close \/ \E w \in Worker : Poll(w) \/ Yield(w)
  PROVE  ProgressInv'
<1> SUFFICES ASSUME NEW k \in Job PROVE CountsOf(k)'
  BY DEF ProgressInv
<1>1. /\ at \in [Worker -> At] /\ unit \in [Worker -> Job \cup {NoJob}]
      /\ phase \in [Job -> {"new", "checked", "admitted", "refused"}]
  BY DEF TypeOK
<1>2. next' = next /\ results' = results /\ file' = file /\ CountsOf(k)
  BY DEF Submit, Check, Enqueue, Cancel, Close, Shutdown, ShutdownAndWait, JoinReturns, Stop,
         Poll, Yield, worker, jobs, ProgressInv
<1>3. ASSUME NEW v \in Worker PROVE SameHand(v, k) /\ SameCrew(v, k)
  <2>1. CASE unit' = unit /\ \A s \in {"count", "check", "act", "publish", "tally"} :
                                 at'[v] = s <=> at[v] = s
    BY <1>2, <2>1 DEF SameHand, SameCrew, Reading
  <2>2. CASE Submit \/ Close
    <3>1. unit' = unit /\ (at' = at \/ NotifyAll)
      BY <2>2 DEF Submit, Check, Enqueue, Cancel, Close, Shutdown, ShutdownAndWait, JoinReturns,
                  Stop, worker
    <3> QED BY <1>1, <2>1, <3>1 DEF NotifyAll
  <2>3. ASSUME NEW w \in Worker, Poll(w) \/ Yield(w) PROVE SameHand(v, k) /\ SameCrew(v, k)
    <3>1. CASE v = w
      <4>1. file[w] = 0
        <5>1. Owns(w)
          BY DEF HolderInv
        <5> QED BY <2>3, <5>1 DEF Owns, Holding, Held, Taking, Poll, Yield
      <4>2. at[w] \in {"poll", "yield"} /\ at'[w] \in {"start", "wait", "exited"}
        BY <1>1, <2>3 DEF Poll, Yield, Goto
      <4> QED BY <1>2, <3>1, <4>1, <4>2 DEF SameHand, SameCrew, Reading
    <3>2. CASE v # w
      <4>1. unit'[v] = unit[v] /\ at'[v] = at[v]
        BY <1>1, <2>3, <3>2 DEF Poll, Yield, Goto
      <4> QED BY <1>2, <4>1 DEF SameHand, SameCrew
    <3> QED BY <3>1, <3>2
  <2> QED BY <2>2, <2>3
<1>4. ~Single(k) => Done(k)' = Done(k)
  BY <1>2, <1>3, DoneFrame
<1>5. CASE \A j \in Job : ~Check(j)
  <2>1. phase'[k] \in {"checked", "admitted"} => phase[k] \in {"checked", "admitted"}
    BY <1>1, <1>5 DEF Submit, Enqueue, Append_, Cancel, Close, Shutdown, ShutdownAndWait,
                      JoinReturns, Stop, Poll, Yield, jobs
  <2>2. progress' = progress
    BY <1>5 DEF Submit, Enqueue, Cancel, Close, Shutdown, ShutdownAndWait, JoinReturns, Stop,
                Poll, Yield, jobs
  <2> QED BY <1>2, <1>3, <1>4, <2>1, <2>2, CountsFrame
<1>6. ASSUME NEW j \in Job, Check(j) PROVE CountsOf(k)'
  <2>p. progress \in [Job -> Counts] /\ phase \in [Job -> {"new", "checked", "admitted", "refused"}]
    BY DEF TypeOK, Counts
  <2>1. CASE progress' = progress /\ phase' = [phase EXCEPT ![j] = "refused"]
    <3>1. phase'[k] \in {"checked", "admitted"} => phase[k] \in {"checked", "admitted"}
      BY <2>p, <2>1
    <3> QED BY <1>2, <1>3, <1>4, <2>1, <3>1, CountsFrame
  <2>2. CASE /\ phase' = [phase EXCEPT ![j] = "checked"]
             /\ progress' = [progress EXCEPT ![j].queued = Files[j]]
    <3>1. CASE k # j
      <4>1. progress'[k] = progress[k] /\ phase'[k] = phase[k]
        BY <2>p, <2>2, <3>1
      <4> QED BY <1>2, <1>3, <1>4, <4>1, CountsFrame
    <3>2. CASE k = j
      <4>1. phase[k] = "new" /\ Quiet(k) /\ Files[k] \in Nat
        BY <1>6, <3>2, ExecutorAssumption DEF Check, LaneInv, Lane
      <4>2. next[k] = 1 /\ \A i \in Slot(k) : results[k][i] = "none"
        BY <4>1 DEF ResultInv, ResultsOf
      <4>3. /\ progress'[k].queued = Files[k] /\ progress'[k].reading = progress[k].reading
            /\ progress'[k].completed = progress[k].completed
            /\ progress'[k].failed = progress[k].failed
            /\ progress'[k].cancelled = progress[k].cancelled
        BY <2>p, <2>2, <3>2 DEF Counts
      <4>4. Counting(k) = {} /\ Readers(k) = {}
        <5>1. Team(k) = {} /\ Closers(k) = {}
          BY <4>1, AliveType DEF Quiet
        <5> QED BY <5>1 DEF Team, Closers, Counting, Readers
      <4>5. Done(k) = {}
        BY <4>2 DEF Done
      <4>6. Counting(k)' = {} /\ Readers(k)' = {}
        BY <1>3, <4>4 DEF SameCrew, Counting, Readers, Reading
      <4>7. ~Single(k) => progress[k].reading = 0 /\ progress[k].completed = 0
        BY <1>2, <4>4, <4>5, FS_EmptySet DEF CountsOf
      <4>8. Least(next'[k] - 1, Files[k]) = 0
        BY <1>2, <4>1, <4>2 DEF Least
      <4>9. CASE Single(k)
        BY <1>2, <4>3, <4>9, SingleFrame
      <4>10. CASE ~Single(k)
        <5>1. /\ Cardinality(Counting(k)') = 0 /\ Cardinality(Readers(k)') = 0
              /\ Cardinality(Done(k)') = 0
          BY <1>4, <4>5, <4>6, <4>10, FS_EmptySet
        <5>2. progress[k].failed + progress[k].cancelled <= progress[k].completed
          BY <1>2, <4>10 DEF CountsOf
        <5> QED BY <4>1, <4>3, <4>7, <4>8, <4>10, <5>1, <5>2 DEF CountsOf, Single
      <4> QED BY <4>9, <4>10
    <3> QED BY <3>1, <3>2
  <2> QED BY <1>6, <2>1, <2>2 DEF Check
<1> QED BY <1>5, <1>6

\* The set C changes by one worker or not at all.
LEMMA CrewChange ==
  ASSUME NEW C, NEW D, C \subseteq Worker, D \subseteq Worker, NEW w \in Worker,
         \A v \in Worker : v # w => (v \in C <=> v \in D)
  PROVE  /\ w \notin C /\ w \in D => Cardinality(D) = Cardinality(C) + 1
         /\ w \in C /\ w \notin D => Cardinality(D) = Cardinality(C) - 1
         /\ (w \in C <=> w \in D) => D = C
<1>1. CASE w \notin C /\ w \in D
  <2>1. D = C \cup {w}
    BY <1>1
  <2> QED BY <1>1, <2>1, WorkersAdd
<1>2. CASE w \in C /\ w \notin D
  <2>1. D = C \ {w}
    BY <1>2
  <2> QED BY <1>2, <2>1, WorkersDrop
<1>3. CASE w \in C <=> w \in D
  BY <1>3
<1> QED BY <1>1, <1>2, <1>3

LEMMA ClosureProgress ==
  ASSUME TypeOK, LaneInv, HolderInv, Apart, ResultInv, ProgressInv, NEW w \in Worker,
         \/ Start(w) \/ Index(w) \/ Count(w) \/ CheckCancelled(w) \/ Act(w)
         \/ Publish(w) \/ Tally(w) \/ Leave(w) \/ Final(w)
  PROVE  ProgressInv'
<1> DEFINE j == unit[w]
<1>f. PICK f : f = file[w]
  OBVIOUS
<1> USE <1>f
<1> SUFFICES ASSUME NEW k \in Job PROVE CountsOf(k)'
  BY DEF ProgressInv
<1>1. /\ at \in [Worker -> At] /\ unit \in [Worker -> Job \cup {NoJob}]
      /\ file \in [Worker -> Nat] /\ NoJob \notin Job
  BY ExecutorAssumption DEF TypeOK
<1>n. next \in [Job -> Nat] /\ Files[k] \in Nat /\ DOMAIN results = Job
  BY ExecutorAssumption DEF TypeOK
<1>p. progress \in [Job -> Counts] /\ progress[k] \in Counts
  BY DEF TypeOK, Counts
<1>2. Held(w) /\ j \in Job /\ Holding(w) /\ phase[j] = "admitted"
  <2>1. Held(w)
    BY DEF Held, Start, Index, Count, CheckCancelled, Act, Publish, Tally, Leave, Final
  <2> QED BY <2>1, HolderBusy DEF HolderInv, Owns
<1>3. phase' = phase /\ CountsOf(k) /\ ResultsOf(k)
  BY DEF Start, Index, Count, CheckCancelled, Act, Publish, Tally, Leave, Final, jobs, ResultInv,
         ProgressInv
<1>4. \A v \in Worker : v # w => /\ at'[v] = at[v] /\ unit'[v] = unit[v] /\ file'[v] = file[v]
  BY <1>1 DEF Start, Index, Count, CheckCancelled, Act, Publish, Tally, Leave, Final,
              Goto, Holds, Drops
<1>5. \A v \in Worker : v # w => SameHand(v, k) /\ SameCrew(v, k)
  BY <1>4 DEF SameHand, SameCrew
<1>c. /\ Counting(k) \subseteq Worker /\ Counting(k)' \subseteq Worker
      /\ Readers(k) \subseteq Worker /\ Readers(k)' \subseteq Worker
      /\ \A v \in Worker : v # w => /\ v \in Counting(k) <=> v \in Counting(k)'
                                    /\ v \in Readers(k) <=> v \in Readers(k)'
  BY <1>4 DEF Counting, Readers
<1>7. CASE k # j
  <2>1. next'[k] = next[k] /\ results'[k] = results[k]
    BY <1>n, <1>7 DEF Start, Index, Count, CheckCancelled, Act, Publish, Tally, Leave, Final, jobs
  <2>2. unit'[w] # k
    BY <1>1, <1>7 DEF Start, Index, Count, CheckCancelled, Act, Publish, Tally, Leave, Final,
                      Holds, Drops
  <2>3. progress'[k] = progress[k]
    BY <1>p, <1>7 DEF Start, Index, Count, CheckCancelled, Act, Publish, Tally, TallyBatch,
                      Leave, Final, jobs
  <2>4. SameHand(w, k) /\ SameCrew(w, k)
    BY <1>7, <2>2 DEF SameHand, SameCrew
  <2>5. ~Single(k) => Done(k)' = Done(k)
    BY <1>5, <2>1, <2>4, DoneFrame
  <2> QED BY <1>3, <1>5, <2>1, <2>3, <2>4, <2>5, CountsFrame
<1>8. CASE k = j /\ Single(k)
  <2>1. ~Index(w) /\ ~Count(w)
    BY <1>2, <1>8 DEF Index, Count, Holding
  <2>2. /\ progress'[k].completed = progress[k].completed
        /\ progress'[k].failed = progress[k].failed
        /\ progress'[k].cancelled = progress[k].cancelled
    BY <1>p, <1>8, <2>1 DEF Start, CheckCancelled, Act, Publish, Tally, Leave, Final, jobs, Counts
  <2> QED BY <1>3, <1>8, <2>2, SingleFrame
<1>9. CASE k = j /\ ~Single(k) /\ (Start(w) \/ CheckCancelled(w) \/ Act(w) \/ Leave(w) \/ Final(w))
  <2>1. next' = next /\ results' = results
    BY <1>9 DEF Start, CheckCancelled, Act, Leave, Final, jobs
  <2>2. /\ progress'[k].queued = progress[k].queued
        /\ progress'[k].reading = progress[k].reading
        /\ progress'[k].completed = progress[k].completed
        /\ progress'[k].failed = progress[k].failed
        /\ progress'[k].cancelled = progress[k].cancelled
    BY <1>p, <1>9 DEF Start, CheckCancelled, Act, Leave, Final, jobs, Counts
  <2>3. SameHand(w, k) /\ SameCrew(w, k)
    <3>1. CASE CheckCancelled(w) \/ Act(w)
      BY <1>1, <3>1 DEF CheckCancelled, Act, Goto, SameHand, SameCrew, Reading
    <3>2. CASE Start(w)
      BY <1>1, <1>9, <3>2 DEF Start, Goto, Holds, SameHand, SameCrew, Reading
    <3>3. CASE Leave(w) \/ Final(w)
      <4>1. at[w] \in {"leave", "final"} /\ at'[w] \in {"poll", "final"}
        BY <1>1, <3>3 DEF Leave, Final, Goto
      <4>2. file[w] = 0 /\ file'[w] = 0
        BY <1>1, <1>2, <3>3 DEF Leave, Final, Drops, Holds, Holding, Taking
      <4> QED BY <4>1, <4>2 DEF SameHand, SameCrew, Reading
    <3> QED BY <1>9, <3>1, <3>2, <3>3
  <2>4. Done(k)' = Done(k)
    BY <1>5, <1>9, <2>1, <2>3, DoneFrame
  <2> QED BY <1>3, <1>5, <2>1, <2>2, <2>3, <2>4, CountsFrame
<1>10. CASE k = j /\ ~Single(k) /\ Index(w)
  <2>1. /\ at[w] = "index" /\ f = 0 /\ unit' = unit /\ results' = results
        /\ progress' = progress /\ next' = [next EXCEPT ![j] = next[j] + 1]
        /\ at' = [at EXCEPT ![w] = IF next[j] <= Files[j] THEN "count" ELSE "leave"]
    BY <1>2, <1>10 DEF Index, Holding, Taking, Goto, jobs
  <2>2. next[k] \in Nat \ {0} /\ next'[k] = next[k] + 1
    <3>1. next[k] # 0
      BY <1>3 DEF ResultsOf
    <3> QED BY <1>n, <1>10, <2>1, <3>1
  <2>3. Done(k)' = Done(k)
    <3>1. ASSUME NEW i PROVE Tallying(k, i)' <=> Tallying(k, i)
      <4>1. at[w] # "tally" /\ at'[w] # "tally"
        BY <1>1, <2>1
      <4> QED BY <1>4, <4>1 DEF Tallying
    <3> QED BY <2>1, <3>1 DEF Done, Slot, Single
  <2>4. Cardinality(Readers(k)') = Cardinality(Readers(k))
    <3>1. w \notin Readers(k) /\ w \notin Readers(k)'
      BY <1>1, <2>1 DEF Readers
    <3> QED BY <1>c, <3>1, CrewChange
  <2>5. w \notin Counting(k) /\ (w \in Counting(k)' <=> next[k] <= Files[k])
    BY <1>1, <1>10, <2>1 DEF Counting
  <2>6. Cardinality(Counting(k)) \in Nat /\ Cardinality(Counting(k)') \in Nat
    BY <1>c, WorkersFinite
  <2>7. Cardinality(Counting(k)') = Cardinality(Counting(k)) + (IF next[k] <= Files[k] THEN 1 ELSE 0)
    <3>1. CASE next[k] <= Files[k]
      BY <1>c, <2>5, <3>1, CrewChange
    <3>2. CASE ~(next[k] <= Files[k])
      <4>1. \A v \in Worker : v \in Counting(k) <=> v \in Counting(k)'
        BY <1>c, <2>5, <3>2
      <4>2. Counting(k)' = Counting(k)
        BY <1>c, <4>1
      <4> QED BY <2>6, <3>2, <4>2
    <3> QED BY <3>1, <3>2
  <2>8. Least(next'[k] - 1, Files[k]) = Least(next[k] - 1, Files[k]) + (IF next[k] <= Files[k] THEN 1 ELSE 0)
    BY <1>n, <2>2 DEF Least
  <2>9. Least(next[k] - 1, Files[k]) \in Nat /\ progress[k].queued \in Nat
    BY <1>n, <1>p, <2>2 DEF Least, Counts
  <2> QED BY <1>2, <1>3, <1>n, <1>10, <2>1, <2>3, <2>4, <2>6, <2>7, <2>8, <2>9 DEF CountsOf, Single
<1>11. CASE k = j /\ ~Single(k) /\ Count(w)
  <2> DEFINE p == progress[j]
             n == IF p.queued = 0 THEN 0 ELSE p.queued - 1
             r == p.reading + 1
  <2>1. /\ at[w] = "count" /\ at' = [at EXCEPT ![w] = "check"] /\ unit' = unit /\ file' = file
        /\ next' = next /\ results' = results
        /\ progress' = [progress EXCEPT ![j] = [p EXCEPT !.queued = n, !.reading = r]]
    BY <1>11 DEF Count, Goto, Holds
  <2>2. w \in Counting(k) /\ w \notin Counting(k)' /\ w \notin Readers(k) /\ w \in Readers(k)'
    BY <1>1, <1>11, <2>1 DEF Counting, Readers
  <2>3. /\ Cardinality(Counting(k)') = Cardinality(Counting(k)) - 1
        /\ Cardinality(Readers(k)') = Cardinality(Readers(k)) + 1
    BY <1>c, <2>2, CrewChange
  <2>4. Cardinality(Counting(k)) \in Nat \ {0} /\ Cardinality(Readers(k)) \in Nat
    BY <1>c, <2>2, WorkersFinite
  <2>5. /\ p.queued \in Nat /\ p.reading \in Nat /\ p.completed \in Nat
        /\ p.queued + Least(next[k] - 1, Files[k]) = Files[k] + Cardinality(Counting(k))
        /\ p.queued + p.reading + p.completed = Files[k]
        /\ p.reading = Cardinality(Readers(k)) /\ p.completed = Cardinality(Done(k))
        /\ p.failed + p.cancelled <= p.completed
    BY <1>2, <1>3, <1>p, <1>11 DEF CountsOf, Counts
  <2>6. Least(next[k] - 1, Files[k]) <= Files[k] /\ Least(next[k] - 1, Files[k]) \in Int
    BY <1>n DEF Least
  <2>7. p.queued # 0 /\ n = p.queued - 1 /\ n \in Nat /\ r \in Nat
    BY <1>n, <2>4, <2>5, <2>6
  <2>8. /\ progress'[k].queued = n /\ progress'[k].reading = r
        /\ progress'[k].completed = p.completed /\ progress'[k].failed = p.failed
        /\ progress'[k].cancelled = p.cancelled
    <3>1. progress'[k] = [p EXCEPT !.queued = n, !.reading = r]
      BY <1>p, <1>11, <2>1
    <3>2. p \in Counts
      BY <1>p, <1>11
    <3>3. n \in Nat /\ r \in Nat
      BY <2>7
    <3> HIDE DEF n, r, p
    <3>4. ASSUME NEW q, q = [p EXCEPT !.queued = n, !.reading = r]
          PROVE  /\ q.queued = n /\ q.reading = r /\ q.completed = p.completed
                 /\ q.failed = p.failed /\ q.cancelled = p.cancelled
      BY <3>2, <3>3, <3>4 DEF Counts
    <3> QED BY <3>1, <3>4
  <2>9. Done(k)' = Done(k)
    <3>1. SameHand(w, k)
      BY <1>1, <2>1 DEF SameHand
    <3> QED BY <1>5, <1>11, <2>1, <3>1, DoneFrame
  <2> QED BY <1>2, <1>3, <1>n, <1>11, <2>1, <2>3, <2>4, <2>5, <2>6, <2>7, <2>8, <2>9
          DEF CountsOf, Single
<1>12. CASE k = j /\ ~Single(k) /\ Publish(w)
  <2>1. /\ at[w] = "publish" /\ at' = [at EXCEPT ![w] = "tally"] /\ unit' = unit /\ file' = file
        /\ next' = next /\ progress' = progress
        /\ results' = [results EXCEPT ![j] = [results[j] EXCEPT ![f] = got[w]]]
    BY <1>12 DEF Publish, Goto, Holds, SlotOf
  <2>2. f \in 1..Files[j] /\ results[j][f] = "none"
    BY <1>2, <1>12, <2>1 DEF Holding, Taking
  <2>3. \A i : i # f => results'[k][i] = results[k][i]
    BY <1>n, <1>12, <2>1
  <2>4. Tallying(k, f)'
    BY <1>1, <1>12, <2>1 DEF Tallying
  <2>5. ASSUME NEW i, i # f PROVE Tallying(k, i)' <=> Tallying(k, i)
    BY <1>1, <2>1, <2>5 DEF Tallying
  <2>6. Done(k)' = Done(k)
    <3>1. f \notin Done(k) /\ f \notin Done(k)'
      BY <1>12, <2>2, <2>4 DEF Done
    <3>2. Slot(k)' = Slot(k)
      BY DEF Slot, Single
    <3>3. \A i \in Slot(k) : i # f => (i \in Done(k)' <=> i \in Done(k))
      BY <2>3, <2>5, <3>2 DEF Done
    <3>4. Done(k) \subseteq Slot(k) /\ Done(k)' \subseteq Slot(k)
      BY <3>2 DEF Done
    <3> QED BY <3>1, <3>3, <3>4
  <2>7. SameCrew(w, k)
    BY <1>1, <2>1 DEF SameCrew, Reading
  <2> QED BY <1>3, <1>5, <2>1, <2>6, <2>7, CountsFrame
<1>13. CASE k = j /\ ~Single(k) /\ Tally(w)
  <2> DEFINE p == progress[j]
             r == p.reading - 1
             d == p.completed + 1
             x == AddOne(p.failed, got[w] = "failed")
             c == AddOne(p.cancelled, got[w] = "cancelled")
  <2>1. /\ at[w] = "tally" /\ at' = [at EXCEPT ![w] = "yield"] /\ unit' = unit
        /\ file' = [file EXCEPT ![w] = 0] /\ next' = next /\ results' = results /\ TallyBatch(w)
    BY <1>13 DEF Tally, Goto
  <2>2. /\ f \in 1..Files[j] /\ results[j][f] = got[w] /\ got[w] \in Ending
    BY <1>2, <1>n, <1>13, <2>1 DEF Holding, Taking, SlotOf
  <2>3. progress' = [progress EXCEPT ![j] = [p EXCEPT !.reading = r, !.completed = d,
                                                      !.failed = x, !.cancelled = c]]
    BY <2>1 DEF TallyBatch
  <2>4. w \in Readers(k) /\ w \notin Readers(k)' /\ w \notin Counting(k) /\ w \notin Counting(k)'
    BY <1>1, <1>13, <2>1 DEF Counting, Readers
  <2>5. /\ Cardinality(Readers(k)') = Cardinality(Readers(k)) - 1
        /\ Cardinality(Counting(k)') = Cardinality(Counting(k))
    <3>1. Cardinality(Readers(k)') = Cardinality(Readers(k)) - 1
      BY <1>c, <2>4, CrewChange
    <3>2. \A v \in Worker : v \in Counting(k) <=> v \in Counting(k)'
      BY <1>c, <2>4
    <3>3. Counting(k)' = Counting(k)
      BY <1>c, <3>2
    <3> QED BY <3>1, <3>3
  <2>6. Cardinality(Readers(k)) \in Nat \ {0}
    BY <1>c, <2>4, WorkersFinite
  <2>7. /\ p.queued \in Nat /\ p.reading \in Nat /\ p.completed \in Nat
        /\ p.failed \in Nat /\ p.cancelled \in Nat
        /\ p.queued + Least(next[k] - 1, Files[k]) = Files[k] + Cardinality(Counting(k))
        /\ p.queued + p.reading + p.completed = Files[k]
        /\ p.reading = Cardinality(Readers(k)) /\ p.completed = Cardinality(Done(k))
        /\ p.failed + p.cancelled <= p.completed
    BY <1>2, <1>3, <1>p, <1>13 DEF CountsOf, Counts
  <2>8. r \in Nat /\ d \in Nat /\ x \in Nat /\ c \in Nat /\ x + c <= d
    <3>1. r \in Nat /\ d \in Nat
      BY <2>6, <2>7
    <3>2. /\ x = p.failed + (IF got[w] = "failed" THEN 1 ELSE 0)
          /\ c = p.cancelled + (IF got[w] = "cancelled" THEN 1 ELSE 0)
      BY <2>7 DEF AddOne
    <3> HIDE DEF x, c
    <3> QED BY <2>7, <3>1, <3>2
  <2>9. /\ progress'[k].queued = p.queued /\ progress'[k].reading = r
        /\ progress'[k].completed = d /\ progress'[k].failed = x /\ progress'[k].cancelled = c
    <3>1. progress'[k] = [p EXCEPT !.reading = r, !.completed = d, !.failed = x, !.cancelled = c]
      BY <1>p, <1>13, <2>3
    <3>2. p \in Counts
      BY <1>p, <1>13
    <3>3. r \in Nat /\ d \in Nat /\ x \in Nat /\ c \in Nat
      BY <2>8
    <3> HIDE DEF r, d, x, c, p
    <3>4. ASSUME NEW q,
                 q = [p EXCEPT !.reading = r, !.completed = d, !.failed = x, !.cancelled = c]
          PROVE  /\ q.queued = p.queued /\ q.reading = r /\ q.completed = d
                 /\ q.failed = x /\ q.cancelled = c
      <4> DEFINE q2 == [p EXCEPT !.reading = r, !.completed = d]
      <4>1. /\ q2 \in Counts /\ q2.queued = p.queued
            /\ q2.reading = r /\ q2.completed = d
        BY <3>2, <3>3 DEF Counts
      <4>2. q = [q2 EXCEPT !.failed = x, !.cancelled = c]
        BY <3>4
      <4> HIDE DEF q2
      <4> QED BY <3>3, <4>1, <4>2 DEF Counts
    <3> QED BY <3>1, <3>4
  <2>10. Cardinality(Done(k)') = Cardinality(Done(k)) + 1
    <3>1. Tallying(k, f)
      BY <1>13, <2>1 DEF Tallying
    <3>2. ~Tallying(k, f)'
      <4>1. SUFFICES ASSUME NEW v \in Worker, unit'[v] = k, file'[v] = f, at'[v] = "tally"
                     PROVE  FALSE
        BY DEF Tallying
      <4>2. v # w
        BY <1>1, <2>1, <4>1
      <4>3. Held(v) /\ unit[v] = j /\ file[v] = f
        BY <1>4, <1>13, <4>1, <4>2 DEF Held
      <4> QED BY <1>2, <2>2, <4>2, <4>3 DEF Apart
    <3>3. ASSUME NEW i \in 1..Files[k], i # f PROVE Tallying(k, i)' <=> Tallying(k, i)
      <4>0. i # 0
        BY <1>n
      <4>1. file[w] # i /\ file'[w] # i
        BY <1>1, <2>1, <3>3, <4>0
      <4> QED BY <1>4, <4>1 DEF Tallying
    <3>4. Slot(k) = 1..Files[k] /\ Slot(k)' = 1..Files[k]
      BY <1>13 DEF Slot, Single
    <3>5. f \notin Done(k) /\ f \in Done(k)'
      BY <1>13, <2>1, <2>2, <3>1, <3>2, <3>4 DEF Done
    <3>6. Done(k)' = Done(k) \cup {f}
      BY <2>1, <3>3, <3>4, <3>5 DEF Done
    <3>7. IsFiniteSet(Done(k))
      BY DoneFinite DEF Done
    <3> QED BY <3>5, <3>6, <3>7, FS_AddElement
  <2> HIDE DEF r, x, c, d
  <2>11. /\ d = p.completed + 1 /\ r = p.reading - 1
    BY DEF d, r
  <2> QED BY <1>2, <1>3, <1>13, <2>1, <2>5, <2>6, <2>7, <2>8, <2>9, <2>10, <2>11 DEF CountsOf, Single
<1> QED BY <1>7, <1>8, <1>9, <1>10, <1>11, <1>12, <1>13

-----------------------------------------------------------------------------
(***************************************************************************)
(* What is seen at the end.                                                *)
(***************************************************************************)
Told(j) == Ended(j) => /\ \A i \in Slot(j) : results[j][i] # "none"
                       /\ progress[j].state = Verdict(j)

LEMMA ToldFrame ==
  ASSUME NEW k \in Job, Told(k), results'[k] = results[k],
         progress'[k].state = progress[k].state
  PROVE  Told(k)'
BY DEF Told, Ended, Verdict, Slot, Single

LEMMA IdleOutcome ==
  ASSUME TypeOK, OutcomeFaithful, Submit \/ Close \/ \E w \in Worker : Poll(w) \/ Yield(w)
  PROVE  OutcomeFaithful'
<1> SUFFICES ASSUME NEW k \in Job PROVE Told(k)'
  BY DEF OutcomeFaithful, Told
<1>1. Told(k)
  BY DEF OutcomeFaithful, Told
<1>2. results' = results
  BY DEF Submit, Check, Enqueue, Cancel, Close, Shutdown, ShutdownAndWait, JoinReturns, Stop,
         Poll, Yield, worker, jobs
<1>3. progress'[k].state = progress[k].state
  <2>1. CASE progress' = progress
    BY <2>1
  <2>2. ASSUME NEW j \in Job, progress' = [progress EXCEPT ![j].queued = Files[j]]
        PROVE  progress'[k].state = progress[k].state
    <3>1. progress \in [Job -> Counts]
      BY DEF TypeOK, Counts
    <3> QED BY <2>2, <3>1 DEF Counts
  <2> QED BY <2>1, <2>2 DEF Submit, Check, Enqueue, Cancel, Close, Shutdown, ShutdownAndWait,
                            JoinReturns, Stop, Poll, Yield, jobs
<1> QED BY <1>1, <1>2, <1>3, ToldFrame

\* The last lane has left: no file of the job is in anyone's hands, so every result
\* is there and was counted.
LEMMA LastLaneSawAll ==
  ASSUME TypeOK, LaneInv, HolderInv, ResultInv, NEW w \in Worker, at[w] = "final"
  PROVE  LET j == unit[w] IN
         /\ j \in Job /\ ~Single(j)
         /\ \A i \in Slot(j) : results[j][i] # "none"
         /\ progress[j].cancelled # 0 <=> \E i \in Slot(j) : results[j][i] = "cancelled"
         /\ progress[j].failed # 0 <=> \E i \in Slot(j) : results[j][i] = "failed"
<1> DEFINE j == unit[w]
<1>1. Held(w) /\ j \in Job /\ Holding(w)
  <2>1. Held(w)
    BY DEF Held
  <2> QED BY <2>1, HolderBusy DEF HolderInv, Owns
<1>2. ~Single(j) /\ file[w] = 0 /\ next[j] > Files[j] /\ Slot(j) = 1..Files[j]
  BY <1>1 DEF Holding, Taking, Slot
<1>3. Files[j] \in Nat /\ next[j] \in Nat
  BY <1>1, ExecutorAssumption DEF TypeOK
<1>4. ASSUME NEW v \in Worker, unit[v] = j PROVE file[v] = 0
  <2>1. w \in Closers(j)
    BY DEF Closers
  <2>2. Alive(j) = 0 /\ \A u \in Closers(j) : u = w
    BY <1>1, <2>1 DEF LaneInv, Lane
  <2>3. Team(j) = {}
    BY <2>2, AliveType
  <2>4. v = w
    BY <1>4, <2>2, <2>3 DEF Team, Closers
  <2> QED BY <1>2, <2>4
<1>5. \A i \in 1..Files[j] : i # 0 /\ i < next[j]
  BY <1>2, <1>3
<1>6. \A i \in 1..Files[j] : ~Tallying(j, i)
  BY <1>4, <1>5 DEF Tallying
<1>7. ResultsOf(j)
  BY <1>1 DEF ResultInv
<1>8. \A i \in 1..Files[j] : results[j][i] # "none"
  BY <1>4, <1>5, <1>7 DEF ResultsOf
<1>9. \A e : Counted(j, e) <=> \E i \in 1..Files[j] : results[j][i] = e
  BY <1>6 DEF Counted
<1>10. /\ progress[j].cancelled # 0 <=> Counted(j, "cancelled")
       /\ progress[j].failed # 0 <=> Counted(j, "failed")
  BY <1>2, <1>7 DEF ResultsOf
<1> QED BY <1>1, <1>2, <1>8, <1>9, <1>10

LEMMA ClosureOutcome ==
  ASSUME TypeOK, LaneInv, HolderInv, ResultInv, OutcomeFaithful, NEW w \in Worker,
         \/ Start(w) \/ Index(w) \/ Count(w) \/ CheckCancelled(w) \/ Act(w)
         \/ Publish(w) \/ Tally(w) \/ Leave(w) \/ Final(w)
  PROVE  OutcomeFaithful'
<1> DEFINE j == unit[w]
<1> SUFFICES ASSUME NEW k \in Job PROVE Told(k)'
  BY DEF OutcomeFaithful, Told
<1>1. Told(k)
  BY DEF OutcomeFaithful, Told
<1>p. progress \in [Job -> Counts] /\ progress[k] \in Counts /\ DOMAIN results = Job
  BY DEF TypeOK, Counts
<1>2. Held(w) /\ j \in Job /\ Holding(w) /\ phase[j] = "admitted" /\ ~Ended(j)
  <2>1. Held(w)
    BY DEF Held, Start, Index, Count, CheckCancelled, Act, Publish, Tally, Leave, Final
  <2> QED BY <2>1, HolderBusy DEF HolderInv, Owns
<1>3. CASE k # j
  <2>1. results'[k] = results[k]
    BY <1>p, <1>3 DEF Start, Index, Count, CheckCancelled, Act, Publish, Tally, Leave, Final, jobs
  <2>2. progress'[k] = progress[k]
    BY <1>p, <1>3 DEF Start, Index, Count, CheckCancelled, Act, Publish, Tally, TallyBatch,
                      Leave, Final, jobs
  <2> QED BY <1>1, <2>1, <2>2, ToldFrame
<1>4. CASE k = j /\ Start(w)
  <2>1. progress'[k].state = "running"
    BY <1>p, <1>4 DEF Start, Counts
  <2> QED BY <2>1 DEF Told, Ended, Ending
<1>5. CASE k = j /\ (Index(w) \/ CheckCancelled(w) \/ Act(w) \/ Publish(w) \/ Leave(w))
  <2>1. progress' = progress
    BY <1>5 DEF Index, CheckCancelled, Act, Publish, Leave, jobs
  <2> QED BY <1>2, <1>5, <2>1 DEF Told, Ended
<1>6. CASE k = j /\ Count(w)
  <2> DEFINE p == progress[j]
             n == IF p.queued = 0 THEN 0 ELSE p.queued - 1
             r == p.reading + 1
  <2>1. progress' = [progress EXCEPT ![j] = [p EXCEPT !.queued = n, !.reading = r]]
    BY <1>6 DEF Count
  <2>2. progress'[k].state = p.state
    <3> HIDE DEF n, r
    <3> QED BY <1>p, <1>6, <2>1 DEF Counts
  <2> QED BY <1>2, <1>6, <2>2 DEF Told, Ended
<1>7. CASE k = j /\ Tally(w) /\ ~Single(j)
  <2> DEFINE p == progress[j]
             r == p.reading - 1
             d == p.completed + 1
             x == AddOne(p.failed, got[w] = "failed")
             c == AddOne(p.cancelled, got[w] = "cancelled")
  <2>1. progress' = [progress EXCEPT ![j] = [p EXCEPT !.reading = r, !.completed = d,
                                                      !.failed = x, !.cancelled = c]]
    <3>1. TallyBatch(w)
      BY <1>7 DEF Tally
    <3> QED BY <3>1 DEF TallyBatch
  <2>2. progress'[k].state = p.state
    <3> HIDE DEF r, d, x, c
    <3> QED BY <1>p, <1>7, <2>1 DEF Counts
  <2> QED BY <1>2, <1>7, <2>2 DEF Told, Ended
<1>8. CASE k = j /\ Tally(w) /\ Single(j)
  <2>1. progress'[k].state = got[w] /\ results' = results /\ at[w] = "tally"
    BY <1>p, <1>8 DEF Tally, Counts
  <2>2. got[w] \in Ending /\ results[k][1] = got[w]
    BY <1>2, <1>8, <2>1 DEF Holding, SlotOf
  <2>3. Slot(k)' = {1}
    BY <1>8 DEF Slot, Single
  <2>4. Verdict(k)' = got[w]
    BY <2>1, <2>2, <2>3 DEF Verdict, Ending
  <2> QED BY <2>1, <2>2, <2>3, <2>4 DEF Told, Ending
<1>9. CASE k = j /\ Final(w)
  <2> DEFINE p == progress[j]
             s == IF p.cancelled # 0 THEN "cancelled" ELSE IF p.failed # 0 THEN "failed"
                  ELSE "completed"
  <2>1. /\ at[w] = "final" /\ results' = results
        /\ progress' = [progress EXCEPT ![j] = [p EXCEPT !.state = s]]
    BY <1>9 DEF Final
  <2>2. progress'[k].state = s
    <3> HIDE DEF s
    <3> QED BY <1>p, <1>9, <2>1 DEF Counts
  <2>3. /\ \A i \in Slot(k) : results[k][i] # "none"
        /\ p.cancelled # 0 <=> \E i \in Slot(k) : results[k][i] = "cancelled"
        /\ p.failed # 0 <=> \E i \in Slot(k) : results[k][i] = "failed"
    BY <1>9, <2>1, LastLaneSawAll
  <2>4. Slot(k)' = Slot(k)
    BY DEF Slot, Single
  <2>5. Verdict(k)' = s
    BY <2>1, <2>3, <2>4 DEF Verdict
  <2> QED BY <2>1, <2>2, <2>3, <2>4, <2>5 DEF Told
<1> QED BY <1>3, <1>4, <1>5, <1>6, <1>7, <1>8, <1>9

-----------------------------------------------------------------------------
(***************************************************************************)
(* The invariant, and what it says of every behaviour.                     *)
(***************************************************************************)
LEMMA InitKeeps == Init => IInv
<1> SUFFICES ASSUME Init PROVE IInv
  OBVIOUS
<1>1. TypeOK
  <2>1. \A j \in Job : Lanes(j) \in Nat
    BY LanesType
  <2>2. remaining \in [Job -> Nat] /\ queue \in Seq(Job)
    <3>1. remaining \in [Job -> Nat]
      BY <2>1 DEF Init
    <3> QED BY <3>1, EmptySeq DEF Init
  <2>3. progress \in [Job -> Counts]
    BY DEF Init, Counts, State
  <2>4. \A w \in Worker : Held(w) <=> unit[w] \in Job
    BY ExecutorAssumption DEF Init, Held, NoJob
  <2>5. DOMAIN results = Job /\ \A j \in Job : results[j] \in [Slot(j) -> Ending \cup {"none"}]
    BY DEF Init
  <2> QED BY <2>2, <2>3, <2>4, <2>5 DEF Init, TypeOK, At, Counts
<1>2. \A j \in Job : Quiet(j) /\ ~Ended(j) /\ Counting(j) = {} /\ Readers(j) = {} /\ Done(j) = {}
  <2> SUFFICES ASSUME NEW j \in Job
               PROVE  Quiet(j) /\ ~Ended(j) /\ Counting(j) = {} /\ Readers(j) = {} /\ Done(j) = {}
    OBVIOUS
  <2>1. \A w \in Worker : unit[w] # j
    BY ExecutorAssumption DEF Init, NoJob
  <2>2. Team(j) = {} /\ Closers(j) = {} /\ Counting(j) = {} /\ Readers(j) = {}
    BY <2>1 DEF Team, Closers, Counting, Readers
  <2>3. Places(queue, j) = {}
    <3>1. Len(queue) = 0
      BY EmptySeq DEF Init
    <3> QED BY <3>1 DEF Places
  <2>4. Alive(j) = 0
    BY <1>1, <2>2, <2>3, AliveType
  <2>5. ~Ended(j)
    BY DEF Init, Ended, Ending
  <2>6. Done(j) = {}
    BY DEF Init, Done
  <2> QED BY <2>2, <2>4, <2>5, <2>6 DEF Quiet
<1>3. LaneInv
  <2>1. \A j \in Job : phase[j] = "new" /\ remaining[j] = Lanes(j)
    BY DEF Init
  <2> QED BY <1>2, <2>1 DEF LaneInv, Lane, Quiet
<1>4. HolderInv /\ Apart
  BY DEF Init, HolderInv, Apart, Owns, Held
<1>5. ProgressInv
  <2> SUFFICES ASSUME NEW j \in Job PROVE CountsOf(j)
    BY DEF ProgressInv
  <2>1. /\ progress[j].queued = 0 /\ progress[j].reading = 0 /\ progress[j].completed = 0
        /\ progress[j].failed = 0 /\ progress[j].cancelled = 0 /\ phase[j] = "new"
    BY DEF Init
  <2>2. Cardinality(Readers(j)) = 0 /\ Cardinality(Done(j)) = 0
    BY <1>2, FS_EmptySet
  <2>3. phase[j] \notin {"checked", "admitted"}
    BY <2>1
  <2>4. progress[j].failed + progress[j].cancelled <= progress[j].completed
    BY <2>1
  <2> QED BY <2>1, <2>2, <2>3, <2>4 DEF CountsOf
<1>6. ResultInv
  <2> SUFFICES ASSUME NEW j \in Job PROVE ResultsOf(j)
    BY DEF ResultInv
  <2>1. /\ progress[j].failed = 0 /\ progress[j].cancelled = 0 /\ phase[j] = "new" /\ next[j] = 1
        /\ \A i \in Slot(j) : results[j][i] = "none"
    BY DEF Init
  <2>2. Files[j] \in Nat /\ (Single(j) => Files[j] = 0) /\ (~Single(j) => Slot(j) = 1..Files[j])
    BY ExecutorAssumption DEF Single, Slot
  <2>3. \A i \in 1..Files[j] : results[j][i] = "none" /\ ~(i < 1)
    <3>1. CASE Single(j)
      BY <2>2, <3>1
    <3>2. CASE ~Single(j)
      BY <2>1, <2>2, <3>2
    <3> QED BY <3>1, <3>2
  <2>4. ~Counted(j, "cancelled") /\ ~Counted(j, "failed")
    BY <2>3 DEF Counted
  <2> QED BY <2>1, <2>3, <2>4 DEF ResultsOf
<1>7. PoolInv
  <2>0. Len(queue) = 0 /\ Capacity \in Nat
    <3>1. Len(queue) = 0
      BY EmptySeq DEF Init
    <3> QED BY <3>1, ExecutorAssumption
  <2>1. Len(queue) <= Capacity
    BY <2>0
  <2> QED BY <2>1 DEF Init, PoolInv, QueueBounded, StoppedCancels
<1>8. OutcomeFaithful
  BY <1>2 DEF OutcomeFaithful
<1> QED BY <1>1, <1>3, <1>4, <1>5, <1>6, <1>7, <1>8 DEF IInv

LEMMA StutterKeeps == IInv /\ UNCHANGED vars => IInv'
<1> SUFFICES ASSUME IInv, UNCHANGED vars PROVE IInv'
  OBVIOUS
<1>1. /\ TypeOK /\ ProgressInv /\ PoolInv /\ LaneInv /\ HolderInv /\ Apart /\ ResultInv
      /\ OutcomeFaithful
  BY DEF IInv
<1>2. /\ queue' = queue /\ stopped' = stopped /\ at' = at /\ unit' = unit /\ file' = file
      /\ got' = got /\ phase' = phase /\ cancelled' = cancelled /\ progress' = progress
      /\ next' = next /\ remaining' = remaining /\ results' = results /\ joiner' = joiner
      /\ passed' = passed
  BY DEF vars
<1>3. TypeOK'
  BY <1>1, <1>2 DEF TypeOK, Held
<1>4. PoolInv'
  BY <1>1, <1>2 DEF PoolInv, QueueBounded, StoppedCancels
<1>5. LaneInv'
  <2>1. ASSUME NEW j \in Job PROVE Lane(j)'
    <3>1. Team(j)' = Team(j) /\ Closers(j)' = Closers(j)
      BY <1>2, TeamsFrame
    <3>2. Waits(j)' = Waits(j) /\ (Ended(j)' <=> Ended(j))
      BY <1>2 DEF Waits, Ended
    <3> QED BY <1>1, <1>2, <3>1, <3>2, LaneFrame DEF LaneInv
  <2> QED BY <2>1 DEF LaneInv
<1>6. HolderInv'
  <2>1. ASSUME NEW v \in Worker PROVE Owns(v)'
    <3>1. Owns(v)
      BY <1>1 DEF HolderInv
    <3>2. (Held(v)' <=> Held(v)) /\ (Single(unit[v])' <=> Single(unit[v])) /\ SlotOf(v)' = SlotOf(v)
      BY <1>2 DEF Held, Single, SlotOf
    <3> QED BY <1>2, <3>1, <3>2 DEF Owns, Holding
  <2> QED BY <2>1 DEF HolderInv
<1>7. Apart'
  <2>1. \A v \in Worker : Held(v)' => Held(v)
    BY <1>2 DEF Held
  <2> QED BY <1>1, <1>2, <2>1, ApartFrame
<1>8. ASSUME NEW k \in Job PROVE ResultsOf(k)' /\ CountsOf(k)' /\ Told(k)'
  <2>1. ResultsOf(k) /\ CountsOf(k) /\ Told(k)
    BY <1>1 DEF ResultInv, ProgressInv, OutcomeFaithful, Told
  <2>2. \A v \in Worker : SameHand(v, k) /\ SameCrew(v, k)
    BY <1>2 DEF SameHand, SameCrew
  <2>3. ~Single(k) => Done(k)' = Done(k)
    BY <1>2, <2>2, DoneFrame
  <2>4. ResultsOf(k)'
    BY <1>2, <2>1, <2>2, ResultsFrame
  <2>5. CountsOf(k)'
    BY <1>2, <2>1, <2>2, <2>3, CountsFrame
  <2>6. Told(k)'
    BY <1>2, <2>1, ToldFrame
  <2> QED BY <2>4, <2>5, <2>6
<1> QED BY <1>3, <1>4, <1>5, <1>6, <1>7, <1>8 DEF IInv, ResultInv, ProgressInv, OutcomeFaithful, Told

LEMMA NextKeeps == IInv /\ [Next]_vars => IInv'
<1> SUFFICES ASSUME IInv, [Next]_vars PROVE IInv'
  OBVIOUS
<1>1. /\ TypeOK /\ ProgressInv /\ PoolInv /\ LaneInv /\ HolderInv /\ Apart /\ ResultInv
      /\ OutcomeFaithful
  BY DEF IInv
<1>2. CASE UNCHANGED vars
  BY <1>1, <1>2, StutterKeeps DEF IInv
<1>3. CASE Submit \/ Close
  <2>1. TypeOK' /\ LaneInv'
    BY <1>1, <1>3, SubmitTypes, CloseTypes, SubmitLanes, CloseLanes DEF Submit
  <2>2. PoolInv' /\ HolderInv' /\ Apart'
    BY <1>1, <1>3, PoolKept, IdleHands DEF Next
  <2>3. ResultInv' /\ ProgressInv' /\ OutcomeFaithful'
    BY <1>1, <1>3, IdleResults, IdleProgress, IdleOutcome
  <2> QED BY <2>1, <2>2, <2>3 DEF IInv
<1>4. ASSUME NEW w \in Worker, Poll(w) \/ Yield(w) PROVE IInv'
  <2>1. TypeOK' /\ LaneInv' /\ HolderInv' /\ Apart'
    BY <1>1, <1>4, LoopTypes, LoopLanes, LoopHands
  <2>2. PoolInv'
    BY <1>1, <1>4, PoolKept DEF Next, Step
  <2>3. ResultInv' /\ ProgressInv' /\ OutcomeFaithful'
    BY <1>1, <1>4, IdleResults, IdleProgress, IdleOutcome
  <2> QED BY <2>1, <2>2, <2>3 DEF IInv
<1>5. ASSUME NEW w \in Worker,
             \/ Start(w) \/ Index(w) \/ Count(w) \/ CheckCancelled(w) \/ Act(w)
             \/ Publish(w) \/ Tally(w) \/ Leave(w) \/ Final(w)
      PROVE  IInv'
  <2>1. TypeOK' /\ LaneInv'
    BY <1>1, <1>5, ClosureTypes, ClosureLanes
  <2>2. HolderInv' /\ Apart'
    BY <1>1, <1>5, <2>1, ClosureHands
  <2>3. PoolInv'
    BY <1>1, <1>5, PoolKept DEF Next, Step
  <2>4. ResultInv' /\ ProgressInv' /\ OutcomeFaithful'
    BY <1>1, <1>5, ClosureResults, ClosureProgress, ClosureOutcome
  <2> QED BY <2>1, <2>2, <2>3, <2>4 DEF IInv
<1> QED BY <1>2, <1>3, <1>4, <1>5 DEF Next, Step

(* The inductive invariant holds of every behaviour of the pool. *)
LEMMA ExecutorInvariant == Spec => []IInv
BY InitKeeps, NextKeeps, PTL DEF Spec

(* Every variable keeps its type: no counter of a job falls below zero, and *)
(* a worker has a job exactly while it is inside a closure.                 *)
THEOREM ExecutorTypeCorrect == Spec => []TypeOK
<1>1. IInv => TypeOK
  BY DEF IInv
<1> QED BY <1>1, ExecutorInvariant, PTL

(* Continuations included, no more than queue_capacity closures wait        *)
(* (executor.rs, enqueue and the swap at a yield).                          *)
THEOREM QueueStaysBounded == Spec => []QueueBounded
<1>1. IInv => QueueBounded
  BY DEF IInv, PoolInv
<1> QED BY <1>1, ExecutorInvariant, PTL

(* Once the pool is stopped, every job it accepted has its flag set,        *)
(* whatever was between check_running and enqueue when it stopped.          *)
THEOREM StopCancelsAccepted == Spec => []StoppedCancels
<1>1. IInv => StoppedCancels
  BY DEF IInv, PoolInv
<1> QED BY <1>1, ExecutorInvariant, PTL

(* A job seen to have ended has the result of every file, and ended as they *)
(* say (manager.rs: results before the terminal state).                     *)
THEOREM EndIsFaithful == Spec => []OutcomeFaithful
<1>1. IInv => OutcomeFaithful
  BY DEF IInv
<1> QED BY <1>1, ExecutorInvariant, PTL

(* The counters a poll sees add up, and never run ahead of the results.     *)
THEOREM ProgressIsCoherent == Spec => []ProgressCoherent
<1>1. IInv => ProgressCoherent
  <2> SUFFICES ASSUME TypeOK, ProgressInv, NEW j \in Job
               PROVE  LET p == progress[j] IN
                 /\ ~Single(j) /\ phase[j] = "admitted" => p.queued + p.reading + p.completed = Files[j]
                 /\ p.failed + p.cancelled <= p.completed
                 /\ p.completed <= Cardinality({i \in Slot(j) : results[j][i] # "none"})
    BY DEF IInv, ProgressCoherent
  <2> DEFINE R == {i \in Slot(j) : results[j][i] # "none"}
  <2>1. CountsOf(j)
    BY DEF ProgressInv
  <2>2. IsFiniteSet(R) /\ Cardinality(R) \in Nat
    BY DoneFinite
  <2>3. Done(j) \subseteq R
    BY DEF Done
  <2>4. Cardinality(Done(j)) <= Cardinality(R)
    <3> HIDE DEF R
    <3> QED BY <2>2, <2>3, FS_Subset
  <2> HIDE DEF R
  <2>5. progress[j].completed <= Cardinality(R)
    BY <2>1, <2>2, <2>4 DEF CountsOf
  <2>6. progress[j].failed + progress[j].cancelled <= progress[j].completed
    BY <2>1 DEF CountsOf
  <2>7. ~Single(j) /\ phase[j] = "admitted" =>
          progress[j].queued + progress[j].reading + progress[j].completed = Files[j]
    BY <2>1 DEF CountsOf
  <2> QED BY <2>5, <2>6, <2>7 DEF R
<1> QED BY <1>1, ExecutorInvariant, PTL

(* When shutdown_and_wait returns, nothing that was accepted is left behind *)
(* unfinished.                                                              *)
THEOREM ShutdownLeavesNothing == Spec => []ShutdownDrains
<1>1. IInv => ShutdownDrains
  <2> SUFFICES ASSUME TypeOK, PoolInv, LaneInv, joiner = "returned"
               PROVE  queue = <<>> /\ \A j \in Job : phase[j] = "admitted" => Ended(j)
    BY DEF IInv, ShutdownDrains
  <2>1. \A w \in Worker : at[w] = "exited"
    BY DEF PoolInv
  <2>2. queue = <<>>
    BY <2>1, ExecutorAssumption DEF PoolInv
  <2>3. ASSUME NEW j \in Job, phase[j] = "admitted" PROVE Ended(j)
    <3>1. \A w \in Worker : unit[w] \notin Job
      BY <2>1 DEF TypeOK, Held
    <3>2. Team(j) = {} /\ Closers(j) = {}
      BY <3>1 DEF Team, Closers
    <3>3. Places(queue, j) = {}
      BY <2>2 DEF Places
    <3>4. Quiet(j)
      BY <3>2, <3>3, AliveType DEF Quiet
    <3> QED BY <2>3, <3>4 DEF LaneInv, Lane
  <2> QED BY <2>2, <2>3
<1> QED BY <1>1, ExecutorInvariant, PTL

(* A job that has ended never runs again: its state, counters and results   *)
(* stay as they were.                                                       *)
THEOREM EndIsForGood == Spec => EndedForGood
<1>1. IInv /\ [Next]_vars => [\A j \in Job : Ended(j) => /\ progress'[j] = progress[j]
                                                        /\ results'[j] = results[j]]_vars
  <2> SUFFICES ASSUME TypeOK, LaneInv, Next, NEW k \in Job, Ended(k)
               PROVE  progress'[k] = progress[k] /\ results'[k] = results[k]
    BY DEF IInv
  <2>p. progress \in [Job -> Counts] /\ DOMAIN results = Job
    BY DEF TypeOK, Counts
  <2>1. CASE progress' = progress /\ results' = results
    BY <2>1
  <2>2. ASSUME NEW j \in Job, Check(j)
        PROVE  progress'[k] = progress[k] /\ results'[k] = results[k]
    <3>1. k # j
      BY <2>2 DEF Check, LaneInv, Lane
    <3>2. results' = results
      BY <2>2 DEF Check
    <3>3. progress'[k] = progress[k]
      BY <2>p, <2>2, <3>1 DEF Check
    <3> QED BY <3>2, <3>3
  <2>3. ASSUME NEW w \in Worker,
               Start(w) \/ Count(w) \/ Publish(w) \/ Tally(w) \/ Final(w)
        PROVE  progress'[k] = progress[k] /\ results'[k] = results[k]
    <3>1. Held(w)
      BY <2>3 DEF Held, Start, Count, Publish, Tally, Final
    <3>2. k # unit[w]
      BY <3>1, HolderBusy
    <3>3. results'[k] = results[k]
      BY <2>p, <2>3, <3>2 DEF Start, Count, Publish, Tally, Final
    <3>4. progress'[k] = progress[k]
      BY <2>p, <2>3, <3>2 DEF Start, Count, Publish, Tally, TallyBatch, Final
    <3> QED BY <3>3, <3>4
  <2>4. CASE Submit \/ Close
    BY <2>1, <2>2, <2>4 DEF Submit, Enqueue, Cancel, Close, Shutdown, ShutdownAndWait,
                            JoinReturns, Stop, jobs
  <2>5. ASSUME NEW w \in Worker, Poll(w) \/ Yield(w) \/ Index(w) \/ CheckCancelled(w)
                                 \/ Act(w) \/ Leave(w)
        PROVE  progress'[k] = progress[k] /\ results'[k] = results[k]
    BY <2>1, <2>5 DEF Poll, Yield, Index, CheckCancelled, Act, Leave, jobs
  <2> QED BY <2>3, <2>4, <2>5 DEF Next, Step
<1> QED BY <1>1, ExecutorInvariant, PTL DEF Spec, EndedForGood

-----------------------------------------------------------------------------
(***************************************************************************)
(* Turns.  A single closure at place i of the queue was passed at most     *)
(* Capacity - i times: every closure that begins moves it one place ahead. *)
(***************************************************************************)
PlaceInv == \A i \in 1..Len(queue) : Single(queue[i]) => passed[queue[i]] + i <= Capacity
FreshInv == \A j \in Job : ~Single(j) \/ phase[j] # "admitted" => passed[j] = 0
TurnInv == PlaceInv /\ FreshInv

\* Steps that leave the queue alone.
LEMMA TurnFrame ==
  ASSUME TurnInv, UNCHANGED <<queue, passed>>,
         \A j \in Job : phase'[j] # "admitted" => phase[j] # "admitted"
  PROVE  TurnInv'
BY DEF TurnInv, PlaceInv, FreshInv

\* A closure that joins the queue has not been passed, and there is a place for it.
LEMMA EnqueueTurns ==
  ASSUME TypeOK, TurnInv, NEW j \in Job, Enqueue(j)
  PROVE  TurnInv'
<1>0. /\ queue \in Seq(Job) /\ Len(queue) \in Nat /\ Capacity \in Nat
      /\ phase \in [Job -> {"new", "checked", "admitted", "refused"}]
      /\ phase[j] = "checked" /\ passed' = passed /\ passed \in [Job -> Nat]
  BY ExecutorAssumption, LenProperties DEF TypeOK, Enqueue
<1>1. \A k \in Job : phase'[k] # "admitted" => phase[k] # "admitted"
  BY <1>0 DEF Enqueue, Append_
<1>2. FreshInv'
  BY <1>0, <1>1 DEF TurnInv, FreshInv
<1>3. CASE queue' = queue
  BY <1>0, <1>1, <1>3, TurnFrame
<1>4. CASE Fits(j) /\ Append_(j)
  <2> DEFINE n == Lanes(j)
             copies == [i \in 1..n |-> j]
  <2>1. n \in Nat /\ n <= Capacity - Len(queue)
    BY <1>4, LanesType DEF Fits
  <2> HIDE DEF n
  <2>2. copies \in Seq(Job) /\ Len(copies) = n /\ \A i \in 1..n : copies[i] = j
    <3>1. copies \in [1..n -> Job]
      OBVIOUS
    <3> QED BY <2>1, <3>1
  <2>3. queue' = queue \o copies
    BY <1>4 DEF Append_, n
  <2> HIDE DEF copies
  <2>4. /\ Len(queue') = Len(queue) + n
        /\ \A i \in 1..Len(queue) + n :
             queue'[i] = IF i <= Len(queue) THEN queue[i] ELSE copies[i - Len(queue)]
    <3>1. /\ Len(queue \o copies) = Len(queue) + Len(copies)
          /\ \A i \in 1..Len(queue) + Len(copies) :
               (queue \o copies)[i] = IF i <= Len(queue) THEN queue[i] ELSE copies[i - Len(queue)]
      BY <1>0, <2>2, ConcatProperties
    <3> QED BY <2>2, <2>3, <3>1
  <2>5. ASSUME NEW i \in 1..Len(queue'), Single(queue'[i])
        PROVE  passed'[queue'[i]] + i <= Capacity
    <3>1. CASE i <= Len(queue)
      <4>1. i \in 1..Len(queue) /\ queue'[i] = queue[i]
        BY <1>0, <2>1, <2>4, <3>1
      <4> QED BY <1>0, <2>5, <4>1 DEF TurnInv, PlaceInv
    <3>2. CASE i > Len(queue)
      <4>1. i - Len(queue) \in 1..n /\ i \in Nat /\ i <= Capacity
        BY <1>0, <2>1, <2>4, <3>2
      <4>2. queue'[i] = j
        BY <1>0, <2>1, <2>2, <2>4, <3>2, <4>1
      <4>3. passed'[j] = 0
        BY <1>0 DEF TurnInv, FreshInv
      <4> QED BY <4>1, <4>2, <4>3
    <3> QED BY <1>0, <2>1, <2>4, <3>1, <3>2
  <2> QED BY <1>2, <2>5 DEF TurnInv, PlaceInv, Single
<1> QED BY <1>3, <1>4 DEF Enqueue

\* The queue moves up by one, and what is still in it was passed once more.
LEMMA TurnTaken ==
  ASSUME TypeOK, TurnInv, queue # <<>>, Begins(Tail(queue)),
         NEW i \in 1..Len(Tail(queue)), Single(Tail(queue)[i])
  PROVE  passed'[Tail(queue)[i]] + i <= Capacity
<1>1. /\ Tail(queue) \in Seq(Job) /\ Len(Tail(queue)) = Len(queue) - 1 /\ Len(queue) \in Nat \ {0}
      /\ \A k \in 1..Len(Tail(queue)) : Tail(queue)[k] = queue[k + 1]
  BY HeadTailProperties, EmptySeq DEF TypeOK
<1>2. i \in Nat /\ i + 1 \in 1..Len(queue) /\ Tail(queue)[i] = queue[i + 1]
  BY <1>1
<1>3. Tail(queue)[i] \in Job /\ Tail(queue)[i] \in Waiting(Tail(queue))
  BY <1>1, ElementOfSeq, LenProperties DEF Waiting
<1>4. passed'[Tail(queue)[i]] = passed[Tail(queue)[i]] + 1 /\ passed[Tail(queue)[i]] \in Nat
  BY <1>3 DEF Begins, TypeOK
<1>5. passed[Tail(queue)[i]] + (i + 1) <= Capacity
  BY <1>2 DEF TurnInv, PlaceInv
<1>6. PICK a \in Nat : a = passed[Tail(queue)[i]]
  BY <1>4
<1>7. a + (i + 1) <= Capacity /\ passed'[Tail(queue)[i]] = a + 1 /\ Capacity \in Nat
  BY <1>4, <1>5, <1>6, ExecutorAssumption
<1>8. (a + 1) + i <= Capacity
  BY <1>2, <1>7
<1> QED BY <1>7, <1>8

\* A closure that waits was admitted, so nothing else is counted as passed.
LEMMA FreshTurns ==
  ASSUME TypeOK, LaneInv, TurnInv, queue # <<>>, Begins(Tail(queue)), phase' = phase
  PROVE  FreshInv'
<1> SUFFICES ASSUME NEW j \in Job, ~Single(j) \/ phase[j] # "admitted" PROVE passed'[j] = 0
  BY DEF FreshInv, Single
<1>1. passed[j] = 0
  BY DEF TurnInv, FreshInv
<1>2. ASSUME Single(j), j \in Waiting(Tail(queue)) PROVE FALSE
  <2>1. /\ Tail(queue) \in Seq(Job) /\ Len(Tail(queue)) = Len(queue) - 1 /\ Len(queue) \in Nat
        /\ \A k \in 1..Len(Tail(queue)) : Tail(queue)[k] = queue[k + 1]
    BY HeadTailProperties, EmptySeq DEF TypeOK
  <2>2. PICK i \in 1..Len(Tail(queue)) : Tail(queue)[i] = j
    BY <1>2, <2>1, LenProperties DEF Waiting
  <2>3. i + 1 \in 1..Len(queue) /\ queue[i + 1] = j
    BY <2>1, <2>2
  <2>4. phase[j] = "admitted"
    BY <2>3, WaiterBusy
  <2> QED BY <1>2, <2>4
<1> QED BY <1>1, <1>2 DEF Begins

\* The lane a worker gives up goes to the end of the queue; it is a batch's.
LEMMA LoopTurns ==
  ASSUME TypeOK, LaneInv, HolderInv, TurnInv, NEW w \in Worker, Poll(w) \/ Yield(w)
  PROVE  TurnInv'
<1>1. CASE queue = <<>>
  <2>1. queue' = queue /\ passed' = passed /\ phase' = phase
    BY <1>1 DEF Poll, Yield, jobs
  <2> QED BY <2>1, TurnFrame
<1>2. CASE queue # <<>>
  <2>1. Begins(Tail(queue)) /\ phase' = phase
    BY <1>2 DEF Poll, Yield, jobs
  <2>2. FreshInv'
    BY <1>2, <2>1, FreshTurns
  <2>3. \A i \in 1..Len(Tail(queue)) : Single(Tail(queue)[i]) => passed'[Tail(queue)[i]] + i <= Capacity
    BY <1>2, <2>1, TurnTaken
  <2>4. CASE Poll(w)
    <3>1. queue' = Tail(queue)
      BY <1>2, <2>4 DEF Poll
    <3> QED BY <2>2, <2>3, <3>1 DEF TurnInv, PlaceInv, Single
  <2>5. CASE Yield(w)
    <3>1. queue' = Append(Tail(queue), unit[w]) /\ Held(w)
      BY <1>2, <2>5 DEF Yield, Held
    <3>2. unit[w] \in Job /\ ~Single(unit[w])
      BY <2>5, <3>1 DEF TypeOK, HolderInv, Owns, Holding, Yield
    <3>3. Tail(queue) \in Seq(Job) /\ Len(Tail(queue)) \in Nat
      BY <1>2, HeadTailProperties, LenProperties DEF TypeOK
    <3>4. /\ Len(queue') = Len(Tail(queue)) + 1
          /\ \A i \in 1..Len(Tail(queue)) : queue'[i] = Tail(queue)[i]
          /\ queue'[Len(Tail(queue)) + 1] = unit[w]
      BY <3>1, <3>2, <3>3, AppendProperties
    <3>5. ASSUME NEW i \in 1..Len(queue'), Single(queue'[i])
          PROVE  passed'[queue'[i]] + i <= Capacity
      <4>1. i # Len(Tail(queue)) + 1
        BY <3>2, <3>4, <3>5
      <4>2. i \in 1..Len(Tail(queue)) /\ queue'[i] = Tail(queue)[i]
        BY <3>3, <3>4, <4>1
      <4> QED BY <2>3, <3>5, <4>2
    <3> QED BY <2>2, <3>5 DEF TurnInv, PlaceInv, Single
  <2> QED BY <2>4, <2>5
<1> QED BY <1>1, <1>2

LEMMA NextTurns == IInv /\ TurnInv /\ [Next]_vars => TurnInv'
<1> SUFFICES ASSUME IInv, TurnInv, [Next]_vars PROVE TurnInv'
  OBVIOUS
<1>0. TypeOK /\ LaneInv /\ HolderInv
  BY DEF IInv
<1>1. CASE UNCHANGED vars
  BY <1>1, TurnFrame DEF vars
<1>2. ASSUME NEW j \in Job, Check(j) \/ Cancel(j) PROVE TurnInv'
  <2>1. phase \in [Job -> {"new", "checked", "admitted", "refused"}]
    BY <1>0 DEF TypeOK
  <2>2. UNCHANGED <<queue, passed>> /\ \A k \in Job : phase'[k] # "admitted" => phase[k] # "admitted"
    BY <1>2, <2>1 DEF Check, Cancel, pool
  <2> QED BY <2>2, TurnFrame
<1>3. CASE Close
  BY <1>3, TurnFrame DEF Close, Shutdown, ShutdownAndWait, JoinReturns, Stop, jobs
<1>4. ASSUME NEW w \in Worker, Step(w), ~(Poll(w) \/ Yield(w)) PROVE TurnInv'
  <2>1. UNCHANGED <<queue, passed, phase>>
    BY <1>4 DEF Step, Start, Index, Count, CheckCancelled, Act, Publish, Tally, Leave, Final,
                pool, jobs
  <2> QED BY <2>1, TurnFrame
<1> QED BY <1>0, <1>1, <1>2, <1>3, <1>4, EnqueueTurns, LoopTurns DEF Next, Submit

(* A batch cannot starve a single closure (worker_loop, executor.rs: a lane  *)
(* that yields goes to the back of the queue): fewer than queue_capacity     *)
(* closures begin while it waits, however many files the batches have.       *)
THEOREM TurnsAreFair == Spec => []FairTurns
<1>1. Init => TurnInv
  <2> SUFFICES ASSUME Init PROVE TurnInv
    OBVIOUS
  <2>1. Len(queue) = 0 /\ \A j \in Job : passed[j] = 0
    BY DEF Init
  <2>2. 1..Len(queue) = {}
    BY <2>1
  <2> QED BY <2>1, <2>2 DEF TurnInv, PlaceInv, FreshInv
<1>2. IInv /\ TurnInv => FairTurns
  <2> SUFFICES ASSUME TypeOK, TurnInv, NEW j \in Waiting(queue) PROVE passed[j] < Capacity
    BY DEF IInv, FairTurns
  <2>0. DOMAIN queue = 1..Len(queue)
    BY LenProperties DEF TypeOK
  <2>1. PICK i \in 1..Len(queue) : queue[i] = j
    BY <2>0 DEF Waiting
  <2>2. j \in Job /\ i \in Nat /\ i >= 1 /\ Capacity \in Nat \ {0}
    <3>1. queue \in Seq(Job) /\ Len(queue) \in Nat
      BY LenProperties DEF TypeOK
    <3>2. queue[i] \in Job
      BY <3>1, ElementOfSeq
    <3>3. i \in Nat /\ i >= 1
      BY <3>1
    <3>4. Capacity \in Nat \ {0}
      BY ExecutorAssumption
    <3> QED BY <2>1, <3>2, <3>3, <3>4
  <2>3. passed[j] \in Nat
    BY <2>2 DEF TypeOK
  <2>4. CASE Single(j)
    BY <2>1, <2>2, <2>3, <2>4 DEF TurnInv, PlaceInv
  <2>5. CASE ~Single(j)
    BY <2>2, <2>5 DEF TurnInv, FreshInv
  <2> QED BY <2>4, <2>5
<1> QED BY <1>1, <1>2, NextTurns, ExecutorInvariant, PTL DEF Spec
-----------------------------------------------------------------------------
(***************************************************************************)
(* No wakeup is lost: what AdmittedEnds and DrainReturns need besides      *)
(* fairness.                                                               *)
(***************************************************************************)
Awake(w) == at[w] \notin {"wait", "exited"}

\* A worker sleeps on the condition variable only while there is nothing to do
\* and nobody has stopped the pool.
SleepInv == \A w \in Worker : at[w] = "wait" => queue = <<>> /\ ~stopped

\* A job that was admitted and has not ended is in the hands of a worker that
\* runs, or in the queue while every worker of the pool is on its way to it; and
\* nobody sleeps through a shutdown.
NoWakeupLost ==
  /\ \A j \in Job : phase[j] = "admitted" /\ ~Ended(j) =>
       \/ \E w \in Worker : unit[w] = j /\ Awake(w)
       \/ j \in Waiting(queue) /\ \A w \in Worker : Awake(w)
  /\ joiner # "no" => \A w \in Worker : at[w] # "wait"

LEMMA SleepKept == IInv /\ SleepInv /\ [Next]_vars => SleepInv'
<1> SUFFICES ASSUME TypeOK, PoolInv, SleepInv, [Next]_vars PROVE SleepInv'
  BY DEF IInv
<1>0. at \in [Worker -> At]
  BY DEF TypeOK
<1>1. CASE UNCHANGED vars
  BY <1>1 DEF vars, SleepInv
<1>2. ASSUME NEW j \in Job, Check(j) \/ Cancel(j) PROVE SleepInv'
  BY <1>2 DEF Check, Cancel, pool, worker, SleepInv
<1>3. ASSUME NEW j \in Job, Enqueue(j) PROVE SleepInv'
  BY <1>0, <1>3 DEF Enqueue, NotifyAll, SleepInv
<1>4. CASE Stop
  <2>1. \A w \in Worker : at'[w] # "wait"
    BY <1>0, <1>4 DEF Stop, NotifyAll
  <2> QED BY <2>1 DEF SleepInv
<1>5. CASE JoinReturns
  BY <1>5 DEF JoinReturns, worker, jobs, SleepInv
<1>6. ASSUME NEW w \in Worker, Poll(w) \/ Yield(w) PROVE SleepInv'
  <2>1. stopped' = stopped /\ \A v \in Worker : v # w => at'[v] = at[v]
    BY <1>0, <1>6 DEF Poll, Yield, Goto
  <2>2. CASE queue # <<>>
    <3>1. at'[w] = "start" /\ \A v \in Worker : at[v] # "wait"
      BY <1>0, <1>6, <2>2 DEF Poll, Yield, Goto, SleepInv
    <3> QED BY <2>1, <3>1 DEF SleepInv
  <2>3. CASE queue = <<>>
    <3>1. queue' = queue /\ (at'[w] = "wait" => ~stopped)
      BY <1>0, <1>6, <2>3 DEF Poll, Yield, Goto
    <3> QED BY <2>1, <2>3, <3>1 DEF SleepInv
  <2> QED BY <2>2, <2>3
<1>7. ASSUME NEW w \in Worker,
             \/ Start(w) \/ Index(w) \/ Count(w) \/ CheckCancelled(w) \/ Act(w)
             \/ Publish(w) \/ Tally(w) \/ Leave(w) \/ Final(w)
      PROVE  SleepInv'
  <2>1. queue' = queue /\ stopped' = stopped
    BY <1>7 DEF Start, Index, Count, CheckCancelled, Act, Publish, Tally, Leave, Final, pool
  <2>2. \E s \in At \ {"wait"} : at' = [at EXCEPT ![w] = s]
    BY <1>7 DEF At, Start, Index, Count, CheckCancelled, Act, Publish, Tally, Leave, Final, Goto
  <2> QED BY <1>0, <2>1, <2>2 DEF SleepInv
<1> QED BY <1>1, <1>2, <1>3, <1>4, <1>5, <1>6, <1>7
        DEF Next, Submit, Close, Shutdown, ShutdownAndWait, Step

(* What is alive of a job is in the queue or in the hands of a worker.      *)
LEMMA AliveSomewhere ==
  ASSUME TypeOK, NEW j \in Job, ~Quiet(j), j \notin Waiting(queue)
  PROVE  \E w \in Worker : unit[w] = j
<1> SUFFICES ASSUME \A w \in Worker : unit[w] # j PROVE FALSE
  OBVIOUS
<1>1. Team(j) = {} /\ Closers(j) = {}
  BY DEF Team, Closers
<1>2. Places(queue, j) = {}
  <2>1. DOMAIN queue = 1..Len(queue)
    BY LenProperties DEF TypeOK
  <2> QED BY <2>1 DEF Places, Waiting
<1> QED BY <1>1, <1>2, AliveType DEF Quiet

(* No wakeup is lost (executor.rs: notify_all under the mutex of the queue, *)
(* the wait re-tests the queue and stopped): accepted work that is not      *)
(* finished always has a worker that runs.                                  *)
THEOREM NoWorkIsSleptOn == Spec => []NoWakeupLost
<1>1. Init => SleepInv
  BY DEF Init, SleepInv
<1>2. IInv /\ SleepInv => NoWakeupLost
  <2> SUFFICES ASSUME TypeOK, PoolInv, LaneInv, SleepInv PROVE NoWakeupLost
    BY DEF IInv
  <2>1. ASSUME NEW j \in Job, phase[j] = "admitted", ~Ended(j)
        PROVE  \/ \E w \in Worker : unit[w] = j /\ Awake(w)
               \/ j \in Waiting(queue) /\ \A w \in Worker : Awake(w)
    <3>1. ~Quiet(j)
      BY <2>1 DEF LaneInv, Lane
    <3>2. CASE j \in Waiting(queue)
      <4>1. queue # <<>>
        BY <3>2 DEF Waiting
      <4> QED BY <3>2, <4>1 DEF SleepInv, PoolInv, Awake
    <3>3. CASE j \notin Waiting(queue)
      <4>1. PICK w \in Worker : unit[w] = j
        BY <3>1, <3>3, AliveSomewhere
      <4>2. Held(w)
        BY <4>1 DEF TypeOK
      <4> QED BY <4>1, <4>2 DEF Held, Awake
    <3> QED BY <3>2, <3>3
  <2>2. joiner # "no" => \A w \in Worker : at[w] # "wait"
    BY DEF PoolInv, SleepInv
  <2> QED BY <2>1, <2>2 DEF NoWakeupLost
<1> QED BY <1>1, <1>2, SleepKept, ExecutorInvariant, PTL DEF Spec
=============================================================================
